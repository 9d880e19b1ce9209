----------------------------- MODULE ControlProofs ----------------------------
(***************************************************************************)
(* What is proved of the components whose users are people and commands:   *)
(* the pairing of two machines (Pairing), the dashboard's access control   *)
(* (DashboardAccess) and the runtime slot (RuntimeSlot).  They share       *)
(* nothing.                                                                *)
(*                                                                         *)
(* Of a pairing, the invariant follows the answer of a user to wherever it *)
(* counts.  Of a dashboard link, it knows where the link is (open, in one  *)
(* request, or behind one session) and which run of the Hub minted it.  Of *)
(* the slot, that who is past the lock has made it, and that what a caller *)
(* read under it is still there.                                           *)
(***************************************************************************)
EXTENDS Pairing, DashboardAccess, RuntimeSlot, FiniteSetTheorems, TLAPS

-----------------------------------------------------------------------------
(* The pairing of two machines.                                            *)

\* What the two sides of a pairing send each other.
Messages == {"hello", "yes", "no"}

\* The variables of a pairing hold what their declarations say.
PairTypes == PairingTypeOK /\ wire \in [Sides -> Seq(Messages)]

\* The user of this side has not been asked yet.
Unasked(s) == side[s] \in {"idle", "hello", "ask"}

\* This side's part is agreed to, and the dialog is gone for good.
Said(s) == Consents(s) /\ dialog[s] = {} /\ ~Unasked(s) /\ side[s] # "asking"

\* A dialog and the answer told to its user agree; before it there is none.
DialogsAgree ==
    \A s \in Sides :
        /\ Unasked(s) => dialog[s] = {} /\ answered[s] = {}
        /\ side[s] = "asking" => dialog[s] # {} /\ ~auto[s[2]]
        /\ dialog[s] = {"open"} => answered[s] = {}
        /\ dialog[s] = {"yes"} => answered[s] = {TRUE}
        /\ dialog[s] = {"no"} => answered[s] = {FALSE}

\* A yes in a machine, on its way or in a store is the user's.
ConsentInv ==
    /\ PairTypes
    /\ DialogsAgree
    /\ \A s \in Sides : side[s] \in {"say_yes", "sent_yes", "saved"} => Said(s)
    /\ \A s \in Sides : side[s] \in {"say_no", "sent_no"} => ~Consents(s) /\ dialog[s] = {}
    /\ \A s \in Sides : \A i \in DOMAIN wire[s] : wire[s][i] = "yes" => Said(Far(s))
    /\ \A m \in Machines : trusts[m] \/ relist[m] = "held" =>
          \E a \in Machines : \A n \in Machines : Said(<<a, n>>)

-----------------------------------------------------------------------------
\* There are two machines, and each is the other's other.
LEMMA TwoMachines ==
    /\ \A m \in Machines : /\ Other(m) \in Machines /\ Other(m) # m /\ Other(Other(m)) = m
                           /\ Machines = {m, Other(m)}
    /\ \A s \in Sides : /\ s[1] \in Machines /\ s[2] \in Machines /\ s = <<s[1], s[2]>>
                        /\ Far(s) \in Sides /\ Far(Far(s)) = s /\ Far(s) # s
                        /\ Far(s) = <<s[1], Other(s[2])>>
<1>1. PICK a \in Machines, b \in Machines : a # b /\ Machines = {a, b}
  BY PairingConstants
<1>2. \A m \in Machines : Other(m) \in Machines /\ Other(m) # m
  BY <1>1 DEF Other
<1>3. \A m \in Machines : Other(Other(m)) = m /\ Machines = {m, Other(m)}
  BY <1>1, <1>2
<1>4. \A s \in Sides : s[1] \in Machines /\ s[2] \in Machines /\ s = <<s[1], s[2]>>
  BY DEF Sides
<1>5. \A s \in Sides : Far(s) = <<s[1], Other(s[2])>> /\ Far(s) \in Sides /\ Far(s) # s
  BY <1>2, <1>4 DEF Far, Sides
<1>6. \A s \in Sides : Far(Far(s)) = s
  BY <1>2, <1>3, <1>4, <1>5 DEF Far
<1> QED BY <1>2, <1>3, <1>4, <1>5, <1>6

\* What a step of one side must do to keep the invariant: it puts no yes of
\* its own on the wire without consent, loses no consent, and saves on two.
LEMMA ConsentKept ==
    ASSUME ConsentInv, PairTypes', DialogsAgree',
           \A s \in Sides : Said(s) => Said(s)',
           \A s \in Sides : side'[s] \in {"say_yes", "sent_yes", "saved"} => Said(s)',
           \A s \in Sides : side'[s] \in {"say_no", "sent_no"} => ~Consents(s)' /\ dialog'[s] = {},
           \A s \in Sides : \A i \in DOMAIN wire'[s] : wire'[s][i] = "yes" =>
               (\E j \in DOMAIN wire[s] : wire[s][j] = "yes") \/ Said(Far(s))',
           \A m \in Machines : trusts'[m] \/ relist'[m] = "held" =>
               trusts[m] \/ relist[m] = "held" \/ \E a \in Machines : \A n \in Machines : Said(<<a, n>>)'
    PROVE  ConsentInv'
<1>1. \A s \in Sides : \A i \in DOMAIN wire'[s] : wire'[s][i] = "yes" => Said(Far(s))'
  BY TwoMachines DEF ConsentInv
<1>2. \A a, n \in Machines : <<a, n>> \in Sides
  BY DEF Sides
<1>3. \A m \in Machines : trusts'[m] \/ relist'[m] = "held" => \E a \in Machines : \A n \in Machines : Said(<<a, n>>)'
  BY <1>2 DEF ConsentInv
<1>4. \A s \in Sides : Far(s)' = Far(s)
  BY DEF Far
<1> QED BY <1>1, <1>3, <1>4 DEF ConsentInv

\* Taking a message puts none on the wire, and sending puts only its own.
LEMMA TakeFacts ==
    ASSUME wire \in [Sides -> Seq(Messages)], NEW s \in Sides, wire[s] # <<>>, Take(s)
    PROVE  /\ wire' \in [Sides -> Seq(Messages)]
           /\ \A t \in Sides : \A i \in DOMAIN wire'[t] :
                 \E j \in DOMAIN wire[t] : wire[t][j] = wire'[t][i]
<1>1. wire[s] \in Seq(Messages)
  OBVIOUS
<1>2. Tail(wire[s]) \in Seq(Messages)
      /\ \A i \in DOMAIN Tail(wire[s]) : i + 1 \in DOMAIN wire[s] /\ Tail(wire[s])[i] = wire[s][i + 1]
  BY <1>1
<1>3. wire' = [wire EXCEPT ![s] = Tail(wire[s])]
  BY DEF Take
<1>4. \A t \in Sides : wire'[t] = IF t = s THEN Tail(wire[s]) ELSE wire[t]
  BY <1>3
<1> QED BY <1>2, <1>3, <1>4

\* Sending adds the one message to its queue, and no other.
LEMMA SendFacts ==
    ASSUME wire \in [Sides -> Seq(Messages)], NEW s \in Sides, NEW msg \in Messages, Send(s, msg)
    PROVE  /\ wire' \in [Sides -> Seq(Messages)]
           /\ \A t \in Sides : \A i \in DOMAIN wire'[t] :
                 (\E j \in DOMAIN wire[t] : wire[t][j] = wire'[t][i]) \/ (t = Far(s) /\ wire'[t][i] = msg)
<1>1. Far(s) \in Sides /\ wire[Far(s)] \in Seq(Messages)
  BY TwoMachines
<1> DEFINE w == Append(wire[Far(s)], msg)
<1>2. w \in Seq(Messages) /\ \A i \in DOMAIN w :
         w[i] = msg \/ (i \in DOMAIN wire[Far(s)] /\ w[i] = wire[Far(s)][i])
  BY <1>1
<1>3. wire' = [wire EXCEPT ![Far(s)] = w]
  BY DEF Send
<1> HIDE DEF w
<1>4. \A t \in Sides : wire'[t] = IF t = Far(s) THEN w ELSE wire[t]
  BY <1>1, <1>3
<1> QED BY <1>1, <1>2, <1>3, <1>4

\* The two at once, at the two queues of a side.
LEMMA TakeAndSendFacts ==
    ASSUME wire \in [Sides -> Seq(Messages)], NEW s \in Sides, wire[s] # <<>>, TakeAndSend(s, "hello")
    PROVE  /\ wire' \in [Sides -> Seq(Messages)]
           /\ \A t \in Sides : \A i \in DOMAIN wire'[t] : wire'[t][i] # "hello" =>
                 \E j \in DOMAIN wire[t] : wire[t][j] = wire'[t][i]
<1>1. Far(s) \in Sides /\ Far(s) # s /\ wire[Far(s)] \in Seq(Messages) /\ wire[s] \in Seq(Messages)
  BY TwoMachines
<1> DEFINE w == Append(wire[Far(s)], "hello")  v == Tail(wire[s])
<1>2. w \in Seq(Messages) /\ \A i \in DOMAIN w :
         w[i] = "hello" \/ (i \in DOMAIN wire[Far(s)] /\ w[i] = wire[Far(s)][i])
  BY <1>1 DEF Messages
<1>3. v \in Seq(Messages) /\ \A i \in DOMAIN v : i + 1 \in DOMAIN wire[s] /\ v[i] = wire[s][i + 1]
  BY <1>1
<1>4. wire' = [wire EXCEPT ![s] = v, ![Far(s)] = w]
  BY <1>1 DEF TakeAndSend
<1> HIDE DEF w, v
<1>5. \A t \in Sides : wire'[t] = IF t = Far(s) THEN w ELSE IF t = s THEN v ELSE wire[t]
  BY <1>1, <1>4
<1>6. wire' \in [Sides -> Seq(Messages)]
  BY <1>1, <1>2, <1>3, <1>4
<1>7. ASSUME NEW t \in Sides, NEW i \in DOMAIN wire'[t], wire'[t][i] # "hello"
      PROVE  \E j \in DOMAIN wire[t] : wire[t][j] = wire'[t][i]
  <2>1. CASE t = Far(s)
    <3>1. wire'[t] = w
      BY <1>5, <2>1
    <3>2. i \in DOMAIN wire[t] /\ wire[t][i] = wire'[t][i]
      BY <1>2, <1>7, <2>1, <3>1
    <3> QED BY <3>2
  <2>2. CASE t = s
    <3>1. wire'[t] = v
      BY <1>1, <1>5, <2>2
    <3>2. i + 1 \in DOMAIN wire[t] /\ wire[t][i + 1] = wire'[t][i]
      BY <1>3, <1>7, <2>2, <3>1
    <3> QED BY <3>2
  <2>3. CASE t # s /\ t # Far(s)
    BY <1>5, <1>7, <2>3
  <2> QED BY <2>1, <2>2, <2>3
<1> QED BY <1>6, <1>7
-----------------------------------------------------------------------------
\* At the start nobody has said anything.
LEMMA ConsentInitially == PairingInit => ConsentInv
<1> SUFFICES ASSUME PairingInit PROVE ConsentInv
  OBVIOUS
<1>1. PairTypes
  BY DEF PairingInit, PairTypes, PairingTypeOK, SideStates
<1>2. DialogsAgree
  BY DEF PairingInit, DialogsAgree, Unasked
<1>3. \A s \in Sides : side[s] = "idle" /\ wire[s] = <<>>
  BY DEF PairingInit
<1>4. \A m \in Machines : ~trusts[m] /\ relist[m] # "held"
  BY DEF PairingInit
<1>5. \A s \in Sides : \A i \in DOMAIN wire[s] : FALSE
  BY <1>3
<1>6. \A s \in Sides : side[s] \notin {"say_yes", "sent_yes", "saved", "say_no", "sent_no"}
  BY <1>3
<1> QED BY <1>1, <1>2, <1>4, <1>5, <1>6 DEF ConsentInv

\* The hellos move a side that was not asked, and say neither yes nor no.
LEMMA HelloStep ==
    ASSUME ConsentInv, NEW u \in SUBSET Sides,
           side' \in [Sides -> SideStates], \A s \in Sides \ u : side'[s] = side[s],
           \A s \in u : Unasked(s) /\ side'[s] \in {"hello", "ask"},
           wire' \in [Sides -> Seq(Messages)],
           \A t \in Sides : \A i \in DOMAIN wire'[t] : wire'[t][i] = "yes" =>
               \E j \in DOMAIN wire[t] : wire[t][j] = "yes",
           UNCHANGED <<framed, auto, dialog, answered, trusts, relist, notices>>
    PROVE  ConsentInv'
<1>1. PairTypes'
  BY DEF ConsentInv, PairTypes, PairingTypeOK
<1>2. DialogsAgree'
  BY DEF ConsentInv, DialogsAgree, Unasked
<1>3. \A s \in Sides : Said(s) => Said(s)'
  BY DEF Said, Consents, Unasked
<1>4. \A s \in Sides : side'[s] \in {"say_yes", "sent_yes", "saved"} => Said(s)'
  BY <1>3 DEF ConsentInv
<1>5. \A s \in Sides : side'[s] \in {"say_no", "sent_no"} => ~Consents(s)' /\ dialog'[s] = {}
  BY DEF ConsentInv, Consents
<1> QED BY <1>1, <1>2, <1>3, <1>4, <1>5, ConsentKept

\* A side that goes on without touching the wire, the stores or its answer.
LEMMA QuietStep ==
    ASSUME ConsentInv, PairTypes', DialogsAgree',
           NEW s \in Sides,
           \A t \in Sides \ {s} : side'[t] = side[t] /\ dialog'[t] = dialog[t] /\ answered'[t] = answered[t],
           Said(s) => Said(s)',
           side'[s] \in {"say_yes", "sent_yes", "saved"} => Said(s)',
           side'[s] \in {"say_no", "sent_no"} => ~Consents(s)' /\ dialog'[s] = {},
           UNCHANGED <<auto, wire, trusts, relist>>
    PROVE  ConsentInv'
<1>1. \A t \in Sides : Said(t) => Said(t)'
  BY DEF Said, Consents, Unasked
<1>2. \A t \in Sides : side'[t] \in {"say_yes", "sent_yes", "saved"} => Said(t)'
  BY <1>1 DEF ConsentInv
<1>3. \A t \in Sides : side'[t] \in {"say_no", "sent_no"} => ~Consents(t)' /\ dialog'[t] = {}
  BY DEF ConsentInv, Consents
<1> QED BY <1>1, <1>2, <1>3, ConsentKept

\* Every step keeps the invariant.
LEMMA ConsentStep == ConsentInv /\ [PairingNext]_pairVars => ConsentInv'
<1> SUFFICES ASSUME ConsentInv, [PairingNext]_pairVars PROVE ConsentInv'
  OBVIOUS
<1>t. PairTypes /\ wire \in [Sides -> Seq(Messages)] /\ DialogsAgree
  BY DEF ConsentInv, PairTypes
<1>h. ASSUME NEW s \in Sides, Arrives(s, "hello"), Take(s) \/ TakeAndSend(s, "hello"),
             Unasked(s), side' = [side EXCEPT ![s] = "ask"],
             UNCHANGED <<framed, auto, dialog, answered, trusts, relist, notices>>
      PROVE  ConsentInv'
  <2>1. /\ wire' \in [Sides -> Seq(Messages)]
        /\ \A t \in Sides : \A i \in DOMAIN wire'[t] : wire'[t][i] = "yes" =>
              \E j \in DOMAIN wire[t] : wire[t][j] = "yes"
    BY <1>t, <1>h, TakeFacts, TakeAndSendFacts DEF Arrives
  <2>2. side' \in [Sides -> SideStates] /\ (\A t \in Sides \ {s} : side'[t] = side[t]) /\ side'[s] = "ask"
    BY <1>t, <1>h DEF PairTypes, PairingTypeOK, SideStates
  <2>3. {s} \in SUBSET Sides /\ \A t \in {s} : Unasked(t) /\ side'[t] \in {"hello", "ask"}
    BY <1>h, <2>2
  <2> QED BY <1>h, <2>1, <2>2, <2>3, HelloStep
<1>1. ASSUME NEW s \in Sides,
             HandleInboundHello(s) \/ ResponderInBandHello(s) \/ InitiatorHello(s) \/ ResponderHello(s)
      PROVE  ConsentInv'
  <2>1. Unasked(s) /\ side' = [side EXCEPT ![s] = "ask"] /\ Arrives(s, "hello")
    BY <1>1 DEF HandleInboundHello, ResponderInBandHello, InitiatorHello, ResponderHello, Move, Unasked
  <2>2. /\ Take(s) \/ TakeAndSend(s, "hello")
        /\ UNCHANGED <<framed, auto, dialog, answered, trusts, relist, notices>>
    BY <1>1 DEF HandleInboundHello, ResponderInBandHello, InitiatorHello, ResponderHello, KeepTrust
  <2> QED BY <1>h, <2>1, <2>2
<1>2. ASSUME NEW m \in Machines, DialInBandPairing(m) PROVE ConsentInv'
  <2> DEFINE s == <<m, m>>
  <2>1. s \in Sides /\ Far(s) \in Sides /\ Far(s) # s
    BY TwoMachines DEF Sides
  <2>2. /\ Unasked(s) /\ Unasked(Far(s)) /\ "hello" \in Messages
        /\ UNCHANGED <<framed, auto, dialog, answered, trusts, relist, notices>>
    BY <1>2 DEF DialInBandPairing, Unasked, KeepTrust, Messages
  <2>3. CASE framed[m]
    <3>1. side' = [side EXCEPT ![s] = "hello"] /\ Send(s, "hello")
      BY <1>2, <2>3 DEF DialInBandPairing
    <3>2. side' \in [Sides -> SideStates] /\ (\A t \in Sides \ {s} : side'[t] = side[t]) /\ side'[s] = "hello"
      BY <1>t, <2>1, <3>1 DEF PairTypes, PairingTypeOK, SideStates
    <3>3. /\ wire' \in [Sides -> Seq(Messages)]
          /\ \A t \in Sides : \A i \in DOMAIN wire'[t] : wire'[t][i] = "yes" =>
                \E j \in DOMAIN wire[t] : wire[t][j] = "yes"
      BY <1>t, <2>1, <2>2, <3>1, SendFacts
    <3>4. {s} \in SUBSET Sides /\ \A t \in {s} : Unasked(t) /\ side'[t] \in {"hello", "ask"}
      BY <2>1, <2>2, <3>2
    <3> HIDE DEF s
    <3> QED BY <2>2, <3>2, <3>3, <3>4, HelloStep
  <2>4. CASE ~framed[m]
    <3>1. /\ side' = [side EXCEPT ![s] = "hello", ![Far(s)] = "hello"]
          /\ wire' = [wire EXCEPT ![s] = <<"hello">>, ![Far(s)] = <<"hello">>]
      BY <1>2, <2>4 DEF DialInBandPairing
    <3>2. /\ side' \in [Sides -> SideStates] /\ side'[s] = "hello" /\ side'[Far(s)] = "hello"
          /\ \A t \in Sides \ {s, Far(s)} : side'[t] = side[t]
      BY <1>t, <2>1, <3>1 DEF PairTypes, PairingTypeOK, SideStates
    <3>3. <<"hello">> \in Seq(Messages) /\ \A i \in DOMAIN <<"hello">> : <<"hello">>[i] = "hello"
      BY DEF Messages
    <3>4. \A t \in Sides : wire'[t] = IF t \in {s, Far(s)} THEN <<"hello">> ELSE wire[t]
      BY <1>t, <2>1, <3>1
    <3>5. wire' \in [Sides -> Seq(Messages)]
      BY <1>t, <2>1, <3>1, <3>3
    <3>6. \A t \in Sides : \A i \in DOMAIN wire'[t] : wire'[t][i] = "yes" =>
              \E j \in DOMAIN wire[t] : wire[t][j] = "yes"
      BY <3>3, <3>4
    <3> DEFINE u == {s, Far(s)}
    <3>7. u \in SUBSET Sides /\ \A t \in u : Unasked(t) /\ side'[t] \in {"hello", "ask"}
      BY <2>1, <2>2, <3>2
    <3>8. \A t \in Sides \ u : side'[t] = side[t]
      BY <3>2
    <3> HIDE DEF u
    <3> QED BY <2>2, <3>2, <3>5, <3>6, <3>7, <3>8, HelloStep
  <2> QED BY <2>3, <2>4
<1>3. ASSUME NEW s \in Sides, AskUser(s) PROVE ConsentInv'
  <2>1. /\ side[s] = "ask" /\ ~auto[s[2]] /\ UNCHANGED <<framed, auto, wire, answered, trusts, relist, notices>>
        /\ \/ side' = [side EXCEPT ![s] = "say_no"] /\ dialog' = dialog
           \/ side' = [side EXCEPT ![s] = "asking"] /\ dialog' = [dialog EXCEPT ![s] = {"open"}]
    BY <1>3 DEF AskUser, Move, KeepTrust
  <2>2. dialog[s] = {} /\ answered[s] = {} /\ ~Said(s)
    BY <1>t, <2>1 DEF DialogsAgree, Unasked, Said, Consents
  <2>3. PairTypes'
    BY <1>t, <2>1 DEF PairTypes, PairingTypeOK, SideStates
  <2>4. /\ \A t \in Sides \ {s} : side'[t] = side[t] /\ dialog'[t] = dialog[t] /\ answered'[t] = answered[t]
        /\ \/ side'[s] = "say_no" /\ dialog'[s] = {}
           \/ side'[s] = "asking" /\ dialog'[s] = {"open"}
        /\ answered'[s] = {} /\ ~auto'[s[2]] /\ auto' = auto
    BY <1>t, <2>1, <2>2 DEF PairTypes, PairingTypeOK
  <2>5. DialogsAgree'
    BY <1>t, <2>4 DEF DialogsAgree, Unasked
  <2>6. ~Consents(s)'
    <3>1. {} # {TRUE}
      OBVIOUS
    <3> QED BY <2>4, <3>1 DEF Consents
  <2> QED BY <2>1, <2>2, <2>3, <2>4, <2>5, <2>6, QuietStep
<1>4. ASSUME NEW s \in Sides, NEW yes \in BOOLEAN, ResolvePendingPairing(s, yes) PROVE ConsentInv'
  <2>1. /\ dialog[s] = {"open"} /\ UNCHANGED <<framed, auto, side, wire, trusts, relist, notices>>
        /\ dialog' = [dialog EXCEPT ![s] = {IF yes THEN "yes" ELSE "no"}]
        /\ answered' = [answered EXCEPT ![s] = {yes}]
    BY <1>4 DEF ResolvePendingPairing, KeepTrust
  <2>2. /\ ~Said(s) /\ ~Unasked(s)
        /\ side[s] \notin {"say_yes", "sent_yes", "saved", "say_no", "sent_no"}
    BY <1>t, <2>1 DEF DialogsAgree, Said, Consents, ConsentInv
  <2>3. PairTypes'
    BY <1>t, <2>1 DEF PairTypes, PairingTypeOK
  <2>4. /\ \A t \in Sides \ {s} : side'[t] = side[t] /\ dialog'[t] = dialog[t] /\ answered'[t] = answered[t]
        /\ side'[s] = side[s]
        /\ \/ dialog'[s] = {"yes"} /\ answered'[s] = {TRUE}
           \/ dialog'[s] = {"no"} /\ answered'[s] = {FALSE}
    BY <1>t, <2>1 DEF PairTypes, PairingTypeOK
  <2>a. auto' = auto
    BY <2>1
  <2>5. DialogsAgree'
    <3>1. \A t \in Sides : side'[t] = "asking" => ~auto'[t[2]]
      <4>1. \A t \in Sides : side'[t] = "asking" => ~auto[t[2]]
        BY <1>t, <2>1 DEF DialogsAgree
      <4> QED BY <2>a, <4>1
    <3>2. \A t \in Sides : /\ Unasked(t)' => dialog'[t] = {} /\ answered'[t] = {}
                           /\ side'[t] = "asking" => dialog'[t] # {}
      BY <1>t, <2>2, <2>4 DEF DialogsAgree, Unasked
    <3>3. \A t \in Sides : /\ dialog'[t] = {"open"} => answered'[t] = {}
                           /\ dialog'[t] = {"yes"} => answered'[t] = {TRUE}
                           /\ dialog'[t] = {"no"} => answered'[t] = {FALSE}
      BY <1>t, <2>4 DEF DialogsAgree
    <3> QED BY <3>1, <3>2, <3>3 DEF DialogsAgree
  <2> QED BY <2>1, <2>2, <2>3, <2>4, <2>5, QuietStep
<1>d. ASSUME NEW s \in Sides, side[s] = "asking", dialog[s] # {},
             side' = [side EXCEPT ![s] = IF dialog[s] = {"yes"} THEN "say_yes" ELSE "say_no"],
             dialog' = [dialog EXCEPT ![s] = {}],
             UNCHANGED <<framed, auto, wire, answered, trusts, relist, notices>>
      PROVE  ConsentInv'
  <2>1. dialog[s] \in {{"open"}, {"yes"}, {"no"}}
    BY <1>t, <1>d DEF PairTypes, PairingTypeOK
  <2>2. PairTypes'
    BY <1>t, <1>d DEF PairTypes, PairingTypeOK, SideStates
  <2>3. /\ \A t \in Sides \ {s} : side'[t] = side[t] /\ dialog'[t] = dialog[t] /\ answered'[t] = answered[t]
        /\ dialog'[s] = {} /\ answered'[s] = answered[s]
        /\ side'[s] = IF dialog[s] = {"yes"} THEN "say_yes" ELSE "say_no"
    BY <1>t, <1>d DEF PairTypes, PairingTypeOK
  <2>4. \/ side'[s] = "say_yes" /\ answered'[s] = {TRUE}
        \/ side'[s] = "say_no" /\ answered'[s] \in {{}, {FALSE}}
    BY <1>t, <2>1, <2>3 DEF DialogsAgree
  <2>a. auto' = auto /\ ~auto'[s[2]]
    BY <1>t, <1>d DEF DialogsAgree
  <2>5. DialogsAgree'
    BY <1>t, <2>3, <2>4, <2>a DEF DialogsAgree, Unasked
  <2>6. ~Said(s) /\ (side'[s] = "say_yes" => Said(s)')
    BY <1>d, <2>3, <2>4 DEF Said, Consents, Unasked
  <2>7. {} # {TRUE} /\ {FALSE} # {TRUE}
    OBVIOUS
  <2>8. side'[s] \in {"say_no", "sent_no"} => ~Consents(s)'
    BY <2>4, <2>7, <2>a DEF Consents
  <2> QED BY <1>d, <2>2, <2>3, <2>4, <2>5, <2>6, <2>8, QuietStep
<1>5. ASSUME NEW s \in Sides, TerminatePendingPairing(s) PROVE ConsentInv'
  <2>1. side[s] = "asking" /\ dialog[s] # {} /\ dialog' = [dialog EXCEPT ![s] = {}]
        /\ UNCHANGED <<framed, auto, wire, answered, trusts, relist, notices>>
    BY <1>5 DEF TerminatePendingPairing, KeepTrust
  <2>2. (IF dialog[s] = {"open"} THEN {"no"} ELSE dialog[s]) = {"yes"} <=> dialog[s] = {"yes"}
    OBVIOUS
  <2>3. side' = [side EXCEPT ![s] = IF dialog[s] = {"yes"} THEN "say_yes" ELSE "say_no"]
    BY <1>5, <2>2 DEF TerminatePendingPairing
  <2> QED BY <1>d, <2>1, <2>3
<1>6. ASSUME NEW s \in Sides, TakeDecision(s) PROVE ConsentInv'
  BY <1>d, <1>6 DEF TakeDecision, KeepTrust
<1>7. ASSUME NEW s \in Sides, SendDecision(s) PROVE ConsentInv'
  <2>1. PICK msg \in {"yes", "no"} :
            /\ side[s] = (IF msg = "yes" THEN "say_yes" ELSE "say_no") /\ Send(s, msg)
            /\ side' = [side EXCEPT ![s] = IF msg = "yes" THEN "sent_yes" ELSE "sent_no"]
    BY <1>7 DEF SendDecision, Move
  <2>2. UNCHANGED <<framed, auto, dialog, answered, trusts, relist, notices>>
    BY <1>7 DEF SendDecision, KeepTrust
  <2>3. msg \in Messages
    BY DEF Messages
  <2>4. /\ wire' \in [Sides -> Seq(Messages)]
        /\ \A t \in Sides : \A i \in DOMAIN wire'[t] : wire'[t][i] = "yes" =>
              (\E j \in DOMAIN wire[t] : wire[t][j] = "yes") \/ (t = Far(s) /\ msg = "yes")
    BY <1>t, <2>1, <2>3, SendFacts
  <2>5. /\ \A t \in Sides \ {s} : side'[t] = side[t]
        /\ side'[s] = IF msg = "yes" THEN "sent_yes" ELSE "sent_no"
    BY <1>t, <2>1 DEF PairTypes, PairingTypeOK
  <2>6. PairTypes'
    BY <1>t, <2>1, <2>2, <2>4 DEF PairTypes, PairingTypeOK, SideStates
  <2>s. /\ msg = "yes" => side[s] = "say_yes" /\ side'[s] = "sent_yes"
        /\ msg = "no" => side[s] = "say_no" /\ side'[s] = "sent_no"
    BY <2>1, <2>5
  <2>u. \A t \in Sides : Unasked(t) <=> Unasked(t)'
    BY <2>5, <2>s DEF Unasked
  <2>7. DialogsAgree'
    BY <1>t, <2>2, <2>5, <2>s, <2>u DEF DialogsAgree
  <2>8. \A t \in Sides : Said(t) => Said(t)'
    BY <2>2, <2>5, <2>s, <2>u DEF Said, Consents
  <2>9. msg = "yes" => Said(s)'
    BY <2>1, <2>8 DEF ConsentInv
  <2>10. \A t \in Sides : side'[t] \in {"say_yes", "sent_yes", "saved"} => Said(t)'
    BY <2>5, <2>8, <2>9 DEF ConsentInv
  <2>11. \A t \in Sides : side'[t] \in {"say_no", "sent_no"} => ~Consents(t)' /\ dialog'[t] = {}
    <3>1. \A t \in Sides : side'[t] \in {"say_no", "sent_no"} => side[t] \in {"say_no", "sent_no"}
      BY <2>5, <2>s
    <3>2. answered' = answered /\ dialog' = dialog /\ auto' = auto
      BY <2>2
    <3> QED BY <3>1, <3>2 DEF ConsentInv, Consents
  <2>12. Far(Far(s)) = s
    BY TwoMachines
  <2>13. \A t \in Sides : \A i \in DOMAIN wire'[t] : wire'[t][i] = "yes" =>
              (\E j \in DOMAIN wire[t] : wire[t][j] = "yes") \/ Said(Far(t))'
    BY <2>4, <2>9, <2>12
  <2> QED BY <2>2, <2>6, <2>7, <2>8, <2>10, <2>11, <2>13, ConsentKept
<1>8. ASSUME NEW s \in Sides, ReceiveDecision(s) PROVE ConsentInv'
  <2>1. /\ side[s] \in {"sent_yes", "sent_no"} /\ SaveOnBothYes(s) /\ Take(s) /\ wire[s] # <<>>
        /\ UNCHANGED <<framed, auto, dialog, answered, relist, notices>>
    BY <1>8 DEF ReceiveDecision, SaveOnBothYes, Arrives
  <2>2. PICK end \in {"saved", "failed", "refused"} :
            /\ side' = [side EXCEPT ![s] = end]
            /\ end = "saved" => /\ Accepted(s) /\ Arrives(s, "yes")
                                /\ trusts' = [trusts EXCEPT ![s[2]] = TRUE]
            /\ end # "saved" => trusts' = trusts
    BY <2>1 DEF SaveOnBothYes
  <2>3. /\ wire' \in [Sides -> Seq(Messages)]
        /\ \A t \in Sides : \A i \in DOMAIN wire'[t] : wire'[t][i] = "yes" =>
              \E j \in DOMAIN wire[t] : wire[t][j] = "yes"
    BY <1>t, <2>1, TakeFacts
  <2>4. (\A t \in Sides \ {s} : side'[t] = side[t]) /\ side'[s] = end
    BY <1>t, <2>2 DEF PairTypes, PairingTypeOK
  <2>5. PairTypes'
    <3>1. trusts' \in [Machines -> BOOLEAN]
      BY <1>t, <2>2, TwoMachines DEF PairTypes, PairingTypeOK
    <3>2. side' \in [Sides -> SideStates]
      BY <1>t, <2>2 DEF PairTypes, PairingTypeOK, SideStates
    <3> QED BY <1>t, <2>1, <2>3, <3>1, <3>2 DEF PairTypes, PairingTypeOK
  <2>6. DialogsAgree'
    BY <1>t, <2>1, <2>4 DEF DialogsAgree, Unasked
  <2>7. \A t \in Sides : Said(t) => Said(t)'
    BY <2>1, <2>4 DEF Said, Consents, Unasked
  <2>8. end = "saved" => Said(s)' /\ Said(Far(s))'
    <3> SUFFICES ASSUME end = "saved" PROVE Said(s)' /\ Said(Far(s))'
      OBVIOUS
    <3>1. Said(s)
      BY <2>2 DEF Accepted, ConsentInv
    <3>2. 1 \in DOMAIN wire[s] /\ wire[s][1] = "yes"
      BY <1>t, <2>1, <2>2 DEF Arrives
    <3>3. Said(Far(s))
      BY <3>2 DEF ConsentInv
    <3> QED BY <2>7, <3>1, <3>3, TwoMachines
  <2>9. \A t \in Sides : side'[t] \in {"say_yes", "sent_yes", "saved"} => Said(t)'
    BY <2>4, <2>7, <2>8 DEF ConsentInv
  <2>10. \A t \in Sides : side'[t] \in {"say_no", "sent_no"} => ~Consents(t)' /\ dialog'[t] = {}
    BY <2>1, <2>4 DEF ConsentInv, Consents
  <2>11. \A m \in Machines : trusts'[m] \/ relist'[m] = "held" =>
            trusts[m] \/ relist[m] = "held" \/ \E a \in Machines : \A n \in Machines : Said(<<a, n>>)'
    <3>1. CASE end # "saved"
      BY <2>1, <2>2, <3>1
    <3>2. CASE end = "saved"
      <4>1. /\ s[1] \in Machines /\ s[2] \in Machines /\ s = <<s[1], s[2]>>
            /\ Far(s) = <<s[1], Other(s[2])>> /\ Machines = {s[2], Other(s[2])}
        BY TwoMachines
      <4>2. \A n \in Machines : <<s[1], n>> = s \/ <<s[1], n>> = Far(s)
        BY <4>1
      <4>3. \A n \in Machines : Said(<<s[1], n>>)'
        <5> TAKE n \in Machines
        <5>1. CASE <<s[1], n>> = s
          BY <2>8, <3>2, <5>1
        <5>2. CASE <<s[1], n>> = Far(s)
          BY <2>8, <3>2, <5>2 DEF Far
        <5> QED BY <4>2, <5>1, <5>2
      <4> QED BY <4>1, <4>3
    <3> QED BY <3>1, <3>2
  <2> QED BY <2>3, <2>5, <2>6, <2>7, <2>9, <2>10, <2>11, ConsentKept
<1>f. ASSUME NEW u \in SUBSET Sides,
             \A s \in u : ~Unasked(s) \/ (dialog[s] = {} /\ answered[s] = {}),
             side' = [s \in Sides |-> IF s \in u THEN "failed" ELSE side[s]],
             wire' = [s \in Sides |-> IF s \in u THEN wire'[s] ELSE wire[s]],
             \A s \in u : wire'[s] \in {wire[s], <<>>},
             UNCHANGED <<framed, auto, dialog, answered, trusts, relist, notices>>
      PROVE  ConsentInv'
  <2>1. \A s \in Sides : side'[s] = IF s \in u THEN "failed" ELSE side[s]
    BY <1>f
  <2>2. \A s \in Sides : wire'[s] \in {wire[s], <<>>}
    BY <1>f
  <2>3. wire' \in [Sides -> Seq(Messages)]
    <3>1. \A s \in Sides : wire'[s] \in Seq(Messages)
      <4>1. <<>> \in Seq(Messages) /\ \A s \in Sides : wire[s] \in Seq(Messages)
        BY <1>t
      <4> QED BY <2>2, <4>1
    <3> QED BY <1>f, <3>1
  <2>4. PairTypes'
    <3>1. side' \in [Sides -> SideStates]
      BY <1>t, <1>f DEF PairTypes, PairingTypeOK, SideStates
    <3> QED BY <1>t, <1>f, <2>3, <3>1 DEF PairTypes, PairingTypeOK
  <2>5. DialogsAgree'
    BY <1>t, <1>f, <2>1 DEF DialogsAgree, Unasked
  <2>6. \A s \in Sides : Said(s) => Said(s)'
    BY <1>f, <2>1 DEF Said, Consents, Unasked
  <2>7. \A s \in Sides : side'[s] \in {"say_yes", "sent_yes", "saved"} => Said(s)'
    BY <2>1, <2>6 DEF ConsentInv
  <2>8. \A s \in Sides : side'[s] \in {"say_no", "sent_no"} => ~Consents(s)' /\ dialog'[s] = {}
    BY <1>f, <2>1 DEF ConsentInv, Consents
  <2>9. \A s \in Sides : \A i \in DOMAIN wire'[s] : wire'[s][i] = "yes" =>
            \E j \in DOMAIN wire[s] : wire[s][j] = "yes"
    BY <2>2
  <2> QED BY <1>f, <2>4, <2>5, <2>6, <2>7, <2>8, <2>9, ConsentKept
<1>9. ASSUME NEW m \in Machines, BreakConnection(m) PROVE ConsentInv'
  <2>1. PICK broken \in SUBSET Sides :
            /\ wire' = [s \in Sides |-> IF s \in broken THEN <<>> ELSE wire[s]]
            /\ side' = [s \in Sides |-> IF s \in broken THEN "failed" ELSE side[s]]
    BY <1>9 DEF BreakConnection
  <2>2. \A s \in Sides : ~Unasked(s) \/ (dialog[s] = {} /\ answered[s] = {})
    BY <1>t DEF DialogsAgree
  <2>3. /\ wire' = [s \in Sides |-> IF s \in broken THEN wire'[s] ELSE wire[s]]
        /\ \A s \in broken : wire'[s] \in {wire[s], <<>>}
    BY <2>1
  <2>4. UNCHANGED <<framed, auto, dialog, answered, trusts, relist, notices>>
    BY <1>9 DEF BreakConnection, KeepTrust
  <2> QED BY <1>f, <2>1, <2>2, <2>3, <2>4
<1>10. ASSUME NEW s \in Sides, HandshakeFails(s) \/ PeerGone(s) PROVE ConsentInv'
  <2>1. side' = [side EXCEPT ![s] = "failed"] /\ UNCHANGED <<framed, auto, wire, dialog, answered, trusts, relist, notices>>
    BY <1>10 DEF HandshakeFails, PeerGone, KeepTrust
  <2>2. side' = [t \in Sides |-> IF t \in {s} THEN "failed" ELSE side[t]]
    BY <1>t, <2>1 DEF PairTypes, PairingTypeOK
  <2>3. ~Unasked(s) \/ (dialog[s] = {} /\ answered[s] = {})
    BY <1>t DEF DialogsAgree
  <2>4. wire' = [t \in Sides |-> IF t \in {s} THEN wire'[t] ELSE wire[t]] /\ wire'[s] = wire[s]
    BY <1>t, <2>1
  <2> QED BY <1>f, <2>1, <2>2, <2>3, <2>4
<1>11. ASSUME NEW s \in Sides, CloseDialog(s) PROVE ConsentInv'
  <2>1. /\ side[s] # "asking" /\ dialog[s] # {} /\ dialog' = [dialog EXCEPT ![s] = {}]
        /\ UNCHANGED <<framed, auto, side, wire, answered, trusts, relist, notices>>
    BY <1>11 DEF CloseDialog, KeepTrust
  <2>2. PairTypes'
    BY <1>t, <2>1 DEF PairTypes, PairingTypeOK
  <2>3. (\A t \in Sides \ {s} : dialog'[t] = dialog[t]) /\ dialog'[s] = {} /\ ~Unasked(s)
    BY <1>t, <2>1 DEF PairTypes, PairingTypeOK, DialogsAgree
  <2>4. DialogsAgree'
    BY <1>t, <2>1, <2>3 DEF DialogsAgree, Unasked
  <2>5. /\ ~Said(s)
        /\ side'[s] \notin {"say_yes", "sent_yes", "saved", "say_no", "sent_no"}
    BY <2>1 DEF Said, Consents, ConsentInv
  <2> QED BY <2>1, <2>2, <2>3, <2>4, <2>5, QuietStep
<1>12. ASSUME NEW m \in Machines, RemoveAndNotify(m) \/ LoseNotice(m) \/ ApplyPeerUnpaired(m)
       PROVE  ConsentInv'
  <2>1. UNCHANGED <<framed, auto, side, wire, dialog, answered, relist>>
    BY <1>12 DEF RemoveAndNotify, LoseNotice, ApplyPeerUnpaired
  <2>2. trusts' = trusts \/ trusts' = [trusts EXCEPT ![m] = FALSE]
    BY <1>12 DEF RemoveAndNotify, LoseNotice, ApplyPeerUnpaired
  <2>3. notices' \in [Machines -> Nat]
    <3>1. notices \in [Machines -> Nat] /\ Other(m) \in Machines
      BY <1>t, TwoMachines DEF PairTypes, PairingTypeOK
    <3>2. CASE RemoveAndNotify(m)
      BY <3>1, <3>2 DEF RemoveAndNotify
    <3>3. CASE LoseNotice(m) \/ ApplyPeerUnpaired(m)
      <4>1. notices[m] \in Nat \ {0} /\ notices' = [notices EXCEPT ![m] = notices[m] - 1]
        BY <3>1, <3>3 DEF LoseNotice, ApplyPeerUnpaired
      <4>2. notices[m] - 1 \in Nat
        BY <4>1
      <4> QED BY <3>1, <4>1, <4>2
    <3> QED BY <1>12, <3>2, <3>3
  <2>4. PairTypes' /\ DialogsAgree'
    BY <1>t, <2>1, <2>2, <2>3 DEF PairTypes, PairingTypeOK, DialogsAgree, Unasked
  <2>5. \A t \in Sides : (Said(t) <=> Said(t)') /\ (Consents(t) <=> Consents(t)')
    BY <2>1 DEF Said, Consents, Unasked
  <2>6. \A n \in Machines : trusts'[n] => trusts[n]
    BY <1>t, <2>2 DEF PairTypes, PairingTypeOK
  <2> QED BY <2>1, <2>4, <2>5, <2>6, ConsentKept DEF ConsentInv
<1>13. ASSUME NEW s \in Sides, AutoAccept(s) PROVE ConsentInv'
  <2>1. auto[s[2]] /\ side[s] = "ask" /\ side' = [side EXCEPT ![s] = "say_yes"]
        /\ UNCHANGED <<framed, auto, wire, dialog, answered, trusts, relist, notices>>
    BY <1>13 DEF AutoAccept, Move, KeepTrust
  <2>2. dialog[s] = {} /\ ~Said(s)
    BY <1>t, <2>1 DEF DialogsAgree, Unasked, Said
  <2>3. PairTypes'
    BY <1>t, <2>1 DEF PairTypes, PairingTypeOK, SideStates
  <2>4. (\A t \in Sides \ {s} : side'[t] = side[t]) /\ side'[s] = "say_yes"
    BY <1>t, <2>1 DEF PairTypes, PairingTypeOK
  <2>5. DialogsAgree'
    BY <1>t, <2>1, <2>2, <2>4 DEF DialogsAgree, Unasked
  <2>6. Said(s)'
    BY <2>1, <2>2, <2>4 DEF Said, Consents, Unasked
  <2> QED BY <2>1, <2>2, <2>3, <2>4, <2>5, <2>6, QuietStep
<1>14. ASSUME NEW m \in Machines, RelistReads(m) \/ RelistAdds(m) PROVE ConsentInv'
  <2>1. UNCHANGED <<framed, auto, side, wire, dialog, answered, notices>>
    BY <1>14 DEF RelistReads, RelistAdds
  <2>2. /\ trusts \in [Machines -> BOOLEAN]
        /\ relist \in [Machines -> {"no", "held", "done"}]
    BY <1>t DEF PairTypes, PairingTypeOK
  <2>3. /\ trusts' \in [Machines -> BOOLEAN]
        /\ relist' \in [Machines -> {"no", "held", "done"}]
        /\ \A n \in Machines : trusts'[n] \/ relist'[n] = "held" => trusts[n] \/ relist[n] = "held"
    BY <1>14, <2>2 DEF RelistReads, RelistAdds
  <2>4. PairTypes' /\ DialogsAgree'
    BY <1>t, <2>1, <2>3 DEF PairTypes, PairingTypeOK, DialogsAgree, Unasked
  <2>5. \A t \in Sides : (Said(t) <=> Said(t)') /\ (Consents(t) <=> Consents(t)')
    BY <2>1 DEF Said, Consents, Unasked
  <2> QED BY <2>1, <2>3, <2>4, <2>5, ConsentKept DEF ConsentInv
<1>15. CASE UNCHANGED pairVars
  BY <1>15 DEF pairVars, ConsentInv, PairTypes, PairingTypeOK, DialogsAgree, Unasked, Said, Consents, Far
<1> QED BY <1>1, <1>2, <1>3, <1>4, <1>5, <1>6, <1>7, <1>8, <1>9, <1>10, <1>11, <1>12, <1>13, <1>14, <1>15 DEF PairingNext

-----------------------------------------------------------------------------
\* Nobody agreed to this side's part, and nobody will.
Denied(s) == ~Consents(s) /\ dialog[s] = {} /\ ~Unasked(s) /\ side[s] # "asking"

\* A no in a machine or on its way is an answer not given or refused; who
\* refuses has one; who saved trusts until somebody is removed.
OutcomeInv ==
    /\ unpairs \in Nat
    /\ \A m \in Machines : unpairs = 0 => notices[m] = 0
    /\ \A s \in Sides : side[s] = "saved" /\ unpairs = 0 => trusts[s[2]]
    /\ \A s \in Sides : side[s] \in {"say_no", "sent_no"} => Denied(s)
    /\ \A s \in Sides : \A i \in DOMAIN wire[s] : wire[s][i] = "no" => Denied(Far(s))
    /\ \A s \in Sides : side[s] = "refused" => Denied(s) \/ Denied(Far(s))

\* At the start no attempt has an outcome.
LEMMA OutcomeInitially == PairingInit => OutcomeInv
<1> SUFFICES ASSUME PairingInit PROVE OutcomeInv
  OBVIOUS
<1>1. \A s \in Sides : side[s] = "idle" /\ wire[s] = <<>>
  BY DEF PairingInit
<1>2. \A s \in Sides : \A i \in DOMAIN wire[s] : FALSE
  BY <1>1
<1>3. unpairs = 0 /\ \A m \in Machines : notices[m] = 0
  BY DEF PairingInit
<1> QED BY <1>1, <1>2, <1>3 DEF OutcomeInv

\* What a step must do to keep it.
LEMMA OutcomeKept ==
    ASSUME OutcomeInv, unpairs' \in Nat,
           \A m \in Machines : unpairs' = 0 => notices'[m] = 0,
           \A s \in Sides : side'[s] = "saved" /\ unpairs' = 0 => trusts'[s[2]],
           \A s \in Sides : Denied(s) => Denied(s)',
           \A s \in Sides : side'[s] \in {"say_no", "sent_no"} => Denied(s)',
           \A s \in Sides : \A i \in DOMAIN wire'[s] : wire'[s][i] = "no" =>
               (\E j \in DOMAIN wire[s] : wire[s][j] = "no") \/ Denied(Far(s))',
           \A s \in Sides : side'[s] = "refused" =>
               side[s] = "refused" \/ Denied(s)' \/ Denied(Far(s))'
    PROVE  OutcomeInv'
<1>1. \A s \in Sides : Far(s) \in Sides
  BY TwoMachines
<1>2. \A s \in Sides : \A i \in DOMAIN wire'[s] : wire'[s][i] = "no" => Denied(Far(s))'
  BY <1>1 DEF OutcomeInv
<1>3. \A s \in Sides : side'[s] = "refused" => Denied(s)' \/ Denied(Far(s))'
  BY <1>1 DEF OutcomeInv
<1>4. \A s \in Sides : Far(s)' = Far(s)
  BY DEF Far
<1> QED BY <1>2, <1>3, <1>4 DEF OutcomeInv

\* The same for a step that ends no handshake, sends no decision and changes
\* no store.
LEMMA OutcomePlain ==
    ASSUME OutcomeInv,
           \A s \in Sides : Denied(s) => Denied(s)',
           \A s \in Sides : side'[s] \in {"say_no", "sent_no"} => Denied(s)',
           \A s \in Sides : side'[s] \in {"saved", "refused"} => side[s] = side'[s],
           \A s \in Sides : \A i \in DOMAIN wire'[s] : wire'[s][i] = "no" =>
               \E j \in DOMAIN wire[s] : wire[s][j] = "no",
           UNCHANGED <<auto, trusts, notices, unpairs>>
    PROVE  OutcomeInv'
<1>1. \A s \in Sides : side'[s] = "saved" => side[s] = "saved"
  OBVIOUS
<1>2. \A s \in Sides : side'[s] = "refused" => side[s] = "refused"
  OBVIOUS
<1>3. /\ unpairs' \in Nat /\ \A m \in Machines : unpairs' = 0 => notices'[m] = 0
      /\ \A s \in Sides : side'[s] = "saved" /\ unpairs' = 0 => trusts'[s[2]]
  BY <1>1 DEF OutcomeInv
<1> QED BY <1>2, <1>3, OutcomeKept

\* One side goes on, the wire as it is.
LEMMA OutcomeQuiet ==
    ASSUME OutcomeInv, NEW s \in Sides,
           \A t \in Sides \ {s} : side'[t] = side[t] /\ dialog'[t] = dialog[t] /\ answered'[t] = answered[t],
           Denied(s) => Denied(s)',
           side'[s] \in {"say_no", "sent_no"} => Denied(s)',
           side'[s] \in {"saved", "refused"} => side[s] = side'[s],
           UNCHANGED <<auto, wire, trusts, notices, unpairs>>
    PROVE  OutcomeInv'
<1>1. \A t \in Sides : Denied(t) => Denied(t)'
  BY DEF Denied, Consents, Unasked
<1>2. \A t \in Sides : side'[t] \in {"say_no", "sent_no"} => Denied(t)'
  BY <1>1 DEF OutcomeInv
<1>3. \A t \in Sides : side'[t] \in {"saved", "refused"} => side[t] = side'[t]
  OBVIOUS
<1> QED BY <1>1, <1>2, <1>3, OutcomePlain

\* Every step keeps the second invariant.
LEMMA OutcomeStep == ConsentInv /\ OutcomeInv /\ [PairingNext]_pairVars => OutcomeInv'
<1> SUFFICES ASSUME ConsentInv, OutcomeInv, [PairingNext]_pairVars PROVE OutcomeInv'
  OBVIOUS
<1>t. PairTypes /\ wire \in [Sides -> Seq(Messages)] /\ DialogsAgree
  BY DEF ConsentInv, PairTypes
<1>h. ASSUME NEW u \in SUBSET Sides, \A t \in Sides \ u : side'[t] = side[t],
             \A t \in u : Unasked(t) /\ side'[t] \in {"hello", "ask"},
             \A t \in Sides : \A i \in DOMAIN wire'[t] : wire'[t][i] = "no" =>
                 \E j \in DOMAIN wire[t] : wire[t][j] = "no",
             UNCHANGED <<auto, dialog, answered, trusts, notices, unpairs>>
      PROVE  OutcomeInv'
  <2>1. \A t \in Sides : Denied(t) => Denied(t)'
    BY <1>h DEF Denied, Consents, Unasked
  <2>2. \A t \in Sides : side'[t] \in {"say_no", "sent_no"} => Denied(t)'
    BY <1>h, <2>1 DEF OutcomeInv
  <2>3. \A t \in Sides : side'[t] \in {"saved", "refused"} => side[t] = side'[t]
    BY <1>h
  <2> QED BY <1>h, <2>1, <2>2, <2>3, OutcomePlain
<1>1. ASSUME NEW s \in Sides,
             HandleInboundHello(s) \/ ResponderInBandHello(s) \/ InitiatorHello(s) \/ ResponderHello(s)
      PROVE  OutcomeInv'
  <2>1. /\ Unasked(s) /\ side' = [side EXCEPT ![s] = "ask"] /\ wire[s] # <<>>
        /\ Take(s) \/ TakeAndSend(s, "hello")
    BY <1>1 DEF HandleInboundHello, ResponderInBandHello, InitiatorHello, ResponderHello, Move, Unasked, Arrives
  <2>2. UNCHANGED <<auto, dialog, answered, trusts, notices, unpairs>>
    BY <1>1 DEF HandleInboundHello, ResponderInBandHello, InitiatorHello, ResponderHello, KeepTrust
  <2>3. \A t \in Sides : \A i \in DOMAIN wire'[t] : wire'[t][i] = "no" =>
            \E j \in DOMAIN wire[t] : wire[t][j] = "no"
    BY <1>t, <2>1, TakeFacts, TakeAndSendFacts
  <2>4. /\ {s} \in SUBSET Sides /\ \A t \in Sides \ {s} : side'[t] = side[t]
        /\ \A t \in {s} : Unasked(t) /\ side'[t] \in {"hello", "ask"}
    BY <1>t, <2>1 DEF PairTypes, PairingTypeOK
  <2> QED BY <1>h, <2>2, <2>3, <2>4
<1>2. ASSUME NEW m \in Machines, DialInBandPairing(m) PROVE OutcomeInv'
  <2> DEFINE s == <<m, m>>  u == {s, Far(s)}
  <2>1. s \in Sides /\ Far(s) \in Sides /\ Far(s) # s
    BY TwoMachines DEF Sides
  <2>2. /\ side[s] = "idle" /\ side[Far(s)] = "idle" /\ "hello" \in Messages
        /\ UNCHANGED <<auto, dialog, answered, trusts, notices, unpairs>>
    BY <1>2 DEF DialInBandPairing, KeepTrust, Messages
  <2>3. CASE framed[m]
    <3>1. side' = [side EXCEPT ![s] = "hello"] /\ Send(s, "hello")
      BY <1>2, <2>3 DEF DialInBandPairing
    <3>2. /\ {s} \in SUBSET Sides /\ \A t \in Sides \ {s} : side'[t] = side[t]
          /\ \A t \in {s} : Unasked(t) /\ side'[t] \in {"hello", "ask"}
      BY <1>t, <2>1, <2>2, <3>1 DEF PairTypes, PairingTypeOK, Unasked
    <3>3. \A t \in Sides : \A i \in DOMAIN wire'[t] : wire'[t][i] = "no" =>
              \E j \in DOMAIN wire[t] : wire[t][j] = "no"
      <4>1. \A t \in Sides : \A i \in DOMAIN wire'[t] :
                (\E j \in DOMAIN wire[t] : wire[t][j] = wire'[t][i]) \/ wire'[t][i] = "hello"
        BY <1>t, <2>1, <2>2, <3>1, SendFacts
      <4> QED BY <4>1
    <3> HIDE DEF s
    <3> QED BY <1>h, <2>2, <3>2, <3>3
  <2>4. CASE ~framed[m]
    <3>1. /\ side' = [side EXCEPT ![s] = "hello", ![Far(s)] = "hello"]
          /\ wire' = [wire EXCEPT ![s] = <<"hello">>, ![Far(s)] = <<"hello">>]
      BY <1>2, <2>4 DEF DialInBandPairing
    <3>2. /\ u \in SUBSET Sides /\ \A t \in Sides \ u : side'[t] = side[t]
          /\ \A t \in u : Unasked(t) /\ side'[t] \in {"hello", "ask"}
      BY <1>t, <2>1, <2>2, <3>1 DEF PairTypes, PairingTypeOK, Unasked
    <3>3. \A i \in DOMAIN <<"hello">> : <<"hello">>[i] = "hello"
      OBVIOUS
    <3>4. \A t \in Sides : wire'[t] = IF t \in u THEN <<"hello">> ELSE wire[t]
      BY <1>t, <2>1, <3>1
    <3>5. \A t \in Sides : \A i \in DOMAIN wire'[t] : wire'[t][i] = "no" =>
              \E j \in DOMAIN wire[t] : wire[t][j] = "no"
      BY <3>3, <3>4
    <3> HIDE DEF u
    <3> QED BY <1>h, <2>2, <3>2, <3>5
  <2> QED BY <2>3, <2>4
<1>3. ASSUME NEW s \in Sides, AskUser(s) PROVE OutcomeInv'
  <2>1. /\ side[s] = "ask" /\ ~auto[s[2]] /\ UNCHANGED <<auto, wire, answered, trusts, notices, unpairs>>
        /\ \/ side' = [side EXCEPT ![s] = "say_no"] /\ dialog' = dialog
           \/ side' = [side EXCEPT ![s] = "asking"] /\ dialog' = [dialog EXCEPT ![s] = {"open"}]
    BY <1>3 DEF AskUser, Move, KeepTrust
  <2>2. dialog[s] = {} /\ answered[s] = {} /\ ~Denied(s)
    BY <1>t, <2>1 DEF DialogsAgree, Unasked, Denied, Consents
  <2>3. /\ \A t \in Sides \ {s} : side'[t] = side[t] /\ dialog'[t] = dialog[t] /\ answered'[t] = answered[t]
        /\ \/ side'[s] = "say_no" /\ dialog'[s] = {}
           \/ side'[s] = "asking"
        /\ answered'[s] = {}
    BY <1>t, <2>1, <2>2 DEF PairTypes, PairingTypeOK
  <2>4. side'[s] \in {"say_no", "sent_no"} => Denied(s)'
    <3>1. {} # {TRUE}
      OBVIOUS
    <3> QED BY <2>1, <2>3, <3>1 DEF Denied, Consents, Unasked
  <2> QED BY <2>1, <2>2, <2>3, <2>4, OutcomeQuiet
<1>4. ASSUME NEW s \in Sides, NEW yes \in BOOLEAN, ResolvePendingPairing(s, yes) PROVE OutcomeInv'
  <2>1. /\ dialog[s] = {"open"} /\ UNCHANGED <<auto, side, wire, trusts, notices, unpairs>>
        /\ \A t \in Sides \ {s} : dialog'[t] = dialog[t] /\ answered'[t] = answered[t]
    BY <1>t, <1>4 DEF ResolvePendingPairing, KeepTrust, PairTypes, PairingTypeOK
  <2>2. ~Denied(s)
    BY <2>1 DEF Denied, Consents
  <2>3. side[s] \notin {"say_no", "sent_no"}
    BY <2>2 DEF OutcomeInv
  <2> QED BY <2>1, <2>2, <2>3, OutcomeQuiet
<1>5. ASSUME NEW s \in Sides, TerminatePendingPairing(s) \/ TakeDecision(s) PROVE OutcomeInv'
  <2>1. /\ side[s] = "asking" /\ dialog[s] # {} /\ dialog' = [dialog EXCEPT ![s] = {}]
        /\ UNCHANGED <<auto, wire, answered, trusts, notices, unpairs>>
    BY <1>5 DEF TerminatePendingPairing, TakeDecision, KeepTrust
  <2>2. (IF dialog[s] = {"open"} THEN {"no"} ELSE dialog[s]) = {"yes"} <=> dialog[s] = {"yes"}
    OBVIOUS
  <2>3. side' = [side EXCEPT ![s] = IF dialog[s] = {"yes"} THEN "say_yes" ELSE "say_no"]
    BY <1>5, <2>2 DEF TerminatePendingPairing, TakeDecision
  <2>4. /\ \A t \in Sides \ {s} : side'[t] = side[t] /\ dialog'[t] = dialog[t] /\ answered'[t] = answered[t]
        /\ dialog'[s] = {} /\ answered'[s] = answered[s]
        /\ side'[s] = IF dialog[s] = {"yes"} THEN "say_yes" ELSE "say_no"
    BY <1>t, <2>1, <2>3 DEF PairTypes, PairingTypeOK
  <2>5. ~auto[s[2]] /\ (dialog[s] # {"yes"} => answered[s] \in {{}, {FALSE}})
    BY <1>t, <2>1 DEF PairTypes, PairingTypeOK, DialogsAgree
  <2>6. {} # {TRUE} /\ {FALSE} # {TRUE}
    OBVIOUS
  <2>7. ~Denied(s) /\ (side'[s] \in {"say_no", "sent_no"} => Denied(s)')
    BY <2>1, <2>4, <2>5, <2>6 DEF Denied, Consents, Unasked
  <2>8. side'[s] \notin {"saved", "refused"}
    BY <2>4
  <2> QED BY <2>1, <2>4, <2>7, <2>8, OutcomeQuiet
<1>6. ASSUME NEW s \in Sides, SendDecision(s) PROVE OutcomeInv'
  <2>1. PICK msg \in {"yes", "no"} :
            /\ side[s] = (IF msg = "yes" THEN "say_yes" ELSE "say_no") /\ Send(s, msg)
            /\ side' = [side EXCEPT ![s] = IF msg = "yes" THEN "sent_yes" ELSE "sent_no"]
    BY <1>6 DEF SendDecision, Move
  <2>2. UNCHANGED <<auto, dialog, answered, trusts, notices, unpairs>> /\ msg \in Messages
    BY <1>6 DEF SendDecision, KeepTrust, Messages
  <2>3. /\ \A t \in Sides \ {s} : side'[t] = side[t]
        /\ msg = "yes" => side[s] = "say_yes" /\ side'[s] = "sent_yes"
        /\ msg = "no" => side[s] = "say_no" /\ side'[s] = "sent_no"
    BY <1>t, <2>1 DEF PairTypes, PairingTypeOK
  <2>4. \A t \in Sides : Denied(t) => Denied(t)'
    BY <2>2, <2>3 DEF Denied, Consents, Unasked
  <2>5. \A t \in Sides : side'[t] \in {"say_no", "sent_no"} => Denied(t)'
    <3>1. \A t \in Sides : side'[t] \in {"say_no", "sent_no"} => side[t] \in {"say_no", "sent_no"}
      BY <2>3
    <3> QED BY <2>4, <3>1 DEF OutcomeInv
  <2>6. msg = "no" => Denied(Far(Far(s)))'
    <3>1. Far(Far(s)) = s
      BY TwoMachines
    <3>2. msg = "no" => Denied(s)'
      BY <2>3, <2>5
    <3> QED BY <3>1, <3>2 DEF Far
  <2>7. \A t \in Sides : \A i \in DOMAIN wire'[t] : wire'[t][i] = "no" =>
            (\E j \in DOMAIN wire[t] : wire[t][j] = "no") \/ Denied(Far(t))'
    <3>1. \A t \in Sides : \A i \in DOMAIN wire'[t] :
            (\E j \in DOMAIN wire[t] : wire[t][j] = wire'[t][i]) \/ (t = Far(s) /\ wire'[t][i] = msg)
      BY <1>t, <2>1, <2>2, SendFacts
    <3> QED BY <2>6, <3>1
  <2>8. \A t \in Sides : side'[t] = "refused" => side[t] = "refused"
    BY <2>3
  <2>9. \A t \in Sides : side'[t] = "saved" => side[t] = "saved"
    BY <2>3
  <2>10. /\ unpairs' \in Nat /\ \A m \in Machines : unpairs' = 0 => notices'[m] = 0
         /\ \A t \in Sides : side'[t] = "saved" /\ unpairs' = 0 => trusts'[t[2]]
    BY <2>2, <2>9 DEF OutcomeInv
  <2> QED BY <2>4, <2>5, <2>7, <2>8, <2>10, OutcomeKept
<1>7. ASSUME NEW s \in Sides, ReceiveDecision(s) PROVE OutcomeInv'
  <2>1. /\ side[s] \in {"sent_yes", "sent_no"} /\ SaveOnBothYes(s) /\ Take(s) /\ wire[s] # <<>>
        /\ UNCHANGED <<auto, dialog, answered, notices, unpairs>>
    BY <1>7 DEF ReceiveDecision, SaveOnBothYes, Arrives
  <2>2. PICK end \in {"saved", "failed", "refused"} :
            /\ side' = [side EXCEPT ![s] = end]
            /\ end = "saved" => trusts' = [trusts EXCEPT ![s[2]] = TRUE]
            /\ end # "saved" => trusts' = trusts
            /\ end = "refused" => Arrives(s, "no") \/ ~Accepted(s)
    BY <2>1 DEF SaveOnBothYes
  <2>3. (\A t \in Sides \ {s} : side'[t] = side[t]) /\ side'[s] = end
    BY <1>t, <2>2 DEF PairTypes, PairingTypeOK
  <2>4. \A t \in Sides : \A i \in DOMAIN wire'[t] : wire'[t][i] = "no" =>
            \E j \in DOMAIN wire[t] : wire[t][j] = "no"
    BY <1>t, <2>1, TakeFacts
  <2>5. \A t \in Sides : Denied(t) => Denied(t)'
    BY <2>1, <2>3 DEF Denied, Consents, Unasked
  <2>6. \A t \in Sides : side'[t] \in {"say_no", "sent_no"} => Denied(t)'
    BY <2>3, <2>5 DEF OutcomeInv
  <2>7. end = "refused" => Denied(s)' \/ Denied(Far(s))'
    <3>1. CASE Arrives(s, "no")
      <4>1. 1 \in DOMAIN wire[s] /\ wire[s][1] = "no"
        BY <1>t, <3>1 DEF Arrives
      <4>2. Denied(Far(s)) /\ Far(s) \in Sides
        BY <4>1, TwoMachines DEF OutcomeInv
      <4> QED BY <2>5, <4>2
    <3>2. CASE ~Accepted(s)
      <4>1. Denied(s)
        BY <2>1, <3>2 DEF Accepted, OutcomeInv
      <4> QED BY <2>5, <4>1
    <3> QED BY <2>2, <3>1, <3>2
  <2>8. \A t \in Sides : side'[t] = "refused" => side[t] = "refused" \/ Denied(t)' \/ Denied(Far(t))'
    BY <2>3, <2>7
  <2>9. \A t \in Sides : side'[t] = "saved" /\ unpairs' = 0 => trusts'[t[2]]
    <3>1. s[2] \in Machines /\ \A t \in Sides : t[2] \in Machines
      BY TwoMachines
    <3>2. trusts \in [Machines -> BOOLEAN]
      BY <1>t DEF PairTypes, PairingTypeOK
    <3>3. \A n \in Machines : trusts[n] => trusts'[n]
      BY <2>2, <3>1, <3>2
    <3>4. end = "saved" => trusts'[s[2]]
      BY <2>2, <3>1, <3>2
    <3>5. \A t \in Sides \ {s} : side'[t] = "saved" /\ unpairs' = 0 => trusts[t[2]]
      BY <2>1, <2>3 DEF OutcomeInv
    <3> QED BY <2>3, <3>1, <3>3, <3>4, <3>5
  <2>10. unpairs' \in Nat /\ \A m \in Machines : unpairs' = 0 => notices'[m] = 0
    BY <2>1 DEF OutcomeInv
  <2> QED BY <2>4, <2>5, <2>6, <2>8, <2>9, <2>10, OutcomeKept
<1>8. ASSUME NEW m \in Machines, BreakConnection(m) PROVE OutcomeInv'
  <2>1. PICK broken \in SUBSET Sides :
            /\ wire' = [s \in Sides |-> IF s \in broken THEN <<>> ELSE wire[s]]
            /\ side' = [s \in Sides |-> IF s \in broken THEN "failed" ELSE side[s]]
    BY <1>8 DEF BreakConnection
  <2>2. UNCHANGED <<auto, dialog, answered, trusts, notices, unpairs>>
    BY <1>8 DEF BreakConnection, KeepTrust
  <2>3. \A t \in Sides : side'[t] = IF t \in broken THEN "failed" ELSE side[t]
    BY <2>1
  <2>4. \A t \in Sides : wire'[t] = wire[t] \/ wire'[t] = <<>>
    BY <2>1
  <2>5. \A t \in Sides : \A i \in DOMAIN wire'[t] : wire'[t][i] = "no" =>
            \E j \in DOMAIN wire[t] : wire[t][j] = "no"
    BY <2>4
  <2>6. \A t \in Sides : Denied(t) => Denied(t)'
    BY <2>2, <2>3 DEF Denied, Consents, Unasked
  <2>7. \A t \in Sides : side'[t] \in {"say_no", "sent_no"} => Denied(t)'
    BY <2>3, <2>6 DEF OutcomeInv
  <2>8. \A t \in Sides : side'[t] \in {"saved", "refused"} => side[t] = side'[t]
    BY <2>3
  <2> QED BY <2>2, <2>5, <2>6, <2>7, <2>8, OutcomePlain
<1>9. ASSUME NEW s \in Sides, HandshakeFails(s) \/ PeerGone(s) PROVE OutcomeInv'
  <2>1. side' = [side EXCEPT ![s] = "failed"] /\ UNCHANGED <<auto, wire, dialog, answered, trusts, notices, unpairs>>
    BY <1>9 DEF HandshakeFails, PeerGone, KeepTrust
  <2>2. (\A t \in Sides \ {s} : side'[t] = side[t]) /\ side'[s] = "failed"
    BY <1>t, <2>1 DEF PairTypes, PairingTypeOK
  <2>3. Denied(s) => Denied(s)'
    BY <2>1, <2>2 DEF Denied, Consents, Unasked
  <2> QED BY <2>1, <2>2, <2>3, OutcomeQuiet
<1>10. ASSUME NEW s \in Sides, CloseDialog(s) PROVE OutcomeInv'
  <2>1. /\ dialog[s] # {} /\ dialog' = [dialog EXCEPT ![s] = {}]
        /\ UNCHANGED <<auto, side, wire, answered, trusts, notices, unpairs>>
    BY <1>10 DEF CloseDialog, KeepTrust
  <2>2. \A t \in Sides \ {s} : dialog'[t] = dialog[t]
    BY <1>t, <2>1 DEF PairTypes, PairingTypeOK
  <2>3. ~Denied(s) /\ side[s] \notin {"say_no", "sent_no"}
    BY <2>1 DEF Denied, Consents, OutcomeInv
  <2> QED BY <2>1, <2>2, <2>3, OutcomeQuiet
<1>11. ASSUME NEW m \in Machines, RemoveAndNotify(m) \/ LoseNotice(m) \/ ApplyPeerUnpaired(m)
       PROVE  OutcomeInv'
  <2>1. UNCHANGED <<auto, side, wire, dialog, answered>>
    BY <1>11 DEF RemoveAndNotify, LoseNotice, ApplyPeerUnpaired
  <2>2. unpairs' \in Nat /\ unpairs' # 0
    <3>1. CASE RemoveAndNotify(m)
      BY <3>1 DEF RemoveAndNotify, OutcomeInv
    <3>2. CASE LoseNotice(m) \/ ApplyPeerUnpaired(m)
      <4>1. notices[m] > 0 /\ unpairs' = unpairs
        BY <3>2 DEF LoseNotice, ApplyPeerUnpaired
      <4>2. notices[m] # 0
        BY <1>t, <4>1 DEF PairTypes, PairingTypeOK
      <4> QED BY <4>1, <4>2 DEF OutcomeInv
    <3> QED BY <1>11, <3>1, <3>2
  <2>3. \A t \in Sides : Denied(t) <=> Denied(t)'
    BY <2>1 DEF Denied, Consents, Unasked
  <2>4. \A t \in Sides : side'[t] \in {"say_no", "sent_no"} => Denied(t)'
    BY <2>1, <2>3 DEF OutcomeInv
  <2> QED BY <2>1, <2>2, <2>3, <2>4, OutcomeKept
<1>12. ASSUME NEW s \in Sides, AutoAccept(s) PROVE OutcomeInv'
  <2>1. side[s] = "ask" /\ side' = [side EXCEPT ![s] = "say_yes"]
        /\ UNCHANGED <<auto, wire, dialog, answered, trusts, notices, unpairs>>
    BY <1>12 DEF AutoAccept, Move, KeepTrust
  <2>2. (\A t \in Sides \ {s} : side'[t] = side[t]) /\ side'[s] = "say_yes" /\ ~Denied(s)
    BY <1>t, <2>1 DEF PairTypes, PairingTypeOK, Denied, Unasked
  <2> QED BY <2>1, <2>2, OutcomeQuiet
<1>13. ASSUME NEW m \in Machines, RelistReads(m) \/ RelistAdds(m) PROVE OutcomeInv'
  <2>1. UNCHANGED <<auto, side, wire, dialog, answered, notices, unpairs>>
    BY <1>13 DEF RelistReads, RelistAdds
  <2>2. trusts' = trusts \/ trusts' = [trusts EXCEPT ![m] = TRUE]
    BY <1>13 DEF RelistReads, RelistAdds
  <2>3. \A n \in Machines : trusts[n] => trusts'[n]
    BY <1>t, <2>2 DEF PairTypes, PairingTypeOK
  <2>4. \A t \in Sides : Denied(t) <=> Denied(t)'
    BY <2>1 DEF Denied, Consents, Unasked
  <2>5. \A t \in Sides : side'[t] \in {"say_no", "sent_no"} => Denied(t)'
    BY <2>1, <2>4 DEF OutcomeInv
  <2>6. \A t \in Sides : side'[t] = "saved" /\ unpairs' = 0 => trusts'[t[2]]
    BY <2>1, <2>3, TwoMachines DEF OutcomeInv
  <2>7. unpairs' \in Nat /\ \A n \in Machines : unpairs' = 0 => notices'[n] = 0
    BY <2>1 DEF OutcomeInv
  <2> QED BY <2>1, <2>4, <2>5, <2>6, <2>7, OutcomeKept
<1>14. CASE UNCHANGED pairVars
  BY <1>14 DEF pairVars, OutcomeInv, Denied, Consents, Unasked, Far
<1> QED BY <1>1, <1>2, <1>3, <1>4, <1>5, <1>6, <1>7, <1>8, <1>9, <1>10, <1>11, <1>12, <1>13, <1>14 DEF PairingNext

\* Both saved or both did not, when every handshake has come to its end.
LEMMA EndsAlike == ConsentInv /\ OutcomeInv => AttemptsEndAlike
<1> SUFFICES ASSUME ConsentInv, OutcomeInv
             PROVE  AttemptsEndAlike
  OBVIOUS
<1>0. trusts \in [Machines -> BOOLEAN]
  BY DEF ConsentInv, PairTypes, PairingTypeOK
<1> SUFFICES ASSUME unpairs = 0,
                    \A s \in Sides : side[s] \in {"idle", "saved", "refused"}
             PROVE  \A m, n \in Machines : trusts[m] => trusts[n]
  BY <1>0 DEF AttemptsEndAlike
<1> TAKE m, n \in Machines
<1> HAVE trusts[m]
<1>1. PICK a \in Machines : \A k \in Machines : Said(<<a, k>>)
  BY DEF ConsentInv
<1> DEFINE s == <<a, n>>
<1>2. s \in Sides /\ Far(s) = <<a, Other(n)>> /\ Other(n) \in Machines /\ s[2] = n
  BY TwoMachines DEF Sides, Far
<1>3. Said(s) /\ Said(Far(s))
  BY <1>1, <1>2
<1>4. ~Denied(s) /\ ~Denied(Far(s))
  BY <1>3 DEF Said, Denied, Consents
<1>5. side[s] # "idle" /\ side[s] # "refused"
  BY <1>2, <1>3, <1>4 DEF Said, Consents, Unasked, OutcomeInv
<1>6. side[s] = "saved"
  BY <1>2, <1>5
<1> QED BY <1>2, <1>6 DEF OutcomeInv

\* A pairing is what both users agreed to, on both machines: a machine trusts
\* the other only when both consented to one attempt (their users, or whoever
\* started a Hub with --auto-pair), it acts on the answer its user was told was
\* taken, and attempts that ran to their end left both machines alike
\* (saveOnBothYes in handshake.go, terminatePendingPairing in hub.go).
THEOREM PairingAgreed == PairingSpec => []TrustAgreed
<1> DEFINE Inv == ConsentInv /\ OutcomeInv
<1>1. PairingInit => Inv
  BY ConsentInitially, OutcomeInitially
<1>2. Inv /\ [PairingNext]_pairVars => Inv'
  BY ConsentStep, OutcomeStep
<1>3. Inv => TrustAgreed
  <2> SUFFICES ASSUME Inv PROVE TrustAgreed
    OBVIOUS
  <2>1. PairingTypeOK
    BY DEF ConsentInv, PairTypes
  <2>2. TrustNeedsBothYes
    BY DEF ConsentInv, TrustNeedsBothYes, Said, Consents
  <2>3. AnswerIsUsed
    BY DEF ConsentInv, AnswerIsUsed, Said, Consents
  <2> QED BY <2>1, <2>2, <2>3, EndsAlike DEF TrustAgreed
<1> QED BY <1>1, <1>2, <1>3, PTL DEF PairingSpec

-----------------------------------------------------------------------------
\* A session or a cookie names a link that was minted, and its own browser.
Named(id, b) == id \in (1..Len(links)) \X {b}

\* The variables of the access control hold what their declarations say.
AccessTypes ==
    /\ webUp \in BOOLEAN /\ generation \in 0..MaxGenerations
    /\ links \in Seq(Nat) /\ Len(links) <= MaxLinks
    /\ \A i \in 1..Len(links) : links[i] <= generation
    /\ link \subseteq 1..Len(links) /\ \A l, k \in link : l = k
    /\ sessions \subseteq [id : Ids, left : 0..SessionLife]
    /\ IsFiniteSet(sessions) /\ Cardinality(sessions) <= MaxSessions
    /\ cookie \in [Browsers -> SUBSET [id : Ids, left : 1..SessionLife]]
    /\ opened \in [Browsers -> SUBSET Nat]
    /\ exchange \in [Browsers -> SUBSET (1..Len(links))]
    /\ \A b \in Browsers : /\ \A c, d \in cookie[b] : c = d
                           /\ \A l, k \in exchange[b] : l = k
    /\ stalls \in Nat /\ lost \in Nat

\* A link is open, in a request, or behind a session.
LinkInOnePlace ==
    /\ \A s \in sessions : \E b \in Browsers : Named(s.id, b) /\ s.id[1] \notin link
    /\ \A b \in Browsers : \A c \in cookie[b] : Named(c.id, b)
    /\ LinkUsedOnce

\* What may still become a session belongs to this run of the Hub, as long as
\* no handler outlived its listener.
PresentRunOnly ==
    /\ \A l \in link : links[l] = generation
    /\ stalls = 0 => \A b \in Browsers : \A l \in exchange[b] : webUp /\ links[l] = generation

\* The inductive invariant.
AccessInv == AccessTypes /\ LinkInOnePlace /\ ActiveBrowserKept /\ PresentRunOnly /\ EarlierRunsOut

-----------------------------------------------------------------------------
\* A set of which any two members are equal has one at most.
LEMMA AtMostOneMember ==
    ASSUME NEW S, \A x, y \in S : x = y
    PROVE  IsFiniteSet(S) /\ Cardinality(S) <= 1
<1>1. CASE S = {}
  BY <1>1, FS_EmptySet
<1>2. CASE S # {}
  <2>1. PICK x : S = {x}
    BY <1>2
  <2>2. IsFiniteSet({x}) /\ Cardinality({x}) = 1
    BY FS_Singleton
  <2> QED BY <2>1, <2>2
<1> QED BY <1>1, <1>2

\* The values a function takes are not more than its arguments.
LEMMA ImageBound ==
    ASSUME NEW S, IsFiniteSet(S), NEW g, NEW T, g \in [S -> T], \A y \in T : \E x \in S : y = g[x]
    PROVE  IsFiniteSet(T) /\ Cardinality(T) <= Cardinality(S)
<1>1. g \in Surjection(S, T)
  BY DEF Surjection
<1> QED BY <1>1, FS_Surjection

\* The invariant says what the run checks.
LEMMA AccessInvGuards == AccessInv => AccessGuarded
<1> SUFFICES ASSUME AccessInv PROVE AccessGuarded
  OBVIOUS
<1>1. Cardinality(link) <= 1 /\ \A b \in Browsers : Cardinality(cookie[b]) <= 1 /\ Cardinality(exchange[b]) <= 1
  BY AtMostOneMember DEF AccessInv, AccessTypes
<1>2. AccessTypeOK
  BY <1>1 DEF AccessInv, AccessTypes, AccessTypeOK
<1> QED BY <1>2 DEF AccessInv, LinkInOnePlace, AccessGuarded

\* Before the first start nobody may use the dashboard.
LEMMA AccessInitially == AccessInit => AccessInv
<1> SUFFICES ASSUME AccessInit PROVE AccessInv
  OBVIOUS
<1>1. AccessTypes
  <2>1. webUp = FALSE /\ generation = 0 /\ stalls = 0 /\ lost = 0
    BY DEF AccessInit
  <2>2. links \in Seq(Nat) /\ Len(links) = 0
    BY DEF AccessInit
  <2>3. IsFiniteSet(sessions) /\ Cardinality(sessions) <= MaxSessions /\ sessions = {} /\ link = {}
    BY FS_EmptySet, AccessAssumption DEF AccessInit
  <2>4. /\ cookie \in [Browsers -> SUBSET [id : Ids, left : 1..SessionLife]]
        /\ opened \in [Browsers -> SUBSET Nat] /\ exchange \in [Browsers -> SUBSET (1..Len(links))]
        /\ \A b \in Browsers : cookie[b] = {} /\ exchange[b] = {}
    BY DEF AccessInit
  <2>5. generation \in 0..MaxGenerations /\ stalls \in Nat /\ lost \in Nat
    BY <2>1, AccessAssumption
  <2>7. webUp \in BOOLEAN
    BY <2>1
  <2>6. Len(links) <= MaxLinks /\ \A i \in 1..Len(links) : links[i] <= generation
    BY <2>2, AccessAssumption
  <2> QED BY <2>2, <2>3, <2>4, <2>5, <2>6, <2>7 DEF AccessTypes
<1>2. LinkInOnePlace /\ ActiveBrowserKept /\ PresentRunOnly /\ EarlierRunsOut
  BY DEF AccessInit, LinkInOnePlace, LinkUsedOnce, ActiveBrowserKept, PresentRunOnly, EarlierRunsOut
<1> QED BY <1>1, <1>2 DEF AccessInv

-----------------------------------------------------------------------------
\* A new run forgets sessions and links; the cookies of earlier runs name older links.
LEMMA BeginGenerationKeeps == AccessInv /\ BeginGeneration => AccessInv'
<1> SUFFICES ASSUME AccessInv, BeginGeneration PROVE AccessInv'
  OBVIOUS
<1>1. AccessTypes'
  BY AccessAssumption, FS_EmptySet DEF AccessInv, AccessTypes, Ids, BeginGeneration, ResetDashboardSessions
<1>2. LinkInOnePlace'
  BY DEF AccessInv, LinkInOnePlace, LinkUsedOnce, Named, BeginGeneration, ResetDashboardSessions
<1>3. ActiveBrowserKept'
  <2>1. \A b \in Browsers : \A c \in cookie[b] : links[c.id[1]] <= generation
    BY DEF AccessInv, AccessTypes, LinkInOnePlace, Named
  <2>2. \A b \in Browsers : \A c \in cookie[b] : c.id[1] \in 1..Len(links) /\ links[c.id[1]] \in Nat
    BY DEF AccessInv, AccessTypes, LinkInOnePlace, Named
  <2> QED BY <2>1, <2>2 DEF AccessInv, AccessTypes, ActiveBrowserKept, BeginGeneration
<1>4. PresentRunOnly' /\ EarlierRunsOut'
  BY DEF AccessInv, AccessTypes, PresentRunOnly, EarlierRunsOut, BeginGeneration, ResetDashboardSessions
<1> QED BY <1>1, <1>2, <1>3, <1>4 DEF AccessInv

\* The listener goes; a request it leaves behind counts as a stall.
LEMMA ShutDownKeeps == AccessInv /\ ShutDown => AccessInv'
<1> SUFFICES ASSUME AccessInv, ShutDown PROVE AccessInv'
  OBVIOUS
<1>1. UNCHANGED <<generation, link, links, sessions, cookie, opened, exchange, lost>> /\ webUp' = FALSE
  BY DEF ShutDown
<1>2. stalls' \in Nat /\ (stalls' = 0 => stalls = 0 /\ \A b \in Browsers : exchange[b] = {})
  BY DEF ShutDown, AccessInv, AccessTypes
<1>3. AccessTypes'
  BY <1>1, <1>2 DEF AccessInv, AccessTypes, Ids
<1>4. LinkInOnePlace' /\ ActiveBrowserKept' /\ PresentRunOnly' /\ EarlierRunsOut'
  BY <1>1, <1>2 DEF AccessInv, LinkInOnePlace, LinkUsedOnce, Named, ActiveBrowserKept, PresentRunOnly, EarlierRunsOut
<1> QED BY <1>3, <1>4 DEF AccessInv

\* A new link is of this run, and in nobody's hand yet.
LEMMA DashboardURLKeeps ==
    ASSUME AccessInv, NEW b \in Browsers, NEW forceNew \in BOOLEAN, DashboardURL(b, forceNew)
    PROVE  AccessInv'
<1>1. CASE UNCHANGED <<link, links>>
  <2>1. AccessTypes'
    BY <1>1 DEF DashboardURL, AccessInv, AccessTypes, Ids
  <2> QED BY <1>1, <2>1 DEF DashboardURL, AccessInv, LinkInOnePlace, LinkUsedOnce, Named, ActiveBrowserKept, PresentRunOnly, EarlierRunsOut
<1>2. CASE /\ Len(links) < MaxLinks
           /\ links' = Append(links, generation) /\ link' = {Len(links) + 1}
  <2>1. /\ Len(links') = Len(links) + 1 /\ links'[Len(links) + 1] = generation
        /\ \A i \in 1..Len(links) : links'[i] = links[i]
    BY <1>2 DEF AccessInv, AccessTypes
  <2>2. UNCHANGED <<webUp, generation, sessions, cookie, exchange, lost, stalls>>
    BY DEF DashboardURL
  <2>3. AccessTypes'
    <3>1. links' \in Seq(Nat) /\ Len(links') <= MaxLinks /\ \A i \in 1..Len(links') : links'[i] <= generation
      BY <1>2, <2>1, AccessAssumption DEF AccessInv, AccessTypes
    <3>2. opened' \in [Browsers -> SUBSET Nat] /\ link' \subseteq 1..Len(links')
      BY <1>2, <2>1 DEF DashboardURL, AccessInv, AccessTypes
    <3>3. exchange' \in [Browsers -> SUBSET (1..Len(links'))]
      BY <2>1, <2>2 DEF AccessInv, AccessTypes
    <3> QED BY <1>2, <2>2, <3>1, <3>2, <3>3 DEF AccessInv, AccessTypes, Ids
  <2>4. LinkInOnePlace'
    BY <1>2, <2>1, <2>2 DEF AccessInv, AccessTypes, LinkInOnePlace, LinkUsedOnce, Named
  <2>5. ActiveBrowserKept'
    BY <2>1, <2>2 DEF AccessInv, LinkInOnePlace, Named, ActiveBrowserKept
  <2>6. PresentRunOnly' /\ EarlierRunsOut'
    BY <1>2, <2>1, <2>2 DEF AccessInv, AccessTypes, LinkInOnePlace, Named, PresentRunOnly, EarlierRunsOut
  <2> QED BY <2>3, <2>4, <2>5, <2>6 DEF AccessInv
<1> QED BY <1>1, <1>2 DEF DashboardURL

\* The link moves from the Hub into one request.
LEMMA ConsumeKeeps ==
    ASSUME AccessInv, NEW b \in Browsers, ConsumeDashboardBootstrap(b)
    PROVE  AccessInv'
<1>1. /\ webUp /\ exchange[b] = {} /\ opened[b] # {}
      /\ opened' = [opened EXCEPT ![b] = {}]
      /\ UNCHANGED <<webUp, generation, links, sessions, cookie, lost, stalls>>
  BY DEF ConsumeDashboardBootstrap
<1>2. CASE UNCHANGED <<exchange, link>>
  <2>1. AccessTypes'
    BY <1>1, <1>2 DEF AccessInv, AccessTypes, Ids
  <2> QED BY <1>1, <1>2, <2>1 DEF AccessInv, LinkInOnePlace, LinkUsedOnce, Named, ActiveBrowserKept, PresentRunOnly, EarlierRunsOut
<1>3. CASE exchange' = [exchange EXCEPT ![b] = link] /\ link' = {}
  <2>1. AccessTypes'
    BY <1>1, <1>3 DEF AccessInv, AccessTypes, Ids
  <2>2. LinkInOnePlace'
    BY <1>1, <1>3 DEF AccessInv, AccessTypes, LinkInOnePlace, LinkUsedOnce, Named
  <2>3. ActiveBrowserKept' /\ PresentRunOnly' /\ EarlierRunsOut'
    BY <1>1, <1>3 DEF AccessInv, AccessTypes, ActiveBrowserKept, PresentRunOnly, EarlierRunsOut
  <2> QED BY <2>1, <2>2, <2>3 DEF AccessInv
<1> QED BY <1>2, <1>3 DEF ConsumeDashboardBootstrap

\* What SetCookie may do to the cookies.
LEMMA CookieSet ==
    ASSUME AccessTypes, NEW b \in Browsers, NEW id \in Ids, SetCookie(b, id)
    PROVE  /\ cookie' \in [Browsers -> SUBSET [id : Ids, left : 1..SessionLife]]
           /\ \A d \in Browsers : \A c, e \in cookie'[d] : c = e
           /\ \A d \in Browsers : \A c \in cookie'[d] :
                 \/ c \in cookie[d]
                 \/ d = b /\ c = [id |-> id, left |-> SessionLife]
           /\ \/ lost' = lost /\ cookie'[b] = {[id |-> id, left |-> SessionLife]}
              \/ lost' # 0 /\ cookie' = cookie
           /\ lost' \in Nat /\ (lost' = 0 => lost = 0)
<1>1. CASE cookie' = [cookie EXCEPT ![b] = {[id |-> id, left |-> SessionLife]}] /\ lost' = lost
  <2>1. [id |-> id, left |-> SessionLife] \in [id : Ids, left : 1..SessionLife]
    BY AccessAssumption
  <2> QED BY <1>1, <2>1 DEF AccessTypes
<1>2. CASE cookie' = cookie /\ lost' = lost + 1
  BY <1>2 DEF AccessTypes
<1> QED BY <1>1, <1>2 DEF SetCookie

\* The request's link becomes a session of its browser; dead sessions are the
\* only ones that make room.
LEMMA NewSessionKeeps ==
    ASSUME AccessInv, NEW b \in Browsers, NewDashboardSession(b)
    PROVE  AccessInv'
<1>1. UNCHANGED <<webUp, generation, link, links, opened, stalls>>
  BY DEF NewDashboardSession
<1>2. exchange' = [exchange EXCEPT ![b] = {}]
  BY DEF NewDashboardSession
<1>3. \A d \in Browsers : \A c \in cookie[d] : \A s \in sessions : s.left >= c.left => s \in Live
  BY DEF AccessInv, AccessTypes, Live
<1>4. IsFiniteSet(Live) /\ Cardinality(Live) <= Cardinality(sessions) /\ Live \subseteq sessions
  BY FS_Subset DEF Live, AccessInv, AccessTypes
<1>5. exchange' \in [Browsers -> SUBSET (1..Len(links))] /\ \A d \in Browsers : exchange'[d] \subseteq exchange[d]
  BY <1>2 DEF AccessInv, AccessTypes
<1>6. PICK l \in exchange[b] :
        \/ sessions' = Live /\ UNCHANGED <<cookie, lost>>
        \/ /\ Cardinality(Live) < MaxSessions
           /\ sessions' = Live \cup {[id |-> <<l, b>>, left |-> SessionLife]}
           /\ SetCookie(b, <<l, b>>)
  <2>1. Cardinality(Live) \in Nat
    BY <1>4, FS_CardinalityType
  <2> QED BY <2>1, AccessAssumption DEF NewDashboardSession
<1>7. CASE sessions' = Live /\ UNCHANGED <<cookie, lost>>
  <2>1. IsFiniteSet(sessions') /\ Cardinality(sessions') <= MaxSessions
    BY <1>4, <1>7, FS_CardinalityType, AccessAssumption DEF AccessInv, AccessTypes
  <2>2. AccessTypes'
    BY <1>1, <1>4, <1>5, <1>7, <2>1 DEF AccessInv, AccessTypes, Ids
  <2>3. LinkInOnePlace'
    BY <1>1, <1>4, <1>5, <1>7 DEF AccessInv, LinkInOnePlace, LinkUsedOnce, Named
  <2>4. ActiveBrowserKept'
    BY <1>1, <1>3, <1>7 DEF AccessInv, ActiveBrowserKept
  <2>5. PresentRunOnly' /\ EarlierRunsOut'
    BY <1>1, <1>4, <1>5, <1>7 DEF AccessInv, PresentRunOnly, EarlierRunsOut
  <2> QED BY <2>2, <2>3, <2>4, <2>5 DEF AccessInv
<1>8. CASE /\ Cardinality(Live) < MaxSessions
           /\ sessions' = Live \cup {[id |-> <<l, b>>, left |-> SessionLife]}
           /\ SetCookie(b, <<l, b>>)
  <2> DEFINE new == [id |-> <<l, b>>, left |-> SessionLife]
  <2>1. l \in 1..Len(links) /\ <<l, b>> \in Ids /\ new \in [id : Ids, left : 0..SessionLife]
    BY AccessAssumption DEF AccessInv, AccessTypes, Ids
  <2>2. IsFiniteSet(sessions') /\ Cardinality(sessions') <= MaxSessions
    <3> HIDE DEF new
    <3>1. /\ Cardinality(Live \cup {new}) \in {Cardinality(Live), Cardinality(Live) + 1}
          /\ IsFiniteSet(Live \cup {new})
      BY <1>4, FS_AddElement
    <3>2. sessions' = Live \cup {new}
      BY <1>8 DEF new
    <3>3. Cardinality(Live) \in Nat
      BY <1>4, FS_CardinalityType
    <3>4. Cardinality(Live \cup {new}) <= MaxSessions
      <4>1. Cardinality(Live) < MaxSessions
        BY <1>8
      <4> QED BY <3>1, <3>3, <4>1, AccessAssumption
    <3> QED BY <3>1, <3>2, <3>4
  <2>3. /\ cookie' \in [Browsers -> SUBSET [id : Ids, left : 1..SessionLife]]
        /\ \A d \in Browsers : \A c, e \in cookie'[d] : c = e
        /\ \A d \in Browsers : \A c \in cookie'[d] : c \in cookie[d] \/ (d = b /\ c = new)
        /\ lost' \in Nat /\ (lost' = 0 => lost = 0)
    BY <1>8, <2>1, CookieSet DEF AccessInv
  <2> HIDE DEF new
  <2>4. new.id = <<l, b>> /\ new.id[1] = l /\ new.left = SessionLife /\ sessions' = Live \cup {new}
    BY <1>8 DEF new
  <2>5. AccessTypes'
    BY <1>1, <1>4, <1>5, <2>1, <2>2, <2>3, <2>4 DEF AccessInv, AccessTypes, Ids
  <2>6. LinkInOnePlace'
    <3>1. Named(<<l, b>>, b) /\ l \notin link /\ \A s \in sessions : s.id[1] # l
      BY <2>1 DEF AccessInv, LinkInOnePlace, LinkUsedOnce, Named
    <3>2. \A s \in sessions' : \E d \in Browsers : Named(s.id, d) /\ s.id[1] \notin link
      BY <1>4, <2>4, <3>1 DEF AccessInv, LinkInOnePlace, Named
    <3>3. \A d \in Browsers : \A c \in cookie'[d] : Named(c.id, d)
      BY <2>3, <2>4, <3>1 DEF AccessInv, LinkInOnePlace, Named
    <3>4. \A s, t \in sessions' : s.id[1] = t.id[1] => s.id = t.id
      BY <1>4, <2>4, <3>1 DEF AccessInv, LinkInOnePlace, LinkUsedOnce
    <3>5. \A c, d \in Browsers : exchange'[c] \cap exchange'[d] # {} => c = d
      BY <1>5 DEF AccessInv, LinkInOnePlace, LinkUsedOnce
    <3>6. \A d \in Browsers : \A k \in exchange'[d] : k \notin link /\ \A s \in sessions' : s.id[1] # k
      <4> SUFFICES ASSUME NEW d \in Browsers, NEW k \in exchange'[d]
                   PROVE  k \notin link /\ \A s \in sessions' : s.id[1] # k
        OBVIOUS
      <4>1. d # b /\ k \in exchange[d]
        BY <1>2, <1>5 DEF AccessInv, AccessTypes
      <4>2. k # l
        BY <4>1 DEF AccessInv, LinkInOnePlace, LinkUsedOnce
      <4> QED BY <1>4, <2>4, <4>1, <4>2 DEF AccessInv, LinkInOnePlace, LinkUsedOnce
    <3> QED BY <1>1, <3>2, <3>3, <3>4, <3>5, <3>6 DEF LinkInOnePlace, LinkUsedOnce, Named
  <2>7. ActiveBrowserKept'
    <3> SUFFICES ASSUME NEW d \in Browsers, NEW c \in cookie'[d], links[c.id[1]] = generation
                 PROVE  \E s \in sessions' : s.id = c.id /\ s.left >= c.left /\ (lost' = 0 => s.left = c.left)
      BY <1>1 DEF ActiveBrowserKept
    <3>1. CASE c = new
      BY <2>4, <3>1, AccessAssumption
    <3>2. CASE c \in cookie[d]
      BY <1>3, <2>3, <2>4, <3>2 DEF AccessInv, ActiveBrowserKept
    <3> QED BY <2>3, <3>1, <3>2
  <2>8. PresentRunOnly' /\ EarlierRunsOut'
    BY <1>1, <1>4, <1>5, <2>4 DEF AccessInv, PresentRunOnly, EarlierRunsOut
  <2> QED BY <2>5, <2>6, <2>7, <2>8 DEF AccessInv
<1> QED BY <1>6, <1>7, <1>8

\* A session map: every session keeps its name, and stays within its lifetime.
LEMMA SessionsMapped ==
    ASSUME AccessInv, NEW S, S \subseteq sessions, NEW g, g \in [S -> [id : Ids, left : 0..SessionLife]],
           \A s \in S : g[s].id = s.id /\ g[s] \in sessions',
           \A t \in sessions' : \E s \in S : t = g[s]
    PROVE  /\ sessions' \subseteq [id : Ids, left : 0..SessionLife]
           /\ IsFiniteSet(sessions') /\ Cardinality(sessions') <= MaxSessions
           /\ \A t \in sessions' : \E s \in sessions : s.id = t.id
<1>1. IsFiniteSet(S) /\ Cardinality(S) <= Cardinality(sessions)
  BY FS_Subset DEF AccessInv, AccessTypes
<1>2. g \in [S -> sessions'] /\ \A t \in sessions' : \E s \in S : t = g[s]
  OBVIOUS
<1>3. IsFiniteSet(sessions') /\ Cardinality(sessions') <= Cardinality(S)
  BY <1>1, <1>2, ImageBound
<1>4. Cardinality(sessions') <= MaxSessions
  BY <1>1, <1>3, FS_CardinalityType, AccessAssumption DEF AccessInv, AccessTypes
<1> QED BY <1>2, <1>3, <1>4

\* With every session's name kept and no link moved, only the lifetimes are
\* left to look at.
LEMMA NamesKept ==
    ASSUME AccessInv, UNCHANGED <<webUp, generation, link, links, opened, exchange, stalls>>,
           \A t \in sessions' : \E s \in sessions : s.id = t.id,
           \A d \in Browsers : \A c \in cookie'[d] : Named(c.id, d)
    PROVE  LinkInOnePlace' /\ PresentRunOnly' /\ EarlierRunsOut'
<1>1. LinkUsedOnce'
  BY DEF AccessInv, LinkInOnePlace, LinkUsedOnce
<1>2. \A t \in sessions' : \E b \in Browsers : Named(t.id, b) /\ t.id[1] \notin link
  BY DEF AccessInv, LinkInOnePlace
<1>3. LinkInOnePlace'
  BY <1>1, <1>2 DEF LinkInOnePlace, Named
<1>4. PresentRunOnly' /\ EarlierRunsOut'
  BY DEF AccessInv, PresentRunOnly, EarlierRunsOut
<1> QED BY <1>3, <1>4

\* A request gives its own browser's session a new lifetime and no other.
LEMMA RequestKeeps ==
    ASSUME AccessInv, NEW b \in Browsers, Request(b)
    PROVE  AccessInv'
<1>1. UNCHANGED <<webUp, generation, link, links, opened, exchange, stalls>>
  BY DEF Request
<1>2. PICK c \in cookie[b] :
        /\ TouchDashboardSession(c.id)
        /\ IF \E s \in Live : s.id = c.id THEN SetCookie(b, c.id) ELSE UNCHANGED <<cookie, lost>>
  BY DEF Request
<1> DEFINE S == {s \in sessions : s.id = c.id => s \in Live}
           g == [s \in S |-> IF s.id = c.id THEN [s EXCEPT !.left = SessionLife] ELSE s]
<1>3. sessions' = {g[s] : s \in S}
  BY <1>2 DEF TouchDashboardSession, Live
<1>4. /\ g \in [S -> [id : Ids, left : 0..SessionLife]] /\ S \subseteq sessions
      /\ \A s \in S : /\ g[s].id = s.id
                      /\ s.id # c.id => g[s] = s
                      /\ s.id = c.id => g[s].left = SessionLife
  BY AccessAssumption DEF AccessInv, AccessTypes
<1>a. \A s \in sessions : s.id # c.id \/ s \in Live => s \in S
  OBVIOUS
<1> HIDE DEF g, S
<1>5. /\ sessions' \subseteq [id : Ids, left : 0..SessionLife]
      /\ IsFiniteSet(sessions') /\ Cardinality(sessions') <= MaxSessions
      /\ \A t \in sessions' : \E s \in sessions : s.id = t.id
  <2>1. \A s \in S : g[s].id = s.id /\ g[s] \in sessions'
    BY <1>3, <1>4
  <2>2. \A t \in sessions' : \E s \in S : t = g[s]
    BY <1>3
  <2> QED BY <1>4, <2>1, <2>2, SessionsMapped
<1>6. /\ cookie' \in [Browsers -> SUBSET [id : Ids, left : 1..SessionLife]]
      /\ \A d \in Browsers : \A x, y \in cookie'[d] : x = y
      /\ \A d \in Browsers : \A x \in cookie'[d] :
            x \in cookie[d] \/ (d = b /\ x = [id |-> c.id, left |-> SessionLife])
      /\ lost' \in Nat /\ (lost' = 0 => lost = 0)
  <2>1. c.id \in Ids
    BY DEF AccessInv, AccessTypes
  <2> QED BY <1>2, <2>1, CookieSet DEF AccessInv, AccessTypes
<1>7. AccessTypes'
  BY <1>1, <1>5, <1>6 DEF AccessInv, AccessTypes, Ids
<1>8. \A d \in Browsers : \A x \in cookie'[d] : Named(x.id, d)
  BY <1>6 DEF AccessInv, LinkInOnePlace
<1>9. LinkInOnePlace' /\ PresentRunOnly' /\ EarlierRunsOut'
  BY <1>1, <1>5, <1>8, NamesKept
<1>b. ActiveBrowserKept'
  <2> SUFFICES ASSUME NEW d \in Browsers, NEW x \in cookie'[d], links[x.id[1]] = generation
               PROVE  \E t \in sessions' : t.id = x.id /\ t.left >= x.left /\ (lost' = 0 => t.left = x.left)
    BY <1>1 DEF ActiveBrowserKept
  <2>1. CASE d = b
    <3>1. x.id = c.id /\ x.left <= SessionLife
      BY <1>6, <2>1 DEF AccessInv, AccessTypes
    <3>2. PICK s \in sessions : s.id = c.id /\ s.left >= c.left
      BY <3>1 DEF AccessInv, ActiveBrowserKept
    <3>3. s \in S /\ s \in Live
      BY <1>a, <3>2, AccessAssumption DEF AccessInv, AccessTypes, Live
    <3>4. g[s] \in sessions' /\ g[s].id = x.id /\ g[s].left = SessionLife
      BY <1>3, <1>4, <3>1, <3>2, <3>3
    <3>5. lost' = 0 => x.left = SessionLife
      <4>1. c.id \in Ids /\ SetCookie(b, c.id)
        BY <1>2, <3>2, <3>3 DEF AccessInv, AccessTypes
      <4> QED BY <2>1, <4>1, CookieSet DEF AccessInv
    <3> QED BY <3>1, <3>4, <3>5 DEF AccessInv, AccessTypes
  <2>2. CASE d # b
    <3>1. x \in cookie[d] /\ x.id[2] = d /\ c.id[2] = b
      BY <1>6, <2>2 DEF AccessInv, LinkInOnePlace, Named
    <3>2. PICK s \in sessions : s.id = x.id /\ s.left >= x.left /\ (lost = 0 => s.left = x.left)
      BY <3>1 DEF AccessInv, ActiveBrowserKept
    <3>3. s \in S /\ g[s] = s
      BY <1>4, <1>a, <2>2, <3>1, <3>2
    <3> QED BY <1>3, <1>6, <3>2, <3>3
  <2> QED BY <2>1, <2>2
<1> QED BY <1>7, <1>9, <1>b DEF AccessInv

\* Both sides count the same ticks.
LEMMA TimePassesKeeps == AccessInv /\ TimePasses => AccessInv'
<1> SUFFICES ASSUME AccessInv, TimePasses PROVE AccessInv'
  OBVIOUS
<1>1. UNCHANGED <<webUp, generation, link, links, opened, exchange, lost, stalls>>
  BY DEF TimePasses
<1> DEFINE g == [s \in sessions |-> Aged(s)]
<1>2. \A r \in [id : Ids, left : 0..SessionLife] :
        /\ Aged(r) \in [id : Ids, left : 0..SessionLife] /\ Aged(r).id = r.id
        /\ Aged(r).left = IF r.left = 0 THEN 0 ELSE r.left - 1
  BY AccessAssumption DEF Aged
<1>3. /\ sessions' \subseteq [id : Ids, left : 0..SessionLife]
      /\ IsFiniteSet(sessions') /\ Cardinality(sessions') <= MaxSessions
      /\ \A t \in sessions' : \E s \in sessions : s.id = t.id
  <2>1. g \in [sessions -> [id : Ids, left : 0..SessionLife]] /\ \A s \in sessions : g[s].id = s.id
    BY <1>2 DEF AccessInv, AccessTypes
  <2>2. /\ \A s \in sessions : g[s] \in sessions'
        /\ \A t \in sessions' : \E s \in sessions : t = g[s]
    BY DEF TimePasses
  <2> HIDE DEF g
  <2> QED BY <2>1, <2>2, SessionsMapped
<1>4. \A d \in Browsers : \A x \in cookie'[d] :
        \E y \in cookie[d] : /\ y \in [id : Ids, left : 1..SessionLife]
                             /\ x = Aged(y) /\ x.left > 0 /\ x.id = y.id /\ x.left = y.left - 1
  <2>1. \A d \in Browsers : \A y \in cookie[d] :
          y \in [id : Ids, left : 1..SessionLife] /\ y \in [id : Ids, left : 0..SessionLife] /\ y.left # 0
    BY AccessAssumption DEF AccessInv, AccessTypes
  <2> QED BY <1>2, <2>1 DEF TimePasses
<1>5. cookie' \in [Browsers -> SUBSET [id : Ids, left : 1..SessionLife]]
  <2>1. \A d \in Browsers : \A x \in cookie'[d] : x \in [id : Ids, left : 1..SessionLife]
    BY <1>2, <1>4, AccessAssumption
  <2>2. cookie' = [d \in Browsers |-> cookie'[d]]
    BY DEF TimePasses
  <2> QED BY <2>1, <2>2
<1>6. \A d \in Browsers : \A x, y \in cookie'[d] : x = y
  BY <1>4 DEF AccessInv, AccessTypes
<1>7. AccessTypes'
  BY <1>1, <1>3, <1>5, <1>6 DEF AccessInv, AccessTypes, Ids
<1>8. LinkInOnePlace' /\ PresentRunOnly' /\ EarlierRunsOut'
  <2>1. \A d \in Browsers : \A x \in cookie'[d] : Named(x.id, d)
    BY <1>4 DEF AccessInv, LinkInOnePlace
  <2> QED BY <1>1, <1>3, <2>1, NamesKept
<1>9. ActiveBrowserKept'
  <2> SUFFICES ASSUME NEW d \in Browsers, NEW x \in cookie'[d], links[x.id[1]] = generation
               PROVE  \E t \in sessions' : t.id = x.id /\ t.left >= x.left /\ (lost' = 0 => t.left = x.left)
    BY <1>1 DEF ActiveBrowserKept
  <2>1. PICK y \in cookie[d] : y \in [id : Ids, left : 1..SessionLife] /\ x.id = y.id /\ x.left = y.left - 1
    BY <1>4
  <2>2. PICK s \in sessions : s.id = y.id /\ s.left >= y.left /\ (lost = 0 => s.left = y.left)
    BY <2>1 DEF AccessInv, ActiveBrowserKept
  <2>3. s \in [id : Ids, left : 0..SessionLife]
    BY DEF AccessInv, AccessTypes
  <2>4. Aged(s) \in sessions' /\ Aged(s).id = s.id /\ Aged(s).left = s.left - 1
    BY <1>2, <2>1, <2>2, <2>3 DEF TimePasses
  <2> QED BY <1>1, <2>1, <2>2, <2>3, <2>4
<1> QED BY <1>7, <1>8, <1>9 DEF AccessInv

-----------------------------------------------------------------------------
\* For every number of browsers, sessions and links: a link serves one
\* browser once, a browser that uses its dashboard is not logged out, and one
\* authorised for an earlier run of the Hub does not control this one
\* (consumeDashboardBootstrap, newDashboardSession, touchDashboardSession).
THEOREM AccessSafe == AccessSpec => []AccessGuarded
<1>1. AccessInit => AccessInv
  BY AccessInitially
<1>2. AccessInv /\ [AccessNext]_accessVars => AccessInv'
  <2> SUFFICES ASSUME AccessInv, [AccessNext]_accessVars PROVE AccessInv'
    OBVIOUS
  <2>1. CASE UNCHANGED accessVars
    BY <2>1 DEF accessVars, AccessInv, AccessTypes, LinkInOnePlace, LinkUsedOnce, Named, ActiveBrowserKept, PresentRunOnly, EarlierRunsOut, Ids
  <2>2. CASE AccessNext
    BY <2>2, BeginGenerationKeeps, ShutDownKeeps, TimePassesKeeps, DashboardURLKeeps, ConsumeKeeps, NewSessionKeeps, RequestKeeps DEF AccessNext
  <2> QED BY <2>1, <2>2
<1>3. AccessInv => AccessGuarded
  BY AccessInvGuards
<1> QED BY <1>1, <1>2, <1>3, PTL DEF AccessSpec

-----------------------------------------------------------------------------
(* The runtime slot.                                                       *)

\* What a Hub or a command may be doing, and where in a transaction it may be.
Lives == {"off", "claiming", "claimed", "serving", "releasing", "reading", "ready", "crashed"}
Inside == {"locked", "looked", "clear", "aside"}
Places == {"rest", "wait", "judged"} \cup Inside

\* Everybody is where the code can put them: only a caller inside a transaction
\* is anywhere else than at rest, and only a claim gets past its probe.
SlotPlaces ==
    /\ dirLock \subseteq Callers /\ \A c, d \in dirLock : c = d
    /\ life \in [Callers -> Lives] /\ at \in [Callers -> Places] /\ missed \in 0..MaxMissed
    /\ \A c \in Callers :
        /\ life[c] \in {"claiming", "releasing", "claimed", "serving"} => c \in HubProcs
        /\ life[c] \in {"reading", "ready"} => c \in Commands
        /\ life[c] \notin {"claiming", "releasing", "reading", "crashed"} => at[c] = "rest"
        /\ life[c] = "claiming" => born[c] > 0
        /\ life[c] = "crashed" => c \in Mortal
        /\ life[c] \in {"claimed", "serving"} => born[c] > 0

\* A descriptor, where it was read too, has the token of its generation; a
\* command that was executed has ended, and reads no other descriptor.
TokensTrue ==
    /\ descriptor \subseteq Descriptors /\ \A t, u \in descriptor : t = u
    /\ \A t \in descriptor : t.token = <<t.proc, t.start>>
    /\ seenOwner \in [Callers -> SUBSET Descriptors]
    /\ \A c \in Callers : \A t, u \in seenOwner[c] : t = u
    /\ \A c \in Callers : \A t \in seenOwner[c] : t.token = <<t.proc, t.start>>
    /\ born \in [HubProcs -> 0..MaxBorn]
    /\ ran \in [Commands -> SUBSET [proc : HubProcs, start : 1..MaxBorn]]
    /\ \A c \in Commands : ran[c] # {} => life[c] = "off" /\ at[c] = "rest"

\* Nobody has died in the middle of a transaction, so no lock is abandoned.
HoldersLive == \A c \in Callers : Alive(c) \/ at[c] \notin Inside

\* Who lives and is past the lock has made it, and what it read is what is
\* there, until it moves it aside; the lock is nobody else's, and nobody takes
\* it for abandoned.
LockKept ==
    /\ \A c \in Callers : Alive(c) /\ at[c] \in Inside =>
          /\ dirLock = {c}
          /\ at[c] = "looked" => seenOwner[c] = descriptor
          /\ at[c] = "aside" => descriptor = {}
    /\ \A c \in dirLock : at[c] \in Inside
    /\ \A c \in Callers : at[c] # "judged"

\* While no probe missed a live owner, the Hub that has the slot is the one the
\* descriptor names, and a claim that may write it has no rival.
SlotHeld ==
    missed = 0 =>
        /\ \A h \in HubProcs : life[h] \in {"claimed", "serving"} => descriptor = {Info(h)}
        /\ \A h \in HubProcs : life[h] = "claiming" /\ at[h] \in {"clear", "aside"} =>
              \A g \in HubProcs : life[g] \notin {"claimed", "serving"}

\* What holds whatever becomes of the locks, and the inductive invariant.
SlotCore == SlotPlaces /\ TokensTrue /\ CommandReachesItsHub
SlotInv == SlotCore /\ (HoldersLive => LockKept /\ SlotHeld)

\* Two Hubs on one store, of which either may die anywhere, and any number of
\* commands, which leave no lock behind.
TwoHubs == Mortal \subseteq HubProcs /\ \E g, h \in HubProcs : HubProcs = {g, h}
-----------------------------------------------------------------------------
\* At first nobody has the lock or the slot.
LEMMA SlotStarts == SlotInit => SlotInv
<1> SUFFICES ASSUME SlotInit PROVE SlotInv
  OBVIOUS
<1>1. SlotPlaces
  BY SlotAssumption DEF SlotInit, SlotPlaces, Lives, Places, Inside
<1>2. TokensTrue /\ CommandReachesItsHub
  BY SlotAssumption DEF SlotInit, TokensTrue, CommandReachesItsHub, Callers
<1>3. LockKept /\ SlotHeld
  BY DEF SlotInit, LockKept, SlotHeld, Callers, Inside
<1> QED BY <1>1, <1>2, <1>3 DEF SlotInv, SlotCore

\* Steps that leave the descriptor, the tokens and what was executed alone.
LEMMA TokensStay ==
    ASSUME TokensTrue, CommandReachesItsHub, UNCHANGED <<descriptor, seenOwner, born, ran>>,
           \A c \in Commands : life[c] = "off" /\ at[c] = "rest" => ran[c] = {} \/ (life'[c] = "off" /\ at'[c] = "rest")
    PROVE  TokensTrue' /\ CommandReachesItsHub'
  BY DEF TokensTrue, CommandReachesItsHub

\* No step misplaces a caller, forges a token or has a command executed by a
\* Hub it did not read about.
LEMMA CoreKept ==
    ASSUME SlotCore, SlotNext
    PROVE  SlotCore'
<1> USE DEF SlotCore, Alive, Callers, Enter, Leave
<1>t. /\ life \in [Callers -> Lives] /\ at \in [Callers -> Places] /\ born \in [HubProcs -> 0..MaxBorn]
      /\ seenOwner \in [Callers -> SUBSET Descriptors] /\ MaxBorn \in Nat
  BY SlotAssumption DEF SlotPlaces, TokensTrue
<1> USE DEF Lives, Places, Inside
<1>a. ASSUME NEW c \in Callers, MakeLock(c) \/ FindStale(c) \/ ReclaimLock(c) \/ LockTimesOut(c) \/ SlotCrash(c)
      PROVE  SlotCore'
  <2>1. SlotPlaces'
    BY <1>a, <1>t DEF SlotPlaces, MakeLock, FindStale, ReclaimLock, LockTimesOut, SlotCrash
  <2>2. TokensTrue' /\ CommandReachesItsHub'
    BY <1>a, <1>t, TokensStay DEF MakeLock, FindStale, ReclaimLock, LockTimesOut, SlotCrash
  <2> QED BY <2>1, <2>2
<1>b. ASSUME NEW c \in Callers, ReadRuntimeInfo(c)
      PROVE  SlotCore'
  <2>1. SlotPlaces'
    BY <1>b, <1>t DEF SlotPlaces, ReadRuntimeInfo
  <2>2. TokensTrue'
    BY <1>b, <1>t DEF TokensTrue, ReadRuntimeInfo
  <2>3. CommandReachesItsHub'
    BY <1>b, <1>t DEF TokensTrue, CommandReachesItsHub, ReadRuntimeInfo
  <2> QED BY <2>1, <2>2, <2>3
<1>c. ASSUME NEW h \in HubProcs, StartHub(h)
      PROVE  SlotCore'
  <2>1. SlotPlaces'
    BY <1>c, <1>t DEF SlotPlaces, StartHub
  <2>2. TokensTrue'
    BY <1>c, <1>t, SlotAssumption DEF TokensTrue, StartHub
  <2>3. CommandReachesItsHub'
    BY <1>c DEF CommandReachesItsHub, StartHub
  <2> QED BY <2>1, <2>2, <2>3
<1>d. ASSUME NEW h \in HubProcs, OwnerAnswers(h) \/ ProbeFindsNobody(h) \/ ServeAfterClaim(h) \/ EndRun(h)
      PROVE  SlotCore'
  <2>1. SlotPlaces'
    BY <1>d, <1>t, SlotAssumption DEF SlotPlaces, OwnerAnswers, ProbeFindsNobody, ServeAfterClaim, EndRun
  <2>2. TokensTrue' /\ CommandReachesItsHub'
    BY <1>d, <1>t, TokensStay, SlotAssumption DEF OwnerAnswers, ProbeFindsNobody, ServeAfterClaim, EndRun
  <2> QED BY <2>1, <2>2
<1>e. ASSUME NEW h \in HubProcs, WriteRuntimeInfo(h) \/ PublishOrRestore(h) \/ RemoveRuntimeInfoIfOwned(h)
      PROVE  SlotCore'
  <2>0. life[h] = "claiming" => Info(h) \in Descriptors /\ Info(h).token = <<Info(h).proc, Info(h).start>>
    <3> SUFFICES ASSUME life[h] = "claiming" PROVE Info(h) \in Descriptors /\ Info(h).token = <<Info(h).proc, Info(h).start>>
      OBVIOUS
    <3>1. born[h] \in 1..MaxBorn
      BY <1>t DEF SlotPlaces
    <3> QED BY <3>1 DEF Info, FreshToken, Descriptors
  <2>1. SlotPlaces'
    BY <1>e, <1>t DEF SlotPlaces, WriteRuntimeInfo, PublishOrRestore, RemoveRuntimeInfoIfOwned
  <2>2. /\ descriptor' \in {descriptor, {}, seenOwner[h]} \/ (life[h] = "claiming" /\ descriptor' = {Info(h)})
        /\ descriptor' = seenOwner[h] => at[h] = "aside" \/ descriptor' \in {descriptor, {}, {Info(h)}}
        /\ UNCHANGED <<seenOwner, born, ran>> /\ \A c \in Commands : life'[c] = life[c] /\ at'[c] = at[c]
    BY <1>e, <1>t, SlotAssumption DEF WriteRuntimeInfo, PublishOrRestore, RemoveRuntimeInfoIfOwned
  <2>3. TokensTrue'
    <3> HIDE DEF Alive, Callers, Enter, Leave, Lives, Places, Inside
    <3>1. h \in Callers
      BY DEF Callers
    <3> QED BY <2>0, <2>2, <3>1 DEF TokensTrue
  <2>4. CommandReachesItsHub'
    BY <2>2 DEF CommandReachesItsHub
  <2> QED BY <2>1, <2>3, <2>4
<1>i. ASSUME NEW h \in HubProcs, MoveAside(h)
      PROVE  SlotCore'
  <2>1. SlotPlaces'
    BY <1>i, <1>t DEF SlotPlaces, MoveAside
  <2>2. TokensTrue'
    BY <1>i, <1>t, SlotAssumption DEF TokensTrue, MoveAside
  <2>3. CommandReachesItsHub'
    BY <1>i, <1>t, SlotAssumption DEF CommandReachesItsHub, MoveAside
  <2> QED BY <2>1, <2>2, <2>3
<1>f. ASSUME NEW c \in Commands, StartCommand(c) \/ RuntimeIPCToken(c)
      PROVE  SlotCore'
  <2>1. SlotPlaces'
    BY <1>f, <1>t DEF SlotPlaces, StartCommand, RuntimeIPCToken
  <2>2. TokensTrue' /\ CommandReachesItsHub'
    BY <1>f, <1>t, TokensStay DEF StartCommand, RuntimeIPCToken
  <2> QED BY <2>1, <2>2
<1>g. ASSUME NEW c \in Commands, DelegateSend(c)
      PROVE  SlotCore'
  <2>1. SlotPlaces'
    BY <1>g, <1>t DEF SlotPlaces, DelegateSend
  <2>2. CASE ran' = ran
    BY <1>g, <1>t, <2>1, <2>2, TokensStay DEF DelegateSend
  <2>3. ASSUME NEW h \in HubProcs, NEW t \in seenOwner[c], life[h] = "serving", Info(h).token = t.token,
               ran' = [ran EXCEPT ![c] = {[proc |-> h, start |-> born[h]]}]
        PROVE  SlotCore'
    <3>1. t \in Descriptors /\ t.token = <<t.proc, t.start>> /\ born[h] \in 1..MaxBorn
      BY <1>t, <2>3 DEF TokensTrue, SlotPlaces
    <3>2. t.proc = h /\ t.start = born[h]
      BY <2>3, <3>1 DEF Info, FreshToken
    <3>3. life'[c] = "off" /\ at'[c] = "rest" /\ UNCHANGED <<descriptor, seenOwner, born>>
          /\ \A d \in Commands : d # c => life'[d] = life[d] /\ at'[d] = at[d]
      BY <1>g, <1>t DEF DelegateSend, SlotPlaces
    <3>4. TokensTrue'
      BY <2>3, <3>1, <3>3 DEF TokensTrue
    <3>5. CommandReachesItsHub'
      BY <2>3, <3>2, <3>3 DEF CommandReachesItsHub, TokensTrue
    <3> QED BY <2>1, <3>4, <3>5
  <2> QED BY <1>g, <2>2, <2>3 DEF DelegateSend
<1> QED BY <1>a, <1>b, <1>c, <1>d, <1>e, <1>f, <1>g, <1>i DEF SlotNext

\* Who is dead stays where it died.
LEMMA DeathsStay ==
    ASSUME SlotCore, SlotNext, HoldersLive'
    PROVE  HoldersLive
<1> USE DEF Alive, Callers, Enter, Leave
<1>t. /\ life \in [Callers -> Lives] /\ at \in [Callers -> Places] /\ HubProcs \cap Commands = {}
      /\ \A c \in Callers : life[c] \notin {"claiming", "releasing", "reading", "crashed"} => at[c] = "rest"
  BY SlotAssumption DEF SlotCore, SlotPlaces
<1>1. ASSUME NEW d \in Callers, life[d] = "crashed"
      PROVE  life'[d] = "crashed" /\ at'[d] = at[d]
  <2>0. ASSUME NEW c \in Callers, life[c] # "crashed", \A e \in Callers : e # c => life'[e] = life[e] /\ at'[e] = at[e]
        PROVE  life'[d] = "crashed" /\ at'[d] = at[d]
    BY <1>1, <2>0
  <2>1. ASSUME NEW c \in Callers, MakeLock(c) \/ FindStale(c) \/ ReclaimLock(c) \/ LockTimesOut(c) \/ ReadRuntimeInfo(c) \/ SlotCrash(c)
        PROVE  life'[d] = "crashed" /\ at'[d] = at[d]
    BY <2>1, <2>0, <1>t DEF MakeLock, FindStale, ReclaimLock, LockTimesOut, ReadRuntimeInfo, SlotCrash
  <2>2. ASSUME NEW h \in HubProcs, StartHub(h) \/ OwnerAnswers(h) \/ ProbeFindsNobody(h) \/ WriteRuntimeInfo(h) \/ MoveAside(h)
                 \/ PublishOrRestore(h) \/ ServeAfterClaim(h) \/ EndRun(h) \/ RemoveRuntimeInfoIfOwned(h)
        PROVE  life'[d] = "crashed" /\ at'[d] = at[d]
    BY <2>2, <2>0, <1>t DEF StartHub, OwnerAnswers, ProbeFindsNobody, WriteRuntimeInfo, MoveAside, PublishOrRestore,
                            ServeAfterClaim, EndRun, RemoveRuntimeInfoIfOwned
  <2>3. ASSUME NEW c \in Commands, StartCommand(c) \/ RuntimeIPCToken(c) \/ DelegateSend(c)
        PROVE  life'[d] = "crashed" /\ at'[d] = at[d]
    BY <2>3, <2>0, <1>t DEF StartCommand, RuntimeIPCToken, DelegateSend
  <2> QED BY <2>1, <2>2, <2>3 DEF SlotNext
<1> QED BY <1>1 DEF HoldersLive

\* Under its lock a caller stays alone with it, and what it read stays true,
\* as long as nobody dies there.
LEMMA LockStep ==
    ASSUME SlotCore, HoldersLive, LockKept, SlotNext, HoldersLive'
    PROVE  LockKept'
<1> USE DEF Alive, Callers, Enter, Leave
<1>t. /\ life \in [Callers -> Lives] /\ at \in [Callers -> Places] /\ dirLock \subseteq Callers
      /\ seenOwner \in [Callers -> SUBSET Descriptors]
      /\ \A c \in Callers : life[c] \notin {"claiming", "releasing", "reading", "crashed"} => at[c] = "rest"
  BY DEF SlotCore, SlotPlaces, TokensTrue
\* A caller that moves outside the lock, or on within it.
<1>0. ASSUME NEW c \in Callers, UNCHANGED <<dirLock, descriptor, seenOwner>>, at'[c] # "judged",
             \A d \in Callers : d # c => life'[d] = life[d] /\ at'[d] = at[d],
             at[c] \in Inside => at'[c] \in Inside,
             Alive(c)' /\ at'[c] \in Inside =>
                Alive(c) /\ at[c] \in Inside /\ at'[c] \in {at[c], "clear"}
      PROVE  LockKept'
  BY <1>0, <1>t DEF LockKept
\* A caller that ends its transaction.
<1>1. ASSUME NEW c \in Callers, dirLock' = {}, UNCHANGED seenOwner,
             Alive(c), at[c] \in Inside, at'[c] = "rest",
             \A d \in Callers : d # c => life'[d] = life[d] /\ at'[d] = at[d]
      PROVE  LockKept'
  BY <1>1 DEF LockKept, Inside
<1>a. ASSUME NEW c \in Callers, MakeLock(c)
      PROVE  LockKept'
  BY <1>a, <1>t DEF LockKept, MakeLock, Inside
<1>b. ASSUME NEW c \in Callers, LockTimesOut(c)
      PROVE  LockKept'
  BY <1>b, <1>0, <1>t DEF LockTimesOut, Inside
<1>c. ASSUME NEW c \in Callers, FindStale(c) \/ ReclaimLock(c)
      PROVE  LockKept'
  BY <1>c, <1>t DEF LockKept, HoldersLive, FindStale, ReclaimLock
<1>i. ASSUME NEW c \in Callers, SlotCrash(c)
      PROVE  LockKept'
  <2>1. at'[c] \notin Inside /\ at' = at /\ life'[c] = "crashed" /\ \A d \in Callers : d # c => life'[d] = life[d]
    BY <1>i, <1>t DEF HoldersLive, SlotCrash
  <2> QED BY <1>i, <2>1, <1>0 DEF SlotCrash, LockKept
<1>d. ASSUME NEW c \in Callers, ReadRuntimeInfo(c)
      PROVE  LockKept'
  BY <1>d, <1>t DEF LockKept, ReadRuntimeInfo, Inside
<1>e. ASSUME NEW h \in HubProcs, StartHub(h) \/ ServeAfterClaim(h) \/ EndRun(h) \/ ProbeFindsNobody(h)
      PROVE  LockKept'
  BY <1>e, <1>0, <1>t DEF StartHub, ServeAfterClaim, EndRun, ProbeFindsNobody, Inside, LockKept
<1>f. ASSUME NEW h \in HubProcs, OwnerAnswers(h) \/ WriteRuntimeInfo(h) \/ PublishOrRestore(h) \/ RemoveRuntimeInfoIfOwned(h)
      PROVE  LockKept'
  BY <1>f, <1>1, <1>t DEF OwnerAnswers, WriteRuntimeInfo, PublishOrRestore, RemoveRuntimeInfoIfOwned, Inside
<1>j. ASSUME NEW h \in HubProcs, MoveAside(h)
      PROVE  LockKept'
  BY <1>j, <1>t DEF LockKept, MoveAside, Inside
<1>g. ASSUME NEW c \in Commands, StartCommand(c) \/ DelegateSend(c)
      PROVE  LockKept'
  BY <1>g, <1>0, <1>t DEF StartCommand, DelegateSend, Inside, LockKept
<1>h. ASSUME NEW c \in Commands, RuntimeIPCToken(c)
      PROVE  LockKept'
  BY <1>h, <1>1, <1>t DEF RuntimeIPCToken, Inside
<1> QED BY <1>a, <1>b, <1>c, <1>d, <1>e, <1>f, <1>g, <1>h, <1>i, <1>j DEF SlotNext

\* The Hub that has the slot keeps it, until a probe misses it or it ends.
LEMMA HeldStep ==
    ASSUME SlotCore, HoldersLive, LockKept, SlotHeld, SlotNext
    PROVE  SlotHeld'
<1> USE DEF Alive, Callers, Enter, Leave
<1>t. /\ life \in [Callers -> Lives] /\ at \in [Callers -> Places] /\ missed \in Nat
      /\ HubProcs \cap Commands = {} /\ born \in [HubProcs -> 0..MaxBorn]
      /\ \A c \in Callers : life[c] \notin {"claiming", "releasing", "reading", "crashed"} => at[c] = "rest"
  BY SlotAssumption DEF SlotCore, SlotPlaces, TokensTrue
\* Nobody gets a slot, and the descriptor stays.
<1>0. ASSUME UNCHANGED <<descriptor, born, missed>>,
             \A h \in HubProcs : /\ life'[h] \in {"claimed", "serving"} => life[h] \in {"claimed", "serving"}
                                 /\ life'[h] = "claiming" /\ at'[h] \in {"clear", "aside"} =>
                                      life[h] = "claiming" /\ at[h] \in {"clear", "aside"}
      PROVE  SlotHeld'
  BY <1>0 DEF SlotHeld, Info
<1>a. ASSUME NEW c \in Callers, MakeLock(c) \/ FindStale(c) \/ ReclaimLock(c) \/ LockTimesOut(c) \/ ReadRuntimeInfo(c) \/ SlotCrash(c)
      PROVE  SlotHeld'
  BY <1>a, <1>0, <1>t DEF MakeLock, FindStale, ReclaimLock, LockTimesOut, ReadRuntimeInfo, SlotCrash
<1>b. ASSUME NEW h \in HubProcs, OwnerAnswers(h) \/ ServeAfterClaim(h) \/ EndRun(h)
      PROVE  SlotHeld'
  BY <1>b, <1>0, <1>t DEF OwnerAnswers, ServeAfterClaim, EndRun
<1>c. ASSUME NEW h \in HubProcs, StartHub(h)
      PROVE  SlotHeld'
  <2>1. \A g \in HubProcs : /\ life'[g] \in {"claimed", "serving"} => life[g] \in {"claimed", "serving"} /\ Info(g)' = Info(g)
                            /\ life'[g] = "claiming" /\ at'[g] \in {"clear", "aside"} =>
                                 life[g] = "claiming" /\ at[g] \in {"clear", "aside"}
    BY <1>c, <1>t DEF StartHub, Info
  <2>2. UNCHANGED <<descriptor, missed>>
    BY <1>c DEF StartHub
  <2> QED BY <2>1, <2>2 DEF SlotHeld
<1>d. ASSUME NEW h \in HubProcs, ProbeFindsNobody(h)
      PROVE  SlotHeld'
  <2>1. CASE missed' # 0
    BY <2>1 DEF SlotHeld
  <2>2. CASE missed' = 0
    <3>1. missed = 0 /\ (\A t \in seenOwner[h] : ~ Reachable(t)) /\ life[h] = "claiming" /\ at[h] = "looked"
      BY <1>d, <1>t, <2>2 DEF ProbeFindsNobody
    <3>2. seenOwner[h] = descriptor
      BY <3>1 DEF LockKept, Inside
    <3>3. \A g \in HubProcs : life[g] \notin {"claimed", "serving"}
      <4> SUFFICES ASSUME NEW g \in HubProcs, life[g] \in {"claimed", "serving"} PROVE FALSE
        OBVIOUS
      <4>1. Info(g) \in seenOwner[h] /\ Info(g).proc = g
        BY <3>1, <3>2 DEF SlotHeld, Info
      <4> QED BY <3>1, <4>1 DEF Reachable
    <3> QED BY <1>d, <3>3 DEF ProbeFindsNobody, SlotHeld
  <2> QED BY <2>1, <2>2
<1>e. ASSUME NEW h \in HubProcs, WriteRuntimeInfo(h) \/ PublishOrRestore(h) \/ MoveAside(h)
      PROVE  SlotHeld'
  <2> SUFFICES ASSUME missed' = 0 PROVE SlotHeld'
    BY DEF SlotHeld
  <2>1. /\ missed = 0 /\ life[h] = "claiming" /\ at[h] \in {"clear", "aside"} /\ born' = born
        /\ \A g \in HubProcs : g # h => life'[g] = life[g] /\ at'[g] = at[g]
        /\ at'[h] \in {"rest", "aside"}
    BY <1>e, <1>t DEF WriteRuntimeInfo, PublishOrRestore, MoveAside
  <2>2. \A g \in HubProcs : life[g] \notin {"claimed", "serving"}
    BY <2>1 DEF SlotHeld
  <2>3. \A g \in HubProcs : g # h => ~ (life[g] = "claiming" /\ at[g] \in {"clear", "aside"})
    BY <2>1 DEF LockKept, Inside
  <2>4. \/ descriptor' = {Info(h)} /\ life'[h] = "claimed" /\ at'[h] = "rest"
        \/ life'[h] \in {"off", "claiming"}
    BY <1>e, <1>t DEF WriteRuntimeInfo, PublishOrRestore, MoveAside
  <2>5. \A g \in HubProcs : Info(g)' = Info(g)
    BY <2>1 DEF Info
  <2> QED BY <2>1, <2>2, <2>3, <2>4, <2>5 DEF SlotHeld
<1>f. ASSUME NEW h \in HubProcs, RemoveRuntimeInfoIfOwned(h)
      PROVE  SlotHeld'
  <2> SUFFICES ASSUME missed' = 0 PROVE SlotHeld'
    BY DEF SlotHeld
  <2>1. /\ missed = 0 /\ life[h] = "releasing" /\ at[h] = "looked" /\ born' = born
        /\ \A g \in HubProcs : g # h => life'[g] = life[g] /\ at'[g] = at[g]
        /\ at'[h] = "rest" /\ life'[h] = "off"
        /\ descriptor' = IF seenOwner[h] = {Info(h)} THEN {} ELSE descriptor
    BY <1>f, <1>t DEF RemoveRuntimeInfoIfOwned
  <2>2. seenOwner[h] = descriptor
    BY <2>1 DEF LockKept, Inside
  <2>3. \A g \in HubProcs : life[g] \in {"claimed", "serving"} => g # h /\ descriptor = {Info(g)} /\ Info(g)' = Info(g)
    BY <2>1 DEF SlotHeld, Info
  <2>4. \A g \in HubProcs : g # h => Info(g) # Info(h)
    BY DEF Info
  <2>5. \A g \in HubProcs : life[g] \in {"claimed", "serving"} => descriptor' = {Info(g)}
    <3> SUFFICES ASSUME NEW g \in HubProcs, life[g] \in {"claimed", "serving"} PROVE descriptor' = {Info(g)}
      OBVIOUS
    <3>1. {Info(g)} # {Info(h)}
      BY <2>3, <2>4
    <3> QED BY <2>1, <2>2, <2>3, <3>1
  <2> QED BY <2>1, <2>3, <2>5 DEF SlotHeld
<1>g. ASSUME NEW c \in Commands, StartCommand(c) \/ RuntimeIPCToken(c) \/ DelegateSend(c)
      PROVE  SlotHeld'
  BY <1>g, <1>0, <1>t DEF StartCommand, RuntimeIPCToken, DelegateSend
<1> QED BY <1>a, <1>b, <1>c, <1>d, <1>e, <1>f, <1>g DEF SlotNext

\* Nor does a step of another part of the system.
LEMMA CoreStutters == SlotCore /\ UNCHANGED slotVars => SlotCore'
  BY DEF SlotCore, slotVars, SlotPlaces, TokensTrue, CommandReachesItsHub

\* The slot's invariant is inductive.
LEMMA SlotStep == SlotInv /\ [SlotNext]_slotVars => SlotInv'
<1> SUFFICES ASSUME SlotInv, [SlotNext]_slotVars PROVE SlotInv'
  OBVIOUS
<1>1. CASE UNCHANGED slotVars
  <2>1. SlotCore'
    BY <1>1, CoreStutters DEF SlotInv
  <2>2. HoldersLive' => LockKept' /\ SlotHeld'
    BY <1>1 DEF SlotInv, slotVars, HoldersLive, LockKept, SlotHeld, Alive, Info
  <2> QED BY <2>1, <2>2 DEF SlotInv
<1>2. CASE SlotNext
  <2>1. SlotCore'
    BY <1>2, CoreKept DEF SlotInv
  <2>2. ASSUME HoldersLive' PROVE LockKept' /\ SlotHeld'
    <3>1. HoldersLive /\ SlotCore /\ LockKept /\ SlotHeld
      BY <1>2, <2>2, DeathsStay DEF SlotInv
    <3> QED BY <1>2, <2>2, <3>1, LockStep, HeldStep
  <2> QED BY <2>1, <2>2 DEF SlotInv
<1> QED BY <1>1, <1>2

\* A set whose members are all the same has one at most.
LEMMA OneOf ==
    ASSUME NEW S, \A x, y \in S : x = y
    PROVE  Cardinality(S) <= 1
<1>1. CASE S = {}
  BY <1>1, FS_EmptySet
<1>2. CASE S # {}
  <2>1. PICK x : S = {x}
    BY <1>2
  <2> QED BY <2>1, FS_Singleton
<1> QED BY <1>1, <1>2

\* What the invariant says of types and commands.
LEMMA CoreSuffices == SlotCore => SlotTypeOK /\ CommandReachesItsHub
<1> SUFFICES ASSUME SlotCore PROVE SlotTypeOK /\ CommandReachesItsHub
  OBVIOUS
<1>1. Cardinality(descriptor) <= 1
  BY OneOf DEF SlotCore, TokensTrue
<1>2. Cardinality(dirLock) <= 1
  BY OneOf DEF SlotCore, SlotPlaces
<1> QED BY <1>1, <1>2 DEF SlotCore, SlotPlaces, TokensTrue, SlotTypeOK, Lives, Places, Inside

\* A command is executed by the generation whose descriptor it read, whatever
\* the order of claims, ends, deaths and reclaimed locks.
THEOREM CommandsReach == SlotSpec => [](SlotTypeOK /\ CommandReachesItsHub)
<1>1. SlotInit => SlotCore
  BY SlotStarts DEF SlotInv
<1>2. SlotCore /\ [SlotNext]_slotVars => SlotCore'
  BY CoreKept, CoreStutters
<1>3. SlotCore => SlotTypeOK /\ CommandReachesItsHub
  BY CoreSuffices
<1> QED BY <1>1, <1>2, <1>3, PTL DEF SlotSpec

\* With no death inside a transaction the slot has one Hub.
LEMMA HeldByOne ==
    ASSUME SlotCore, SlotHeld
    PROVE  OneHubServes
<1> SUFFICES ASSUME missed = 0
             PROVE  Cardinality({h \in HubProcs : life[h] \in {"claimed", "serving"}}) <= 1
  BY DEF OneHubServes
<1>1. \A g, h \in HubProcs : life[g] \in {"claimed", "serving"} /\ life[h] \in {"claimed", "serving"} => g = h
  <2> SUFFICES ASSUME NEW g \in HubProcs, NEW h \in HubProcs,
                      life[g] \in {"claimed", "serving"}, life[h] \in {"claimed", "serving"}
               PROVE  g = h
    OBVIOUS
  <2>1. Info(g) = Info(h)
    BY DEF SlotHeld
  <2> QED BY <2>1 DEF Info
<1> QED BY <1>1, OneOf

\* Of two Hubs of which one died, the other is the only one that does anything,
\* whatever happens to its locks.
LEMMA OneIsLeft ==
    ASSUME TwoHubs, SlotPlaces, ~HoldersLive
    PROVE  \E h \in HubProcs : \A g \in HubProcs : g # h => life[g] = "crashed"
<1>1. PICK g \in Callers : life[g] = "crashed"
  BY DEF HoldersLive, Alive
<1>2. g \in HubProcs
  BY <1>1 DEF SlotPlaces, TwoHubs
<1> QED BY <1>1, <1>2 DEF TwoHubs

\* Two Hubs of one store do not serve at once while no probe missed a live
\* owner: whatever the starts, ends, deaths and commands, and although two
\* processes may reclaim one dead Hub's lock and the second take away the lock
\* of the first, since of two Hubs only one is left to claim anything then.
THEOREM SlotSafe == TwoHubs /\ SlotSpec => []SlotSound
<1>0. SUFFICES ASSUME TwoHubs PROVE SlotSpec => []SlotSound
  OBVIOUS
<1>1. SlotInit => SlotInv
  BY SlotStarts
<1>2. SlotInv /\ [SlotNext]_slotVars => SlotInv'
  BY SlotStep
<1>3. SlotInv => SlotSound
  <2> SUFFICES ASSUME SlotInv PROVE SlotSound
    OBVIOUS
  <2>1. CASE HoldersLive
    BY <2>1, HeldByOne, CoreSuffices DEF SlotInv, SlotSound
  <2>2. CASE ~HoldersLive
    <3>1. PICK h \in HubProcs : \A g \in HubProcs : g # h => life[g] = "crashed"
      BY <1>0, <2>2, OneIsLeft DEF SlotInv, SlotCore
    <3>2. Cardinality({g \in HubProcs : life[g] \in {"claimed", "serving"}}) <= 1
      BY <3>1, OneOf
    <3> QED BY <3>2, CoreSuffices DEF SlotInv, SlotSound, OneHubServes
  <2> QED BY <2>1, <2>2
<1> QED BY <1>1, <1>2, <1>3, PTL DEF SlotSpec

\* However many Hubs there are: as long as nobody has died in the middle of a
\* transaction on hub.json, one of them serves.
THEOREM SlotHeldWithoutDeaths == SlotSpec => [](HoldersLive => SlotSound)
<1>1. SlotInit => SlotInv
  BY SlotStarts
<1>2. SlotInv /\ [SlotNext]_slotVars => SlotInv'
  BY SlotStep
<1>3. SlotInv => (HoldersLive => SlotSound)
  BY HeldByOne, CoreSuffices DEF SlotInv, SlotSound
<1> QED BY <1>1, <1>2, <1>3, PTL DEF SlotSpec

\* A running Hub is deprived of its descriptor by a claim that missed it only,
\* and never by another Hub's end, whatever dies and whoever reclaims a lock.
THEOREM HubStaysFindable == TwoHubs /\ SlotSpec => RunningHubFindable
<1> DEFINE Taken == \A t \in descriptor :
                      (Reachable(t) /\ Reachable(t)' /\ descriptor' # descriptor)
                      => /\ missed > 0
                         /\ descriptor' # {} \/ \E h \in HubProcs : at[h] = "clear" /\ at'[h] = "aside"
<1>0. SUFFICES ASSUME TwoHubs PROVE SlotSpec => RunningHubFindable
  OBVIOUS
<1>1. SlotInit => SlotInv
  BY SlotStarts
<1>2. SlotInv /\ [SlotNext]_slotVars => SlotInv'
  BY SlotStep
<1>3. SlotInv /\ [SlotNext]_slotVars => [Taken]_slotVars
  <2> SUFFICES ASSUME SlotInv, SlotNext, NEW t \in descriptor, Reachable(t), descriptor' # descriptor
               PROVE  /\ missed > 0
                      /\ descriptor' # {} \/ \E h \in HubProcs : at[h] = "clear" /\ at'[h] = "aside"
    OBVIOUS
  <2>0. /\ missed \in Nat /\ t.proc \in HubProcs /\ \A u \in descriptor : u = t
        /\ life \in [Callers -> Lives] /\ at \in [Callers -> Places]
    BY SlotAssumption DEF SlotInv, SlotCore, SlotPlaces, TokensTrue, Descriptors
  <2>1. PICK h \in HubProcs : WriteRuntimeInfo(h) \/ MoveAside(h) \/ PublishOrRestore(h) \/ RemoveRuntimeInfoIfOwned(h)
    BY DEF SlotNext, MakeLock, FindStale, ReclaimLock, LockTimesOut, ReadRuntimeInfo, SlotCrash, StartHub, OwnerAnswers,
           ProbeFindsNobody, ServeAfterClaim, EndRun, StartCommand, RuntimeIPCToken, DelegateSend
  <2>2. life[h] \in {"claiming", "releasing"} /\ at[h] \in {"looked", "clear", "aside"}
    BY <2>1 DEF WriteRuntimeInfo, MoveAside, PublishOrRestore, RemoveRuntimeInfoIfOwned
  <2>3. HoldersLive
    <3> SUFFICES ASSUME ~HoldersLive PROVE FALSE
      OBVIOUS
    <3>1. PICK g \in HubProcs : \A e \in HubProcs : e # g => life[e] = "crashed"
      BY <1>0, OneIsLeft DEF SlotInv, SlotCore
    <3>2. h = g /\ t.proc = g
      BY <2>0, <2>2, <3>1 DEF Reachable
    <3> QED BY <2>2, <3>2 DEF Reachable
  <2>4. LockKept /\ SlotHeld
    BY <2>3 DEF SlotInv
  <2>5. h \in Callers /\ Alive(h) /\ at[h] \in Inside
    BY <2>2 DEF Callers, Alive, Inside
  <2>6. CASE WriteRuntimeInfo(h) \/ MoveAside(h)
    <3>1. /\ life[h] = "claiming" /\ at[h] = "clear"
          /\ descriptor' = {Info(h)} \/ at'[h] = "aside"
      BY <2>0, <2>5, <2>6 DEF WriteRuntimeInfo, MoveAside
    <3>2. missed # 0
      BY <2>0, <2>4, <3>1 DEF SlotHeld, Reachable
    <3> QED BY <2>0, <3>1, <3>2
  <2>7. CASE PublishOrRestore(h)
    BY <2>4, <2>5, <2>7 DEF LockKept, PublishOrRestore
  <2>8. CASE RemoveRuntimeInfoIfOwned(h)
    <3>1. seenOwner[h] = {Info(h)} /\ life[h] = "releasing" /\ at[h] = "looked"
      BY <2>8 DEF RemoveRuntimeInfoIfOwned
    <3>2. descriptor = {Info(h)}
      BY <2>4, <2>5, <3>1 DEF LockKept
    <3>3. t.proc = h
      BY <3>2 DEF Info
    <3> QED BY <3>1, <3>3 DEF Reachable
  <2> QED BY <2>1, <2>6, <2>7, <2>8
<1> HIDE DEF Taken
<1>4. SlotSpec => [][Taken]_slotVars
  BY <1>1, <1>2, <1>3, PTL DEF SlotSpec
<1> QED BY <1>4 DEF Taken, RunningHubFindable
=============================================================================
