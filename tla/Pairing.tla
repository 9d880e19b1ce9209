------------------------------- MODULE Pairing -------------------------------
(***************************************************************************)
(* Two machines pair (internal/pairing/handshake.go, pair.go; the approval *)
(* dialogs of internal/hub): each sends its hello, shows its user the code *)
(* of this attempt, sends the user's decision, waits for the other's, and  *)
(* saves the peer when both said yes.  A machine may later remove the      *)
(* other and tell it so (unpair_notify.go).                                *)
(*                                                                         *)
(* An attempt is known by its dialer; both machines may dial at once.  The *)
(* framed exchange of a Hub and the older one of `tantu pair' differ in    *)
(* who speaks first; after the older one the dialing machine once more     *)
(* stores the peer it finds in its list, to correct the address.  A Hub    *)
(* started with --auto-pair accepts without asking.  A connection is       *)
(* ordered and may break at any moment with what it still carried.         *)
(***************************************************************************)
EXTENDS Integers, Sequences, FiniteSets

CONSTANTS Machines,      \* two of them
          MaxPending,    \* approval dialogs open at once (10)
          MaxUnpairs,    \* bound: removals by the users
          MaxFaults      \* bound: broken connections, expired contexts, failed saves

ASSUME PairingConstants ==
    /\ \E m, n \in Machines : m # n /\ Machines = {m, n}
    /\ MaxPending \in Nat /\ MaxFaults \in Nat

VARIABLES framed,    \* [Machines -> does the attempt it dials use the framed exchange]
          auto,      \* [Machines -> does its Hub accept pairings without asking]
          side,      \* [<<attempt, machine>> -> where its handshake stands]
          wire,      \* [<<attempt, machine>> -> messages on their way to it]
          dialog,    \* [<<attempt, machine>> -> {} or {its approval dialog}]
          answered,  \* [<<attempt, machine>> -> {} or {the answer its user was told was taken}]
          trusts,    \* [Machines -> is the other in its store]
          relist,    \* [Machines -> "no", "held" or "done": storing the listed peer again]
          notices,   \* [Machines -> removal notices on their way to it]
          unpairs, faults
pairVars == <<framed, auto, side, wire, dialog, answered, trusts, relist, notices, unpairs, faults>>

Other(m) == CHOOSE n \in Machines : n # m
Sides == Machines \X Machines      \* <<dialer, machine>>
Far(s) == <<s[1], Other(s[2])>>
IsDialer(s) == s[1] = s[2]

PairingInit ==
    /\ framed \in [Machines -> BOOLEAN] /\ auto \in [Machines -> BOOLEAN]
    /\ side = [s \in Sides |-> "idle"] /\ wire = [s \in Sides |-> <<>>]
    /\ dialog = [s \in Sides |-> {}] /\ answered = [s \in Sides |-> {}]
    /\ trusts = [m \in Machines |-> FALSE] /\ relist = [m \in Machines |-> "no"]
    /\ notices = [m \in Machines |-> 0] /\ unpairs = 0 /\ faults = 0

Move(s, from, to) == side[s] = from /\ side' = [side EXCEPT ![s] = to]
Arrives(s, msg) == wire[s] # <<>> /\ Head(wire[s]) = msg
Send(s, msg) == wire' = [wire EXCEPT ![Far(s)] = Append(@, msg)]
TakeAndSend(s, msg) == wire' = [wire EXCEPT ![s] = Tail(@), ![Far(s)] = Append(@, msg)]
Take(s) == wire' = [wire EXCEPT ![s] = Tail(@)]
KeepTrust == UNCHANGED <<trusts, relist, notices, unpairs>>

(* ------------------------------- hellos -------------------------------- *)

\* dialInBandPairing: the framed exchange, or the older one when nothing
\* answers on the Hub's port.
DialInBandPairing(m) ==
    LET s == <<m, m>> IN
    /\ side[s] = "idle" /\ side[Far(s)] = "idle"
    /\ IF framed[m]
       THEN side' = [side EXCEPT ![s] = "hello"]
       ELSE side' = [side EXCEPT ![s] = "hello", ![Far(s)] = "hello"]
    /\ IF framed[m]
       THEN Send(s, "hello")
       ELSE wire' = [wire EXCEPT ![s] = <<"hello">>, ![Far(s)] = <<"hello">>]
    /\ UNCHANGED <<framed, auto, dialog, answered, faults>> /\ KeepTrust

\* A Hub answers the first envelope of a connection with its own hello.
HandleInboundHello(s) ==
    /\ framed[s[1]] /\ ~IsDialer(s) /\ Arrives(s, "hello")
    /\ Move(s, "idle", "ask") /\ TakeAndSend(s, "hello")
    /\ UNCHANGED <<framed, auto, dialog, answered, faults>> /\ KeepTrust
ResponderInBandHello(s) ==
    /\ framed[s[1]] /\ IsDialer(s) /\ Arrives(s, "hello")
    /\ Move(s, "hello", "ask") /\ Take(s)
    /\ UNCHANGED <<framed, auto, dialog, answered, faults>> /\ KeepTrust
\* In the older exchange both speak first.
InitiatorHello(s) ==
    /\ ~framed[s[1]] /\ ~IsDialer(s) /\ Arrives(s, "hello")
    /\ Move(s, "hello", "ask") /\ Take(s)
    /\ UNCHANGED <<framed, auto, dialog, answered, faults>> /\ KeepTrust
ResponderHello(s) ==
    /\ ~framed[s[1]] /\ IsDialer(s) /\ Arrives(s, "hello")
    /\ Move(s, "hello", "ask") /\ Take(s)
    /\ UNCHANGED <<framed, auto, dialog, answered, faults>> /\ KeepTrust

(* -------------------------- the user's answer -------------------------- *)

Open(m) == {s \in Sides : s[2] = m /\ dialog[s] # {}}

\* The confirmation callback of the Hub (OnPairing) and of its dashboard:
\* with --auto-pair the answer is yes.
AutoAccept(s) ==
    /\ auto[s[2]] /\ Move(s, "ask", "say_yes")
    /\ UNCHANGED <<framed, auto, wire, dialog, answered, faults>> /\ KeepTrust
\* Without it a dialog, unless too many are open, which counts as a no.
AskUser(s) ==
    /\ side[s] = "ask" /\ ~auto[s[2]]
    /\ IF Cardinality(Open(s[2])) >= MaxPending
       THEN Move(s, "ask", "say_no") /\ UNCHANGED dialog
       ELSE Move(s, "ask", "asking") /\ dialog' = [dialog EXCEPT ![s] = {"open"}]
    /\ UNCHANGED <<framed, auto, wire, answered, faults>> /\ KeepTrust

\* The user presses a button, and is told whether the answer was taken.
ResolvePendingPairing(s, yes) ==
    /\ dialog[s] = {"open"}
    /\ dialog' = [dialog EXCEPT ![s] = {IF yes THEN "yes" ELSE "no"}]
    /\ answered' = [answered EXCEPT ![s] = {yes}]
    /\ UNCHANGED <<framed, auto, side, wire, faults>> /\ KeepTrust

\* 60 seconds pass (or the Hub stops): the dialog ends with the answer it
\* already has, or with a no.
TerminatePendingPairing(s) ==
    LET d == IF dialog[s] = {"open"} THEN {"no"} ELSE dialog[s] IN
    /\ side[s] = "asking" /\ dialog[s] # {}
    /\ side' = [side EXCEPT ![s] = IF d = {"yes"} THEN "say_yes" ELSE "say_no"]
    /\ dialog' = [dialog EXCEPT ![s] = {}]
    /\ UNCHANGED <<framed, auto, wire, answered, faults>> /\ KeepTrust
\* The callback wakes up to the decision.
TakeDecision(s) ==
    /\ side[s] = "asking" /\ dialog[s] \in {{"yes"}, {"no"}}
    /\ side' = [side EXCEPT ![s] = IF dialog[s] = {"yes"} THEN "say_yes" ELSE "say_no"]
    /\ dialog' = [dialog EXCEPT ![s] = {}]
    /\ UNCHANGED <<framed, auto, wire, answered, faults>> /\ KeepTrust

(* ------------------------------ decisions ------------------------------ *)

Accepted(s) == side[s] = "sent_yes"
SendDecision(s) ==
    /\ \/ Move(s, "say_yes", "sent_yes") /\ Send(s, "yes")
       \/ Move(s, "say_no", "sent_no") /\ Send(s, "no")
    /\ UNCHANGED <<framed, auto, dialog, answered, faults>> /\ KeepTrust

SaveOnBothYes_Theirs(s) ==
    \/ /\ Arrives(s, "yes")
       /\ side' = [side EXCEPT ![s] = "saved"] /\ trusts' = [trusts EXCEPT ![s[2]] = TRUE]
       /\ UNCHANGED faults
    \/ /\ Arrives(s, "no")
       /\ side' = [side EXCEPT ![s] = "refused"]
       /\ UNCHANGED <<trusts, faults>>

\* Both said yes: the peer is saved, unless saving fails.
SaveOnBothYes(s) ==
    \/ /\ Accepted(s) /\ Arrives(s, "yes")
       /\ side' = [side EXCEPT ![s] = "saved"] /\ trusts' = [trusts EXCEPT ![s[2]] = TRUE]
       /\ UNCHANGED faults
    \/ /\ Accepted(s) /\ Arrives(s, "yes") /\ faults < MaxFaults
       /\ side' = [side EXCEPT ![s] = "failed"] /\ faults' = faults + 1
       /\ UNCHANGED trusts
    \/ /\ Arrives(s, "no") \/ (~Accepted(s) /\ Arrives(s, "yes"))
       /\ side' = [side EXCEPT ![s] = "refused"]
       /\ UNCHANGED <<trusts, faults>>
ReceiveDecision(s) ==
    /\ side[s] \in {"sent_yes", "sent_no"} /\ SaveOnBothYes(s) /\ Take(s)
    /\ UNCHANGED <<framed, auto, dialog, answered, relist, notices, unpairs>>

\* After the older exchange the machine that dialed looks its new peer up in
\* its list ...
RelistReads(m) ==
    /\ ~framed[m] /\ side[<<m, m>>] = "saved" /\ relist[m] = "no"
    /\ relist' = [relist EXCEPT ![m] = IF trusts[m] THEN "held" ELSE "done"]
    /\ UNCHANGED <<framed, auto, side, wire, dialog, answered, trusts, notices, unpairs, faults>>
\* ... and stores what it found with the address it dialed; an error is ignored.
RelistAdds(m) ==
    /\ relist[m] = "held" /\ relist' = [relist EXCEPT ![m] = "done"]
    /\ \/ trusts' = [trusts EXCEPT ![m] = TRUE]
       \/ trusts' = trusts
    /\ UNCHANGED <<framed, auto, side, wire, dialog, answered, notices, unpairs, faults>>

(* ------------------------------- faults -------------------------------- *)

Reading(s) == side[s] \in {"idle", "hello", "sent_yes", "sent_no"}

\* The connection breaks, and what was on its way may or may not arrive.
BreakConnection(a) ==
    /\ faults < MaxFaults /\ faults' = faults + 1
    /\ \E lost \in SUBSET {s \in Sides : s[1] = a /\ wire[s] # <<>> /\ Reading(s)} :
          /\ lost # {}
          /\ wire' = [s \in Sides |-> IF s \in lost THEN <<>> ELSE wire[s]]
          /\ side' = [s \in Sides |-> IF s \in lost THEN "failed" ELSE side[s]]
    /\ UNCHANGED <<framed, auto, dialog, answered>> /\ KeepTrust

\* The context of a handshake expires (90 seconds, 2 or 10 minutes), or its
\* connection fails under it: it ends with an error.  A dialog stays open for
\* the rest of its minute; its answer goes nowhere.
HandshakeFails(s) ==
    /\ side[s] \notin {"idle", "failed", "saved", "refused"}
    /\ faults < MaxFaults /\ faults' = faults + 1
    /\ side' = [side EXCEPT ![s] = "failed"]
    /\ UNCHANGED <<framed, auto, wire, dialog, answered>> /\ KeepTrust
\* The other end then reads the end of the stream once it has read the rest.
PeerGone(s) ==
    /\ Reading(s) /\ side[s] # "idle" /\ wire[s] = <<>> /\ side[Far(s)] = "failed"
    /\ side' = [side EXCEPT ![s] = "failed"]
    /\ UNCHANGED <<framed, auto, wire, dialog, answered, faults>> /\ KeepTrust
CloseDialog(s) ==
    /\ side[s] # "asking" /\ dialog[s] # {}
    /\ dialog' = [dialog EXCEPT ![s] = {}]
    /\ UNCHANGED <<framed, auto, side, wire, answered, faults>> /\ KeepTrust

(* ------------------------------ unpairing ------------------------------ *)

\* The dashboard's remove button; the notice is dialled in the background.
RemoveAndNotify(m) ==
    /\ trusts[m] /\ unpairs < MaxUnpairs
    /\ trusts' = [trusts EXCEPT ![m] = FALSE]
    /\ notices' = [notices EXCEPT ![Other(m)] = @ + 1]
    /\ unpairs' = unpairs + 1
    /\ UNCHANGED <<framed, auto, side, wire, dialog, answered, relist, faults>>
\* NotifyUnpaired is best effort.
LoseNotice(m) ==
    /\ notices[m] > 0 /\ faults < MaxFaults /\ faults' = faults + 1
    /\ notices' = [notices EXCEPT ![m] = @ - 1]
    /\ UNCHANGED <<framed, auto, side, wire, dialog, answered, relist, trusts, unpairs>>
\* The dispatcher hands a notice on only from a peer it still trusts.
ApplyPeerUnpaired(m) ==
    /\ notices[m] > 0
    /\ notices' = [notices EXCEPT ![m] = @ - 1]
    /\ trusts' = [trusts EXCEPT ![m] = FALSE]
    /\ UNCHANGED <<framed, auto, side, wire, dialog, answered, relist, unpairs, faults>>

PairingNext ==
    \/ \E s \in Sides :
          \/ HandleInboundHello(s) \/ ResponderInBandHello(s) \/ InitiatorHello(s) \/ ResponderHello(s)
          \/ AutoAccept(s) \/ AskUser(s) \/ (\E yes \in BOOLEAN : ResolvePendingPairing(s, yes))
          \/ TerminatePendingPairing(s) \/ TakeDecision(s)
          \/ SendDecision(s) \/ ReceiveDecision(s) \/ HandshakeFails(s) \/ PeerGone(s) \/ CloseDialog(s)
    \/ \E m \in Machines : DialInBandPairing(m) \/ BreakConnection(m) \/ RelistReads(m) \/ RelistAdds(m)
                           \/ RemoveAndNotify(m) \/ LoseNotice(m) \/ ApplyPeerUnpaired(m)
PairingSpec == PairingInit /\ [][PairingNext]_pairVars

(* ----------------------------- properties ------------------------------ *)

SideStates == {"idle", "hello", "ask", "asking", "say_yes", "say_no",
               "sent_yes", "sent_no", "saved", "refused", "failed"}
PairingTypeOK ==
    /\ framed \in [Machines -> BOOLEAN] /\ auto \in [Machines -> BOOLEAN]
    /\ side \in [Sides -> SideStates] /\ relist \in [Machines -> {"no", "held", "done"}]
    /\ dialog \in [Sides -> {{}, {"open"}, {"yes"}, {"no"}}]
    /\ answered \in [Sides -> {{}, {TRUE}, {FALSE}}]
    /\ trusts \in [Machines -> BOOLEAN] /\ notices \in [Machines -> Nat]

\* This machine's part of the attempt is agreed to: by its user in the
\* dialog, or beforehand by whoever started its Hub with --auto-pair.
Consents(s) == answered[s] = {TRUE} \/ auto[s[2]]

\* A machine trusts the other only if both machines consented to one and the
\* same attempt: nothing on the way (the other's decision, a dialog that ran
\* out, a broken connection) stands in for either user.
TrustNeedsBothYes ==
    \A m \in Machines : trusts[m] =>
        \E a \in Machines : \A n \in Machines : Consents(<<a, n>>)

\* The answer a user was told was taken is the one the machine acts on, even
\* when it comes as the dialog's minute runs out (terminatePendingPairing
\* keeps a decision that is there already); a no is nobody's yes.
AnswerIsUsed ==
    \A s \in Sides :
        /\ side[s] \in {"say_yes", "sent_yes", "saved"} => Consents(s)
        /\ side[s] \in {"say_no", "sent_no"} => ~Consents(s)

\* Without a fault the two machines end an attempt alike: both trust each
\* other or neither does.  (With one they may not: the machine that says yes
\* last saves the peer and the other may never hear it.)
AttemptsEndAlike ==
    /\ faults = 0 /\ unpairs = 0
    /\ \A s \in Sides : side[s] \in {"idle", "saved", "refused"}
    => \A m, n \in Machines : trusts[m] = trusts[n]

\* A pairing is what both users agreed to, on both machines.
TrustAgreed == PairingTypeOK /\ TrustNeedsBothYes /\ AnswerIsUsed /\ AttemptsEndAlike
=============================================================================
