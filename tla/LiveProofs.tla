----------------------------- MODULE LiveProofs -----------------------------
(***************************************************************************)
(* The background work of a running Hub, for any number of peers, probes,  *)
(* hosts, Start and Stop calls, connections and sessions: an inductive     *)
(* invariant of each part of MCLive, and from all five that what the Hub   *)
(* keeps stays bounded (peer_health.go, discovery.go, hub.go,              *)
(* conn_dispatcher.go).                                                    *)
(***************************************************************************)
EXTENDS MCLive, SequenceTheorems, FiniteSetTheorems, TLAPS

\* The values a function takes are not more than its arguments.
LEMMA ImageBound ==
    ASSUME NEW S, IsFiniteSet(S), NEW g, NEW T, g \in [S -> T], \A y \in T : \E x \in S : y = g[x]
    PROVE  IsFiniteSet(T) /\ Cardinality(T) <= Cardinality(S)
<1>1. g \in Surjection(S, T)
  BY DEF Surjection
<1> QED BY <1>1, FS_Surjection

\* None or one.
LEMMA OneAtMost == ASSUME NEW S, S = {} \/ \E x : S = {x} PROVE Cardinality(S) <= 1
<1>1. CASE S = {}
  BY <1>1, FS_EmptySet
<1>2. CASE \E x : S = {x}
  BY <1>2, FS_Singleton
<1> QED BY <1>1, <1>2

-----------------------------------------------------------------------------
(* Peer health.                                                            *)

\* The places the scheduler of the probes can be at.
SchedulerStates == {"wait", "sync", "clear", "collect", "start", "gone"}

\* What is in a seat: nothing, or one probe of one peer.
SeatOK(S) == S = {} \/ \E q \in Probed : \E s, v : S = {[peer |-> q, at |-> s, verdict |-> v]}

\* The variables of the scheduler and its probes hold what their declarations say.
HealthFields ==
    /\ paired \subseteq Probed /\ probes \subseteq Probed /\ due \subseteq probes
    /\ rung \in [Probed -> 0..MaxRung]
    /\ sched \in [at : SchedulerStates, list : SUBSET Probed, dropped : SUBSET Probed, start : SUBSET Probed]
    /\ seat = [i \in ProbeSlots |-> seat[i]] /\ \A i \in ProbeSlots : SeatOK(seat[i])
    /\ health = [p \in Probed |-> health[p]]
    /\ \A p \in Probed : health[p] = {} \/ \E v : health[p] = {v}
    /\ dials \in {0, 1} /\ bgStopped \in BOOLEAN
    /\ stopping \in {"no", "cancelled", "waiting", "returned"}

\* The door is closed before Stop waits; between two ticks the scheduler owes
\* nobody the clearing of a record.
DoorShut == stopping \in {"waiting", "returned"} => bgStopped
NothingOwed == sched.at # "clear" => sched.dropped = {}

\* The inductive invariant of the probes.
HealthInv == HealthFields /\ DoorShut /\ NothingOwed /\ HealthBounded

\* A step of the scheduler that moves no probe and clears no record.
LEMMA QuietTick ==
    ASSUME HealthInv, UNCHANGED <<paired, probes, rung, due, seat, health>>, Rest,
           NEW at \in SchedulerStates, NEW list \in SUBSET Probed, NEW start \in SUBSET Probed,
           sched' = [at |-> at, list |-> list, dropped |-> {}, start |-> start], sched.dropped = {}
    PROVE  HealthInv'
<1>1. sched' \in [at : SchedulerStates, list : SUBSET Probed, dropped : SUBSET Probed, start : SUBSET Probed]
  OBVIOUS
<1>2. HealthFields'
  BY <1>1 DEF HealthInv, HealthFields, Rest
<1>3. DoorShut' /\ NothingOwed' /\ UntrustedForgotten'
  BY DEF HealthInv, DoorShut, NothingOwed, Rest, HealthBounded, UntrustedForgotten
<1>4. StoppedIsQuiet'
  BY DEF HealthInv, HealthBounded, StoppedIsQuiet, Working, Rest
<1> QED BY <1>2, <1>3, <1>4 DEF HealthInv, HealthBounded

\* A step that only moves probes, and starts none once the door is shut.
LEMMA SeatMoves ==
    ASSUME HealthInv, UNCHANGED <<paired, probes, rung, due, health>>, Rest,
           sched' \in [at : SchedulerStates, list : SUBSET Probed, dropped : SUBSET Probed, start : SUBSET Probed],
           sched'.dropped = sched.dropped, sched'.at = "clear" <=> sched.at = "clear",
           NEW S, seat' = [i \in ProbeSlots |-> S[i]],
           \A i \in ProbeSlots : SeatOK(S[i]),
           bgStopped => \A i \in ProbeSlots : (\E w \in S[i] : w.at # "held") => Working(i)
    PROVE  HealthInv'
<1>1. seat' = [i \in ProbeSlots |-> seat'[i]] /\ \A i \in ProbeSlots : seat'[i] = S[i]
  OBVIOUS
<1>2. HealthFields'
  BY <1>1 DEF HealthInv, HealthFields, Rest
<1>3. DoorShut' /\ NothingOwed' /\ UntrustedForgotten'
  BY DEF HealthInv, DoorShut, NothingOwed, Rest, HealthBounded, UntrustedForgotten
<1>4. StoppedIsQuiet'
  <2>1. stopping = "returned" => bgStopped
    BY DEF HealthInv, DoorShut
  <2> QED BY <1>1, <2>1 DEF HealthInv, HealthBounded, StoppedIsQuiet, Working, Rest
<1> QED BY <1>2, <1>3, <1>4 DEF HealthInv, HealthBounded

\* A step of Stop, of a dial or of the trust leaves the probes and the records.
LEMMA ProbesUntouched ==
    ASSUME HealthInv, UNCHANGED <<probes, rung, due, sched, seat, health>>,
           paired' \subseteq Probed, dials' \in {0, 1}, bgStopped' \in BOOLEAN,
           stopping' \in {"no", "cancelled", "waiting", "returned"}, DoorShut',
           stopping' = "returned" => dials' = 0 /\ \A i \in ProbeSlots : ~Working(i)
    PROVE  HealthInv'
<1>1. HealthFields'
  BY DEF HealthInv, HealthFields
<1>2. NothingOwed' /\ UntrustedForgotten' /\ StoppedIsQuiet'
  BY DEF HealthInv, NothingOwed, HealthBounded, UntrustedForgotten, StoppedIsQuiet, Working
<1> QED BY <1>1, <1>2 DEF HealthInv, HealthBounded

\* Every step of scheduler, probe, trust and Stop keeps it.
LEMMA HealthStepKeeps == HealthInv /\ [PeerHealthNext]_healthVars => HealthInv'
<1> SUFFICES ASSUME HealthInv, [PeerHealthNext]_healthVars PROVE HealthInv'
  OBVIOUS
<1>0. /\ paired \subseteq Probed /\ probes \subseteq Probed /\ due \subseteq probes
      /\ rung \in [Probed -> 0..MaxRung] /\ MaxRung \in Nat \ {0}
      /\ sched \in [at : SchedulerStates, list : SUBSET Probed, dropped : SUBSET Probed, start : SUBSET Probed]
      /\ seat = [i \in ProbeSlots |-> seat[i]] /\ \A i \in ProbeSlots : SeatOK(seat[i])
      /\ health = [p \in Probed |-> health[p]]
      /\ \A p \in Probed : health[p] = {} \/ \E v : health[p] = {v}
      /\ sched.at # "clear" => sched.dropped = {}
  BY PeerHealthConstants DEF HealthInv, HealthFields, NothingOwed
<1>1. CASE UNCHANGED healthVars
  BY <1>1 DEF healthVars, HealthInv, HealthFields, DoorShut, NothingOwed, HealthBounded,
              UntrustedForgotten, StoppedIsQuiet, Working
<1>2. CASE TickReadsStore
  <2>1. sched' = [at |-> "sync", list |-> paired, dropped |-> {}, start |-> sched.start]
    BY <1>0, <1>2 DEF TickReadsStore, At
  <2> QED BY <1>0, <1>2, <2>1, QuietTick DEF TickReadsStore, At, SchedulerStates
<1>3. CASE TickEnds
  <2>1. sched' = [at |-> "wait", list |-> {}, dropped |-> {}, start |-> {}] /\ sched.dropped = {}
    BY <1>0, <1>3 DEF TickEnds, At, Idle
  <2> QED BY <1>3, <2>1, QuietTick DEF TickEnds, SchedulerStates
<1>4. CASE SchedulerExits
  <2>1. sched' = [at |-> "gone", list |-> sched.list, dropped |-> {}, start |-> sched.start] /\ sched.dropped = {}
    BY <1>0, <1>4 DEF SchedulerExits, At
  <2> QED BY <1>0, <1>4, <2>1, QuietTick DEF SchedulerExits, SchedulerStates
<1>5. CASE SyncProbes
  <2>1. sched' = [at |-> "clear", list |-> sched.list, dropped |-> probes \ sched.list, start |-> sched.start]
        /\ sched.dropped = {}
    BY <1>0, <1>5 DEF SyncProbes, At
  <2>2. sched' \in [at : SchedulerStates, list : SUBSET Probed, dropped : SUBSET Probed, start : SUBSET Probed]
        /\ sched'.at = "clear" /\ sched'.dropped = probes \ sched.list
    BY <1>0, <2>1 DEF SchedulerStates
  <2>3. rung' \in [Probed -> 0..MaxRung]
    BY <1>0, <1>5 DEF SyncProbes
  <2>4. UNCHANGED <<paired, seat, health>> /\ Rest /\ probes' = sched.list /\ due' = due \cap sched.list
    BY <1>5 DEF SyncProbes
  <2>5. HealthFields'
    <3>1. probes' \subseteq Probed /\ due' \subseteq probes'
      BY <1>0, <2>4
    <3>2. dials' \in {0, 1} /\ bgStopped' \in BOOLEAN /\ stopping' \in {"no", "cancelled", "waiting", "returned"}
      BY <2>4 DEF HealthInv, HealthFields, Rest
    <3> QED BY <1>0, <2>2, <2>3, <2>4, <3>1, <3>2 DEF HealthFields
  <2>6. DoorShut' /\ NothingOwed' /\ UntrustedForgotten'
    BY <2>1, <2>2, <2>4 DEF HealthInv, DoorShut, NothingOwed, Rest, HealthBounded, UntrustedForgotten
  <2>7. StoppedIsQuiet'
    BY <2>4 DEF HealthInv, HealthBounded, StoppedIsQuiet, Working, Rest
  <2> QED BY <2>5, <2>6, <2>7 DEF HealthInv, HealthBounded
<1>6. CASE ClearDropped
  <2>1. sched' = [at |-> "collect", list |-> sched.list, dropped |-> {}, start |-> sched.start]
    BY <1>0, <1>6 DEF ClearDropped
  <2>2. sched' \in [at : SchedulerStates, list : SUBSET Probed, dropped : SUBSET Probed, start : SUBSET Probed]
        /\ sched'.at = "collect" /\ sched'.dropped = {}
    BY <1>0, <2>1 DEF SchedulerStates
  <2>3. health' = [p \in Probed |-> health'[p]]
        /\ \A p \in Probed : health'[p] = IF p \in sched.dropped THEN {} ELSE health[p]
    BY <1>6 DEF ClearDropped
  <2>4. UNCHANGED <<paired, probes, rung, due, seat>> /\ Rest
    BY <1>6 DEF ClearDropped
  <2>5. HealthFields'
    <3>1. \A p \in Probed : health'[p] = {} \/ \E v : health'[p] = {v}
      BY <1>0, <2>3
    <3>2. dials' \in {0, 1} /\ bgStopped' \in BOOLEAN /\ stopping' \in {"no", "cancelled", "waiting", "returned"}
      BY <2>4 DEF HealthInv, HealthFields, Rest
    <3> QED BY <1>0, <2>2, <2>3, <2>4, <3>1, <3>2 DEF HealthFields
  <2>6. DoorShut' /\ NothingOwed' /\ UntrustedForgotten'
    BY <2>2, <2>3, <2>4 DEF HealthInv, DoorShut, NothingOwed, Rest, HealthBounded, UntrustedForgotten
  <2>7. StoppedIsQuiet'
    BY <2>4 DEF HealthInv, HealthBounded, StoppedIsQuiet, Working, Rest
  <2> QED BY <2>5, <2>6, <2>7 DEF HealthInv, HealthBounded
<1>7. CASE CollectDue
  <2>1. PICK chosen \in SUBSET (due \cap probes) : \E taken \in [chosen -> FreeSlots] :
               seat' = [i \in ProbeSlots |->
                              IF \E p \in chosen : taken[p] = i
                              THEN {[peer |-> CHOOSE p \in chosen : taken[p] = i, at |-> "held", verdict |-> {}]}
                              ELSE seat[i]]
    BY <1>7 DEF CollectDue
  <2>1a. PICK taken \in [chosen -> FreeSlots] :
               seat' = [i \in ProbeSlots |->
                              IF \E p \in chosen : taken[p] = i
                              THEN {[peer |-> CHOOSE p \in chosen : taken[p] = i, at |-> "held", verdict |-> {}]}
                              ELSE seat[i]]
    BY <2>1
  <2> DEFINE S == [i \in ProbeSlots |->
                              IF \E p \in chosen : taken[p] = i
                              THEN {[peer |-> CHOOSE p \in chosen : taken[p] = i, at |-> "held", verdict |-> {}]}
                              ELSE seat[i]]
  <2>2. ASSUME NEW i \in ProbeSlots
        PROVE  SeatOK(S[i]) /\ ((\E w \in S[i] : w.at # "held") => Working(i))
    <3>1. CASE \E p \in chosen : taken[p] = i
      <4>1. PICK q \in Probed : S[i] = {[peer |-> q, at |-> "held", verdict |-> {}]}
        BY <1>0, <3>1
      <4> HIDE DEF S
      <4>2. \A w \in S[i] : w.at = "held"
        BY <4>1
      <4>3. \E s, v : S[i] = {[peer |-> q, at |-> s, verdict |-> v]}
        BY <4>1
      <4> QED BY <4>2, <4>3 DEF SeatOK
    <3>2. CASE ~ \E p \in chosen : taken[p] = i
      <4>1. S[i] = seat[i]
        BY <3>2
      <4> HIDE DEF S
      <4> QED BY <1>0, <4>1 DEF Working
    <3> QED BY <3>1, <3>2
  <2>3. seat' = [i \in ProbeSlots |-> S[i]]
    BY <2>1a
  <2>4. sched' \in [at : SchedulerStates, list : SUBSET Probed, dropped : SUBSET Probed, start : SUBSET Probed]
        /\ sched'.dropped = sched.dropped /\ sched.at # "clear" /\ sched'.at # "clear"
    BY <1>0, <1>7 DEF CollectDue, At, SchedulerStates
  <2>5. UNCHANGED <<paired, probes, rung, due, health>> /\ Rest
    BY <1>7 DEF CollectDue
  <2> HIDE DEF S
  <2> QED BY <2>2, <2>3, <2>4, <2>5, SeatMoves
<1>8. ASSUME NEW i \in ProbeSlots, StartProbe(i)
      PROVE  HealthInv'
  <2> DEFINE S == [seat EXCEPT ![i] = IF bgStopped THEN {} ELSE {[w EXCEPT !.at = "dialing"] : w \in @}]
  <2>1. SeatOK(S[i]) /\ (bgStopped => S[i] = {}) /\ \A j \in ProbeSlots : j # i => S[j] = seat[j]
    <3>1. bgStopped => S[i] = {}
      BY <1>0
    <3>2. ~bgStopped => S[i] = {[w EXCEPT !.at = "dialing"] : w \in seat[i]}
      BY <1>0
    <3>3. PICK q \in Probed : \E s, v : seat[i] = {[peer |-> q, at |-> s, verdict |-> v]}
      BY <1>0, <1>8 DEF StartProbe, Held, SeatOK
    <3>3a. PICK s, v : seat[i] = {[peer |-> q, at |-> s, verdict |-> v]}
      BY <3>3
    <3>4. {[w EXCEPT !.at = "dialing"] : w \in seat[i]} = {[peer |-> q, at |-> "dialing", verdict |-> v]}
      BY <3>3a
    <3>5. \A j \in ProbeSlots : j # i => S[j] = seat[j]
      BY <1>0
    <3> HIDE DEF S
    <3> QED BY <3>1, <3>2, <3>4, <3>5 DEF SeatOK
  <2>2. seat' = [j \in ProbeSlots |-> S[j]]
    BY <1>0, <1>8 DEF StartProbe
  <2>3. UNCHANGED <<paired, probes, rung, due, sched, health>> /\ Rest
    BY <1>8 DEF StartProbe
  <2> HIDE DEF S
  <2>4. \A j \in ProbeSlots : SeatOK(S[j])
    BY <1>0, <2>1
  <2>5. bgStopped => \A j \in ProbeSlots : (\E w \in S[j] : w.at # "held") => Working(j)
    BY <2>1 DEF Working
  <2> QED BY <1>0, <2>2, <2>3, <2>4, <2>5, SeatMoves
<1>9. ASSUME NEW i \in ProbeSlots, ResolvePeer(i) \/ \E answered \in BOOLEAN : ProbePeerOnce(i, answered)
      PROVE  HealthInv'
  <2>0. PICK w \in seat[i] :
           w.at # "held" /\ \E s, v : seat' = [seat EXCEPT ![i] = {[peer |-> w.peer, at |-> s, verdict |-> v]}]
    <3>1. CASE ResolvePeer(i)
      <4>1. PICK w \in seat[i] : w.at = "dialing"
                 /\ seat' = [seat EXCEPT ![i] = IF w.peer \in paired THEN {[w EXCEPT !.at = "pinging"]}
                                      ELSE Judged(w.peer, HealthFailed(HealthFor(w.peer)))]
        BY <3>1 DEF ResolvePeer
      <4>2. [w EXCEPT !.at = "pinging"] = [peer |-> w.peer, at |-> "pinging", verdict |-> w.verdict]
        BY <1>0 DEF SeatOK
      <4> QED BY <4>1, <4>2 DEF Judged
    <3>2. ASSUME NEW answered \in BOOLEAN, ProbePeerOnce(i, answered)
          PROVE  \E w \in seat[i] :
           w.at # "held" /\ \E s, v : seat' = [seat EXCEPT ![i] = {[peer |-> w.peer, at |-> s, verdict |-> v]}]
      BY <3>2 DEF ProbePeerOnce, Judged
    <3> QED BY <1>9, <3>1, <3>2
  <2>1. PICK s, v : seat' = [seat EXCEPT ![i] = {[peer |-> w.peer, at |-> s, verdict |-> v]}]
    BY <2>0
  <2> DEFINE S == [seat EXCEPT ![i] = {[peer |-> w.peer, at |-> s, verdict |-> v]}]
  <2>2. SeatOK(S[i]) /\ \A j \in ProbeSlots : j # i => S[j] = seat[j]
    <3>1. PICK q \in Probed : \E t, u : w = [peer |-> q, at |-> t, verdict |-> u]
      BY <1>0 DEF SeatOK
    <3>1a. PICK t, u : w = [peer |-> q, at |-> t, verdict |-> u]
      BY <3>1
    <3>2. w.peer = q
      BY <3>1a
    <3>3. S[i] = {[peer |-> q, at |-> s, verdict |-> v]}
      BY <1>0, <3>2
    <3> QED BY <1>0, <3>3 DEF SeatOK
  <2>3. seat' = [j \in ProbeSlots |-> S[j]]
    BY <1>0, <2>1
  <2>4. UNCHANGED <<paired, probes, rung, due, sched, health>> /\ Rest
    BY <1>9 DEF ResolvePeer, ProbePeerOnce
  <2> HIDE DEF S
  <2>5. \A j \in ProbeSlots : SeatOK(S[j]) /\ ((\E x \in S[j] : x.at # "held") => Working(j))
    BY <1>0, <2>0, <2>2 DEF Working
  <2> QED BY <1>0, <2>3, <2>4, <2>5, SeatMoves
<1>10. ASSUME NEW i \in ProbeSlots, RecordVerdict(i)
       PROVE  HealthInv'
  <2>1. PICK w \in seat[i] : \E v \in w.verdict :
           /\ seat' = [seat EXCEPT ![i] = {}]
           /\ IF w.peer \in probes
              THEN /\ health' = [health EXCEPT ![w.peer] = {v}]
                   /\ rung' = [rung EXCEPT ![w.peer] = IF v.reachable THEN 0 ELSE Capped(@)]
                   /\ due' = due \ {w.peer}
              ELSE UNCHANGED <<health, rung, due>>
    BY <1>10 DEF RecordVerdict
  <2>1a. PICK v \in w.verdict :
           /\ seat' = [seat EXCEPT ![i] = {}]
           /\ IF w.peer \in probes
              THEN /\ health' = [health EXCEPT ![w.peer] = {v}]
                   /\ rung' = [rung EXCEPT ![w.peer] = IF v.reachable THEN 0 ELSE Capped(@)]
                   /\ due' = due \ {w.peer}
              ELSE UNCHANGED <<health, rung, due>>
    BY <2>1
  <2>2. UNCHANGED <<paired, probes, sched>> /\ Rest
    BY <1>10 DEF RecordVerdict
  <2>3. seat' = [j \in ProbeSlots |-> seat'[j]] /\ \A j \in ProbeSlots : seat'[j] \in {{}, seat[j]}
    BY <1>0, <2>1a
  <2>4. rung' \in [Probed -> 0..MaxRung] /\ due' \subseteq probes
    <3>1. \A n \in 0..MaxRung : Capped(n) \in 0..MaxRung
      BY <1>0 DEF Capped
    <3> QED BY <1>0, <2>1a, <3>1
  <2>5. /\ health' = [p \in Probed |-> health'[p]]
        /\ \A p \in Probed : health'[p] = health[p] \/ (p \in probes /\ health'[p] = {v})
    BY <1>0, <2>1a
  <2>6. HealthFields'
    <3>1. SeatOK({})
      BY DEF SeatOK
    <3>2. \A j \in ProbeSlots : SeatOK(seat'[j])
      BY <1>0, <2>3, <3>1
    <3>3. \A p \in Probed : health'[p] = {} \/ \E u : health'[p] = {u}
      BY <1>0, <2>5
    <3>4. dials' \in {0, 1} /\ bgStopped' \in BOOLEAN /\ stopping' \in {"no", "cancelled", "waiting", "returned"}
      BY <2>2 DEF HealthInv, HealthFields, Rest
    <3>5. seat' = [j \in ProbeSlots |-> seat'[j]] /\ health' = [p \in Probed |-> health'[p]]
      BY <2>3, <2>5
    <3> QED BY <1>0, <2>2, <2>4, <3>2, <3>3, <3>4, <3>5 DEF HealthFields
  <2>7. DoorShut' /\ NothingOwed' /\ UntrustedForgotten'
    BY <2>2, <2>5 DEF HealthInv, DoorShut, NothingOwed, Rest, HealthBounded, UntrustedForgotten
  <2>8. StoppedIsQuiet'
    BY <2>2, <2>3 DEF HealthInv, HealthBounded, StoppedIsQuiet, Working, Rest
  <2> QED BY <2>6, <2>7, <2>8 DEF HealthInv, HealthBounded
<1>11. ASSUME NEW p \in Probed, ComesDue(p)
       PROVE  HealthInv'
  BY <1>11 DEF ComesDue, Rest, HealthInv, HealthFields, DoorShut, NothingOwed, HealthBounded,
               UntrustedForgotten, StoppedIsQuiet, Working
<1>12. ASSUME NEW p \in Probed, ChangeTrust(p)
       PROVE  HealthInv'
  <2>1. paired' \subseteq Probed
    BY <1>0, <1>12 DEF ChangeTrust
  <2> QED BY <1>12, <2>1, ProbesUntouched
          DEF ChangeTrust, HealthInv, HealthFields, DoorShut, HealthBounded, StoppedIsQuiet
<1>13. CASE BeginReconnection \/ EndReconnection
  <2>1. UNCHANGED <<paired, probes, rung, due, sched, seat, health, bgStopped, stopping>> /\ dials' \in {0, 1}
    BY <1>13 DEF BeginReconnection, EndReconnection
  <2>2. DoorShut' /\ (stopping' = "returned" => dials' = 0 /\ \A i \in ProbeSlots : ~Working(i))
    BY <1>13, <2>1 DEF BeginReconnection, EndReconnection, HealthInv, DoorShut, HealthBounded, StoppedIsQuiet
  <2> QED BY <2>1, <2>2, ProbesUntouched DEF HealthInv, HealthFields
<1>14. CASE CancelRun \/ StopBackgroundWork \/ WaitForWork
  <2>1. UNCHANGED <<paired, probes, rung, due, sched, seat, health, dials>>
        /\ stopping' \in {"no", "cancelled", "waiting", "returned"} /\ bgStopped' \in BOOLEAN
    BY <1>14 DEF CancelRun, StopBackgroundWork, WaitForWork, StopOnly, HealthInv, HealthFields
  <2>2. DoorShut' /\ (stopping' = "returned" => dials' = 0 /\ \A i \in ProbeSlots : ~Working(i))
    BY <1>14, <2>1 DEF CancelRun, StopBackgroundWork, WaitForWork, HealthInv, DoorShut
  <2> QED BY <2>1, <2>2, ProbesUntouched DEF HealthInv, HealthFields
<1> QED BY <1>1, <1>2, <1>3, <1>4, <1>5, <1>6, <1>7, <1>8, <1>9, <1>10, <1>11, <1>12, <1>13, <1>14
        DEF PeerHealthNext, Scheduler, Probe

\* It holds when a Hub starts.
LEMMA HealthInitially == PeerHealthInit => HealthInv
<1> SUFFICES ASSUME PeerHealthInit PROVE HealthInv
  OBVIOUS
<1>1. HealthFields
  <2>1. SeatOK({})
    BY DEF SeatOK
  <2>2. /\ seat = [i \in ProbeSlots |-> seat[i]] /\ \A i \in ProbeSlots : SeatOK(seat[i])
        /\ health = [p \in Probed |-> health[p]] /\ \A p \in Probed : health[p] = {}
    BY <2>1 DEF PeerHealthInit
  <2>3. rung \in [Probed -> 0..MaxRung]
    BY PeerHealthConstants DEF PeerHealthInit
  <2>4. sched \in [at : SchedulerStates, list : SUBSET Probed, dropped : SUBSET Probed, start : SUBSET Probed]
    BY DEF PeerHealthInit, Idle, SchedulerStates
  <2> QED BY <2>2, <2>3, <2>4 DEF PeerHealthInit, HealthFields
<1>2. DoorShut /\ NothingOwed /\ HealthBounded
  BY DEF PeerHealthInit, DoorShut, NothingOwed, HealthBounded, UntrustedForgotten, StoppedIsQuiet, Idle
<1> QED BY <1>1, <1>2 DEF HealthInv

\* It gives what the run checks of the probes.
LEMMA HealthInvBounds == HealthInv => HealthBounded /\ PeerHealthTypeOK
<1> SUFFICES ASSUME HealthInv PROVE PeerHealthTypeOK
  BY DEF HealthInv
<1>1. \A p \in Probed : Cardinality(health[p]) <= 1
  BY OneAtMost DEF HealthInv, HealthFields
<1>2. ASSUME NEW i \in ProbeSlots
      PROVE  Cardinality(seat[i]) <= 1 /\ \A w \in seat[i] : w.peer \in Probed
  <2>1. SeatOK(seat[i])
    BY DEF HealthInv, HealthFields
  <2>2. CASE seat[i] = {}
    BY <2>2, OneAtMost
  <2>3. ASSUME NEW q \in Probed, NEW s, NEW v, seat[i] = {[peer |-> q, at |-> s, verdict |-> v]}
        PROVE  Cardinality(seat[i]) <= 1 /\ \A w \in seat[i] : w.peer \in Probed
    BY <2>3, OneAtMost
  <2> QED BY <2>1, <2>2, <2>3 DEF SeatOK
<1> QED BY <1>1, <1>2 DEF HealthInv, HealthFields, PeerHealthTypeOK

\* For any number of peers and slots, whoever is paired or removed meanwhile: a
\* health record belongs to a peer that is probed or is about to be cleared, a
\* slot holds one probe, and once Stop has returned none dials (peer_health.go,
\* Stop).
THEOREM HealthSafe == PeerHealthSpec => [](HealthBounded /\ PeerHealthTypeOK)
<1>1. PeerHealthInit => HealthInv
  BY HealthInitially
<1>2. HealthInv /\ [PeerHealthNext]_healthVars => HealthInv'
  BY HealthStepKeeps
<1>3. HealthInv => HealthBounded /\ PeerHealthTypeOK
  BY HealthInvBounds
<1> QED BY <1>1, <1>2, <1>3, PTL DEF PeerHealthSpec

-----------------------------------------------------------------------------
(* Where the peers are.                                                    *)

\* A host and a port the peer had while it was paired, perhaps not together.
Shown(p, a) ==
    /\ Host(a) \in {Host(b) : b \in met[p]}
    /\ PortOf(a) \in {PortOf(b) : b \in met[p]}

\* The variables of the reconnection hold what their declarations say.
AddressTypes ==
    /\ located \in [Movers -> Endpoints] /\ stored \in [Movers -> Endpoints]
    /\ met \in [Movers -> SUBSET Endpoints] /\ tried \subseteq Endpoints
    /\ attempts \subseteq [addr : Endpoints, left : SUBSET Movers]
    /\ sightings \subseteq [peer : Movers, addr : Endpoints]

\* The strengthening: a peer has been where it is, and what is on its way to
\* the store was shown as well.
AddressInv ==
    /\ AddressTypes
    /\ \A p \in Movers : located[p] \in met[p] /\ Shown(p, stored[p])
    /\ \A s \in sightings : Shown(s.peer, s.addr)

\* A host and a port make an endpoint again, and these are its parts.
LEMMA EndpointParts ==
    /\ \A a \in Endpoints : Host(a) \in Hosts /\ PortOf(a) \in Ports
    /\ \A h \in Hosts, n \in Ports :
          <<h, n>> \in Endpoints /\ Host(<<h, n>>) = h /\ PortOf(<<h, n>>) = n
BY DEF Endpoints, Host, PortOf

\* A peer shows the endpoint it is at, and its host with any port it showed.
LEMMA PresentIsShown ==
    ASSUME AddressInv, NEW p \in Movers
    PROVE  /\ Shown(p, located[p])
           /\ Shown(p, <<Host(located[p]), PortOf(stored[p])>>)
<1>1. located[p] \in Endpoints /\ stored[p] \in Endpoints /\ located[p] \in met[p] /\ Shown(p, stored[p])
  BY DEF AddressInv, AddressTypes
<1>2. Shown(p, located[p])
  BY <1>1 DEF Shown
<1>3. LET a == <<Host(located[p]), PortOf(stored[p])>>
      IN Host(a) = Host(located[p]) /\ PortOf(a) = PortOf(stored[p])
  BY <1>1, EndpointParts
<1> QED BY <1>1, <1>2, <1>3 DEF Shown

\* At the start a peer is recorded where it is, and nobody has been seen.
LEMMA AddressInitially == ReconnectionInit => AddressInv
<1> SUFFICES ASSUME ReconnectionInit PROVE AddressInv
  OBVIOUS
<1>1. AddressTypes
  BY DEF ReconnectionInit, AddressTypes
<1>2. \A p \in Movers : located[p] \in met[p] /\ stored[p] \in met[p]
  BY DEF ReconnectionInit
<1> QED BY <1>1, <1>2 DEF AddressInv, Shown, ReconnectionInit

\* Every step keeps the invariant: only a sighting reaches the store, and a
\* sighting is of an endpoint, or a host, its peer is at.
LEMMA AddressStepKeeps == AddressInv /\ [ReconnectionNext]_reconVars => AddressInv'
<1> SUFFICES ASSUME AddressInv, [ReconnectionNext]_reconVars PROVE AddressInv'
  OBVIOUS
<1>1. ASSUME NEW a \in Endpoints, NEW p \in Movers, MovePeer(p, a) PROVE AddressInv'
  <2>1. AddressTypes'
    BY <1>1 DEF AddressInv, AddressTypes, MovePeer
  <2>2. \A q \in Movers : met[q] \subseteq met'[q]
    BY <1>1 DEF AddressInv, AddressTypes, MovePeer
  <2>3. \A q \in Movers : located'[q] \in met'[q]
    BY <1>1 DEF AddressInv, AddressTypes, MovePeer
  <2>4. \A q \in Movers, b \in Endpoints : Shown(q, b) => Shown(q, b)'
    BY <2>2 DEF Shown
  <2>5. stored' = stored /\ sightings' = sightings
    BY <1>1 DEF MovePeer
  <2> QED BY <2>1, <2>3, <2>4, <2>5 DEF AddressInv, AddressTypes
<1>2. ASSUME NEW a \in Endpoints, OnNodeDiscovered(a) PROVE AddressInv'
  <2>1. AddressTypes'
    <3>1. PICK c \in SUBSET {p \in Movers : stored[p] # a} :
              attempts' = attempts \cup {[addr |-> a, left |-> c]}
      BY <1>2 DEF OnNodeDiscovered
    <3>2. tried' = tried \cup {a} /\ UNCHANGED <<located, stored, met, sightings>>
      BY <1>2 DEF OnNodeDiscovered
    <3> QED BY <3>1, <3>2 DEF AddressInv, AddressTypes
  <2>2. UNCHANGED <<located, stored, met, sightings>>
    BY <1>2 DEF OnNodeDiscovered
  <2> QED BY <2>1, <2>2 DEF AddressInv, Shown
<1>3. ASSUME NEW a \in Endpoints, CooldownOver(a) PROVE AddressInv'
  BY <1>3 DEF AddressInv, AddressTypes, Shown, CooldownOver
<1>4. ASSUME NEW t \in attempts, ReconcileEnds(t) PROVE AddressInv'
  BY <1>4 DEF AddressInv, AddressTypes, Shown, ReconcileEnds
<1>5. ASSUME NEW t \in attempts, NEW p \in Movers, ReconcileDial(t, p) PROVE AddressInv'
  <2>0. UNCHANGED <<located, stored, met, tried>> /\ t \in [addr : Endpoints, left : SUBSET Movers]
    BY <1>5 DEF ReconcileDial, AddressInv, AddressTypes
  <2>1. CASE located[p] = t.addr
    <3>1. /\ sightings' = sightings \cup {[peer |-> p, addr |-> t.addr]}
          /\ attempts' = attempts \ {t}
      BY <1>5, <2>1 DEF ReconcileDial
    <3>2. Shown(p, t.addr)
      BY <2>1, PresentIsShown
    <3>3. AddressTypes'
      BY <2>0, <3>1 DEF AddressInv, AddressTypes
    <3>4. \A s \in sightings' : Shown(s.peer, s.addr)
      BY <3>1, <3>2 DEF AddressInv
    <3> QED BY <2>0, <3>3, <3>4 DEF AddressInv, Shown
  <2>2. CASE located[p] # t.addr
    <3>1. /\ attempts' = (attempts \ {t}) \cup {[t EXCEPT !.left = @ \ {p}]}
          /\ sightings' = sightings
      BY <1>5, <2>2 DEF ReconcileDial
    <3>2. AddressTypes'
      BY <2>0, <3>1 DEF AddressInv, AddressTypes
    <3> QED BY <2>0, <3>1, <3>2 DEF AddressInv, Shown
  <2> QED BY <2>1, <2>2
<1>6. ASSUME NEW p \in Movers, NEW a \in Endpoints, Shown(p, a),
             sightings' = sightings \cup {[peer |-> p, addr |-> a]},
             UNCHANGED <<located, stored, met, tried, attempts>>
      PROVE  AddressInv'
  <2>1. AddressTypes'
    BY <1>6 DEF AddressInv, AddressTypes
  <2>2. \A s \in sightings' : Shown(s.peer, s.addr)
    BY <1>6 DEF AddressInv
  <2> QED BY <1>6, <2>1, <2>2 DEF AddressInv, Shown
<1>7. ASSUME NEW p \in Movers, DialPeerContext(p) PROVE AddressInv'
  <2>1. stored[p] \in Endpoints /\ Shown(p, stored[p])
    BY DEF AddressInv, AddressTypes
  <2> QED BY <1>6, <1>7, <2>1 DEF DialPeerContext, Sight
<1>8. ASSUME NEW p \in Movers, ObserveInbound(p) PROVE AddressInv'
  <2>1. located[p] \in Endpoints /\ stored[p] \in Endpoints
    BY DEF AddressInv, AddressTypes
  <2>2. <<Host(located[p]), PortOf(stored[p])>> \in Endpoints
    BY <2>1, EndpointParts
  <2> QED BY <1>6, <1>8, <2>2, PresentIsShown DEF ObserveInbound, Sight
<1>9. ASSUME NEW s \in sightings, ConfirmPeerAddress(s) PROVE AddressInv'
  <2>1. s.peer \in Movers /\ s.addr \in Endpoints /\ Shown(s.peer, s.addr)
    BY DEF AddressInv, AddressTypes
  <2>2. /\ stored' = [stored EXCEPT ![s.peer] = s.addr] /\ sightings' = sightings \ {s}
        /\ UNCHANGED <<located, met, tried, attempts>>
    BY <1>9 DEF ConfirmPeerAddress
  <2>3. AddressTypes'
    BY <2>1, <2>2 DEF AddressInv, AddressTypes
  <2>4. \A q \in Movers : Shown(q, stored'[q])
    BY <2>1, <2>2 DEF AddressInv, AddressTypes
  <2> QED BY <2>2, <2>3, <2>4 DEF AddressInv, Shown
<1>10. CASE UNCHANGED reconVars
  BY <1>10 DEF AddressInv, AddressTypes, Shown, reconVars
<1> QED BY <1>1, <1>2, <1>3, <1>4, <1>5, <1>7, <1>8, <1>9, <1>10 DEF ReconnectionNext

\* One attempt dials no more peers than the Hub allows itself.
Candidates == \A t \in attempts : Cardinality(t.left) <= ReconcileMaxPeers

\* Every step keeps the number of candidates of an attempt within the limit.
LEMMA CandidatesStep == AddressInv /\ Candidates /\ [ReconnectionNext]_reconVars => Candidates'
<1> SUFFICES ASSUME AddressInv, Candidates, [ReconnectionNext]_reconVars PROVE Candidates'
  OBVIOUS
<1>1. ASSUME NEW a \in Endpoints, OnNodeDiscovered(a) PROVE Candidates'
  <2> DEFINE elsewhere == {p \in Movers : stored[p] # a}
             most == IF Cardinality(elsewhere) < ReconcileMaxPeers THEN Cardinality(elsewhere)
                     ELSE ReconcileMaxPeers
  <2>1. PICK c \in SUBSET elsewhere : Cardinality(c) = most /\ attempts' = attempts \cup {[addr |-> a, left |-> c]}
    BY <1>1 DEF OnNodeDiscovered
  <2>2. IsFiniteSet(elsewhere) /\ Cardinality(elsewhere) \in Nat
    <3>1. elsewhere \in SUBSET Movers
      OBVIOUS
    <3> QED BY <3>1, FS_Subset, FS_CardinalityType, ReconnectionConstants
  <2>3. most <= ReconcileMaxPeers
    BY <2>2, ReconnectionConstants
  <2> HIDE DEF most, elsewhere
  <2> QED BY <2>1, <2>3 DEF Candidates
<1>2. ASSUME NEW t \in attempts, NEW p \in Movers, ReconcileDial(t, p) PROVE Candidates'
  <2>1. t \in [addr : Endpoints, left : SUBSET Movers] /\ Cardinality(t.left) <= ReconcileMaxPeers
    BY DEF AddressInv, AddressTypes, Candidates
  <2>2. IsFiniteSet(t.left) /\ Cardinality(t.left) \in Nat /\ p \in t.left
    BY <1>2, <2>1, FS_Subset, FS_CardinalityType, ReconnectionConstants DEF ReconcileDial
  <2>3. Cardinality(t.left \ {p}) <= ReconcileMaxPeers
    <3>1. Cardinality(t.left \ {p}) = Cardinality(t.left) - 1
      BY <2>2, FS_RemoveElement
    <3> QED BY <2>1, <2>2, <3>1, ReconnectionConstants
  <2>4. [t EXCEPT !.left = @ \ {p}].left = t.left \ {p}
    BY <2>1
  <2> QED BY <1>2, <2>3, <2>4 DEF ReconcileDial, Candidates
<1>3. CASE attempts' \subseteq attempts
  BY <1>3 DEF Candidates
<1> QED BY <1>1, <1>2, <1>3
        DEF ReconnectionNext, MovePeer, CooldownOver, ReconcileEnds, DialPeerContext, ObserveInbound,
            Sight, ConfirmPeerAddress, reconVars

\* With what each part of the run keeps, the invariant gives the types.
LEMMA ReconnectionTyped == AddressInv /\ Candidates => ReconnectionTypeOK
BY DEF AddressInv, AddressTypes, Candidates, ReconnectionTypeOK

\* At the start no attempt is under way.
LEMMA CandidatesInitially == ReconnectionInit => Candidates
BY DEF ReconnectionInit, Candidates

\* Whatever beacons, moves, dials and late writes do, the address recorded of
\* a peer is a host it was on and a port it listened at (ConfirmPeerAddress,
\* reconcileDiscoveredAddress, observeAuthenticatedPeer).
THEOREM AddressesProven == ReconnectionSpec => []AddressWasProven
<1>1. AddressInv => AddressWasProven
  BY DEF AddressInv, AddressWasProven, Shown
<1> QED BY <1>1, AddressInitially, AddressStepKeeps, PTL DEF ReconnectionSpec

-----------------------------------------------------------------------------
(* Discovery.                                                              *)

\* What a beacon announces, the entries one host has in a table, and a table
\* that lists nothing twice.
Addresses == BeaconHosts \X BeaconPorts
EntriesOf(s, h) == {i \in 1..Len(s) : s[i][1] = h}
Distinct(s) == \A i, j \in 1..Len(s) : s[i] = s[j] => i = j

\* A table within its limits.
TableOK(s) ==
    /\ s \in Seq(Addresses) /\ Len(s) <= MaxDiscoveredNodes /\ Distinct(s)
    /\ \A h \in BeaconHosts : Cardinality(EntriesOf(s, h)) <= MaxNodesPerSourceHost

\* The hosts of the rate limiter stay within twice the table, and the flags
\* within their types.
LimiterOK == limited \subseteq BeaconHosts /\ IsFiniteSet(limited) /\ Cardinality(limited) <= 2 * MaxDiscoveredNodes
FlagsOK == bound \subseteq Listeners /\ started \in BOOLEAN

\* The inductive invariant of discovery.
DiscoveryInv == FlagsOK /\ LimiterOK /\ TableOK(nodes)

\* The entries of a host are finitely many.
LEMMA EntriesFinite ==
    ASSUME NEW s \in Seq(Addresses), NEW h
    PROVE  IsFiniteSet(EntriesOf(s, h)) /\ Cardinality(EntriesOf(s, h)) \in Nat
<1>1. Len(s) \in Nat
  BY LenProperties
<1>2. IsFiniteSet(1..Len(s))
  BY <1>1, FS_Interval
<1>3. EntriesOf(s, h) \in SUBSET (1..Len(s))
  BY DEF EntriesOf
<1> QED BY <1>2, <1>3, FS_Subset, FS_CardinalityType

\* Where the entries of one table have gone in another, there are not more of them.
LEMMA EntriesMoved ==
    ASSUME NEW s \in Seq(Addresses), NEW t \in Seq(Addresses), NEW h, NEW S \in SUBSET EntriesOf(s, h),
           NEW g, g \in [S -> EntriesOf(t, h)], \A j \in EntriesOf(t, h) : \E k \in S : j = g[k]
    PROVE  Cardinality(EntriesOf(t, h)) <= Cardinality(EntriesOf(s, h))
<1>1. IsFiniteSet(S) /\ Cardinality(S) <= Cardinality(EntriesOf(s, h))
  BY EntriesFinite, FS_Subset
<1>2. Cardinality(EntriesOf(t, h)) <= Cardinality(S)
  BY <1>1, ImageBound
<1>3. Cardinality(S) \in Nat /\ Cardinality(EntriesOf(t, h)) \in Nat /\ Cardinality(EntriesOf(s, h)) \in Nat
  BY <1>1, EntriesFinite, FS_CardinalityType
<1> QED BY <1>1, <1>2, <1>3

\* The first entries go: the rest is still within the limits.
LEMMA FirstEntriesGo ==
    ASSUME NEW s, TableOK(s), NEW n \in 1..Len(s), NEW t \in Seq(Addresses),
           Len(t) = Len(s) - n, \A j \in 1..Len(t) : t[j] = s[j + n]
    PROVE  /\ TableOK(t)
           /\ \A h \in BeaconHosts : Cardinality(EntriesOf(t, h)) <= Cardinality(EntriesOf(s, h))
<1>0. s \in Seq(Addresses) /\ Len(s) \in Nat /\ Len(t) \in Nat /\ n \in Nat /\ MaxDiscoveredNodes \in Nat
  BY LenProperties, DiscoveryConstants DEF TableOK
<1>1. ASSUME NEW h \in BeaconHosts
      PROVE  Cardinality(EntriesOf(t, h)) <= Cardinality(EntriesOf(s, h))
  <2> DEFINE S == {k \in EntriesOf(s, h) : k > n}
             g == [k \in S |-> k - n]
  <2>1. \A k \in S : k - n \in EntriesOf(t, h)
    BY <1>0 DEF EntriesOf
  <2>2. \A j \in EntriesOf(t, h) : j + n \in S /\ j = (j + n) - n
    BY <1>0 DEF EntriesOf
  <2>3a. g \in [S -> EntriesOf(t, h)]
    BY <2>1
  <2>3. \A j \in EntriesOf(t, h) : \E k \in S : j = g[k]
    BY <2>2
  <2>4. S \in SUBSET EntriesOf(s, h)
    OBVIOUS
  <2> HIDE DEF S, g
  <2>5. s \in Seq(Addresses)
    BY <1>0
  <2> QED BY <2>3a, <2>3, <2>4, <2>5, EntriesMoved
<1>2. Distinct(t)
  <2>1. ASSUME NEW i \in 1..Len(t), NEW j \in 1..Len(t), t[i] = t[j] PROVE i = j
    <3>1. i + n \in 1..Len(s) /\ j + n \in 1..Len(s)
      BY <1>0
    <3>2. s[i + n] = s[j + n]
      BY <2>1
    <3>3. i + n = j + n
      BY <3>1, <3>2 DEF TableOK, Distinct
    <3> QED BY <1>0, <3>3
  <2> QED BY <2>1 DEF Distinct
<1>3. \A h \in BeaconHosts : Cardinality(EntriesOf(t, h)) <= MaxNodesPerSourceHost
  BY <1>0, <1>1, EntriesFinite, DiscoveryConstants DEF TableOK
<1>4. Len(t) <= MaxDiscoveredNodes
  BY <1>0 DEF TableOK
<1> QED BY <1>1, <1>2, <1>3, <1>4 DEF TableOK

\* A new entry of a host that has room for one.
LEMMA EntryJoins ==
    ASSUME NEW s, TableOK(s), Len(s) < MaxDiscoveredNodes, NEW a \in Addresses,
           \A i \in 1..Len(s) : s[i] # a, Cardinality(EntriesOf(s, a[1])) < MaxNodesPerSourceHost
    PROVE  TableOK(Append(s, a))
<1> DEFINE t == Append(s, a)
<1>0. s \in Seq(Addresses) /\ Len(s) \in Nat /\ MaxDiscoveredNodes \in Nat /\ MaxNodesPerSourceHost \in Nat
  BY LenProperties, DiscoveryConstants DEF TableOK
<1>1. /\ t \in Seq(Addresses) /\ Len(t) = Len(s) + 1
      /\ \A i \in 1..Len(s) : t[i] = s[i]
      /\ t[Len(s) + 1] = a
  BY <1>0, AppendProperties
<1> HIDE DEF t
<1>2. Distinct(t)
  BY <1>0, <1>1 DEF TableOK, Distinct
<1>3. ASSUME NEW h \in BeaconHosts
      PROVE  Cardinality(EntriesOf(t, h)) <= MaxNodesPerSourceHost
  <2>1. CASE h = a[1]
    <3>1. EntriesOf(t, h) = EntriesOf(s, h) \cup {Len(s) + 1} /\ Len(s) + 1 \notin EntriesOf(s, h)
      BY <1>0, <1>1, <2>1 DEF EntriesOf
    <3>2. Cardinality(EntriesOf(t, h)) = Cardinality(EntriesOf(s, h)) + 1
      BY <1>0, <3>1, EntriesFinite, FS_AddElement
    <3> QED BY <1>0, <2>1, <3>2, EntriesFinite
  <2>2. CASE h # a[1]
    <3>1. EntriesOf(t, h) = EntriesOf(s, h)
      BY <1>0, <1>1, <2>2 DEF EntriesOf
    <3> QED BY <3>1 DEF TableOK
  <2> QED BY <2>1, <2>2
<1>4. TableOK(t)
  BY <1>0, <1>1, <1>2, <1>3 DEF TableOK
<1> QED BY <1>4 DEF t

\* A node heard again only changes its place.
LEMMA EntryRefreshed ==
    ASSUME TableOK(nodes), NEW i \in DOMAIN nodes
    PROVE  TableOK(Refreshed(i))
<1> DEFINE t == Refreshed(i)
<1>0. /\ nodes \in Seq(Addresses) /\ Len(nodes) \in Nat /\ DOMAIN nodes = 1..Len(nodes) /\ i \in 1..Len(nodes)
      /\ nodes \in [1..Len(nodes) -> Addresses]
  BY LenProperties DEF TableOK
<1>1. /\ t = [j \in 1..Len(nodes) |->
                 IF j < i THEN nodes[j] ELSE IF j < Len(nodes) THEN nodes[j + 1] ELSE nodes[i]]
  BY <1>0 DEF Refreshed
<1>2. /\ t \in [1..Len(nodes) -> Addresses]
      /\ \A j \in 1..Len(nodes) : j < i => t[j] = nodes[j]
      /\ \A j \in 1..Len(nodes) : j >= i /\ j < Len(nodes) => t[j] = nodes[j + 1]
      /\ t[Len(nodes)] = nodes[i]
  <2> HIDE DEF t
  <2>1. \A j \in 1..Len(nodes) : j >= i /\ j < Len(nodes) => j + 1 \in 1..Len(nodes)
    BY <1>0
  <2>2. \A j \in 1..Len(nodes) :
           (IF j < i THEN nodes[j] ELSE IF j < Len(nodes) THEN nodes[j + 1] ELSE nodes[i]) \in Addresses
    BY <1>0, <2>1
  <2>3. Len(nodes) \in 1..Len(nodes)
    BY <1>0
  <2> QED BY <1>0, <1>1, <2>2, <2>3
<1> HIDE DEF t
<1>3. t \in Seq(Addresses) /\ Len(t) = Len(nodes)
  BY <1>0, <1>2
<1>4. Distinct(t)
  <2> DEFINE g == [j \in 1..Len(nodes) |-> IF j < i THEN j ELSE IF j < Len(nodes) THEN j + 1 ELSE i]
  <2>1. \A j \in 1..Len(nodes) : g[j] \in 1..Len(nodes) /\ t[j] = nodes[g[j]]
    BY <1>0, <1>2
  <2>2. \A j, k \in 1..Len(nodes) : g[j] = g[k] => j = k
    <3>1. Len(nodes) \in Nat /\ i \in 1..Len(nodes)
      BY <1>0
    <3>2. \A j \in 1..Len(nodes) : g[j] = IF j < i THEN j ELSE IF j < Len(nodes) THEN j + 1 ELSE i
      OBVIOUS
    <3> HIDE DEF g
    <3> QED BY <3>1, <3>2
  <2> HIDE DEF g
  <2> QED BY <1>0, <1>3, <2>1, <2>2 DEF TableOK, Distinct
<1>5. ASSUME NEW h \in BeaconHosts
      PROVE  Cardinality(EntriesOf(t, h)) <= MaxNodesPerSourceHost
  <2> DEFINE S == EntriesOf(nodes, h)
             g == [k \in S |-> IF k < i THEN k ELSE IF k = i THEN Len(nodes) ELSE k - 1]
  <2>1. \A k \in S : g[k] \in EntriesOf(t, h)
    BY <1>0, <1>2, <1>3 DEF EntriesOf
  <2>2. ASSUME NEW j \in EntriesOf(t, h)
        PROVE  \E k \in S : j = g[k]
    <3>0. j \in 1..Len(nodes) /\ t[j][1] = h
      BY <1>3 DEF EntriesOf
    <3>1. CASE j < i
      <4>1. j \in S
        BY <1>0, <1>2, <3>0, <3>1 DEF EntriesOf
      <4>2. j = g[j]
        BY <3>1, <4>1
      <4> QED BY <4>1, <4>2
    <3>2. CASE j >= i /\ j < Len(nodes)
      <4>1. j + 1 \in S
        BY <1>0, <1>2, <3>0, <3>2 DEF EntriesOf
      <4>2. j = g[j + 1]
        <5>1. j \in Int /\ i \in Int /\ j >= i
          BY <1>0, <3>0, <3>2
        <5>2. ~(j + 1 < i) /\ j + 1 # i /\ (j + 1) - 1 = j
          BY <5>1
        <5> QED BY <4>1, <5>2
      <4> QED BY <4>1, <4>2
    <3>3. CASE j = Len(nodes)
      <4>1. i \in S
        BY <1>0, <1>2, <3>0, <3>3 DEF EntriesOf
      <4>2. j = g[i]
        BY <1>0, <3>3, <4>1
      <4> QED BY <4>1, <4>2
    <3>4. j < i \/ (j >= i /\ j < Len(nodes)) \/ j = Len(nodes)
      <4>1. i \in Int /\ j \in Int /\ Len(nodes) \in Int /\ j <= Len(nodes)
        BY <1>0, <3>0
      <4> QED BY <4>1
    <3> QED BY <3>1, <3>2, <3>3, <3>4
  <2>3. g \in [S -> EntriesOf(t, h)] /\ S \in SUBSET EntriesOf(nodes, h)
    BY <2>1
  <2> HIDE DEF S, g
  <2>4. Cardinality(EntriesOf(t, h)) <= Cardinality(EntriesOf(nodes, h))
    BY <1>0, <1>3, <2>2, <2>3, EntriesMoved
  <2>5. Cardinality(EntriesOf(nodes, h)) <= MaxNodesPerSourceHost
    BY DEF TableOK
  <2> QED BY <1>0, <1>3, <2>4, <2>5, EntriesFinite, DiscoveryConstants
<1>6. TableOK(t)
  BY <1>3, <1>4, <1>5 DEF TableOK
<1> QED BY <1>6 DEF t

\* A beacon leaves the table within its limits, whatever it names.
LEMMA RecordNodeKeeps ==
    ASSUME TableOK(nodes), NEW a \in Addresses, RecordNode(a)
    PROVE  TableOK(nodes')
<1>0. nodes \in Seq(Addresses) /\ Len(nodes) \in Nat /\ DOMAIN nodes = 1..Len(nodes) /\ a[1] \in BeaconHosts
      /\ SourceHostCount(a[1]) = Cardinality(EntriesOf(nodes, a[1]))
      /\ SourceHostCount(a[1]) \in Nat /\ Len(nodes) <= MaxDiscoveredNodes
  BY LenProperties, EntriesFinite DEF TableOK, Addresses, SourceHostCount, EntriesOf
<1>1. ASSUME NEW i \in DOMAIN nodes, nodes' = Refreshed(i)
      PROVE  TableOK(nodes')
  BY <1>1, EntryRefreshed
<1>2. CASE nodes' = nodes
  BY <1>2
<1>3. CASE /\ ~Known(a) /\ SourceHostCount(a[1]) < MaxNodesPerSourceHost
           /\ nodes' = Append(Tail(nodes), a) /\ Len(nodes) >= MaxDiscoveredNodes
  <2> DEFINE t == Tail(nodes)
  <2>1. nodes # <<>> /\ 1 \in 1..Len(nodes)
    BY <1>0, <1>3, DiscoveryConstants, EmptySeq
  <2>2. t \in Seq(Addresses) /\ Len(t) = Len(nodes) - 1 /\ \A i \in 1..Len(t) : t[i] = nodes[i + 1]
    BY <1>0, <2>1, HeadTailProperties
  <2>3. nodes' = Append(t, a)
    BY <1>3
  <2> HIDE DEF t
  <2>4. TableOK(t) /\ Cardinality(EntriesOf(t, a[1])) <= Cardinality(EntriesOf(nodes, a[1]))
    BY <1>0, <2>1, <2>2, FirstEntriesGo
  <2>5. Cardinality(EntriesOf(t, a[1])) < MaxNodesPerSourceHost /\ Len(t) < MaxDiscoveredNodes
    BY <1>0, <1>3, <2>2, <2>4, EntriesFinite, DiscoveryConstants
  <2>6. \A i \in 1..Len(t) : t[i] # a
    BY <1>0, <1>3, <2>2 DEF Known
  <2> QED BY <2>3, <2>4, <2>5, <2>6, EntryJoins
<1>4. CASE /\ ~Known(a) /\ SourceHostCount(a[1]) < MaxNodesPerSourceHost
           /\ nodes' = Append(nodes, a) /\ Len(nodes) < MaxDiscoveredNodes
  <2>1. \A i \in 1..Len(nodes) : nodes[i] # a
    BY <1>0, <1>4 DEF Known
  <2> QED BY <1>0, <1>4, <2>1, EntryJoins
<1> QED BY <1>0, <1>1, <1>2, <1>3, <1>4, DiscoveryConstants DEF RecordNode

\* The limiter drops an old entry for a new one once it is full.
LEMMA AllowKeeps ==
    ASSUME LimiterOK, NEW h \in BeaconHosts, AllowBeaconSource(h)
    PROVE  LimiterOK'
<1>0. /\ limited \subseteq BeaconHosts /\ IsFiniteSet(limited) /\ Cardinality(limited) <= 2 * MaxDiscoveredNodes
      /\ Cardinality(limited) \in Nat /\ MaxDiscoveredNodes \in Nat /\ h \notin limited
  BY FS_CardinalityType, DiscoveryConstants DEF LimiterOK, AllowBeaconSource
<1>1. CASE Cardinality(limited) < 2 * MaxDiscoveredNodes
  <2>1. limited' = limited \cup {h}
    BY <1>1 DEF AllowBeaconSource
  <2>2. IsFiniteSet(limited') /\ Cardinality(limited') = Cardinality(limited) + 1
    BY <1>0, <2>1, FS_AddElement
  <2>3. Cardinality(limited') <= 2 * MaxDiscoveredNodes
    BY <1>0, <1>1, <2>2
  <2> QED BY <1>0, <2>1, <2>2, <2>3 DEF LimiterOK
<1>2. CASE ~(Cardinality(limited) < 2 * MaxDiscoveredNodes)
  <2>1. PICK old \in limited : limited' = (limited \ {old}) \cup {h}
    BY <1>2 DEF AllowBeaconSource
  <2>2. IsFiniteSet(limited \ {old}) /\ Cardinality(limited \ {old}) = Cardinality(limited) - 1
    BY <1>0, FS_RemoveElement
  <2>3. IsFiniteSet(limited') /\ Cardinality(limited') = Cardinality(limited \ {old}) + 1
    BY <1>0, <2>1, <2>2, FS_AddElement
  <2>4. Cardinality(limited') <= 2 * MaxDiscoveredNodes
    BY <1>0, <2>2, <2>3
  <2> QED BY <1>0, <2>1, <2>3, <2>4 DEF LimiterOK
<1> QED BY <1>1, <1>2

\* Every beacon, expiry, start and stop keeps it.
LEMMA DiscoveryStepKeeps == DiscoveryInv /\ [DiscoveryNext]_discVars => DiscoveryInv'
<1> SUFFICES ASSUME DiscoveryInv, [DiscoveryNext]_discVars PROVE DiscoveryInv'
  OBVIOUS
<1>1. CASE UNCHANGED discVars
  BY <1>1 DEF discVars, DiscoveryInv, FlagsOK, LimiterOK, TableOK
<1>2. ASSUME Table, bound' \subseteq Listeners, started' \in BOOLEAN
      PROVE  DiscoveryInv'
  BY <1>2 DEF Table, DiscoveryInv, FlagsOK, LimiterOK, TableOK
<1>3. CASE EngineStarts
  BY <1>2, <1>3 DEF EngineStarts, BeginStart, BindBroadcast, BindMulticast, BindOut, Listeners,
                    DiscoveryInv, FlagsOK
<1>4. CASE BroadcastBeacon \/ CancelEngine \/ StopOnCancel \/ CloseEngine \/ EngineClosed \/ Watching
  BY <1>2, <1>4 DEF BroadcastBeacon, CancelEngine, StopOnCancel, CloseEngine, EngineClosed, CloseSockets,
                    Watching, HealthReadsStarted, SampleHealth, DiscoveryInv, FlagsOK
<1>5. ASSUME NEW k \in Listeners, GiveUpListening(k) \/ LoopEnds(k)
      PROVE  DiscoveryInv'
  BY <1>2, <1>5 DEF GiveUpListening, LoopEnds, DiscoveryInv, FlagsOK
<1>6. ASSUME NEW k \in Listeners, NEW h \in BeaconHosts, NEW p \in BeaconPorts, HearBeacon(k, <<h, p>>)
      PROVE  DiscoveryInv'
  <2>1. <<h, p>> \in Addresses /\ AllowBeaconSource(h) /\ RecordNode(<<h, p>>) /\ UNCHANGED <<bound, started>>
    BY <1>6 DEF HearBeacon, Addresses
  <2> QED BY <2>1, AllowKeeps, RecordNodeKeeps DEF DiscoveryInv, FlagsOK
<1>7. ASSUME NEW h \in BeaconHosts, LimitOver(h)
      PROVE  DiscoveryInv'
  <2>1. limited' = limited \ {h} /\ UNCHANGED <<bound, started, nodes>>
    BY <1>7 DEF LimitOver
  <2>2. LimiterOK'
    <3>1. limited' \in SUBSET limited
      BY <2>1
    <3>2. IsFiniteSet(limited') /\ Cardinality(limited') <= Cardinality(limited)
      BY <3>1, FS_Subset DEF DiscoveryInv, LimiterOK
    <3>3. Cardinality(limited') \in Nat /\ Cardinality(limited) \in Nat /\ MaxDiscoveredNodes \in Nat
      BY <3>2, FS_CardinalityType, DiscoveryConstants DEF DiscoveryInv, LimiterOK
    <3> QED BY <3>1, <3>2, <3>3 DEF DiscoveryInv, LimiterOK
  <2> QED BY <2>1, <2>2 DEF DiscoveryInv, FlagsOK, TableOK
<1>8. ASSUME NEW n \in 1..MaxDiscoveredNodes, PruneStaleNodes(n)
      PROVE  DiscoveryInv'
  <2> DEFINE t == SubSeq(nodes, n + 1, Len(nodes))
  <2>1. nodes' = t /\ n \in 1..Len(nodes) /\ UNCHANGED <<bound, started, limited>>
    BY <1>8 DEF PruneStaleNodes
  <2>2. nodes \in Seq(Addresses) /\ Len(nodes) \in Nat /\ TableOK(nodes)
    BY LenProperties DEF DiscoveryInv, TableOK
  <2>3. t \in Seq(Addresses) /\ Len(t) = Len(nodes) - n /\ \A j \in 1..Len(t) : t[j] = nodes[j + n]
    <3>1. \A i \in n + 1 .. Len(nodes) : nodes[i] \in Addresses
      BY <2>1, <2>2, ElementOfSeq
    <3>2. /\ t \in Seq(Addresses)
          /\ Len(t) = IF n + 1 <= Len(nodes) THEN Len(nodes) - (n + 1) + 1 ELSE 0
          /\ \A i \in 1 .. Len(nodes) - (n + 1) + 1 : t[i] = nodes[(n + 1) + i - 1]
      BY <2>1, <2>2, <3>1, SubSeqProperties
    <3> HIDE DEF t
    <3> QED BY <2>1, <2>2, <3>2
  <2> HIDE DEF t
  <2>4. TableOK(t)
    BY <2>1, <2>2, <2>3, FirstEntriesGo
  <2> QED BY <2>1, <2>4 DEF DiscoveryInv, FlagsOK, LimiterOK
<1> QED BY <1>1, <1>3, <1>4, <1>5, <1>6, <1>7, <1>8 DEF DiscoveryNext

\* It holds before the first beacon.
LEMMA DiscoveryInitially == DiscoveryInit => DiscoveryInv
<1> SUFFICES ASSUME DiscoveryInit PROVE DiscoveryInv
  OBVIOUS
<1>1. nodes \in Seq(Addresses) /\ Len(nodes) = 0
  BY DEF DiscoveryInit
<1>2. \A h \in BeaconHosts : EntriesOf(nodes, h) = {}
  BY <1>1 DEF EntriesOf
<1>3. TableOK(nodes)
  BY <1>1, <1>2, FS_EmptySet, DiscoveryConstants DEF TableOK, Distinct
<1>4. LimiterOK /\ FlagsOK
  <2>1. limited = {} /\ bound = {} /\ started = FALSE
    BY DEF DiscoveryInit
  <2>2. IsFiniteSet(limited) /\ Cardinality(limited) = 0
    BY <2>1, FS_EmptySet
  <2>3. Cardinality(limited) <= 2 * MaxDiscoveredNodes
    BY <2>2, DiscoveryConstants
  <2> QED BY <2>1, <2>2, <2>3 DEF LimiterOK, FlagsOK
<1> QED BY <1>3, <1>4 DEF DiscoveryInv

\* It gives the limits the run checks.
LEMMA DiscoveryInvBounds == DiscoveryInv => DiscoveryTypeOK
<1> SUFFICES ASSUME DiscoveryInv PROVE DiscoveryTypeOK
  OBVIOUS
<1>1. nodes \in Seq(Addresses) /\ DOMAIN nodes = 1..Len(nodes)
  BY LenProperties DEF DiscoveryInv, TableOK
<1>2. \A h \in BeaconHosts : SourceHostCount(h) = Cardinality(EntriesOf(nodes, h))
  BY <1>1 DEF SourceHostCount, EntriesOf
<1> QED BY <1>1, <1>2 DEF DiscoveryInv, FlagsOK, LimiterOK, TableOK, Distinct, DiscoveryTypeOK

\* However many hosts announce however many ports: the table and the share of one
\* host in it stay within their limits, and no address is listed twice
\* (recordNode, discovery.go).
THEOREM DiscoverySafe == DiscoverySpec => []DiscoveryTypeOK
<1>1. DiscoveryInit => DiscoveryInv
  BY DiscoveryInitially
<1>2. DiscoveryInv /\ [DiscoveryNext]_discVars => DiscoveryInv'
  BY DiscoveryStepKeeps
<1>3. DiscoveryInv => DiscoveryTypeOK
  BY DiscoveryInvBounds
<1> QED BY <1>1, <1>2, <1>3, PTL DEF DiscoverySpec

-----------------------------------------------------------------------------
(* The generations of a Hub.                                               *)

\* A Start call between taking the generation and closing its runDone.
Under == {"begun", "wired", "bound", "claimed", "serving", "ready", "closing", "ending", "unlocked"}

\* The generation under way is the one the Hub points to, so the next cannot
\* begin; listeners and descriptor are held only while it is at the right step.
OneUnderWay ==
    /\ \A g \in Starts : runs[g].at \in Under => hub.runDone = g
    /\ \A g \in over.done : runs[g].at = "over"
    /\ hub.running => hub.runDone # NoRun
    /\ hub.runDone # NoRun => runs[hub.runDone].at \notin {"idle", "refused"}
    /\ \A g \in owned["wire"] \cup owned["web"] : runs[g].at \in {"wired", "bound", "claimed", "serving", "ready"}
    /\ slot # NoRun => runs[slot].at \in {"claimed", "serving", "ready", "closing"}

\* A Stop that found the Hub running keeps the door of that generation shut,
\* and has seen its probes end once it has waited.
DoorKept ==
    \A s \in Stoppers :
        /\ stops[s].gen # NoRun => runs[stops[s].gen].at \notin {"idle", "refused"}
        /\ stops[s].at \in {"cancelled", "doorShut", "waited", "closed", "timedOut"} => stops[s].gen # NoRun
        /\ stops[s].at = "idle" => stops[s].gen = NoRun
        /\ stops[s].gen # NoRun /\ stops[s].gen = hub.runDone =>
              /\ stops[s].at \in {"doorShut", "waited", "closed", "timedOut", "ok"} => hub.bgStopped
              /\ stops[s].at \in {"waited", "closed", "timedOut", "ok"} => stops[s].gen \notin owned["tasks"]

\* The channel a generation took is the one Ready hands out until its cleanup;
\* a closed channel belongs to a generation that came up or is over; the error
\* of one that is over is there to be read until the next begins.
ChannelsKept ==
    /\ \A g \in Starts : runs[g].at \in Under \ {"unlocked"} => runs[g].ch = hub.readyCh
    /\ \A g \in Starts : runs[g].at \in {"idle", "refused"} => ~runs[g].marked
    /\ \A c \in over.ch : \E g \in Starts : runs[g].ch = c /\ (runs[g].marked \/ runs[g].at = "over")
    /\ \A g \in Starts : /\ runs[g].at \in {"unlocked", "over"} /\ hub.runDone = g
                         /\ runs[g].err /\ ~runs[g].marked
                         => hub.startErr

\* What a caller of Ready has learnt so far.
WaitersKept ==
    /\ NoOrphanWaiter
    /\ \A w \in Waiters : waits[w].at = "woken" =>
          \E g \in Starts : runs[g].ch = waits[w].ch /\ (runs[g].marked \/ runs[g].at = "over")
    /\ \A w \in Waiters : waits[w].at = "up" =>
          \E g \in Starts : /\ runs[g].ch = waits[w].ch
                            /\ runs[g].marked \/ (runs[g].at = "over" /\ (~runs[g].err \/ hub.runDone # g))

\* The inductive invariant of the generations of a Hub.
LifecycleInv == LifecycleTypeOK /\ OneUnderWay /\ DoorKept /\ ChannelsKept /\ WaitersKept

\* The invariant gives what the run checks.
LEMMA LifecycleInvSound == LifecycleInv => GenerationsSound
<1> SUFFICES ASSUME LifecycleInv PROVE GenerationsSound
  OBVIOUS
<1>1. OneGenerationServes
  BY DEF LifecycleInv, LifecycleTypeOK, OneUnderWay, OneGenerationServes, Under, Runs, Parts
<1>2. StopWaitsForProbes
  BY DEF LifecycleInv, DoorKept, StopWaitsForProbes
<1>3. WokenKnowsOutcome
  BY DEF LifecycleInv, WaitersKept, WokenKnowsOutcome
<1> QED BY <1>1, <1>2, <1>3 DEF LifecycleInv, WaitersKept, GenerationsSound

\* A fresh Hub.
LEMMA LifecycleInitially == LifecycleInit => LifecycleInv
<1> SUFFICES ASSUME LifecycleInit PROVE LifecycleInv
  OBVIOUS
<1>1. LifecycleTypeOK
  BY DEF LifecycleInit, LifecycleTypeOK, Runs, RunStates, StopStates, Parts
<1>2. OneUnderWay /\ DoorKept
  BY DEF LifecycleInit, OneUnderWay, DoorKept, Under, Parts
<1>3. ChannelsKept /\ WaitersKept
  BY DEF LifecycleInit, ChannelsKept, WaitersKept, NoOrphanWaiter, Under
<1> QED BY <1>1, <1>2, <1>3 DEF LifecycleInv

-----------------------------------------------------------------------------
(* What the steps need of the types, and what the helpers do.              *)

\* The runs of a Hub, as a set of functions.
RunType == [Starts -> [at : RunStates, ch : Runs, marked : BOOLEAN, err : BOOLEAN]]

\* The types, field by field.
LEMMA LifecycleFields ==
    ASSUME LifecycleTypeOK
    PROVE  /\ hub.runDone \in Runs /\ hub.readyCh \in Runs
           /\ runs \in RunType
           /\ \A k \in Starts : runs[k].at \in RunStates /\ runs[k].ch \in Runs
           /\ over.done \subseteq Starts /\ over.ctx \subseteq Starts /\ over.ch \subseteq Runs
           /\ \A p \in Parts : owned[p] \subseteq Starts
           /\ slot \in Runs
           /\ \A s \in Stoppers : stops[s].at \in StopStates /\ stops[s].gen \in Runs
           /\ \A w \in Waiters : waits[w].ch \in Runs
BY DEF LifecycleTypeOK, RunType

\* GoTo and Fails move one Start call.
LEMMA RunMoves ==
    ASSUME LifecycleTypeOK, NEW g \in Starts, NEW at \in RunStates,
           runs' = GoTo(g, at) \/ runs' = Fails(g, at)
    PROVE  /\ runs' \in RunType
           /\ runs'[g].at = at
           /\ \A k \in Starts : k # g => runs'[k] = runs[k]
           /\ \A k \in Starts : runs'[k].ch = runs[k].ch /\ runs'[k].marked = runs[k].marked
<1>1. runs \in RunType
  BY LifecycleFields
<1> QED BY <1>1 DEF GoTo, Fails, RunType

\* Disown takes from one generation and gives to none.
LEMMA DisownTakes ==
    ASSUME LifecycleTypeOK, NEW ps \in SUBSET Parts, NEW g, NEW o, o = Disown(ps, g)
    PROVE  /\ o \in [Parts -> SUBSET Starts]
           /\ \A p \in Parts : o[p] \subseteq owned[p] /\ (p \in ps => g \notin o[p])
<1>1. \A p \in Parts : owned[p] \subseteq Starts
  BY LifecycleFields
<1> QED BY <1>1 DEF Disown

\* Own gives one part to one generation.
LEMMA OwnGives ==
    ASSUME LifecycleTypeOK, NEW p \in Parts, NEW g \in Starts, owned' = Own(p, g)
    PROVE  /\ owned' \in [Parts -> SUBSET Starts]
           /\ owned'[p] = owned[p] \cup {g} /\ \A q \in Parts : q # p => owned'[q] = owned[q]
BY DEF LifecycleTypeOK, Own

\* A step inside one generation disturbs neither Stop's callers nor Ready's.
LEMMA WithinGeneration ==
    ASSUME LifecycleInv, NEW g \in Starts,
           UNCHANGED <<hub, over, stops, waits>>,
           runs[g].at \in Under \ {"unlocked"}, runs'[g].at \in Under \ {"unlocked"},
           \A k \in Starts : k # g => runs'[k] = runs[k],
           \A k \in Starts : runs'[k].ch = runs[k].ch /\ runs'[k].marked = runs[k].marked,
           owned'["tasks"] = owned["tasks"]
    PROVE  DoorKept' /\ ChannelsKept' /\ WaitersKept'
<1>1. DoorKept'
  BY LifecycleFields DEF LifecycleInv, DoorKept, Under, Runs
<1>2. ChannelsKept'
  BY DEF LifecycleInv, ChannelsKept, Under
<1>3. NoOrphanWaiter'
  BY DEF LifecycleInv, WaitersKept, NoOrphanWaiter, Under
<1>4. WaitersKept'
  BY <1>3 DEF LifecycleInv, WaitersKept, Under
<1> QED BY <1>1, <1>2, <1>4

\* A step that only takes, or gives what neither Stop nor a listener looks at.
LEMMA OnlyOwnedShrinks ==
    ASSUME LifecycleInv, UNCHANGED <<hub, runs, over, slot, stops, waits>>,
           owned' \in [Parts -> SUBSET Starts],
           \A p \in {"wire", "web", "tasks"} : owned'[p] \subseteq owned[p]
    PROVE  LifecycleInv'
<1>1. LifecycleTypeOK'
  BY DEF LifecycleInv, LifecycleTypeOK
<1>2. OneUnderWay' /\ DoorKept'
  BY DEF LifecycleInv, OneUnderWay, DoorKept
<1>3. ChannelsKept' /\ WaitersKept'
  BY DEF LifecycleInv, ChannelsKept, WaitersKept, NoOrphanWaiter
<1> QED BY <1>1, <1>2, <1>3 DEF LifecycleInv

-----------------------------------------------------------------------------
(* Start.                                                                  *)

\* The next generation begins when none is under way.
LEMMA BeginKeeps ==
    ASSUME LifecycleInv, NEW g \in Starts, Begin(g)
    PROVE  LifecycleInv'
<1>1. /\ hub.runDone \in Runs /\ hub.readyCh \in Runs
      /\ \A k \in Starts : runs[k].at \in RunStates /\ runs[k].ch \in Runs
      /\ over.done \subseteq Starts /\ over.ch \subseteq Runs /\ slot \in Runs
      /\ owned["wire"] \subseteq Starts /\ owned["web"] \subseteq Starts /\ owned["tasks"] \subseteq Starts
      /\ \A s \in Stoppers : stops[s].at \in StopStates /\ stops[s].gen \in Runs
  BY LifecycleFields DEF LifecycleInv, Parts
<1>2. runs[g].at = "idle" /\ UNCHANGED <<over, owned, slot, stops, waits>>
  BY DEF Begin
<1>3. hub' = [hub EXCEPT !.running = TRUE, !.runDone = g, !.startErr = FALSE, !.bgStopped = FALSE]
  BY DEF Begin
<1>4. runs' = [runs EXCEPT ![g].at = "begun", ![g].ch = hub.readyCh]
  BY DEF Begin
<1>5. \A k \in Starts : runs[k].at \notin Under
  BY LifecycleAssumption DEF LifecycleInv, OneUnderWay, Begin, CanBegin, Under
<1>6. /\ runs'[g].at = "begun" /\ runs'[g].ch = hub.readyCh /\ ~runs'[g].marked
      /\ \A k \in Starts : k # g => runs'[k] = runs[k]
      /\ hub'.runDone = g /\ hub'.readyCh = hub.readyCh
  BY <1>2, <1>3, <1>4 DEF LifecycleInv, LifecycleTypeOK, ChannelsKept
<1>7. LifecycleTypeOK'
  <2>1. runs \in RunType /\ hub.readyCh \in Runs
    BY LifecycleFields DEF LifecycleInv
  <2>2. runs' \in RunType
    BY <1>4, <2>1 DEF RunType, RunStates, Runs
  <2>3. hub' \in [running : BOOLEAN, runDone : Runs, readyCh : Runs, startErr : BOOLEAN, bgStopped : BOOLEAN]
    BY <1>3 DEF LifecycleInv, LifecycleTypeOK, Runs
  <2> QED BY <1>2, <2>2, <2>3 DEF LifecycleInv, LifecycleTypeOK, RunType
<1>8. OneUnderWay'
  BY <1>1, <1>2, <1>5, <1>6, LifecycleAssumption DEF LifecycleInv, Runs, OneUnderWay, Under
<1>9. DoorKept'
  BY <1>1, <1>2, <1>6, LifecycleAssumption DEF LifecycleInv, Runs, DoorKept
<1>10. ChannelsKept'
  BY <1>1, <1>2, <1>5, <1>6 DEF LifecycleInv, ChannelsKept, Under
<1>11. WaitersKept'
  BY <1>1, <1>2, <1>5, <1>6 DEF LifecycleInv, ChannelsKept, WaitersKept, NoOrphanWaiter, Under
<1> QED BY <1>7, <1>8, <1>9, <1>10, <1>11 DEF LifecycleInv

\* A Start that is refused leaves the Hub alone.
LEMMA BeginRefusedKeeps ==
    ASSUME LifecycleInv, NEW g \in Starts, BeginRefused(g)
    PROVE  LifecycleInv'
<1>1. runs[g].at = "idle" /\ UNCHANGED <<hub, over, owned, slot, stops, waits>> /\ runs' = GoTo(g, "refused")
  BY DEF BeginRefused
<1>2. /\ runs' \in RunType /\ runs'[g].at = "refused"
      /\ \A k \in Starts : k # g => runs'[k] = runs[k]
      /\ \A k \in Starts : runs'[k].ch = runs[k].ch /\ runs'[k].marked = runs[k].marked
  BY <1>1, RunMoves DEF LifecycleInv, RunStates
<1>3. LifecycleTypeOK'
  BY <1>1, <1>2 DEF LifecycleInv, LifecycleTypeOK, RunType
<1>4. /\ hub.runDone \in Runs /\ slot \in Runs /\ over.done \subseteq Starts
      /\ owned["wire"] \subseteq Starts /\ owned["web"] \subseteq Starts
      /\ \A s \in Stoppers : stops[s].gen \in Runs
  BY LifecycleFields DEF LifecycleInv, Parts
<1>5. OneUnderWay'
  BY <1>1, <1>2, <1>4 DEF LifecycleInv, OneUnderWay, Under, Runs
<1>6. DoorKept'
  BY <1>1, <1>2, <1>4 DEF LifecycleInv, DoorKept, Runs
<1>7. ChannelsKept'
  BY <1>1, <1>2 DEF LifecycleInv, ChannelsKept, Under
<1>8. WaitersKept'
  BY <1>1, <1>2 DEF LifecycleInv, ChannelsKept, WaitersKept, NoOrphanWaiter, Under
<1> QED BY <1>3, <1>5, <1>6, <1>7, <1>8 DEF LifecycleInv

\* The steps of Start that move one generation on without ending it: the
\* listeners come and go with the step the generation is at.
LEMMA StartStepKeeps ==
    ASSUME LifecycleInv, NEW g \in Starts, NEW at \in Under \ {"unlocked"},
           UNCHANGED <<hub, over, stops, waits>>,
           runs[g].at \in Under \ {"unlocked"},
           runs' = GoTo(g, at) \/ runs' = Fails(g, at) \/ (at = "closing" /\ runs' \in RunType
             /\ runs'[g].at = at /\ (\A k \in Starts : k # g => runs'[k] = runs[k])
             /\ \A k \in Starts : runs'[k].ch = runs[k].ch /\ runs'[k].marked = runs[k].marked),
           owned' \in [Parts -> SUBSET Starts], owned'["tasks"] = owned["tasks"],
           \A p \in {"wire", "web"} : owned'[p] \subseteq owned[p] \cup {g},
           at \notin {"wired", "bound", "claimed", "serving", "ready"} => g \notin owned'["wire"] \cup owned'["web"],
           slot' \in {slot, g, NoRun},
           slot' = g => at \in {"claimed", "serving", "ready", "closing"}
    PROVE  LifecycleInv'
<1>1. /\ runs' \in RunType /\ runs'[g].at = at
      /\ \A k \in Starts : k # g => runs'[k] = runs[k]
      /\ \A k \in Starts : runs'[k].ch = runs[k].ch /\ runs'[k].marked = runs[k].marked
  BY RunMoves DEF LifecycleInv, Under, RunStates
<1>2. /\ hub.runDone \in Runs /\ slot \in Runs /\ over.done \subseteq Starts
      /\ owned["wire"] \subseteq Starts /\ owned["web"] \subseteq Starts
  BY LifecycleFields DEF LifecycleInv, Parts
<1>3. LifecycleTypeOK'
  <2>1. slot' \in Runs
    BY <1>2 DEF Runs
  <2> QED BY <1>1, <2>1 DEF LifecycleInv, LifecycleTypeOK, RunType
<1>4. OneUnderWay'
  BY <1>1, <1>2, LifecycleAssumption DEF LifecycleInv, OneUnderWay, Under, Runs
<1>5. DoorKept' /\ ChannelsKept' /\ WaitersKept'
  BY <1>1, WithinGeneration
<1> QED BY <1>3, <1>4, <1>5 DEF LifecycleInv
\* What a generation has at each of those steps.
LEMMA StartStepsKeep ==
    ASSUME LifecycleInv, NEW g \in Starts,
           \/ PrepareFails(g) \/ BindWire(g) \/ BindWeb(g) \/ ClaimSlot(g) \/ ClaimSlotRefused(g) \/ ServeBoth(g)
           \/ RunCancelled(g) \/ ProbeFails(g) \/ ServeFails(g) \/ ReleaseSlot(g)
    PROVE  LifecycleInv'
<1>1. /\ owned \in [Parts -> SUBSET Starts] /\ LifecycleTypeOK
      /\ runs[g].at \notin {"wired", "bound", "claimed", "serving", "ready"} => g \notin owned["wire"] \cup owned["web"]
      /\ slot = g => runs[g].at \in {"claimed", "serving", "ready", "closing"}
  BY LifecycleAssumption DEF LifecycleInv, LifecycleTypeOK, OneUnderWay
<1>2. CASE PrepareFails(g)
  <2>1. UNCHANGED <<hub, over, stops, waits, slot>> /\ runs[g].at \in {"begun", "wired"} /\ runs' = Fails(g, "ending")
    BY <1>2 DEF PrepareFails
  <2>2. /\ owned' \in [Parts -> SUBSET Starts] /\ owned'["tasks"] = owned["tasks"]
        /\ \A p \in {"wire", "web"} : owned'[p] \subseteq owned[p] /\ g \notin owned'[p]
    BY <1>1, <1>2 DEF PrepareFails, Disown, Parts
  <2>3. slot # g
    BY <1>1, <2>1
  <2> QED BY <1>1, <2>1, <2>2, <2>3, StartStepKeeps DEF Under
<1>3. CASE BindWire(g) \/ BindWeb(g)
  <2>1. /\ UNCHANGED <<hub, over, stops, waits, slot>> /\ runs[g].at \in {"begun", "wired"}
        /\ runs' = GoTo(g, "wired") \/ runs' = GoTo(g, "bound")
    BY <1>3 DEF BindWire, BindWeb
  <2>2. /\ owned' \in [Parts -> SUBSET Starts] /\ owned'["tasks"] = owned["tasks"]
        /\ \A p \in {"wire", "web"} : owned'[p] \subseteq owned[p] \cup {g}
    BY <1>1, <1>3, OwnGives DEF BindWire, BindWeb, Parts
  <2> QED BY <1>1, <2>1, <2>2, StartStepKeeps DEF Under
<1>4. CASE ClaimSlot(g)
  <2>1. UNCHANGED <<hub, over, stops, waits>> /\ runs[g].at = "bound" /\ runs' = GoTo(g, "claimed") /\ slot' = g
    BY <1>4 DEF ClaimSlot
  <2>2. /\ owned' \in [Parts -> SUBSET Starts] /\ owned'["tasks"] = owned["tasks"]
        /\ \A p \in {"wire", "web"} : owned'[p] = owned[p]
    BY <1>1, <1>4, OwnGives DEF ClaimSlot, Parts
  <2> QED BY <1>1, <2>1, <2>2, StartStepKeeps DEF Under
<1>5. CASE ClaimSlotRefused(g)
  <2>1. UNCHANGED <<hub, over, stops, waits, slot>> /\ runs[g].at = "bound" /\ runs' = Fails(g, "ending")
    BY <1>5 DEF ClaimSlotRefused
  <2>2. /\ owned' \in [Parts -> SUBSET Starts] /\ owned'["tasks"] = owned["tasks"]
        /\ \A p \in {"wire", "web"} : owned'[p] \subseteq owned[p] /\ g \notin owned'[p]
    BY <1>1, <1>5 DEF ClaimSlotRefused, Disown, Parts
  <2>3. slot # g
    BY <1>1, <2>1
  <2> QED BY <1>1, <2>1, <2>2, <2>3, StartStepKeeps DEF Under
<1>6. CASE ServeBoth(g)
  <2>1. UNCHANGED <<hub, over, stops, waits, slot>> /\ runs[g].at = "claimed" /\ runs' = GoTo(g, "serving")
    BY <1>6 DEF ServeBoth
  <2>2. /\ owned' \in [Parts -> SUBSET Starts] /\ owned'["tasks"] = owned["tasks"]
        /\ \A p \in {"wire", "web"} : owned'[p] = owned[p]
    BY <1>1, <1>6, OwnGives DEF ServeBoth, Parts
  <2> QED BY <1>1, <2>1, <2>2, StartStepKeeps DEF Under
<1>7. ASSUME NEW failed \in BOOLEAN, runs[g].at \in {"serving", "ready"}, FinishRun(g, failed)
      PROVE  LifecycleInv'
  <2>1. UNCHANGED <<hub, over, stops, waits, slot>>
    BY <1>7 DEF FinishRun
  <2>2. /\ owned' \in [Parts -> SUBSET Starts] /\ owned'["tasks"] = owned["tasks"]
        /\ \A p \in {"wire", "web"} : owned'[p] \subseteq owned[p] /\ g \notin owned'[p]
    BY <1>1, <1>7 DEF FinishRun, Disown, Parts
  <2>3. /\ runs' \in RunType /\ runs'[g].at = "closing" /\ (\A k \in Starts : k # g => runs'[k] = runs[k])
        /\ \A k \in Starts : runs'[k].ch = runs[k].ch /\ runs'[k].marked = runs[k].marked
    <3>1. runs \in RunType /\ runs' = [runs EXCEPT ![g].at = "closing", ![g].err = failed]
      BY <1>1, <1>7, LifecycleFields DEF FinishRun
    <3> QED BY <3>1 DEF RunType, RunStates
  <2>4. "closing" \in Under \ {"unlocked"} /\ runs[g].at \in Under \ {"unlocked"}
    BY <1>7 DEF Under
  <2> QED BY <1>1, <2>1, <2>2, <2>3, <2>4, StartStepKeeps
<1>8. CASE ReleaseSlot(g)
  <2>1. /\ UNCHANGED <<hub, over, stops, waits, owned>> /\ runs[g].at = "closing" /\ runs' = GoTo(g, "ending")
        /\ slot' \in {slot, NoRun} /\ slot' # g
    BY <1>8, LifecycleAssumption DEF ReleaseSlot
  <2> QED BY <1>1, <2>1, StartStepKeeps DEF Under
<1> QED
  BY <1>2, <1>3, <1>4, <1>5, <1>6, <1>7, <1>8 DEF RunCancelled, ProbeFails, ServeFails

\* The generation has come up: its channel is closed, and it is marked.
LEMMA MarkReadyKeeps ==
    ASSUME LifecycleInv, NEW g \in Starts, MarkReady(g)
    PROVE  LifecycleInv'
<1>1. UNCHANGED <<hub, owned, slot, stops, waits>> /\ runs[g].at = "serving"
  BY DEF MarkReady
<1>0. /\ over' = [over EXCEPT !.ch = @ \cup {runs[g].ch}]
      /\ runs' = [runs EXCEPT ![g].at = "ready", ![g].marked = TRUE]
  BY DEF MarkReady
<1>2. /\ hub.runDone \in Runs /\ slot \in Runs /\ over.done \subseteq Starts /\ over.ch \subseteq Runs
      /\ runs \in RunType /\ runs[g].ch \in Runs
      /\ owned["wire"] \subseteq Starts /\ owned["web"] \subseteq Starts
      /\ \A s \in Stoppers : stops[s].gen \in Runs
  BY LifecycleFields DEF LifecycleInv, Parts
<1>3. runs' \in RunType
  BY <1>0, <1>2 DEF RunType, RunStates
<1>4. /\ runs'[g].at = "ready" /\ runs'[g].marked
      /\ \A k \in Starts : k # g => runs'[k] = runs[k]
      /\ \A k \in Starts : runs'[k].ch = runs[k].ch
  BY <1>0, <1>2 DEF RunType
<1>5. /\ over' \in [ctx : SUBSET Starts, done : SUBSET Starts, ch : SUBSET Runs]
      /\ over'.done = over.done /\ over'.ch = over.ch \cup {runs[g].ch}
  BY <1>0, <1>2 DEF LifecycleInv, LifecycleTypeOK
<1>6. LifecycleTypeOK'
  BY <1>1, <1>3, <1>5 DEF LifecycleInv, LifecycleTypeOK, RunType
<1>7. OneUnderWay'
  BY <1>1, <1>2, <1>4, <1>5 DEF LifecycleInv, OneUnderWay, Under, Runs
<1>8. DoorKept'
  BY <1>1, <1>2, <1>4 DEF LifecycleInv, DoorKept, Runs
<1>9. ChannelsKept'
  BY <1>1, <1>4, <1>5 DEF LifecycleInv, ChannelsKept, Under
<1>10. WaitersKept'
  BY <1>1, <1>4, <1>5 DEF LifecycleInv, WaitersKept, NoOrphanWaiter
<1> QED BY <1>6, <1>7, <1>8, <1>9, <1>10 DEF LifecycleInv

\* The cleanup under h.mu: the generation that ends is the Hub's own.
LEMMA CleanUpRunKeeps ==
    ASSUME LifecycleInv, NEW g \in Starts, CleanUpRun(g)
    PROVE  LifecycleInv'
<1>1. /\ UNCHANGED <<over, owned, slot, stops, waits>> /\ runs[g].at = "ending"
      /\ runs' = GoTo(g, "unlocked") /\ hub.runDone = g
  BY DEF CleanUpRun, LifecycleInv, OneUnderWay, Under
<1>2. hub' = [hub EXCEPT !.running = FALSE, !.readyCh = g, !.startErr = @ \/ (runs[g].err /\ ~runs[g].marked)]
  BY <1>1 DEF CleanUpRun
<1>3. /\ slot \in Runs /\ over.done \subseteq Starts /\ over.ch \subseteq Runs
      /\ runs \in RunType
      /\ owned["wire"] \subseteq Starts /\ owned["web"] \subseteq Starts
      /\ \A s \in Stoppers : stops[s].gen \in Runs
  BY LifecycleFields DEF LifecycleInv, Parts
<1>4. /\ runs' \in RunType /\ runs'[g].at = "unlocked"
      /\ \A k \in Starts : k # g => runs'[k] = runs[k]
      /\ \A k \in Starts : runs'[k].ch = runs[k].ch /\ runs'[k].marked = runs[k].marked
  BY <1>1, RunMoves DEF LifecycleInv, RunStates
<1>5. runs'[g].err = runs[g].err
  BY <1>1, <1>3 DEF GoTo, RunType
<1>6. /\ hub'.runDone = g /\ hub'.readyCh = g /\ hub'.running = FALSE /\ hub'.bgStopped = hub.bgStopped
      /\ runs[g].err /\ ~runs[g].marked => hub'.startErr
  BY <1>1, <1>2 DEF LifecycleInv, LifecycleTypeOK
<1>7. LifecycleTypeOK'
  <2>1. hub' \in [running : BOOLEAN, runDone : Runs, readyCh : Runs, startErr : BOOLEAN, bgStopped : BOOLEAN]
    BY <1>2 DEF LifecycleInv, LifecycleTypeOK, Runs
  <2> QED BY <1>1, <1>4, <2>1 DEF LifecycleInv, LifecycleTypeOK, RunType
<1>8. OneUnderWay'
  BY <1>1, <1>3, <1>4, <1>6, LifecycleAssumption DEF LifecycleInv, OneUnderWay, Under, Runs
<1>9. DoorKept'
  BY <1>1, <1>3, <1>4, <1>6 DEF LifecycleInv, DoorKept, Runs
<1>10. ChannelsKept'
  BY <1>1, <1>4, <1>5, <1>6 DEF LifecycleInv, ChannelsKept, OneUnderWay, Under
<1>11. WaitersKept'
  <2>1. runs[g].ch = hub.readyCh
    BY <1>1 DEF LifecycleInv, ChannelsKept, Under
  <2>2. NoOrphanWaiter'
    BY <1>1, <1>4, <1>6, <2>1 DEF LifecycleInv, WaitersKept, NoOrphanWaiter
  <2> QED BY <1>1, <1>4, <1>6, <2>2 DEF LifecycleInv, WaitersKept
<1> QED BY <1>7, <1>8, <1>9, <1>10, <1>11 DEF LifecycleInv

\* The generation is over: its context and its channels are closed.
LEMMA CloseDoneKeeps ==
    ASSUME LifecycleInv, NEW g \in Starts, CloseDone(g)
    PROVE  LifecycleInv'
<1>1. /\ UNCHANGED <<hub, owned, slot, stops, waits>> /\ runs[g].at = "unlocked"
      /\ runs' = GoTo(g, "over")
      /\ over' = [ctx |-> over.ctx \cup {g}, done |-> over.done \cup {g}, ch |-> over.ch \cup {runs[g].ch}]
  BY DEF CloseDone
<1>2. /\ hub.runDone \in Runs /\ slot \in Runs
      /\ over.done \subseteq Starts /\ over.ctx \subseteq Starts /\ over.ch \subseteq Runs
      /\ runs \in RunType /\ runs[g].ch \in Runs
      /\ owned["wire"] \subseteq Starts /\ owned["web"] \subseteq Starts
      /\ \A s \in Stoppers : stops[s].gen \in Runs
  BY LifecycleFields DEF LifecycleInv, Parts
<1>3. /\ runs' \in RunType /\ runs'[g].at = "over"
      /\ \A k \in Starts : k # g => runs'[k] = runs[k]
      /\ \A k \in Starts : runs'[k].ch = runs[k].ch /\ runs'[k].marked = runs[k].marked
  BY <1>1, RunMoves DEF LifecycleInv, RunStates
<1>4. runs'[g].err = runs[g].err
  BY <1>1, <1>2 DEF GoTo, RunType
<1>5. LifecycleTypeOK'
  BY <1>1, <1>2, <1>3 DEF LifecycleInv, LifecycleTypeOK, RunType
<1>6. OneUnderWay'
  BY <1>1, <1>2, <1>3 DEF LifecycleInv, OneUnderWay, Under, Runs
<1>7. DoorKept'
  BY <1>1, <1>2, <1>3 DEF LifecycleInv, DoorKept, Runs
<1>8. ChannelsKept'
  BY <1>1, <1>3, <1>4 DEF LifecycleInv, ChannelsKept, Under
<1>9. WaitersKept'
  BY <1>1, <1>3, <1>4 DEF LifecycleInv, WaitersKept, NoOrphanWaiter
<1> QED BY <1>5, <1>6, <1>7, <1>8, <1>9 DEF LifecycleInv

\* The caller's context ends.
LEMMA ParentCancelledKeeps ==
    ASSUME LifecycleInv, NEW g \in Starts, ParentCancelled(g)
    PROVE  LifecycleInv'
<1>1. UNCHANGED <<hub, runs, owned, slot, stops, waits>> /\ over' = [over EXCEPT !.ctx = @ \cup {g}]
  BY DEF ParentCancelled
<1>2. /\ over' \in [ctx : SUBSET Starts, done : SUBSET Starts, ch : SUBSET Runs]
      /\ over'.done = over.done /\ over'.ch = over.ch
  BY <1>1 DEF LifecycleInv, LifecycleTypeOK
<1>3. LifecycleTypeOK'
  BY <1>1, <1>2 DEF LifecycleInv, LifecycleTypeOK
<1>4. OneUnderWay' /\ DoorKept' /\ ChannelsKept' /\ WaitersKept'
  BY <1>1, <1>2 DEF LifecycleInv, OneUnderWay, DoorKept, ChannelsKept, WaitersKept, NoOrphanWaiter
<1> QED BY <1>3, <1>4 DEF LifecycleInv
-----------------------------------------------------------------------------
(* What a generation started.                                              *)

\* No probe begins once the door is shut, and the other steps only take.
LEMMA BackgroundKeeps ==
    ASSUME LifecycleInv, NEW g \in Starts,
           \/ BeginTask(g) \/ EndTask(g) \/ BeatEnds(g) \/ SessionOpens(g)
           \/ SessionEnds(g) \/ AcceptFails(g) \/ ServeReturns(g)
    PROVE  LifecycleInv'
<1>1. /\ LifecycleTypeOK /\ owned \in [Parts -> SUBSET Starts]
      /\ UNCHANGED <<hub, runs, over, slot, stops, waits>>
  BY DEF LifecycleInv, LifecycleTypeOK, BeginTask, EndTask, BeatEnds, SessionOpens, SessionEnds,
         AcceptFails, ServeReturns
<1>2. CASE BeginTask(g)
  <2>1. ~hub.bgStopped /\ owned' = Own("tasks", g)
    BY <1>2 DEF BeginTask
  <2>2. /\ owned' \in [Parts -> SUBSET Starts] /\ owned'["tasks"] = owned["tasks"] \cup {g}
        /\ owned'["wire"] = owned["wire"] /\ owned'["web"] = owned["web"]
    BY <1>1, <2>1, OwnGives DEF Parts
  <2>3. LifecycleTypeOK'
    BY <1>1, <2>2 DEF LifecycleTypeOK
  <2>4. OneUnderWay'
    BY <1>1, <2>2 DEF LifecycleInv, OneUnderWay
  <2>5. DoorKept'
    BY <1>1, <2>1, <2>2 DEF LifecycleInv, DoorKept
  <2>6. ChannelsKept' /\ WaitersKept'
    BY <1>1 DEF LifecycleInv, ChannelsKept, WaitersKept, NoOrphanWaiter
  <2> QED BY <2>3, <2>4, <2>5, <2>6 DEF LifecycleInv
<1>3. ASSUME NEW ps \in SUBSET Parts, owned' = Disown(ps, g)
      PROVE  LifecycleInv'
  <2>1. owned' \in [Parts -> SUBSET Starts] /\ \A p \in Parts : owned'[p] \subseteq owned[p]
    BY <1>1, <1>3, DisownTakes
  <2> QED BY <1>1, <2>1, OnlyOwnedShrinks DEF Parts
<1>4. CASE EndTask(g)
  BY <1>3, <1>4 DEF EndTask, Parts
<1>5. CASE BeatEnds(g)
  BY <1>3, <1>5 DEF BeatEnds, Parts
<1>6. CASE SessionEnds(g)
  BY <1>3, <1>6 DEF SessionEnds, Parts
<1>7. CASE AcceptFails(g)
  BY <1>3, <1>7 DEF AcceptFails, Parts
<1>8. CASE SessionOpens(g)
  <2>1. /\ owned' \in [Parts -> SUBSET Starts]
        /\ \A p \in {"wire", "web", "tasks"} : owned'[p] \subseteq owned[p]
    BY <1>1, <1>8, OwnGives DEF SessionOpens, Parts
  <2> QED BY <1>1, <2>1, OnlyOwnedShrinks
<1>9. CASE ServeReturns(g)
  <2>1. /\ owned' \in [Parts -> SUBSET Starts]
        /\ \A p \in {"wire", "web", "tasks"} : owned'[p] \subseteq owned[p]
    BY <1>1, <1>9 DEF ServeReturns, Disown, Parts
  <2> QED BY <1>1, <2>1, OnlyOwnedShrinks
<1> QED BY <1>2, <1>4, <1>5, <1>6, <1>7, <1>8, <1>9

-----------------------------------------------------------------------------
(* Stop and the callers of Ready.                                          *)

\* Stop captures the generation that runs.
LEMMA StopCalledKeeps ==
    ASSUME LifecycleInv, NEW s \in Stoppers, StopCalled(s)
    PROVE  LifecycleInv'
<1>1. UNCHANGED <<hub, runs, owned, slot, waits>> /\ stops[s].at = "idle"
  BY DEF StopCalled
<1>2. /\ hub.runDone \in Runs /\ over.ctx \subseteq Starts
      /\ stops \in [Stoppers -> [at : StopStates, gen : Runs, bound : SUBSET {"wire", "web"}]]
      /\ over \in [ctx : SUBSET Starts, done : SUBSET Starts, ch : SUBSET Runs]
  BY LifecycleFields DEF LifecycleInv, LifecycleTypeOK
<1>3. /\ over' \in [ctx : SUBSET Starts, done : SUBSET Starts, ch : SUBSET Runs]
      /\ over'.done = over.done /\ over'.ch = over.ch
  <2>1. hub.running => hub.runDone \in Starts
    BY <1>2 DEF LifecycleInv, OneUnderWay, Runs
  <2> QED BY <1>2, <2>1 DEF StopCalled
<1>4. CASE /\ hub.running
           /\ stops' = [stops EXCEPT ![s] = [at |-> "cancelled", gen |-> hub.runDone,
                                             bound |-> Listening(hub.runDone)]]
  <2>1. Listening(hub.runDone) \subseteq {"wire", "web"}
    BY DEF Listening
  <2>2. /\ stops' \in [Stoppers -> [at : StopStates, gen : Runs, bound : SUBSET {"wire", "web"}]]
        /\ stops'[s].at = "cancelled" /\ stops'[s].gen = hub.runDone
        /\ \A t \in Stoppers : t # s => stops'[t] = stops[t]
    BY <1>2, <1>4, <2>1 DEF StopStates
  <2>3. LifecycleTypeOK'
    BY <1>1, <1>3, <2>2 DEF LifecycleInv, LifecycleTypeOK
  <2>4. OneUnderWay' /\ ChannelsKept'
    BY <1>1, <1>3 DEF LifecycleInv, OneUnderWay, ChannelsKept
  <2>5. WaitersKept'
    BY <1>1, <1>3 DEF LifecycleInv, WaitersKept, NoOrphanWaiter
  <2>6. DoorKept'
    BY <1>1, <1>4, <2>2 DEF LifecycleInv, OneUnderWay, DoorKept
  <2> QED BY <2>3, <2>4, <2>5, <2>6 DEF LifecycleInv
<1>5. CASE stops' = [stops EXCEPT ![s].at = "ok"] /\ stops[s].gen = NoRun
  <2>1. /\ stops' \in [Stoppers -> [at : StopStates, gen : Runs, bound : SUBSET {"wire", "web"}]]
        /\ stops'[s].at = "ok" /\ stops'[s].gen = NoRun
        /\ \A t \in Stoppers : t # s => stops'[t] = stops[t]
    BY <1>2, <1>5 DEF StopStates
  <2>2. LifecycleTypeOK'
    BY <1>1, <1>3, <2>1 DEF LifecycleInv, LifecycleTypeOK
  <2>3. OneUnderWay' /\ ChannelsKept'
    BY <1>1, <1>3 DEF LifecycleInv, OneUnderWay, ChannelsKept
  <2>4. WaitersKept'
    BY <1>1, <1>3 DEF LifecycleInv, WaitersKept, NoOrphanWaiter
  <2>5. DoorKept'
    BY <1>1, <2>1 DEF LifecycleInv, DoorKept
  <2> QED BY <2>2, <2>3, <2>4, <2>5 DEF LifecycleInv
<1>6. stops[s].gen = NoRun
  BY <1>1 DEF LifecycleInv, DoorKept
<1> QED BY <1>4, <1>5, <1>6 DEF StopCalled

\* The later steps of Stop: it shuts the door, sees the probes end, closes.
LEMMA StopStepKeeps ==
    ASSUME LifecycleInv, NEW s \in Stoppers, NEW at \in StopStates,
           UNCHANGED <<runs, over, slot, waits>>, stops' = [stops EXCEPT ![s].at = at],
           hub' \in {hub, [hub EXCEPT !.bgStopped = TRUE]},
           owned' \in [Parts -> SUBSET Starts], owned'["tasks"] \subseteq owned["tasks"],
           \A p \in {"wire", "web"} : owned'[p] \subseteq owned[p],
           stops[s].gen # NoRun,
           at \in {"doorShut", "waited", "closed", "timedOut", "ok"},
           at = "doorShut" => hub'.bgStopped,
           at # "doorShut" => stops[s].at \in {"doorShut", "waited", "closed"},
           at = "waited" => owned["tasks"] = {},
           at \in {"closed", "timedOut", "ok"} => stops[s].at \in {"waited", "closed"}
    PROVE  LifecycleInv'
<1>1. /\ stops' \in [Stoppers -> [at : StopStates, gen : Runs, bound : SUBSET {"wire", "web"}]]
      /\ stops'[s].at = at /\ stops'[s].gen = stops[s].gen
      /\ \A t \in Stoppers : t # s => stops'[t] = stops[t]
  BY DEF LifecycleInv, LifecycleTypeOK
<1>2. /\ hub' \in [running : BOOLEAN, runDone : Runs, readyCh : Runs, startErr : BOOLEAN, bgStopped : BOOLEAN]
      /\ hub'.runDone = hub.runDone /\ hub'.readyCh = hub.readyCh
      /\ hub'.running = hub.running /\ hub'.startErr = hub.startErr
      /\ hub.bgStopped => hub'.bgStopped
  BY DEF LifecycleInv, LifecycleTypeOK
<1>3. LifecycleTypeOK'
  BY <1>1, <1>2 DEF LifecycleInv, LifecycleTypeOK
<1>4. OneUnderWay'
  BY <1>2 DEF LifecycleInv, OneUnderWay
<1>5. DoorKept'
  BY <1>1, <1>2 DEF LifecycleInv, DoorKept
<1>6. ChannelsKept' /\ WaitersKept'
  BY <1>2 DEF LifecycleInv, ChannelsKept, WaitersKept, NoOrphanWaiter
<1> QED BY <1>3, <1>4, <1>5, <1>6 DEF LifecycleInv

\* Each of them is such a step.
LEMMA StopStepsKeep ==
    ASSUME LifecycleInv, NEW s \in Stoppers, StopSteps(s) \/ StopTimesOut(s)
    PROVE  LifecycleInv'
<1>1. owned \in [Parts -> SUBSET Starts] /\ LifecycleTypeOK
  BY DEF LifecycleInv, LifecycleTypeOK
<1>2. stops[s].at \in {"cancelled", "doorShut", "waited", "closed"} => stops[s].gen # NoRun
  BY DEF LifecycleInv, DoorKept
<1>3. \A p \in {"wire", "web", "tasks"} :
        Disown(stops[s].bound, stops[s].gen)[p] \subseteq owned[p]
  BY <1>1 DEF Disown, Parts
<1>4. Disown(stops[s].bound, stops[s].gen) \in [Parts -> SUBSET Starts]
  BY <1>1 DEF Disown, Parts
<1>5. CASE StopDoor(s)
  <2>1. /\ stops[s].at = "cancelled" /\ hub' = [hub EXCEPT !.bgStopped = TRUE]
        /\ stops' = [stops EXCEPT ![s].at = "doorShut"] /\ UNCHANGED <<runs, over, owned, slot, waits>>
    BY <1>5 DEF StopDoor
  <2>2. hub'.bgStopped
    BY <1>1, <2>1 DEF LifecycleTypeOK
  <2> QED BY <1>1, <1>2, <2>1, <2>2, StopStepKeeps DEF StopStates
<1>6. CASE StopWait(s)
  <2>1. /\ stops[s].at = "doorShut" /\ owned["tasks"] = {}
        /\ stops' = [stops EXCEPT ![s].at = "waited"] /\ UNCHANGED <<hub, runs, over, owned, slot, waits>>
    BY <1>6 DEF StopWait
  <2> QED BY <1>1, <1>2, <2>1, StopStepKeeps DEF StopStates
<1>7. CASE StopClose(s)
  <2>1. /\ stops[s].at = "waited" /\ UNCHANGED <<hub, runs, over, slot, waits>>
        /\ stops' = [stops EXCEPT ![s].at = "closed"]
        /\ owned' = Disown(stops[s].bound, stops[s].gen)
    BY <1>7 DEF StopClose
  <2> QED BY <1>2, <1>3, <1>4, <2>1, StopStepKeeps DEF StopStates
<1>8. CASE StopReturns(s)
  <2>1. /\ stops[s].at = "closed" /\ UNCHANGED <<hub, runs, over, owned, slot, waits>>
        /\ stops' = [stops EXCEPT ![s].at = "ok"]
    BY <1>8 DEF StopReturns
  <2> QED BY <1>1, <1>2, <2>1, StopStepKeeps DEF StopStates
<1>9. CASE StopTimesOut(s)
  <2>1. /\ stops[s].at = "closed" /\ UNCHANGED <<hub, runs, over, slot, waits>>
        /\ stops' = [stops EXCEPT ![s].at = "timedOut"]
        /\ owned' = Disown(stops[s].bound, stops[s].gen)
    BY <1>9 DEF StopTimesOut
  <2> QED BY <1>2, <1>3, <1>4, <2>1, StopStepKeeps DEF StopStates
<1> QED BY <1>5, <1>6, <1>7, <1>8, <1>9 DEF StopSteps

\* A caller of Ready takes the channel that the next generation will take, is
\* woken by one that came up or is over, and reads what that one left.
LEMMA WaiterStepsKeep ==
    ASSUME LifecycleInv, NEW w \in Waiters, AskReady(w) \/ Woken(w) \/ AskErr(w)
    PROVE  LifecycleInv'
<1>1. UNCHANGED <<hub, runs, over, owned, slot, stops>>
  BY DEF AskReady, Woken, AskErr
<1>2. OneUnderWay' /\ DoorKept' /\ ChannelsKept'
  BY <1>1 DEF LifecycleInv, OneUnderWay, DoorKept, ChannelsKept
<1>3. waits \in [Waiters -> [at : {"idle", "waiting", "woken", "up", "failed"}, ch : Runs]] /\ hub.readyCh \in Runs
  BY LifecycleFields DEF LifecycleInv, LifecycleTypeOK
<1>4. waits' \in [Waiters -> [at : {"idle", "waiting", "woken", "up", "failed"}, ch : Runs]]
  <2>1. CASE AskReady(w)
    BY <1>3, <2>1 DEF AskReady
  <2>2. CASE Woken(w)
    BY <1>3, <2>2 DEF Woken
  <2>3. CASE AskErr(w)
    BY <1>3, <2>3 DEF AskErr
  <2> QED BY <2>1, <2>2, <2>3
<1>5. LifecycleTypeOK'
  BY <1>1, <1>4 DEF LifecycleInv, LifecycleTypeOK
<1>6. \A v \in Waiters : v # w => waits'[v] = waits[v]
  BY <1>3 DEF AskReady, Woken, AskErr
<1>7. WaitersKept'
  <2>1. CASE AskReady(w)
    <3>1. waits'[w].at = "waiting" /\ waits'[w].ch = hub.readyCh
      BY <1>3, <2>1 DEF AskReady
    <3> QED BY <1>1, <1>6, <3>1 DEF LifecycleInv, WaitersKept, NoOrphanWaiter
  <2>2. CASE Woken(w)
    <3>1. waits'[w].at = "woken" /\ waits'[w].ch = waits[w].ch /\ waits[w].ch \in over.ch
      BY <1>3, <2>2 DEF Woken
    <3> QED BY <1>1, <1>6, <3>1 DEF LifecycleInv, WaitersKept, NoOrphanWaiter, ChannelsKept
  <2>3. CASE AskErr(w)
    <3>1. /\ waits[w].at = "woken" /\ waits'[w].ch = waits[w].ch
          /\ waits'[w].at = IF hub.startErr THEN "failed" ELSE "up"
      BY <1>3, <2>3 DEF AskErr
    <3>2. PICK g \in Starts : runs[g].ch = waits[w].ch /\ (runs[g].marked \/ runs[g].at = "over")
      BY <3>1 DEF LifecycleInv, WaitersKept
    <3>3. ~hub.startErr => runs[g].marked \/ (runs[g].at = "over" /\ (~runs[g].err \/ hub.runDone # g))
      BY <3>2 DEF LifecycleInv, ChannelsKept
    <3> QED BY <1>1, <1>6, <3>1, <3>2, <3>3 DEF LifecycleInv, WaitersKept, NoOrphanWaiter
  <2> QED BY <2>1, <2>2, <2>3
<1> QED BY <1>2, <1>5, <1>7 DEF LifecycleInv

\* No step, of any call, breaks the invariant.
LEMMA LifecycleStepKeeps == LifecycleInv /\ [LifecycleNext]_lifeVars => LifecycleInv'
<1> SUFFICES ASSUME LifecycleInv, [LifecycleNext]_lifeVars PROVE LifecycleInv'
  OBVIOUS
<1>1. CASE UNCHANGED lifeVars
  BY <1>1 DEF lifeVars, LifecycleInv, LifecycleTypeOK, OneUnderWay, DoorKept, ChannelsKept, WaitersKept, NoOrphanWaiter
<1>2. ASSUME NEW g \in Starts,
             \/ Begin(g) \/ BeginRefused(g) \/ PrepareFails(g)
             \/ ClaimSlotRefused(g) \/ ProbeFails(g) \/ StartSteps(g)
             \/ ParentCancelled(g)
             \/ BeginTask(g) \/ EndTask(g) \/ BeatEnds(g)
             \/ SessionOpens(g) \/ SessionEnds(g)
             \/ AcceptFails(g) \/ ServeReturns(g)
      PROVE  LifecycleInv'
  BY <1>2, BeginKeeps, BeginRefusedKeeps, StartStepsKeep, MarkReadyKeeps, CleanUpRunKeeps,
     CloseDoneKeeps, ParentCancelledKeeps, BackgroundKeeps DEF StartSteps
<1>3. ASSUME NEW s \in Stoppers, StopCalled(s) \/ StopSteps(s) \/ StopTimesOut(s)
      PROVE  LifecycleInv'
  BY <1>3, StopCalledKeeps, StopStepsKeep
<1> QED BY <1>1, <1>2, <1>3, WaiterStepsKeep DEF LifecycleNext

\* However many Start and Stop calls meet, generations do not overlap, Stop
\* waits for the probes of the one it stopped, and whoever waits for the Hub is
\* woken and learns what became of it (Start, Stop, Ready, Err).
THEOREM LifecycleSafe == LifecycleSpec => []GenerationsSound
<1>1. LifecycleInit => LifecycleInv
  BY LifecycleInitially
<1>2. LifecycleInv /\ [LifecycleNext]_lifeVars => LifecycleInv'
  BY LifecycleStepKeeps
<1>3. LifecycleInv => GenerationsSound
  BY LifecycleInvSound
<1> QED BY <1>1, <1>2, <1>3, PTL DEF LifecycleSpec

-----------------------------------------------------------------------------
(* The dispatcher.                                                         *)

\* The states of a listener.
ListenerStates == [kind : {"lan", "ssh"}, closed : BOOLEAN, terminal : BOOLEAN, serving : BOOLEAN, swept : BOOLEAN]

\* The variables of the dispatcher hold what their declarations say.
DispTypes ==
    /\ stage \in [Conns -> Stages]
    /\ tracked \subseteq Conns /\ sock \subseteq Conns /\ cut \subseteq Conns /\ trusting \subseteq Conns
    /\ hand \subseteq Conns /\ \A c, d \in hand : c = d
    /\ results \in Seq(Conns) /\ Len(results) <= ResultSlots
    /\ lst \in ListenerStates
    /\ loop \in {"accepting", "waiting", "returned"}
    /\ watch \in {"parked", "cancelled", "closing", "grace", "forced", "over"}
    /\ dctx \in BOOLEAN

\* Whoever has an open socket has somebody who answers for it: the handshake,
\* the queue, Accept's hand or a session; a listener whose Close has returned
\* has none of the first two.
SocketsPlaced ==
    /\ \A c \in sock : stage[c] \notin {"none", "ended"}
    /\ \A c \in Conns : stage[c] \in {"handshake", "verified"} => c \in tracked
    /\ \A c \in Conns : stage[c] = "queued" => \E i \in 1..Len(results) : results[i] = c
    /\ \A c \in Conns : stage[c] = "taken" => c \in hand
    /\ lst.swept => /\ lst.closed /\ ~lst.serving
                    /\ tracked = {} /\ Len(results) = 0
                    /\ \A c \in Conns : stage[c] # "authenticated"

\* No more sessions than the limit.
SessionsBounded == IsFiniteSet(Sessions) /\ Cardinality(Sessions) <= SessionLimit

\* No more handshakes than slots.
SlotsBounded == slots \subseteq Conns /\ IsFiniteSet(slots) /\ Cardinality(slots) <= HandshakeSlots

\* The inductive invariant of the dispatcher.
DispInv == DispTypes /\ SocketsPlaced /\ SessionsBounded /\ GraceHonoured

\* What the invariant gives.
LEMMA DispInvGuards == DispInv /\ SlotsBounded => DispatcherTypeOK /\ SessionsGuarded
<1> SUFFICES ASSUME DispInv, SlotsBounded PROVE DispatcherTypeOK /\ SessionsGuarded
  OBVIOUS
<1>1. Cardinality(hand) <= 1
  <2>1. CASE hand = {}
    BY <2>1, FS_EmptySet
  <2>2. CASE hand # {}
    <3>0. \A c, d \in hand : c = d
      BY DEF DispInv, DispTypes
    <3>1. PICK c : hand = {c}
      BY <2>2, <3>0
    <3>2. Cardinality({c}) = 1
      BY FS_Singleton
    <3> QED BY <3>1, <3>2
  <2> QED BY <2>1, <2>2
<1>2. DispatcherTypeOK
  BY <1>1 DEF DispInv, DispTypes, ListenerStates, SessionsBounded, SlotsBounded, DispatcherTypeOK
<1>3. ClosedListenerLeaksNothing
  <2> SUFFICES ASSUME lst.swept, NEW c \in sock PROVE c \in Sessions \cup hand
    BY DEF ClosedListenerLeaksNothing
  <2>1. c \in Conns /\ stage[c] \in Stages
    BY DEF DispInv, DispTypes
  <2>2. stage[c] \notin {"none", "ended", "handshake", "verified", "authenticated", "queued"}
    BY <2>1 DEF DispInv, SocketsPlaced
  <2>3. stage[c] = "taken" => c \in hand
    BY <2>1 DEF DispInv, SocketsPlaced
  <2> QED BY <2>1, <2>2, <2>3 DEF Stages, Sessions, Routed
<1> QED BY <1>2, <1>3 DEF DispInv, SessionsGuarded

\* Nobody has connected.
LEMMA DispInitially == DispatcherInit => DispInv
<1> SUFFICES ASSUME DispatcherInit PROVE DispInv
  OBVIOUS
<1>1. DispTypes
  <2>1. results \in Seq(Conns) /\ Len(results) = 0
    BY DEF DispatcherInit
  <2>2. stage \in [Conns -> Stages]
    BY DEF DispatcherInit, Stages
  <2>3. lst \in ListenerStates
    <3>1. PICK k \in {"lan", "ssh"} :
            lst = [kind |-> k, closed |-> FALSE, terminal |-> FALSE, serving |-> TRUE, swept |-> FALSE]
      BY DEF DispatcherInit
    <3> QED BY <3>1 DEF ListenerStates
  <2>4. /\ loop = "accepting" /\ watch = "parked" /\ hand = {}
        /\ tracked = {} /\ sock = {} /\ cut = {} /\ trusting \subseteq Conns
    BY DEF DispatcherInit
  <2>5. dctx \in BOOLEAN
    BY DEF DispatcherInit
  <2>6. Len(results) <= ResultSlots
    BY <2>1, DispatcherAssumption
  <2> QED BY <2>1, <2>2, <2>3, <2>4, <2>5, <2>6 DEF DispTypes
<1>2. SocketsPlaced /\ GraceHonoured
  BY DEF DispatcherInit, SocketsPlaced, GraceHonoured
<1>3. Sessions = {}
  BY DEF DispatcherInit, Sessions, Routed
<1>4. SessionsBounded
  BY <1>3, FS_EmptySet, DispatcherAssumption DEF SessionsBounded
<1> QED BY <1>1, <1>2, <1>4 DEF DispInv

\* One connection comes further; only an opening one or one routed from it is a
\* session.
LEMMA StageMoves ==
    ASSUME stage \in [Conns -> Stages], NEW c \in Conns, NEW s \in Stages, stage' = To(c, s)
    PROVE  /\ stage' \in [Conns -> Stages] /\ stage'[c] = s
           /\ \A d \in Conns : d # c => stage'[d] = stage[d]
           /\ s \notin {"opening"} \cup Routed \/ c \in Sessions => Sessions' \subseteq Sessions
           /\ Sessions' \subseteq Sessions \cup {c}
BY DEF To, Sessions

\* Fewer sessions keep the bound.
LEMMA FewerSessions ==
    ASSUME SessionsBounded, Sessions' \subseteq Sessions
    PROVE  SessionsBounded'
<1>1. IsFiniteSet(Sessions') /\ Cardinality(Sessions') <= Cardinality(Sessions)
  BY FS_Subset DEF SessionsBounded
<1>2. Cardinality(Sessions') \in Nat /\ Cardinality(Sessions) \in Nat
  BY <1>1, FS_CardinalityType DEF SessionsBounded
<1> QED BY <1>1, <1>2, DispatcherAssumption DEF SessionsBounded

-----------------------------------------------------------------------------
\* A connection whose socket is closed and whose handshake is over is nobody's
\* any more; whoever held it, in the queue or in a session, has let go.
LEMMA Ended ==
    ASSUME DispInv, NEW c \in Conns, stage' = To(c, "ended"), sock' \subseteq sock \ {c},
           tracked' \subseteq tracked, \A d \in Conns : stage[d] \in {"handshake", "verified"} /\ d # c => d \in tracked',
           UNCHANGED <<results, lst, hand, loop, watch, dctx, trusting, cut>>
    PROVE  DispInv'
<1>1. /\ stage' \in [Conns -> Stages] /\ stage'[c] = "ended"
      /\ \A d \in Conns : d # c => stage'[d] = stage[d]
      /\ Sessions' \subseteq Sessions
  BY StageMoves DEF DispInv, DispTypes, Stages, Routed
<1>2. DispTypes'
  BY <1>1 DEF DispInv, DispTypes
<1>3. SocketsPlaced'
  BY <1>1 DEF DispInv, DispTypes, SocketsPlaced
<1>4. SessionsBounded'
  BY <1>1, FewerSessions DEF DispInv
<1> QED BY <1>2, <1>3, <1>4 DEF DispInv, GraceHonoured

\* Closing sockets and letting handshakes go changes nobody's place.
LEMMA SocketsClose ==
    ASSUME DispInv, UNCHANGED <<stage, results, hand>>, sock' \subseteq sock,
           tracked' \subseteq tracked, \A d \in Conns : stage[d] \in {"handshake", "verified"} => d \in tracked',
           trusting' \subseteq trusting, cut' \subseteq Conns,
           lst' \in ListenerStates, lst'.kind = lst.kind,
           lst'.swept => lst.swept /\ lst'.closed /\ ~lst'.serving,
           loop' \in {"accepting", "waiting", "returned"}, dctx' \in BOOLEAN,
           watch' \in {"parked", "cancelled", "closing", "grace", "forced", "over"},
           GraceHonoured'
    PROVE  DispInv'
<1>1. DispTypes'
  BY DEF DispInv, DispTypes
<1>2. SocketsPlaced'
  BY DEF DispInv, DispTypes, SocketsPlaced
<1>3. Sessions' = Sessions
  BY DEF Sessions
<1>4. SessionsBounded'
  BY <1>3, FewerSessions DEF DispInv
<1> QED BY <1>1, <1>2, <1>4 DEF DispInv
-----------------------------------------------------------------------------
(* The listener.                                                           *)

\* A new connection is tracked, or closed at once.
LEMMA ServeAcceptsKeeps ==
    ASSUME DispInv, NEW c \in Conns, ServeAccepts(c)
    PROVE  DispInv'
<1>1. /\ lst.serving /\ stage[c] = "none" /\ UNCHANGED <<results, lst, hand, loop, watch, dctx, trusting, cut>>
  BY DEF ServeAccepts
<1>2. CASE stage' = To(c, "ended") /\ UNCHANGED <<sock, tracked>>
  <2>1. sock' \subseteq sock \ {c} /\ \A d \in Conns : stage[d] \in {"handshake", "verified"} /\ d # c => d \in tracked'
    BY <1>1, <1>2 DEF DispInv, SocketsPlaced
  <2> QED BY <1>1, <1>2, <2>1, Ended
<1>3. CASE stage' = To(c, "handshake") /\ sock' = sock \cup {c} /\ tracked' = tracked \cup {c}
  <2>1. /\ stage' \in [Conns -> Stages] /\ stage'[c] = "handshake"
        /\ \A d \in Conns : d # c => stage'[d] = stage[d]
        /\ Sessions' \subseteq Sessions
    BY <1>3, StageMoves DEF DispInv, DispTypes, Stages, Routed
  <2>2. DispTypes'
    BY <1>1, <1>3, <2>1 DEF DispInv, DispTypes
  <2>3. SocketsPlaced'
    BY <1>1, <1>3, <2>1 DEF DispInv, DispTypes, SocketsPlaced
  <2>4. SessionsBounded'
    BY <2>1, FewerSessions DEF DispInv
  <2> QED BY <1>1, <2>2, <2>3, <2>4 DEF DispInv, GraceHonoured
<1> QED BY <1>2, <1>3 DEF ServeAccepts

\* Authenticated over SSH, and not yet promoted.
LEMMA VerifiedKeeps ==
    ASSUME DispInv, NEW c \in Conns, SSHAuthenticates(c)
    PROVE  DispInv'
<1>1. /\ stage[c] = "handshake" /\ stage' = To(c, "verified")
      /\ UNCHANGED <<tracked, sock, results, lst, hand, loop, watch, dctx, trusting, cut>>
  BY DEF SSHAuthenticates
<1>2. /\ stage' \in [Conns -> Stages] /\ stage'[c] = "verified"
      /\ \A d \in Conns : d # c => stage'[d] = stage[d]
      /\ Sessions' \subseteq Sessions
  BY <1>1, StageMoves DEF DispInv, DispTypes, Stages, Routed
<1>3. DispTypes'
  BY <1>1, <1>2 DEF DispInv, DispTypes
<1>4. SocketsPlaced'
  BY <1>1, <1>2 DEF DispInv, DispTypes, SocketsPlaced
<1>5. SessionsBounded'
  BY <1>2, FewerSessions DEF DispInv
<1> QED BY <1>1, <1>3, <1>4, <1>5 DEF DispInv, GraceHonoured

\* Authenticated on the LAN or promoted over SSH, unless the listener is closed.
LEMMA AuthenticatedKeeps ==
    ASSUME DispInv, NEW c \in Conns, HandshakeSucceeds(c) \/ PromoteServerConn(c)
    PROVE  DispInv'
<1>1. stage[c] \in {"handshake", "verified"} /\ UNCHANGED <<results, lst, hand, loop, watch, dctx, trusting, cut>>
  BY DEF HandshakeSucceeds, PromoteServerConn
<1>2. CASE RefuseConn(c)
  <2>1. stage' = To(c, "ended") /\ sock' = sock \ {c} /\ tracked' = tracked \ {c}
    BY <1>2 DEF RefuseConn
  <2>2. \A d \in Conns : stage[d] \in {"handshake", "verified"} /\ d # c => d \in tracked'
    BY <2>1 DEF DispInv, SocketsPlaced
  <2> QED BY <1>1, <2>1, <2>2, Ended
<1>3. CASE stage' = To(c, "authenticated") /\ tracked' \in {tracked, tracked \ {c}} /\ UNCHANGED sock
  <2>1. /\ stage' \in [Conns -> Stages] /\ stage'[c] = "authenticated"
        /\ \A d \in Conns : d # c => stage'[d] = stage[d]
        /\ Sessions' \subseteq Sessions
    BY <1>3, StageMoves DEF DispInv, DispTypes, Stages, Routed
  <2>2. DispTypes'
    BY <1>1, <1>3, <2>1 DEF DispInv, DispTypes
  <2>3. ~lst.swept
    BY <1>1 DEF DispInv, SocketsPlaced
  <2>4. SocketsPlaced'
    BY <1>1, <1>3, <2>1, <2>3 DEF DispInv, DispTypes, SocketsPlaced
  <2>5. SessionsBounded'
    BY <2>1, FewerSessions DEF DispInv
  <2> QED BY <1>1, <2>2, <2>4, <2>5 DEF DispInv, GraceHonoured
<1> QED BY <1>2, <1>3 DEF HandshakeSucceeds, PromoteServerConn

\* Into the queue, or closed with the listener.
LEMMA PublishKeeps ==
    ASSUME DispInv, NEW c \in Conns, Publish(c)
    PROVE  DispInv'
<1>1. stage[c] = "authenticated" /\ UNCHANGED <<tracked, lst, hand, loop, watch, dctx, trusting, cut>>
  BY DEF Publish
<1>2. CASE stage' = To(c, "ended") /\ sock' = sock \ {c} /\ results' = results
  <2>1. \A d \in Conns : stage[d] \in {"handshake", "verified"} /\ d # c => d \in tracked'
    BY <1>1 DEF DispInv, SocketsPlaced
  <2> QED BY <1>1, <1>2, <2>1, Ended
<1>3. CASE /\ Len(results) < ResultSlots /\ results' = Append(results, c)
           /\ stage' = To(c, "queued") /\ sock' = sock
  <2>1. /\ stage' \in [Conns -> Stages] /\ stage'[c] = "queued"
        /\ \A d \in Conns : d # c => stage'[d] = stage[d]
        /\ Sessions' \subseteq Sessions
    BY <1>3, StageMoves DEF DispInv, DispTypes, Stages, Routed
  <2>2. /\ results' \in Seq(Conns) /\ Len(results') = Len(results) + 1 /\ Len(results') <= ResultSlots
        /\ results'[Len(results) + 1] = c /\ \A i \in 1..Len(results) : results'[i] = results[i]
    BY <1>3, DispatcherAssumption DEF DispInv, DispTypes
  <2>3. Len(results) \in Nat
    BY DEF DispInv, DispTypes
  <2>4. DispTypes'
    BY <1>1, <1>3, <2>1, <2>2 DEF DispInv, DispTypes
  <2>5. ~lst.swept
    BY <1>1 DEF DispInv, SocketsPlaced
  <2>6. \A d \in Conns : stage'[d] = "queued" => \E i \in 1..Len(results') : results'[i] = d
    <3> SUFFICES ASSUME NEW d \in Conns, stage'[d] = "queued" PROVE \E i \in 1..Len(results') : results'[i] = d
      OBVIOUS
    <3>1. CASE d = c
      BY <2>2, <2>3, <3>1
    <3>2. CASE d # c
      BY <2>1, <2>2, <2>3, <3>2 DEF DispInv, SocketsPlaced
    <3> QED BY <3>1, <3>2
  <2>7. SocketsPlaced'
    BY <1>1, <1>3, <2>1, <2>5, <2>6 DEF DispInv, DispTypes, SocketsPlaced
  <2>8. SessionsBounded'
    BY <2>1, FewerSessions DEF DispInv
  <2> QED BY <1>1, <2>4, <2>7, <2>8 DEF DispInv, GraceHonoured
<1> QED BY <1>2, <1>3 DEF Publish

\* The second half of Close takes what is queued.
LEMMA CloseReturnsKeeps == DispInv /\ CloseReturns => DispInv'
<1> SUFFICES ASSUME DispInv, CloseReturns PROVE DispInv'
  OBVIOUS
<1>1. /\ lst.closed /\ ~lst.serving /\ tracked = {} /\ \A c \in Conns : stage[c] # "authenticated"
      /\ results' = <<>> /\ UNCHANGED <<tracked, hand, loop, watch, dctx, trusting, cut>>
  BY DEF CloseReturns
<1>2. /\ lst' \in ListenerStates /\ lst'.closed = lst.closed /\ lst'.serving = lst.serving
      /\ lst'.kind = lst.kind
  BY DEF CloseReturns, DispInv, DispTypes, ListenerStates
<1>3. /\ stage' \in [Conns -> Stages]
      /\ \A c \in Conns : stage'[c] \in {"ended", stage[c]} /\ stage'[c] # "queued"
      /\ \A c \in sock' : c \in sock /\ stage'[c] = stage[c]
  BY DEF CloseReturns, DispInv, DispTypes, SocketsPlaced, Stages
<1>4. Sessions' \subseteq Sessions
  BY <1>3 DEF Sessions, Routed
<1>5. DispTypes'
  <2>1. results' \in Seq(Conns) /\ Len(results') <= ResultSlots
    BY <1>1, DispatcherAssumption
  <2> QED BY <1>1, <1>2, <1>3, <2>1 DEF DispInv, DispTypes
<1>6. SocketsPlaced'
  BY <1>1, <1>2, <1>3 DEF DispInv, DispTypes, SocketsPlaced
<1>7. SessionsBounded'
  BY <1>4, FewerSessions DEF DispInv
<1> QED BY <1>1, <1>2, <1>5, <1>6, <1>7 DEF DispInv, GraceHonoured

\* What closes sockets, and whoever has the next thing to do with them.
LEMMA SocketStepsKeep ==
    ASSUME DispInv,
           \/ AcceptBreaks \/ ServeEnds \/ \E c \in Conns : Untrack(c) \/ FreeSlot(c)
           \/ AcceptErrs \/ ServeLoopReturns \/ CancelServe
           \/ StopAccepting \/ OpenGrace \/ OwnerCloses \/ Drained \/ GraceOver
           \/ \E c \in Conns : TrustChanges(c)
    PROVE  DispInv'
<1>1. /\ \A d \in Conns : stage[d] \in {"handshake", "verified"} => d \in tracked
      /\ lst \in ListenerStates /\ cut \subseteq Conns /\ sock \subseteq Conns /\ trusting \subseteq Conns
      /\ loop \in {"accepting", "waiting", "returned"} /\ dctx \in BOOLEAN
      /\ watch \in {"parked", "cancelled", "closing", "grace", "forced", "over"}
      /\ lst.swept => lst.closed /\ ~lst.serving
      /\ lst.kind = "lan" /\ watch # "forced" => cut = {}
  BY DEF DispInv, DispTypes, SocketsPlaced, GraceHonoured
<1>2. CASE AcceptBreaks
  <2>1. /\ lst' \in ListenerStates /\ lst'.kind = lst.kind /\ (lst'.swept => lst.swept /\ lst'.closed /\ ~lst'.serving)
    BY <1>1, <1>2 DEF AcceptBreaks, ListenerStates
  <2> QED BY <1>1, <1>2, <2>1, SocketsClose DEF AcceptBreaks, GraceHonoured
<1>3. CASE ServeEnds
  <2>1. /\ lst' \in ListenerStates /\ lst'.kind = lst.kind /\ (lst'.swept => lst.swept /\ lst'.closed /\ ~lst'.serving)
    BY <1>1, <1>3 DEF ServeEnds, ListenerStates
  <2> QED BY <1>1, <1>3, <2>1, SocketsClose DEF ServeEnds, GraceHonoured
<1>4. CASE \E c \in Conns : Untrack(c) \/ FreeSlot(c)
  BY <1>1, <1>4, SocketsClose DEF Untrack, FreeSlot, GraceHonoured
<1>5. CASE AcceptErrs \/ ServeLoopReturns
  BY <1>1, <1>5, SocketsClose DEF AcceptErrs, ServeLoopReturns, GraceHonoured
<1>6. CASE CancelServe
  BY <1>1, <1>6, SocketsClose DEF CancelServe, GraceHonoured
<1>7. ASSUME CloseListener, watch' \in {watch, "closing"}, watch' # "forced" => watch # "forced"
      PROVE  DispInv'
  <2>1. /\ lst' \in ListenerStates /\ lst'.kind = lst.kind /\ lst' = [lst EXCEPT !.closed = TRUE] /\ ~lst.closed
    BY <1>1, <1>7 DEF CloseListener, CloseLAN, CloseSSH, ListenerStates
  <2>2. ~lst'.swept
    BY <1>1, <2>1 DEF ListenerStates
  <2>3. /\ UNCHANGED <<stage, tracked, results, hand, loop, dctx, trusting>> /\ sock' \subseteq sock
        /\ cut' \subseteq Conns /\ (lst.kind = "lan" => cut' = cut)
    BY <1>1, <1>7 DEF CloseListener, CloseLAN, CloseSSH
  <2>4. GraceHonoured'
    BY <1>1, <1>7, <2>1, <2>3 DEF GraceHonoured
  <2> QED BY <1>1, <1>7, <2>1, <2>2, <2>3, <2>4, SocketsClose
<1>8. CASE StopAccepting
  <2>1. watch = "cancelled" /\ watch' = "closing"
    BY <1>8 DEF StopAccepting
  <2>2. CASE UNCHANGED <<tracked, stage, sock, results, lst, hand, loop, dctx, trusting, cut>>
    BY <1>1, <2>1, <2>2, SocketsClose DEF GraceHonoured
  <2> QED BY <1>7, <1>8, <2>1, <2>2 DEF StopAccepting
<1>9. CASE OwnerCloses
  BY <1>7, <1>9 DEF OwnerCloses
<1>10. CASE OpenGrace \/ Drained
  BY <1>1, <1>10, SocketsClose DEF OpenGrace, Drained, GraceHonoured
<1>11. CASE GraceOver
  BY <1>1, <1>11, SocketsClose DEF GraceOver, GraceHonoured
<1>12. CASE \E c \in Conns : TrustChanges(c)
  BY <1>1, <1>12, SocketsClose DEF TrustChanges, GraceHonoured
<1> QED BY <1>2, <1>3, <1>4, <1>5, <1>6, <1>8, <1>9, <1>10, <1>11, <1>12

-----------------------------------------------------------------------------
(* Accept and the sessions.                                                *)

\* From the queue into Accept's hand.
LEMMA TakeResultKeeps == DispInv /\ TakeResult => DispInv'
<1> SUFFICES ASSUME DispInv, TakeResult PROVE DispInv'
  OBVIOUS
<1> DEFINE c == Head(results)
<1>1. results \in Seq(Conns) /\ results # <<>> /\ hand = {}
  BY DEF TakeResult, DispInv, DispTypes
<1>2. /\ c \in Conns /\ results' \in Seq(Conns) /\ Len(results') = Len(results) - 1
      /\ results[1] = c /\ \A i \in 2..Len(results) : results'[i - 1] = results[i]
      /\ Len(results) \in Nat \ {0}
  BY <1>1 DEF TakeResult
<1>3. hand' = {c} /\ stage' = To(c, "taken") /\ UNCHANGED <<tracked, sock, lst, loop, watch, dctx, trusting, cut>>
  BY DEF TakeResult
<1> HIDE DEF c
<1>4. /\ stage' \in [Conns -> Stages] /\ stage'[c] = "taken"
      /\ \A d \in Conns : d # c => stage'[d] = stage[d]
      /\ Sessions' \subseteq Sessions
  BY <1>2, <1>3, StageMoves DEF DispInv, DispTypes, Stages, Routed
<1>5. DispTypes'
  <2>1. Len(results') <= ResultSlots
    BY <1>2, DispatcherAssumption DEF DispInv, DispTypes
  <2> QED BY <1>2, <1>3, <1>4, <2>1 DEF DispInv, DispTypes
<1>6. \A d \in Conns : stage'[d] = "queued" => \E i \in 1..Len(results') : results'[i] = d
  <2> SUFFICES ASSUME NEW d \in Conns, stage'[d] = "queued" PROVE \E i \in 1..Len(results') : results'[i] = d
    OBVIOUS
  <2>1. d # c /\ stage[d] = "queued"
    BY <1>4
  <2>2. PICK i \in 1..Len(results) : results[i] = d
    BY <2>1 DEF DispInv, SocketsPlaced
  <2>3. i \in 2..Len(results) /\ i - 1 \in 1..Len(results')
    BY <1>2, <2>1, <2>2
  <2> QED BY <1>2, <2>2, <2>3
<1>7. SocketsPlaced'
  <2>1. ~lst.swept
    BY <1>2 DEF DispInv, SocketsPlaced
  <2> QED BY <1>1, <1>3, <1>4, <1>6, <2>1 DEF DispInv, DispTypes, SocketsPlaced
<1>8. SessionsBounded'
  BY <1>4, FewerSessions DEF DispInv
<1> QED BY <1>3, <1>5, <1>7, <1>8 DEF DispInv, GraceHonoured

\* Accept decides: the listener's end comes first, then the session limit.
LEMMA AcceptTakenKeeps == DispInv /\ AcceptTaken => DispInv'
<1> SUFFICES ASSUME DispInv, AcceptTaken PROVE DispInv'
  OBVIOUS
<1>1. PICK c \in hand :
        \/ /\ sock' = sock \ {c} /\ stage' = To(c, "ended") /\ loop' \in {loop, "waiting"}
           /\ watch' \in {watch, "over"} /\ (watch = "forced" => watch' = "forced")
        \/ /\ ~lst.closed /\ Cardinality(Sessions) < SessionLimit
           /\ sock' = sock /\ stage' = To(c, "opening") /\ loop' = loop /\ watch' = watch
  <2>1. Cardinality(Sessions) \in Nat
    BY FS_CardinalityType DEF DispInv, SessionsBounded
  <2> QED BY <2>1, DispatcherAssumption DEF AcceptTaken
<1>2. hand' = {} /\ UNCHANGED <<tracked, results, lst, dctx, trusting, cut>>
  BY DEF AcceptTaken
<1>3. c \in Conns /\ hand = {c}
  BY DEF DispInv, DispTypes
<1>4. /\ loop' \in {"accepting", "waiting", "returned"}
      /\ watch' \in {"parked", "cancelled", "closing", "grace", "forced", "over"}
      /\ watch' # "forced" => watch # "forced"
  BY <1>1 DEF DispInv, DispTypes
<1>5. GraceHonoured'
  BY <1>2, <1>4 DEF DispInv, GraceHonoured
<1>6. CASE sock' = sock \ {c} /\ stage' = To(c, "ended")
  <2>1. /\ stage' \in [Conns -> Stages] /\ stage'[c] = "ended"
        /\ \A d \in Conns : d # c => stage'[d] = stage[d]
        /\ Sessions' \subseteq Sessions
    BY <1>3, <1>6, StageMoves DEF DispInv, DispTypes, Stages, Routed
  <2>2. DispTypes'
    BY <1>2, <1>4, <1>6, <2>1 DEF DispInv, DispTypes
  <2>3. SocketsPlaced'
    BY <1>2, <1>3, <1>6, <2>1 DEF DispInv, DispTypes, SocketsPlaced
  <2>4. SessionsBounded'
    BY <2>1, FewerSessions DEF DispInv
  <2> QED BY <1>5, <2>2, <2>3, <2>4 DEF DispInv
<1>7. CASE ~lst.closed /\ Cardinality(Sessions) < SessionLimit /\ sock' = sock /\ stage' = To(c, "opening")
  <2>1. /\ stage' \in [Conns -> Stages] /\ stage'[c] = "opening"
        /\ \A d \in Conns : d # c => stage'[d] = stage[d]
        /\ Sessions' \subseteq Sessions \cup {c}
    BY <1>3, <1>7, StageMoves DEF DispInv, DispTypes, Stages
  <2>2. DispTypes'
    BY <1>2, <1>4, <1>7, <2>1 DEF DispInv, DispTypes
  <2>3. SocketsPlaced'
    BY <1>2, <1>3, <1>7, <2>1 DEF DispInv, DispTypes, SocketsPlaced
  <2>4. SessionsBounded'
    <3>1. /\ IsFiniteSet(Sessions \cup {c})
          /\ Cardinality(Sessions \cup {c}) \in {Cardinality(Sessions), Cardinality(Sessions) + 1}
      BY FS_AddElement DEF DispInv, SessionsBounded
    <3>2. IsFiniteSet(Sessions') /\ Cardinality(Sessions') <= Cardinality(Sessions \cup {c})
      BY <2>1, <3>1, FS_Subset
    <3>3. Cardinality(Sessions) \in Nat /\ Cardinality(Sessions') \in Nat
      BY <3>2, FS_CardinalityType DEF DispInv, SessionsBounded
    <3>4. Cardinality(Sessions') <= SessionLimit
      BY <1>7, <3>1, <3>2, <3>3, DispatcherAssumption
    <3> QED BY <3>2, <3>4 DEF SessionsBounded
  <2> QED BY <1>5, <2>2, <2>3, <2>4 DEF DispInv
<1> QED BY <1>1, <1>6, <1>7

\* Connections that end, in a handshake or in a session.
LEMMA EndingsKeep ==
    ASSUME DispInv, NEW c \in Conns, HandshakeFails(c) \/ OpeningEnds(c) \/ SessionFinishes(c)
    PROVE  DispInv'
<1>1. \A d \in Conns : stage[d] \in {"handshake", "verified"} => d \in tracked
  BY DEF DispInv, SocketsPlaced
<1>2. CASE HandshakeFails(c)
  BY <1>1, <1>2, Ended DEF HandshakeFails
<1>3. CASE OpeningEnds(c)
  BY <1>1, <1>3, Ended DEF OpeningEnds
<1>4. CASE SessionFinishes(c)
  BY <1>1, <1>4, Ended DEF SessionFinishes
<1> QED BY <1>2, <1>3, <1>4

\* A session stays a session when it is routed.
LEMMA RouteKeeps ==
    ASSUME DispInv, NEW c \in Conns, NEW s \in Routed, Route(c, s)
    PROVE  DispInv'
<1>1. /\ stage[c] = "opening" /\ c \in sock
      /\ UNCHANGED <<tracked, results, lst, hand, loop, watch, dctx, trusting, cut>>
  BY DEF Route
<1>2. CASE stage' = To(c, "ended") /\ sock' = sock \ {c}
  <2>1. \A d \in Conns : stage[d] \in {"handshake", "verified"} => d \in tracked
    BY DEF DispInv, SocketsPlaced
  <2> QED BY <1>1, <1>2, <2>1, Ended
<1>3. CASE stage' = To(c, s) /\ sock' = sock
  <2>1. c \in Sessions /\ s \in Stages /\ s \notin {"none", "ended", "handshake", "verified", "authenticated", "queued", "taken"}
    BY <1>1 DEF Sessions, Routed, Stages
  <2>2. /\ stage' \in [Conns -> Stages] /\ stage'[c] = s
        /\ \A d \in Conns : d # c => stage'[d] = stage[d]
        /\ Sessions' \subseteq Sessions
    BY <1>3, <2>1, StageMoves DEF DispInv, DispTypes
  <2>3. DispTypes'
    BY <1>1, <1>3, <2>2 DEF DispInv, DispTypes
  <2>4. SocketsPlaced'
    BY <1>1, <1>3, <2>1, <2>2 DEF DispInv, DispTypes, SocketsPlaced
  <2>5. SessionsBounded'
    BY <2>2, FewerSessions DEF DispInv
  <2> QED BY <1>1, <2>3, <2>4, <2>5 DEF DispInv, GraceHonoured
<1> QED BY <1>2, <1>3 DEF Route

-----------------------------------------------------------------------------
\* Every step of the listener, the dispatcher and its sessions keeps the invariant.
LEMMA DispStepKeeps == DispInv /\ [DispatcherNext]_dispVars => DispInv'
<1> SUFFICES ASSUME DispInv, [DispatcherNext]_dispVars PROVE DispInv'
  OBVIOUS
<1>1. CASE UNCHANGED dispVars
  BY <1>1 DEF dispVars, DispInv, DispTypes, SocketsPlaced, SessionsBounded, Sessions, GraceHonoured
<1>2. CASE ListenerSteps
  BY <1>2, CloseReturnsKeeps, SocketStepsKeep, EndingsKeep, PublishKeeps DEF ListenerSteps
<1>3. CASE WatcherSteps
  BY <1>3, SocketStepsKeep DEF WatcherSteps
<1>4. CASE LoopSteps
  BY <1>4, TakeResultKeeps, AcceptTakenKeeps, SocketStepsKeep DEF LoopSteps
<1>5. CASE CancelServe \/ OwnerCloses \/ AcceptBreaks
  BY <1>5, SocketStepsKeep
<1>6. ASSUME NEW c \in Conns,
             \/ ServeAccepts(c) \/ HandshakeSucceeds(c) \/ SSHAuthenticates(c) \/ PromoteServerConn(c)
             \/ \E s \in Routed : Route(c, s)
             \/ OpeningEnds(c) \/ SessionFinishes(c) \/ TrustChanges(c)
      PROVE  DispInv'
  BY <1>6, ServeAcceptsKeeps, VerifiedKeeps, AuthenticatedKeeps, RouteKeeps, EndingsKeep, SocketStepsKeep
<1> QED BY <1>1, <1>2, <1>3, <1>4, <1>5, <1>6 DEF DispatcherNext

\* A slot is taken while there is one, and given back.
LEMMA SlotsStep == SlotsBounded /\ [DispatcherNext]_dispVars => SlotsBounded'
<1> SUFFICES ASSUME SlotsBounded, [DispatcherNext]_dispVars PROVE SlotsBounded'
  OBVIOUS
<1>1. CASE slots' \subseteq slots
  <2>1. IsFiniteSet(slots') /\ Cardinality(slots') <= Cardinality(slots)
    BY <1>1, FS_Subset DEF SlotsBounded
  <2>2. Cardinality(slots') \in Nat /\ Cardinality(slots) \in Nat
    BY <2>1, FS_CardinalityType DEF SlotsBounded
  <2> QED BY <1>1, <2>1, <2>2, DispatcherAssumption DEF SlotsBounded
<1>2. ASSUME NEW c \in Conns, Cardinality(slots) < HandshakeSlots, slots' = slots \cup {c}
      PROVE  SlotsBounded'
  <2>1. IsFiniteSet(slots') /\ Cardinality(slots') \in {Cardinality(slots), Cardinality(slots) + 1}
    BY <1>2, FS_AddElement DEF SlotsBounded
  <2>2. Cardinality(slots) \in Nat
    BY FS_CardinalityType DEF SlotsBounded
  <2> QED BY <1>2, <2>1, <2>2, DispatcherAssumption DEF SlotsBounded
<1>3. \/ slots' \subseteq slots
      \/ \E c \in Conns : Cardinality(slots) < HandshakeSlots /\ slots' = slots \cup {c}
  <2>1. CASE ListenerSteps
    BY <2>1 DEF ListenerSteps, ServeEnds, CloseReturns, HandshakeFails, Publish, Untrack, FreeSlot
  <2>2. CASE WatcherSteps \/ LoopSteps
    BY <2>2 DEF WatcherSteps, LoopSteps, StopAccepting, CloseListener, CloseLAN, CloseSSH, OpenGrace, Drained,
                GraceOver, TakeResult, AcceptTaken, AcceptErrs, ServeLoopReturns
  <2>3. CASE CancelServe \/ OwnerCloses \/ AcceptBreaks \/ UNCHANGED dispVars
    BY <2>3 DEF CancelServe, OwnerCloses, CloseListener, CloseLAN, CloseSSH, AcceptBreaks, dispVars
  <2>4. ASSUME NEW c \in Conns,
               \/ HandshakeSucceeds(c) \/ SSHAuthenticates(c) \/ PromoteServerConn(c)
               \/ \E s \in Routed : Route(c, s)
               \/ OpeningEnds(c) \/ SessionFinishes(c) \/ TrustChanges(c)
        PROVE  slots' \subseteq slots
    BY <2>4 DEF HandshakeSucceeds, SSHAuthenticates, PromoteServerConn, Route, OpeningEnds, SessionFinishes,
                TrustChanges
  <2>5. ASSUME NEW c \in Conns, ServeAccepts(c)
        PROVE  slots' \subseteq slots \/ (Cardinality(slots) < HandshakeSlots /\ slots' = slots \cup {c})
    BY <2>5 DEF ServeAccepts
  <2> QED BY <2>1, <2>2, <2>3, <2>4, <2>5 DEF DispatcherNext
<1> QED BY <1>1, <1>2, <1>3

\* All are free at first.
LEMMA SlotsInitially == DispatcherInit => SlotsBounded
BY FS_EmptySet, DispatcherAssumption DEF DispatcherInit, SlotsBounded

\* For any number of connections, slots and sessions: a listener that has
\* closed leaves no socket behind, sessions are drained before they are cut,
\* and there are never more than the limit (lanListener.Close, Accept, Serve,
\* handleConn).
THEOREM DispatcherSafe == DispatcherSpec => [](DispatcherTypeOK /\ SessionsGuarded)
<1>1. DispatcherInit => DispInv /\ SlotsBounded
  BY DispInitially, SlotsInitially
<1>2. (DispInv /\ SlotsBounded) /\ [DispatcherNext]_dispVars => (DispInv /\ SlotsBounded)'
  BY DispStepKeeps, SlotsStep
<1>3. DispInv /\ SlotsBounded => DispatcherTypeOK /\ SessionsGuarded
  BY DispInvGuards
<1> QED BY <1>1, <1>2, <1>3, PTL DEF DispatcherSpec

-----------------------------------------------------------------------------
(* The parts together.                                                     *)

\* The invariants of the parts.
LiveInv == HealthInv /\ AddressInv /\ Candidates /\ DiscoveryInv /\ LifecycleInv /\ DispInv /\ SlotsBounded

\* A step of one part leaves the variables of the others alone.
LEMMA LiveStepKeeps == LiveInv /\ [LiveNext]_liveVars => LiveInv'
<1> SUFFICES ASSUME LiveInv, [LiveNext]_liveVars PROVE LiveInv'
  OBVIOUS
<1>1. /\ [PeerHealthNext]_healthVars /\ [ReconnectionNext]_reconVars /\ [DiscoveryNext]_discVars
      /\ [LifecycleNext]_lifeVars /\ [DispatcherNext]_dispVars
  BY DEF LiveNext, HealthStep, AddressStep, DiscoveryStep, LifecycleStep, DispatcherStep, liveVars
<1>2. HealthInv' /\ AddressInv' /\ Candidates'
  BY <1>1, HealthStepKeeps, AddressStepKeeps, CandidatesStep DEF LiveInv
<1>3. DiscoveryInv' /\ LifecycleInv' /\ DispInv' /\ SlotsBounded'
  BY <1>1, DiscoveryStepKeeps, LifecycleStepKeeps, DispStepKeeps, SlotsStep DEF LiveInv
<1> QED BY <1>2, <1>3 DEF LiveInv

\* Whoever sends beacons, connects, pairs, starts and stops the Hub: what it
\* keeps for its peers, its table of discovered nodes, its attempts to find a
\* peer again and its sessions stay within their bounds (peer_health.go,
\* recordNode, Start, Stop, ConnDispatcher).
THEOREM LiveStateBounded == LiveSpec => []StateBounded
<1>1. LiveInit => LiveInv
  BY HealthInitially, AddressInitially, CandidatesInitially, DiscoveryInitially, LifecycleInitially,
     DispInitially, SlotsInitially DEF LiveInit, LiveInv
<1>2. LiveInv => StateBounded
  BY HealthInvBounds, ReconnectionTyped, DiscoveryInvBounds, DispInvGuards
     DEF LiveInv, StateBounded, LifecycleInv
<1> QED BY <1>1, <1>2, LiveStepKeeps, PTL DEF LiveSpec
=============================================================================
