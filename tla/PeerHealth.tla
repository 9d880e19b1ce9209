------------------------------ MODULE PeerHealth ------------------------------
(***************************************************************************)
(* The heartbeat of a Hub (internal/hub/peer_health.go): one scheduler     *)
(* wakes every second, follows the peer store, and starts a probe of every *)
(* peer that is due; the probes run beside it and record what they found.  *)
(* The same door (beginBackgroundWork, hub.go) keeps probes and            *)
(* reconnection dials from starting once Stop waits for them.              *)
(***************************************************************************)
EXTENDS Integers, FiniteSets

CONSTANTS Probed,          \* peers
          ProbeSlots,      \* the pool of probes (eight of them)
          MaxRung,         \* bound: where the backoff ladder is cut off
          MaxTrustChanges  \* bound: pairings and removals while the Hub runs

ASSUME PeerHealthConstants == IsFiniteSet(Probed) /\ IsFiniteSet(ProbeSlots) /\ MaxRung \in Nat \ {0}

VARIABLES paired,    \* peers in the store
          probes,    \* peers the scheduler knows
          rung,      \* [Probed -> failures, the rung of the backoff ladder]
          due,       \* peers whose next probe has come due
          sched,     \* the scheduler: where it stands and what it holds
          seat,      \* [ProbeSlots -> {} or {the probe that holds it}]
          health,    \* [Probed -> {} or {what the Hub believes of it}]
          dials,     \* reconnection dials under way
          bgStopped, \* the door behind the background tasks
          stopping,  \* how far Stop has come
          trustChanges
healthVars == <<paired, probes, rung, due, sched, seat, health, dials, bgStopped, stopping, trustChanges>>

Idle == [at |-> "wait", list |-> {}, dropped |-> {}, start |-> {}]
PeerHealthInit ==
    /\ paired = Probed /\ probes = {} /\ rung = [p \in Probed |-> 0] /\ due = {}
    /\ sched = Idle /\ seat = [i \in ProbeSlots |-> {}]
    /\ health = [p \in Probed |-> {}] /\ dials = 0
    /\ bgStopped = FALSE /\ stopping = "no" /\ trustChanges = 0

(* --------------------------- health records ---------------------------- *)

\* healthFor: an absent record reads as one never checked.
HealthFor(p) == IF health[p] = {} THEN [reachable |-> FALSE, answeredOnce |-> FALSE, failures |-> 0]
                ELSE CHOOSE h \in health[p] : TRUE
Capped(n) == IF n < MaxRung THEN n + 1 ELSE MaxRung
HealthFailed(h) == [h EXCEPT !.reachable = FALSE, !.failures = Capped(@)]
HealthSucceeded(h) == [reachable |-> TRUE, answeredOnce |-> TRUE, failures |-> 0]

(* ------------------------------ scheduler ------------------------------ *)

At(where) == sched.at = where
Rest == UNCHANGED <<dials, bgStopped, stopping, trustChanges>>

\* syncProbes reads the store before it takes the lock of the schedule.
TickReadsStore ==
    /\ At("wait") /\ sched' = [sched EXCEPT !.at = "sync", !.list = paired]
    /\ UNCHANGED <<paired, probes, rung, due, seat, health>> /\ Rest
SyncProbes_NeverDrops ==
    /\ At("sync")
    /\ probes' = probes \cup sched.list
    /\ rung' = [p \in Probed |-> IF p \in probes THEN rung[p] ELSE 0]
    /\ sched' = [sched EXCEPT !.at = "clear"]
    /\ UNCHANGED <<paired, due, seat, health>> /\ Rest

\* Peers no longer in the store leave the schedule, new ones join it.
SyncProbes ==
    /\ At("sync")
    /\ probes' = sched.list
    /\ rung' = [p \in Probed |-> IF p \in probes \cap sched.list THEN rung[p] ELSE 0]
    /\ due' = due \cap sched.list
    /\ sched' = [sched EXCEPT !.at = "clear", !.dropped = probes \ sched.list]
    /\ UNCHANGED <<paired, seat, health>> /\ Rest

\* ... and clears the records of those it dropped once the lock is released.
ClearDropped ==
    /\ At("clear")
    /\ health' = [p \in Probed |-> IF p \in sched.dropped THEN {} ELSE health[p]]
    /\ sched' = [sched EXCEPT !.at = "collect", !.dropped = {}]
    /\ UNCHANGED <<paired, probes, rung, due, seat>> /\ Rest

FreeSlots == {i \in ProbeSlots : seat[i] = {}}
\* Every due peer takes a slot while there are any.  Its next time stays as it
\* is: it moves on only when a probe of it finishes.
CollectDue ==
    /\ At("collect")
    /\ \E chosen \in SUBSET (due \cap probes) :
          /\ Cardinality(chosen) <= Cardinality(FreeSlots)
          /\ chosen = due \cap probes \/ Cardinality(chosen) = Cardinality(FreeSlots)
          /\ \E taken \in [chosen -> FreeSlots] :
                /\ \A p, q \in chosen : p # q => taken[p] # taken[q]
                /\ seat' = [i \in ProbeSlots |->
                              IF \E p \in chosen : taken[p] = i
                              THEN {[peer |-> CHOOSE p \in chosen : taken[p] = i, at |-> "held", verdict |-> {}]}
                              ELSE seat[i]]
    /\ sched' = [sched EXCEPT !.at = "start"]
    /\ UNCHANGED <<paired, probes, rung, due, health>> /\ Rest

Held == {i \in ProbeSlots : \E w \in seat[i] : w.at = "held"}
\* The goroutine starts only if the door is still open.
StartProbe(i) ==
    /\ At("start") /\ i \in Held
    /\ seat' = [seat EXCEPT ![i] = IF bgStopped THEN {} ELSE {[w EXCEPT !.at = "dialing"] : w \in @}]
    /\ UNCHANGED <<paired, probes, rung, due, sched, health>> /\ Rest
TickEnds ==
    /\ At("start") /\ Held = {}
    /\ sched' = Idle
    /\ UNCHANGED <<paired, probes, rung, due, seat, health>> /\ Rest
SchedulerExits ==
    /\ At("wait") /\ stopping # "no" /\ sched' = [sched EXCEPT !.at = "gone"]
    /\ UNCHANGED <<paired, probes, rung, due, seat, health>> /\ Rest

(* -------------------------------- probes ------------------------------- *)

Judged(q, h) == {[peer |-> q, at |-> "judged", verdict |-> {h}]}
\* DialPeerContext resolves the peer in the store as the dial starts, and only
\* then; one that is not there ends the probe.
ResolvePeer(i) ==
    \E w \in seat[i] :
       /\ w.at = "dialing"
       /\ seat' = [seat EXCEPT ![i] = IF w.peer \in paired THEN {[w EXCEPT !.at = "pinging"]}
                                      ELSE Judged(w.peer, HealthFailed(HealthFor(w.peer)))]
       /\ UNCHANGED <<paired, probes, rung, due, sched, health>> /\ Rest

\* probePeerOnce: the peer answers the ping or does not, paired still or not;
\* the verdict continues the record as it is read then.
ProbePeerOnce(i, answered) ==
    \E w \in seat[i] :
       /\ w.at = "pinging"
       /\ seat' = [seat EXCEPT ![i] = Judged(w.peer, IF answered THEN HealthSucceeded(HealthFor(w.peer))
                                                     ELSE HealthFailed(HealthFor(w.peer)))]
       /\ UNCHANGED <<paired, probes, rung, due, sched, health>> /\ Rest

RecordVerdict_Late(i) ==
    \E w \in seat[i] : \E v \in w.verdict :
       /\ w.at = "judged" /\ seat' = [seat EXCEPT ![i] = {}]
       /\ health' = [health EXCEPT ![w.peer] = {v}]
       /\ rung' = [rung EXCEPT ![w.peer] = IF v.reachable THEN 0 ELSE Capped(@)]
       /\ due' = due \ {w.peer}
       /\ UNCHANGED <<paired, probes, sched>> /\ Rest

\* The verdict is recorded only while the peer is still scheduled, under the
\* lock of the schedule; then the next probe is scheduled.
RecordVerdict(i) ==
    \E w \in seat[i] : \E v \in w.verdict :
       /\ w.at = "judged" /\ seat' = [seat EXCEPT ![i] = {}]
       /\ IF w.peer \in probes
          THEN /\ health' = [health EXCEPT ![w.peer] = {v}]
               /\ rung' = [rung EXCEPT ![w.peer] = IF v.reachable THEN 0 ELSE Capped(@)]
               /\ due' = due \ {w.peer}
          ELSE UNCHANGED <<health, rung, due>>
       /\ UNCHANGED <<paired, probes, sched>> /\ Rest

\* Time passes and the interval of a peer is over.
ComesDue(p) ==
    /\ p \in probes \ due /\ due' = due \cup {p}
    /\ UNCHANGED <<paired, probes, rung, sched, seat, health>> /\ Rest

(* ------------------------- trust, dials and Stop ------------------------ *)

ChangeTrust(p) ==
    /\ trustChanges < MaxTrustChanges /\ trustChanges' = trustChanges + 1
    /\ paired' = IF p \in paired THEN paired \ {p} ELSE paired \cup {p}
    /\ UNCHANGED <<probes, rung, due, sched, seat, health, dials, bgStopped, stopping>>

\* reconcileDiscoveredAddress passes through the same door.
BeginReconnection ==
    /\ ~bgStopped /\ dials = 0 /\ dials' = 1
    /\ UNCHANGED <<paired, probes, rung, due, sched, seat, health, bgStopped, stopping, trustChanges>>
EndReconnection ==
    /\ dials = 1 /\ dials' = 0
    /\ UNCHANGED <<paired, probes, rung, due, sched, seat, health, bgStopped, stopping, trustChanges>>

StopOnly == UNCHANGED <<paired, probes, rung, due, sched, seat, health, dials, trustChanges>>
\* Stop: cancel, close the door, wait for what was counted before.
CancelRun == stopping = "no" /\ stopping' = "cancelled" /\ UNCHANGED bgStopped /\ StopOnly
StopBackgroundWork == stopping = "cancelled" /\ stopping' = "waiting" /\ bgStopped' = TRUE /\ StopOnly
Working(i) == \E w \in seat[i] : w.at # "held"
WaitForWork ==
    /\ stopping = "waiting" /\ dials = 0 /\ \A i \in ProbeSlots : ~Working(i)
    /\ stopping' = "returned" /\ UNCHANGED bgStopped /\ StopOnly

Scheduler == TickReadsStore \/ SyncProbes \/ ClearDropped \/ CollectDue \/ TickEnds
             \/ \E i \in ProbeSlots : StartProbe(i)
Probe(i) == ResolvePeer(i) \/ RecordVerdict(i) \/ \E answered \in BOOLEAN : ProbePeerOnce(i, answered)
PeerHealthNext ==
    \/ Scheduler \/ SchedulerExits
    \/ \E i \in ProbeSlots : Probe(i)
    \/ \E p \in Probed : ComesDue(p) \/ ChangeTrust(p)
    \/ BeginReconnection \/ EndReconnection \/ CancelRun \/ StopBackgroundWork \/ WaitForWork

\* The ticker keeps firing, and a probe ends: its dial and its ping have
\* timeouts.
PeerHealthFairness ==
    WF_healthVars(Scheduler) /\ \A i \in ProbeSlots : WF_healthVars(Probe(i))
PeerHealthSpec == PeerHealthInit /\ [][PeerHealthNext]_healthVars /\ PeerHealthFairness

(* ----------------------------- properties ------------------------------ *)

PeerHealthTypeOK ==
    /\ paired \subseteq Probed /\ probes \subseteq Probed /\ due \subseteq probes
    /\ rung \in [Probed -> 0..MaxRung]
    /\ stopping \in {"no", "cancelled", "waiting", "returned"}
    /\ \A p \in Probed : Cardinality(health[p]) <= 1
    /\ \A i \in ProbeSlots : Cardinality(seat[i]) <= 1 /\ \A w \in seat[i] : w.peer \in Probed

\* A peer that left the schedule with its trust has no record: the probe that
\* was under way when it was removed does not bring one back.
UntrustedForgotten == \A p \in Probed : health[p] # {} => p \in probes \cup sched.dropped

\* When Stop returns nothing it promised to wait for still runs: no probe or
\* dial starts behind its back, whatever the scheduler was in the middle of.
StoppedIsQuiet == stopping = "returned" => dials = 0 /\ \A i \in ProbeSlots : ~Working(i)

\* The probes leave nothing behind that outlives the trust or the Hub.
HealthBounded == UntrustedForgotten /\ StoppedIsQuiet

\* A removed peer stops being reported, as long as the Hub runs.
RemovedPeerUnreported == \A p \in Probed :
    (p \notin paired) ~> (p \in paired \/ health[p] = {} \/ stopping # "no")

=============================================================================
