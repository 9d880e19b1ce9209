---------------------------- MODULE RelayCoordinator ----------------------------
(***************************************************************************)
(* The Hub's OAuth relays (internal/hub/relay_coordinator.go): callers of  *)
(* relayOAuth coalesced by request key, the leader's flow with its own     *)
(* cancellable context, and dashboards that cancel a relay, interleaved at *)
(* the locks: the coordinator's mutex, each call's cancelMu and the        *)
(* attempt ledger's mutex (relay_history.go).                              *)
(*                                                                         *)
(* A call and its attempt id are named after the caller that leads it.     *)
(***************************************************************************)
EXTENDS Integers, FiniteSets

CONSTANTS
    Callers,        \* relayOAuth invocations
    Cancels,        \* CancelRelay invocations
    KeyOf,          \* relayRequestKey of each caller
    Leavers,        \* callers whose HTTP request may go away
    MaxActive       \* maxRelayActiveEntries

Keys == {KeyOf[c] : c \in Callers}

ASSUME RelayConstants == IsFiniteSet(Keys) /\ MaxActive \in Nat

Terminal == {"complete", "failed", "cancelled"}

VARIABLES
    pc,         \* where each caller is
    gone,       \* callers whose HTTP request context is done
    active,     \* the call in flight for each key, or {}
    follows,    \* {the call a follower waits for}, or {}
    cancelFn,   \* calls whose cancel function is installed
    released,   \* calls whose released flag is set
    published,  \* calls whose attempt id is set
    cause,      \* why a flow's context is done: none | user | deadline
    outcome,    \* the leader's result
    ledger,     \* the recorded state of each attempt, or none
    xpc,        \* where each cancellation is
    target,     \* {the call CancelRelay chose}, or {}
    hadId,      \* the snapshot showed the target's attempt id
    found       \* {the call cancelAttempt or cancelFlow found}, or {}

flowVars == <<active, follows, cancelFn, released, published, cause, outcome, ledger>>
cancelVars == <<xpc, target, hadId, found>>
vars == <<pc, gone, flowVars, cancelVars>>

Steps == {"idle", "entered", "registered", "dialling", "running", "ended",
          "cleared", "following", "returned"}

\* The keys of the coordinator's map.
BusyKeys == {k \in Keys : active[k] # {}}

TypeOK ==
    /\ pc \in [Callers -> Steps]
    /\ gone \subseteq Callers
    /\ active \in [Keys -> SUBSET Callers]
    /\ follows \in [Callers -> SUBSET Callers]
    /\ cancelFn \subseteq Callers /\ released \subseteq Callers
    /\ published \subseteq Callers
    /\ cause \in [Callers -> {"none", "user", "deadline"}]
    /\ outcome \in [Callers -> {"none", "ok", "error"}]
    /\ ledger \in [Callers -> {"none", "waiting"} \cup Terminal]
    /\ xpc \in [Cancels -> {"idle", "chosen", "looked", "asking", "done"}]
    /\ target \in [Cancels -> SUBSET Callers]
    /\ hadId \in [Cancels -> BOOLEAN]
    /\ found \in [Cancels -> SUBSET Callers]
    /\ Cardinality(BusyKeys) <= MaxActive

Init ==
    /\ pc = [c \in Callers |-> "idle"]
    /\ gone = {}
    /\ active = [k \in Keys |-> {}]
    /\ follows = [c \in Callers |-> {}]
    /\ cancelFn = {} /\ released = {} /\ published = {}
    /\ cause = [c \in Callers |-> "none"]
    /\ outcome = [c \in Callers |-> "none"]
    /\ ledger = [c \in Callers |-> "none"]
    /\ xpc = [x \in Cancels |-> "idle"]
    /\ target = [x \in Cancels |-> {}]
    /\ hadId = [x \in Cancels |-> FALSE]
    /\ found = [x \in Cancels |-> {}]

-----------------------------------------------------------------------------
(***************************************************************************)
(* relayCoordinator.Do: one leader per key, the others wait for it.        *)
(***************************************************************************)
Goto(c, step) == pc' = [pc EXCEPT ![c] = step]
Full == Cardinality(BusyKeys) >= MaxActive

Do_SkipsCancelled(c) ==         \* mutant: a cancelled relay is replaced, not joined
    /\ pc[c] = "idle" /\ active[KeyOf[c]] \subseteq released
    /\ Full => active[KeyOf[c]] # {}
    /\ active' = [active EXCEPT ![KeyOf[c]] = {c}]
    /\ Goto(c, "entered")
    /\ UNCHANGED <<gone, follows, cancelFn, released, published, cause, outcome, ledger, cancelVars>>
Do_OneTooMany(c) ==             \* mutant: the bound is off by one
    /\ pc[c] = "idle" /\ active[KeyOf[c]] = {}
    /\ Cardinality(BusyKeys) <= MaxActive
    /\ active' = [active EXCEPT ![KeyOf[c]] = {c}]
    /\ Goto(c, "entered")
    /\ UNCHANGED <<gone, follows, cancelFn, released, published, cause, outcome, ledger, cancelVars>>
Do(c) ==
    LET k == KeyOf[c] IN
    /\ pc[c] = "idle"
    /\ \/ /\ c \in gone /\ Goto(c, "returned") /\ UNCHANGED <<active, follows>>
       \/ /\ c \notin gone /\ active[k] # {}
          /\ follows' = [follows EXCEPT ![c] = active[k]]
          /\ Goto(c, "following") /\ UNCHANGED active
       \/ /\ c \notin gone /\ active[k] = {} /\ Full
          /\ Goto(c, "returned") /\ UNCHANGED <<active, follows>>
       \/ /\ c \notin gone /\ active[k] = {} /\ ~Full
          /\ active' = [active EXCEPT ![k] = {c}]
          /\ Goto(c, "entered") /\ UNCHANGED follows
    /\ UNCHANGED <<gone, cancelFn, released, published, cause, outcome, ledger, cancelVars>>

\* An invalid URL or an unknown peer is refused before Do, and recorded as a
\* failed attempt.
Refuse(c) ==
    /\ pc[c] = "idle"
    /\ outcome' = [outcome EXCEPT ![c] = "error"]
    /\ ledger' = [ledger EXCEPT ![c] = "failed"]
    /\ Goto(c, "returned")
    /\ UNCHANGED <<gone, active, follows, cancelFn, released, published, cause, cancelVars>>

\* A follower returns the leader's error, or gives up with its own request.
Follow(c) ==
    /\ pc[c] = "following"
    /\ \/ \E l \in follows[c] : pc[l] = "returned" /\ Goto(c, "returned")
       \/ c \in gone /\ Goto(c, "returned")
    /\ UNCHANGED <<gone, flowVars, cancelVars>>

\* The browser tab or the popup of a caller goes away.
RequestGone(c) ==
    /\ c \in Leavers \ gone /\ pc[c] # "returned"
    /\ gone' = gone \cup {c}
    /\ UNCHANGED <<pc, flowVars, cancelVars>>

-----------------------------------------------------------------------------
(***************************************************************************)
(* The leader's flow.  Its context is the Hub's, not the request's.        *)
(***************************************************************************)
\* Only the first cause of a context counts.
CancelCtx(S, why) == cause' = [c \in Callers |-> IF c \in S /\ cause[c] = "none" THEN why ELSE cause[c]]

Register_DropsEarlyCancel(c) == \* mutant: a cancellation already recorded is lost
    /\ pc[c] = "entered"
    /\ cancelFn' = cancelFn \cup {c}
    /\ published' = published \cup {c}
    /\ Goto(c, "registered")
    /\ UNCHANGED <<gone, active, follows, released, cause, outcome, ledger, cancelVars>>
\* register: the cancel function and the attempt id; a cancellation that
\* arrived before is applied now.
Register(c) ==
    /\ pc[c] = "entered"
    /\ cancelFn' = cancelFn \cup {c}
    /\ published' = published \cup {c}
    /\ CancelCtx({c} \cap released, "user")
    /\ Goto(c, "registered")
    /\ UNCHANGED <<gone, active, follows, released, outcome, ledger, cancelVars>>

\* recordRelayAttempt(submitted), updateRelayAttempt(waiting).
RecordAttempt(c) ==
    /\ pc[c] = "registered"
    /\ ledger' = [ledger EXCEPT ![c] = "waiting"]
    /\ Goto(c, "dialling")
    /\ UNCHANGED <<gone, active, follows, cancelFn, released, published, cause,
                   outcome, cancelVars>>

DialFails_NoUpdate(c) ==        \* mutant: the attempt is left waiting
    /\ pc[c] = "dialling"
    /\ outcome' = [outcome EXCEPT ![c] = "error"]
    /\ Goto(c, "ended")
    /\ UNCHANGED <<gone, active, follows, cancelFn, released, published, cause, ledger, cancelVars>>
DialFails(c) ==
    /\ pc[c] = "dialling"
    /\ outcome' = [outcome EXCEPT ![c] = "error"]
    /\ ledger' = [ledger EXCEPT ![c] = "failed"]
    /\ Goto(c, "ended")
    /\ UNCHANGED <<gone, active, follows, cancelFn, released, published, cause, cancelVars>>

Dialled(c) ==
    /\ pc[c] = "dialling"
    /\ Goto(c, "running")
    /\ UNCHANGED <<gone, flowVars, cancelVars>>

\* HandleBSide returned nil.
FlowSucceeds(c) ==
    /\ pc[c] = "running"
    /\ outcome' = [outcome EXCEPT ![c] = "ok"]
    /\ ledger' = [ledger EXCEPT ![c] = "complete"]
    /\ Goto(c, "ended")
    /\ UNCHANGED <<gone, active, follows, cancelFn, released, published, cause, cancelVars>>

\* HandleBSide failed; a done context, of the flow or of the request, is
\* recorded as a cancellation.
FlowFails(c) ==
    /\ pc[c] = "running"
    /\ outcome' = [outcome EXCEPT ![c] = "error"]
    /\ ledger' = [ledger EXCEPT ![c] =
                    IF c \in gone \/ cause[c] # "none" THEN "cancelled" ELSE "failed"]
    /\ Goto(c, "ended")
    /\ UNCHANGED <<gone, active, follows, cancelFn, released, published, cause, cancelVars>>

Timeout_WithRequest(c) ==       \* mutant: the bound hangs on the request
    /\ c \in gone
    /\ pc[c] \in {"registered", "dialling", "running"} /\ cause[c] = "none"
    /\ CancelCtx({c}, "deadline")
    /\ UNCHANGED <<pc, gone, active, follows, cancelFn, released, published,
                   outcome, ledger, cancelVars>>
Timeout(c) ==
    /\ pc[c] \in {"registered", "dialling", "running"} /\ cause[c] = "none"
    /\ CancelCtx({c}, "deadline")
    /\ UNCHANGED <<pc, gone, active, follows, cancelFn, released, published,
                   outcome, ledger, cancelVars>>

\* The deferred clear, and then Do's last section: the key is free and the
\* followers are woken.
Clear(c) ==
    /\ pc[c] = "ended"
    /\ cancelFn' = cancelFn \ {c}
    /\ Goto(c, "cleared")
    /\ UNCHANGED <<gone, active, follows, released, published, cause, outcome, ledger, cancelVars>>

Leave(c) ==
    /\ pc[c] = "cleared"
    /\ Goto(c, "returned")
    /\ active' = [active EXCEPT ![KeyOf[c]] = {}]
    /\ UNCHANGED <<gone, follows, cancelFn, released, published, cause, outcome,
                   ledger, cancelVars>>

-----------------------------------------------------------------------------
(***************************************************************************)
(* CancelRelay: a snapshot, the local release, the peer, the ledger.       *)
(***************************************************************************)
XGoto(x, step) == xpc' = [xpc EXCEPT ![x] = step]

\* A relay of the snapshot, named by its attempt id or the oldest one; with
\* nothing to cancel the call returns.
ChooseTarget(x) ==
    /\ xpc[x] = "idle"
    /\ \/ \E k \in Keys : \E c \in active[k] :
            /\ target' = [target EXCEPT ![x] = {c}]
            /\ hadId' = [hadId EXCEPT ![x] = c \in published]
            /\ XGoto(x, "chosen")
       \/ XGoto(x, "done") /\ UNCHANGED <<target, hadId>>
    /\ UNCHANGED <<pc, gone, flowVars, found>>

LookUp_IdOnly(x) ==             \* mutant: a relay without an id is not found
    /\ xpc[x] = "chosen"
    /\ \E t \in target[x] :
        found' = [found EXCEPT ![x] = IF hadId[x] THEN {t} \cap active[KeyOf[t]] ELSE {}]
    /\ XGoto(x, "looked")
    /\ UNCHANGED <<pc, gone, flowVars, target, hadId>>
\* cancelAttempt by id, and when that finds nothing, cancelFlow by key.
LookUp(x) ==
    /\ xpc[x] = "chosen"
    /\ \E t \in target[x] :
        found' = [found EXCEPT ![x] =
                    IF hadId[x] /\ t \in active[KeyOf[t]] THEN {t} ELSE active[KeyOf[t]]]
    /\ XGoto(x, "looked")
    /\ UNCHANGED <<pc, gone, flowVars, target, hadId>>

\* release on the call found: the intent is recorded, and applied if the
\* cancel function is there.
Release(x) ==
    /\ xpc[x] = "looked"
    /\ released' = released \cup found[x]
    /\ CancelCtx(found[x] \cap cancelFn, "user")
    /\ XGoto(x, "asking")
    /\ UNCHANGED <<pc, gone, active, follows, cancelFn, published, outcome, ledger, target, hadId, found>>

\* The peer has been asked, whatever it said; the attempt is recorded.
RecordCancel(x) ==
    /\ xpc[x] = "asking"
    /\ ledger' = [c \in Callers |->
                    IF c \in target[x] /\ hadId[x] /\ ledger[c] # "none"
                    THEN "cancelled" ELSE ledger[c]]
    /\ XGoto(x, "done")
    /\ UNCHANGED <<pc, gone, active, follows, cancelFn, released, published,
                   cause, outcome, target, hadId, found>>

-----------------------------------------------------------------------------
Leader(c) ==
    \/ Register(c) \/ RecordAttempt(c) \/ DialFails(c) \/ Dialled(c)
    \/ (cause[c] # "none" /\ FlowFails(c)) \/ Clear(c) \/ Leave(c)
CancelStep(x) == LookUp(x) \/ Release(x) \/ RecordCancel(x)

Next ==
    \/ \E c \in Callers :
        \/ Refuse(c) \/ Do(c) \/ Follow(c) \/ RequestGone(c) \/ Leader(c) \/ Timeout(c)
        \/ FlowSucceeds(c) \/ FlowFails(c)
    \/ \E x \in Cancels : ChooseTarget(x) \/ CancelStep(x)

Spec == Init /\ [][Next]_vars

\* The timer of a flow fires, and a flow whose context is done returns.
FairSpec ==
    /\ Spec
    /\ \A c \in Callers : WF_vars(Leader(c)) /\ WF_vars(Follow(c)) /\ WF_vars(Timeout(c))
    /\ \A x \in Cancels : WF_vars(CancelStep(x))

-----------------------------------------------------------------------------
(***************************************************************************)
(* Properties.                                                             *)
(***************************************************************************)
InFlow == {"entered", "registered", "dialling", "running", "ended", "cleared"}

\* Single flight: two relays of one request key are never open at once, so a
\* retry never opens a second browser session on the same callback port.
OneFlowPerKey ==
    \A c, d \in Callers :
        c # d /\ KeyOf[c] = KeyOf[d] /\ pc[c] \in InFlow => pc[d] \notin InFlow

\* A cancellation that was recorded is never lost, wherever it arrived: a flow
\* with a release recorded runs with a done context.
CancelHonoured ==
    \A c \in released :
        pc[c] \in {"registered", "dialling", "running"} => cause[c] # "none"

\* When CancelRelay has returned, the relay it chose is over or on its way out,
\* even one that had not published its attempt id yet.
CancelReachesTarget ==
    \A x \in Cancels : \A c \in target[x] :
        xpc[x] = "done" /\ pc[c] \in {"registered", "dialling", "running"} => cause[c] # "none"

\* When a leader has returned its attempt is settled in the ledger, whatever
\* cancellations wrote there in between, and never as more than it achieved.
AttemptSettled ==
    \A c \in Callers : c \in published /\ pc[c] = "returned" =>
        /\ ledger[c] \in Terminal
        /\ ledger[c] = "complete" => outcome[c] = "ok"
        /\ ledger[c] = "failed" => outcome[c] = "error"

\* Every caller returns: leaders within their timeout, followers with them.
CallersReturn ==
    \A c \in Callers : pc[c] # "idle" ~> pc[c] = "returned"

-----------------------------------------------------------------------------
(***************************************************************************)
(* The parts of the inductive invariant.                                   *)
(***************************************************************************)
\* The coordinator's entry for a key is the relay in flight for it, and a flow
\* past register and before clear has its cancel function installed.
FlowsListed ==
    /\ \A c \in Callers : pc[c] \in InFlow => active[KeyOf[c]] = {c}
    /\ \A k \in Keys : \A c \in active[k] : KeyOf[c] = k /\ pc[c] \in InFlow
    /\ \A c \in Callers : pc[c] \in {"registered", "dialling", "running"} => c \in cancelFn

\* A cancellation chooses one relay and keeps hold of it while it is in flight.
TargetsKept ==
    \A x \in Cancels :
        /\ xpc[x] = "idle" => target[x] = {}
        /\ \A c, d \in target[x] : c = d
        /\ \A c \in target[x] :
            /\ pc[c] \in InFlow \cup {"returned"}
            /\ xpc[x] = "looked" /\ pc[c] \in InFlow => c \in found[x]
            /\ xpc[x] \in {"asking", "done"} /\ pc[c] \in InFlow => c \in released

\* Only a registered flow has an attempt id, and its end is recorded with it.
EndsRecorded ==
    \A c \in Callers :
        /\ pc[c] \in {"idle", "entered", "following"} => c \notin published
        /\ c \in published /\ pc[c] \in {"ended", "cleared", "returned"} =>
            /\ ledger[c] \in Terminal
            /\ ledger[c] = "complete" => outcome[c] = "ok"
            /\ ledger[c] = "failed" => outcome[c] = "error"
=============================================================================
