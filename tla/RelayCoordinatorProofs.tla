------------------------- MODULE RelayCoordinatorProofs -------------------------
(***************************************************************************)
(* RelayCoordinator for every number of callers, keys and cancellations:   *)
(* one relay per key, and no cancellation is lost or misses the relay it   *)
(* chose.                                                                  *)
(***************************************************************************)
EXTENDS RelayCoordinator, FiniteSetTheorems, TLAPS

\* A step is one of the actions of a caller or of a cancellation.
LEMMA NextSplits ==
  ASSUME [Next]_vars
  PROVE \/ \E c \in Callers :
            \/ Do(c) \/ Follow(c) \/ RequestGone(c) \/ Register(c) \/ RecordAttempt(c)
            \/ DialFails(c) \/ Dialled(c) \/ FlowSucceeds(c) \/ FlowFails(c)
            \/ Timeout(c) \/ Clear(c) \/ Leave(c) \/ Refuse(c)
        \/ \E x \in Cancels : ChooseTarget(x) \/ LookUp(x) \/ Release(x) \/ RecordCancel(x)
        \/ UNCHANGED vars
  BY DEF Next, Leader, CancelStep

\* A caller's request key is a key.
LEMMA KeyIn == \A c \in Callers : KeyOf[c] \in Keys
  BY DEF Keys

\* Cancelling a context changes the causes of callers only, and never clears
\* one.
LEMMA CancelCtxType ==
  ASSUME TypeOK, NEW S, NEW why \in {"user", "deadline"}, CancelCtx(S, why)
  PROVE /\ cause' \in [Callers -> {"none", "user", "deadline"}]
        /\ \A c \in Callers : cause[c] # "none" => cause'[c] # "none"
        /\ \A c \in Callers : c \in S => cause'[c] # "none"
  BY DEF TypeOK, CancelCtx

\* Setting one flag of a function of flags.
LEMMA SetFlag ==
  ASSUME NEW S, NEW f \in [S -> BOOLEAN], NEW x, NEW b \in BOOLEAN
  PROVE [f EXCEPT ![x] = b] \in [S -> BOOLEAN]
  OBVIOUS

\* The keys in flight are finitely many.
LEMMA BusyFinite == IsFiniteSet(BusyKeys) /\ Cardinality(BusyKeys) \in Nat
  BY RelayConstants, FS_Subset, FS_CardinalityType DEF BusyKeys

\* Taking one more key stays below the bound when it was not reached.
LEMMA OneMoreKey ==
  ASSUME NEW A, NEW B, NEW k, IsFiniteSet(A), B \subseteq A \cup {k}, Cardinality(A) < MaxActive
  PROVE Cardinality(B) <= MaxActive
<1>1. IsFiniteSet(A \cup {k}) /\ Cardinality(A \cup {k}) \in {Cardinality(A), Cardinality(A) + 1}
  BY FS_AddElement
<1>2. IsFiniteSet(B) /\ Cardinality(B) <= Cardinality(A \cup {k})
  BY <1>1, FS_Subset
<1>3. Cardinality(A) \in Nat /\ Cardinality(B) \in Nat /\ MaxActive \in Nat
  BY <1>2, FS_CardinalityType, RelayConstants
<1> QED
  BY <1>1, <1>2, <1>3

\* Freeing keys stays below the bound.
LEMMA FewerKeys ==
  ASSUME NEW A, NEW B, IsFiniteSet(A), B \subseteq A, Cardinality(A) <= MaxActive
  PROVE Cardinality(B) <= MaxActive
<1>1. IsFiniteSet(B) /\ Cardinality(B) <= Cardinality(A)
  BY FS_Subset
<1>2. Cardinality(A) \in Nat /\ Cardinality(B) \in Nat /\ MaxActive \in Nat
  BY <1>1, FS_CardinalityType, RelayConstants
<1> QED
  BY <1>1, <1>2

\* Do takes a free key below the bound, or leaves the map alone.
LEMMA DoCases ==
  ASSUME NEW c \in Callers, Do(c)
  PROVE \/ active' = active
        \/ /\ ~Full /\ active' = [active EXCEPT ![KeyOf[c]] = {c}]
           /\ pc' = [pc EXCEPT ![c] = "entered"] /\ follows' = follows
  BY DEF Do, Goto

\* Every variable keeps its type, and no more relays are in flight than the
\* coordinator allows (relay_coordinator.go:199).
THEOREM TypeCorrect == Spec => []TypeOK
<1>1. Init => TypeOK
  <2> SUFFICES ASSUME Init PROVE TypeOK
    OBVIOUS
  <2>1. BusyKeys = {}
    BY DEF Init, BusyKeys
  <2>2. Cardinality(BusyKeys) <= MaxActive
    BY <2>1, FS_EmptySet, RelayConstants
  <2> QED
    BY <2>2 DEF Init, TypeOK, Steps, Terminal
<1>2. TypeOK /\ [Next]_vars => TypeOK'
  <2> SUFFICES ASSUME TypeOK, [Next]_vars PROVE TypeOK'
    OBVIOUS
  <2> USE DEF TypeOK, Steps, Terminal, flowVars, cancelVars, Goto, XGoto
  <2>1. ASSUME NEW c \in Callers, Do(c) PROVE TypeOK'
    <3>1. CASE active' = active
      <4>1. BusyKeys' = BusyKeys
        BY <3>1 DEF BusyKeys
      <4>2. /\ pc' \in [Callers -> Steps]
            /\ follows' \in [Callers -> SUBSET Callers]
        BY <2>1, <3>1, KeyIn DEF Do
      <4>3. UNCHANGED <<gone, cancelFn, released, published, cause, outcome, ledger, cancelVars>>
        BY <2>1 DEF Do
      <4> QED
        BY <3>1, <4>1, <4>2, <4>3
    <3>2. CASE /\ ~Full /\ active' = [active EXCEPT ![KeyOf[c]] = {c}]
               /\ pc' = [pc EXCEPT ![c] = "entered"] /\ follows' = follows
      <4>1. Cardinality(BusyKeys) < MaxActive
        BY <3>2, BusyFinite, RelayConstants DEF Full
      <4>2. BusyKeys' \subseteq BusyKeys \cup {KeyOf[c]}
        BY <3>2, KeyIn DEF BusyKeys
      <4>5. Cardinality(BusyKeys') <= MaxActive
        BY <4>1, <4>2, BusyFinite, OneMoreKey
      <4>3. active' \in [Keys -> SUBSET Callers]
        BY <3>2, KeyIn
      <4>4. UNCHANGED <<gone, cancelFn, released, published, cause, outcome, ledger, cancelVars>>
        BY <2>1 DEF Do
      <4> QED
        BY <3>2, <4>3, <4>4, <4>5
    <3> QED
      BY <2>1, <3>1, <3>2, DoCases
  <2>2. ASSUME NEW c \in Callers, Follow(c) \/ RequestGone(c) \/ Dialled(c) PROVE TypeOK'
    <3>1. BusyKeys' = BusyKeys
      BY <2>2 DEF Follow, RequestGone, Dialled, BusyKeys
    <3>2. CASE Follow(c)
      BY <3>1, <3>2 DEF Follow
    <3>3. CASE RequestGone(c)
      BY <3>1, <3>3 DEF RequestGone
    <3>4. CASE Dialled(c)
      BY <3>1, <3>4 DEF Dialled
    <3> QED
      BY <2>2, <3>2, <3>3, <3>4
  <2>3. ASSUME NEW c \in Callers, Register(c) PROVE TypeOK'
    <3>1. cause' \in [Callers -> {"none", "user", "deadline"}]
      BY <2>3, CancelCtxType DEF Register, BusyKeys
    <3> QED
      BY <2>3, <3>1 DEF Register, BusyKeys
  <2>4. ASSUME NEW c \in Callers, RecordAttempt(c) PROVE TypeOK'
    BY <2>4 DEF RecordAttempt, BusyKeys
  <2>5. ASSUME NEW c \in Callers, DialFails(c) PROVE TypeOK'
    BY <2>5 DEF DialFails, BusyKeys
  <2>6. ASSUME NEW c \in Callers, FlowSucceeds(c) PROVE TypeOK'
    BY <2>6 DEF FlowSucceeds, BusyKeys
  <2>7. ASSUME NEW c \in Callers, FlowFails(c) PROVE TypeOK'
    BY <2>7 DEF FlowFails, BusyKeys
  <2>8. ASSUME NEW c \in Callers, Timeout(c) PROVE TypeOK'
    <3>1. cause' \in [Callers -> {"none", "user", "deadline"}]
      BY <2>8, CancelCtxType DEF Timeout, BusyKeys
    <3> QED
      BY <2>8, <3>1 DEF Timeout, BusyKeys
  <2>9. ASSUME NEW c \in Callers, Clear(c) PROVE TypeOK'
    BY <2>9 DEF Clear, BusyKeys
  <2>10. ASSUME NEW c \in Callers, Leave(c) PROVE TypeOK'
    <3>1. active' = [active EXCEPT ![KeyOf[c]] = {}]
      BY <2>10 DEF Leave
    <3>2. BusyKeys' \subseteq BusyKeys
      BY <3>1, KeyIn DEF BusyKeys
    <3>4. Cardinality(BusyKeys') <= MaxActive
      BY <3>2, BusyFinite, FewerKeys
    <3>3. active' \in [Keys -> SUBSET Callers]
      BY <3>1, KeyIn
    <3> QED
      BY <2>10, <3>3, <3>4 DEF Leave
  <2>11. ASSUME NEW x \in Cancels, ChooseTarget(x) PROVE TypeOK'
    <3>1. UNCHANGED <<pc, gone, flowVars, found>> /\ BusyKeys' = BusyKeys
      BY <2>11 DEF ChooseTarget, BusyKeys
    <3>2. CASE \E k \in Keys : \E c \in active[k] :
                /\ target' = [target EXCEPT ![x] = {c}]
                /\ hadId' = [hadId EXCEPT ![x] = c \in published]
                /\ xpc' = [xpc EXCEPT ![x] = "chosen"]
      <4>1. PICK k \in Keys : \E c \in active[k] :
                /\ target' = [target EXCEPT ![x] = {c}]
                /\ hadId' = [hadId EXCEPT ![x] = c \in published]
                /\ xpc' = [xpc EXCEPT ![x] = "chosen"]
        BY <3>2
      <4>2. PICK c \in Callers :
                /\ target' = [target EXCEPT ![x] = {c}]
                /\ hadId' = [hadId EXCEPT ![x] = c \in published]
                /\ xpc' = [xpc EXCEPT ![x] = "chosen"]
        BY <4>1
      <4>3. hadId \in [Cancels -> BOOLEAN] /\ (c \in published) \in BOOLEAN
        OBVIOUS
      <4>4. [hadId EXCEPT ![x] = c \in published] \in [Cancels -> BOOLEAN]
        BY <4>3, SetFlag, Zenon
      <4>5. hadId' \in [Cancels -> BOOLEAN]
        BY <4>2, <4>4, Zenon
      <4> QED
        BY <3>1, <4>2, <4>5
    <3>3. CASE xpc' = [xpc EXCEPT ![x] = "done"] /\ UNCHANGED <<target, hadId>>
      BY <3>1, <3>3
    <3> QED
      BY <2>11, <3>2, <3>3 DEF ChooseTarget
  <2>12. ASSUME NEW x \in Cancels, LookUp(x) PROVE TypeOK'
    BY <2>12, KeyIn DEF LookUp, BusyKeys
  <2>13. ASSUME NEW x \in Cancels, Release(x) PROVE TypeOK'
    <3>1. cause' \in [Callers -> {"none", "user", "deadline"}]
      BY <2>13, CancelCtxType DEF Release, BusyKeys
    <3> QED
      BY <2>13, <3>1 DEF Release, BusyKeys
  <2>14. ASSUME NEW x \in Cancels, RecordCancel(x) PROVE TypeOK'
    BY <2>14 DEF RecordCancel, BusyKeys
  <2>15. ASSUME NEW c \in Callers, Refuse(c) PROVE TypeOK'
    BY <2>15 DEF Refuse, BusyKeys
  <2>16. CASE UNCHANGED vars
    BY <2>16 DEF vars, BusyKeys
  <2> QED
    BY <2>1, <2>2, <2>3, <2>4, <2>5, <2>6, <2>7, <2>8, <2>9, <2>10, <2>11, <2>12,
       <2>13, <2>14, <2>15, <2>16, NextSplits
<1> QED
  BY <1>1, <1>2, PTL DEF Spec

-----------------------------------------------------------------------------
(***************************************************************************)
(* One relay per key.                                                      *)
(***************************************************************************)
\* A step of a caller within its flow keeps the coordinator's map in step.
LEMMA FlowStep ==
  ASSUME TypeOK, FlowsListed, NEW c \in Callers, NEW s \in InFlow,
         pc[c] \in InFlow, pc' = [pc EXCEPT ![c] = s], active' = active,
         cancelFn' \in {cancelFn, cancelFn \cup {c}, cancelFn \ {c}},
         s \in {"registered", "dialling", "running"} => c \in cancelFn',
         \A d \in Callers \ {c} : d \in cancelFn => d \in cancelFn'
  PROVE FlowsListed'
  BY DEF TypeOK, FlowsListed

\* Do lists the relay it opens; a follower or a refused caller opens none.
LEMMA DoListed ==
  ASSUME TypeOK, FlowsListed, NEW c \in Callers, Do(c)
  PROVE FlowsListed'
<1>1. pc[c] = "idle" /\ cancelFn' = cancelFn
  BY DEF Do
<1>2. CASE active' = active /\ (\E s \in {"returned", "following"} : pc' = [pc EXCEPT ![c] = s])
  BY <1>1, <1>2 DEF TypeOK, FlowsListed, InFlow
<1>3. CASE /\ active[KeyOf[c]] = {}
           /\ active' = [active EXCEPT ![KeyOf[c]] = {c}]
           /\ pc' = [pc EXCEPT ![c] = "entered"]
  <2>1. \A d \in Callers : pc'[d] \in InFlow => active'[KeyOf[d]] = {d}
    BY <1>3, KeyIn DEF TypeOK, FlowsListed, InFlow
  <2>2. \A k \in Keys : \A d \in active'[k] : KeyOf[d] = k /\ pc'[d] \in InFlow
    BY <1>3, KeyIn DEF TypeOK, FlowsListed, InFlow
  <2>3. \A d \in Callers : pc'[d] \in {"registered", "dialling", "running"} => d \in cancelFn'
    BY <1>1, <1>3 DEF TypeOK, FlowsListed
  <2> QED
    BY <2>1, <2>2, <2>3 DEF FlowsListed
<1> QED
  BY <1>2, <1>3 DEF Do, Goto

\* Leave unlists its own relay and no other.
LEMMA LeaveListed ==
  ASSUME TypeOK, FlowsListed, NEW c \in Callers, Leave(c)
  PROVE FlowsListed'
<1>1. /\ pc[c] = "cleared" /\ cancelFn' = cancelFn /\ pc' = [pc EXCEPT ![c] = "returned"]
      /\ active' = [active EXCEPT ![KeyOf[c]] = {}]
  BY DEF Leave, Goto
<1>2. c \in active[KeyOf[c]]
  BY <1>1 DEF FlowsListed, InFlow
<1>3. \A d \in Callers : pc'[d] \in InFlow => active'[KeyOf[d]] = {d}
  BY <1>1, <1>2, KeyIn DEF TypeOK, FlowsListed, InFlow
<1>4. \A k \in Keys : \A d \in active'[k] : KeyOf[d] = k /\ pc'[d] \in InFlow
  BY <1>1, <1>2, KeyIn DEF TypeOK, FlowsListed, InFlow
<1>5. \A d \in Callers : pc'[d] \in {"registered", "dialling", "running"} => d \in cancelFn'
  BY <1>1 DEF TypeOK, FlowsListed
<1> QED
  BY <1>3, <1>4, <1>5 DEF FlowsListed

\* The coordinator's map lists exactly the relays in flight.
LEMMA FlowsAlwaysListed == Spec => []FlowsListed
<1>1. Init => FlowsListed
  BY DEF Init, FlowsListed, InFlow
<1>2. TypeOK /\ FlowsListed /\ [Next]_vars => FlowsListed'
  <2> SUFFICES ASSUME TypeOK, FlowsListed, [Next]_vars PROVE FlowsListed'
    OBVIOUS
  <2> USE DEF Goto, flowVars, cancelVars
  <2>1. ASSUME NEW c \in Callers, Do(c) PROVE FlowsListed'
    BY <2>1, DoListed
  <2>2. ASSUME NEW c \in Callers, Follow(c) \/ Refuse(c) PROVE FlowsListed'
    <3>1. /\ pc[c] \in {"following", "idle"} /\ pc' = [pc EXCEPT ![c] = "returned"]
          /\ active' = active /\ cancelFn' = cancelFn
      BY <2>2 DEF Follow, Refuse
    <3> QED
      BY <3>1 DEF TypeOK, FlowsListed, InFlow
  <2>3. ASSUME NEW c \in Callers, Register(c) PROVE FlowsListed'
    BY <2>3, FlowStep DEF Register, InFlow
  <2>4. ASSUME NEW c \in Callers, RecordAttempt(c) PROVE FlowsListed'
    <3>1. c \in cancelFn
      BY <2>4 DEF RecordAttempt, FlowsListed
    <3> QED
      BY <2>4, <3>1, FlowStep DEF RecordAttempt, InFlow
  <2>5. ASSUME NEW c \in Callers, DialFails(c) \/ FlowSucceeds(c) \/ FlowFails(c) PROVE FlowsListed'
    <3>1. /\ pc[c] \in InFlow /\ pc' = [pc EXCEPT ![c] = "ended"]
          /\ active' = active /\ cancelFn' = cancelFn
      BY <2>5 DEF DialFails, FlowSucceeds, FlowFails, InFlow
    <3> QED
      BY <3>1, FlowStep DEF InFlow
  <2>6. ASSUME NEW c \in Callers, Dialled(c) PROVE FlowsListed'
    <3>1. c \in cancelFn
      BY <2>6 DEF Dialled, FlowsListed
    <3> QED
      BY <2>6, <3>1, FlowStep DEF Dialled, InFlow
  <2>7. ASSUME NEW c \in Callers, Clear(c) PROVE FlowsListed'
    BY <2>7, FlowStep DEF Clear, InFlow
  <2>8. ASSUME NEW c \in Callers, Leave(c) PROVE FlowsListed'
    BY <2>8, LeaveListed
  <2>9. ASSUME NEW c \in Callers, RequestGone(c) \/ Timeout(c) PROVE FlowsListed'
    BY <2>9 DEF RequestGone, Timeout, FlowsListed
  <2>10. ASSUME NEW x \in Cancels, ChooseTarget(x) \/ LookUp(x) \/ Release(x) \/ RecordCancel(x)
         PROVE FlowsListed'
    BY <2>10 DEF ChooseTarget, LookUp, Release, RecordCancel, FlowsListed
  <2>11. CASE UNCHANGED vars
    BY <2>11 DEF vars, FlowsListed
  <2> QED
    BY <2>1, <2>2, <2>3, <2>4, <2>5, <2>6, <2>7, <2>8, <2>9, <2>10, <2>11, NextSplits
<1> QED
  BY <1>1, <1>2, TypeCorrect, PTL DEF Spec

\* Two relays of one request key are never open at once, for any number of
\* callers (relayCoordinator.Do).
THEOREM SingleFlight == Spec => []OneFlowPerKey
<1>1. FlowsListed => OneFlowPerKey
  <2> SUFFICES ASSUME FlowsListed, NEW c \in Callers, NEW d \in Callers, c # d,
                      KeyOf[c] = KeyOf[d], pc[c] \in InFlow, pc[d] \in InFlow
               PROVE FALSE
    BY DEF OneFlowPerKey
  <2>1. active[KeyOf[c]] = {c} /\ active[KeyOf[d]] = {d}
    BY DEF FlowsListed
  <2> QED
    BY <2>1
<1> QED
  BY <1>1, FlowsAlwaysListed, PTL

-----------------------------------------------------------------------------
(***************************************************************************)
(* Cancellations.                                                          *)
(***************************************************************************)
\* No step clears a recorded release or the cause of a done context.
LEMMA CausesStay ==
  ASSUME TypeOK, [Next]_vars
  PROVE /\ released \subseteq released'
        /\ \A c \in Callers : cause[c] # "none" => cause'[c] # "none"
<1> USE DEF flowVars, cancelVars
<1>1. ASSUME NEW c \in Callers,
             Do(c) \/ Follow(c) \/ RequestGone(c) \/ RecordAttempt(c) \/ DialFails(c) \/ Dialled(c)
             \/ FlowSucceeds(c) \/ FlowFails(c) \/ Clear(c) \/ Leave(c) \/ Refuse(c)
      PROVE released' = released /\ cause' = cause
  BY <1>1 DEF Do, Follow, RequestGone, RecordAttempt, DialFails, Dialled, FlowSucceeds,
              FlowFails, Clear, Leave, Refuse
<1>2. ASSUME NEW c \in Callers, Register(c)
      PROVE released' = released /\ \A d \in Callers : cause[d] # "none" => cause'[d] # "none"
  BY <1>2, CancelCtxType DEF Register
<1>3. ASSUME NEW c \in Callers, Timeout(c)
      PROVE released' = released /\ \A d \in Callers : cause[d] # "none" => cause'[d] # "none"
  BY <1>3, CancelCtxType DEF Timeout
<1>4. ASSUME NEW x \in Cancels, ChooseTarget(x) \/ LookUp(x) \/ RecordCancel(x)
      PROVE released' = released /\ cause' = cause
  BY <1>4 DEF ChooseTarget, LookUp, RecordCancel
<1>5. ASSUME NEW x \in Cancels, Release(x)
      PROVE /\ released \subseteq released'
            /\ \A d \in Callers : cause[d] # "none" => cause'[d] # "none"
  BY <1>5, CancelCtxType DEF Release
<1>6. CASE UNCHANGED vars
  BY <1>6 DEF vars
<1> QED
  BY <1>1, <1>2, <1>3, <1>4, <1>5, <1>6, NextSplits

\* A release recorded before register is applied by register, one recorded
\* later is applied at once, and no context is ever revived
\* (relayCall.register, relayCall.release).
THEOREM CancelsHonoured == Spec => []CancelHonoured
<1>1. Init => CancelHonoured
  BY DEF Init, CancelHonoured
<1>2. TypeOK /\ FlowsListed /\ CancelHonoured /\ [Next]_vars => CancelHonoured'
  <2> SUFFICES ASSUME TypeOK, FlowsListed, CancelHonoured, [Next]_vars PROVE CancelHonoured'
    OBVIOUS
  <2> DEFINE Open == {"registered", "dialling", "running"}
  <2> USE DEF Goto, flowVars, cancelVars
  <2>1. /\ released \subseteq released'
        /\ \A c \in Callers : cause[c] # "none" => cause'[c] # "none"
    BY CausesStay
  <2>2. ASSUME released' = released, \A c \in Callers : pc'[c] \in Open => pc[c] \in Open
        PROVE CancelHonoured'
    BY <2>1, <2>2 DEF CancelHonoured, TypeOK
  <2>3. ASSUME NEW c \in Callers, Do(c) PROVE CancelHonoured'
    BY <2>2, <2>3 DEF Do, TypeOK
  <2>4. ASSUME NEW c \in Callers, Follow(c) \/ Leave(c) \/ Refuse(c) PROVE CancelHonoured'
    BY <2>2, <2>4 DEF Follow, Leave, Refuse, TypeOK
  <2>5. ASSUME NEW c \in Callers, RequestGone(c) \/ Timeout(c) PROVE CancelHonoured'
    BY <2>2, <2>5 DEF RequestGone, Timeout
  <2>6. ASSUME NEW c \in Callers, Register(c) PROVE CancelHonoured'
    <3>1. c \in released => cause'[c] # "none"
      BY <2>6, CancelCtxType DEF Register
    <3>2. released' = released /\ pc' = [pc EXCEPT ![c] = "registered"]
      BY <2>6 DEF Register
    <3> QED
      BY <2>1, <3>1, <3>2 DEF CancelHonoured, TypeOK
  <2>7. ASSUME NEW c \in Callers, RecordAttempt(c) \/ Dialled(c) PROVE CancelHonoured'
    BY <2>2, <2>7 DEF RecordAttempt, Dialled, TypeOK
  <2>8. ASSUME NEW c \in Callers, DialFails(c) \/ FlowSucceeds(c) \/ FlowFails(c) \/ Clear(c)
        PROVE CancelHonoured'
    <3>1. \E s \in {"ended", "cleared"} : pc' = [pc EXCEPT ![c] = s]
      BY <2>8 DEF DialFails, FlowSucceeds, FlowFails, Clear
    <3>2. released' = released
      BY <2>8 DEF DialFails, FlowSucceeds, FlowFails, Clear
    <3> QED
      BY <2>2, <3>1, <3>2 DEF TypeOK
  <2>9. ASSUME NEW x \in Cancels, ChooseTarget(x) \/ LookUp(x) \/ RecordCancel(x)
        PROVE CancelHonoured'
    BY <2>2, <2>9 DEF ChooseTarget, LookUp, RecordCancel
  <2>10. ASSUME NEW x \in Cancels, Release(x) PROVE CancelHonoured'
    <3>1. \A c \in Callers : c \in found[x] \cap cancelFn => cause'[c] # "none"
      BY <2>10, CancelCtxType DEF Release
    <3>2. pc' = pc /\ released' = released \cup found[x]
      BY <2>10 DEF Release
    <3> QED
      BY <2>1, <3>1, <3>2 DEF CancelHonoured, FlowsListed, TypeOK
  <2>11. CASE UNCHANGED vars
    BY <2>2, <2>11 DEF vars
  <2> QED
    BY <2>3, <2>4, <2>5, <2>6, <2>7, <2>8, <2>9, <2>10, <2>11, NextSplits
<1> QED
  BY <1>1, <1>2, TypeCorrect, FlowsAlwaysListed, PTL DEF Spec

\* A caller's step never brings back a relay that is over.
LEMMA CallerKeepsTargets ==
  ASSUME TargetsKept, TypeOK, NEW c \in Callers, NEW s \in InFlow \cup {"returned", "following"},
         pc' = [pc EXCEPT ![c] = s], pc[c] # "returned",
         pc[c] \in InFlow => s # "following",
         s \in InFlow => pc[c] \in InFlow \cup {"idle"},
         UNCHANGED <<xpc, target, found, released>>
  PROVE TargetsKept'
  BY DEF TargetsKept, TypeOK, InFlow

\* A cancellation keeps hold of the relay it chose.
LEMMA TargetsAlwaysKept == Spec => []TargetsKept
<1>1. Init => TargetsKept
  BY DEF Init, TargetsKept
<1>2. TypeOK /\ FlowsListed /\ TargetsKept /\ [Next]_vars => TargetsKept'
  <2> SUFFICES ASSUME TypeOK, FlowsListed, TargetsKept, [Next]_vars PROVE TargetsKept'
    OBVIOUS
  <2> USE DEF Goto, XGoto, flowVars, cancelVars
  <2>1. ASSUME NEW c \in Callers, Do(c) PROVE TargetsKept'
    <3>1. \E s \in {"entered", "following", "returned"} : pc' = [pc EXCEPT ![c] = s]
      BY <2>1 DEF Do
    <3>2. pc[c] = "idle" /\ UNCHANGED <<xpc, target, found, released>>
      BY <2>1 DEF Do
    <3> QED
      BY <3>1, <3>2, CallerKeepsTargets DEF InFlow
  <2>2. ASSUME NEW c \in Callers, Follow(c) \/ Refuse(c) PROVE TargetsKept'
    BY <2>2, CallerKeepsTargets DEF Follow, Refuse, InFlow
  <2>3. ASSUME NEW c \in Callers, Register(c) PROVE TargetsKept'
    BY <2>3, CallerKeepsTargets DEF Register, InFlow
  <2>4. ASSUME NEW c \in Callers, RecordAttempt(c) PROVE TargetsKept'
    BY <2>4, CallerKeepsTargets DEF RecordAttempt, InFlow
  <2>5. ASSUME NEW c \in Callers, DialFails(c) \/ FlowSucceeds(c) \/ FlowFails(c) PROVE TargetsKept'
    <3>1. /\ pc[c] \in InFlow \ {"returned"} /\ pc' = [pc EXCEPT ![c] = "ended"]
          /\ UNCHANGED <<xpc, target, found, released>>
      BY <2>5 DEF DialFails, FlowSucceeds, FlowFails, InFlow
    <3> QED
      BY <3>1, CallerKeepsTargets DEF InFlow
  <2>6. ASSUME NEW c \in Callers, Dialled(c) PROVE TargetsKept'
    BY <2>6, CallerKeepsTargets DEF Dialled, InFlow
  <2>7. ASSUME NEW c \in Callers, Clear(c) PROVE TargetsKept'
    BY <2>7, CallerKeepsTargets DEF Clear, InFlow
  <2>8. ASSUME NEW c \in Callers, Leave(c) PROVE TargetsKept'
    BY <2>8, CallerKeepsTargets DEF Leave, InFlow
  <2>9. ASSUME NEW c \in Callers, RequestGone(c) \/ Timeout(c) PROVE TargetsKept'
    BY <2>9 DEF RequestGone, Timeout, TargetsKept
  <2>10. ASSUME NEW x \in Cancels, ChooseTarget(x) PROVE TargetsKept'
    <3>1. pc' = pc /\ found' = found /\ released' = released /\ target[x] = {}
      BY <2>10 DEF ChooseTarget, TargetsKept
    <3>2. CASE \E c \in Callers : /\ pc[c] \in InFlow /\ target' = [target EXCEPT ![x] = {c}]
                                  /\ xpc' = [xpc EXCEPT ![x] = "chosen"]
      BY <3>1, <3>2 DEF TargetsKept, TypeOK
    <3>3. CASE target' = target /\ xpc' = [xpc EXCEPT ![x] = "done"]
      BY <3>1, <3>3 DEF TargetsKept, TypeOK
    <3>4. \A k \in Keys : \A c \in active[k] : c \in Callers /\ pc[c] \in InFlow
      BY DEF FlowsListed, TypeOK
    <3> QED
      BY <2>10, <3>2, <3>3, <3>4 DEF ChooseTarget
  <2>11. ASSUME NEW x \in Cancels, LookUp(x) PROVE TargetsKept'
    <3>1. pc' = pc /\ target' = target /\ released' = released /\ xpc' = [xpc EXCEPT ![x] = "looked"]
      BY <2>11 DEF LookUp
    <3>2. PICK t \in target[x] :
            found' = [found EXCEPT ![x] =
                        IF hadId[x] /\ t \in active[KeyOf[t]] THEN {t} ELSE active[KeyOf[t]]]
      BY <2>11 DEF LookUp
    <3>3. t \in Callers /\ \A c \in target[x] : c = t
      BY DEF TargetsKept, TypeOK
    <3>4. pc[t] \in InFlow => t \in found'[x]
      BY <3>2, <3>3 DEF FlowsListed, TypeOK
    <3>5. \A y \in Cancels \ {x} : found'[y] = found[y] /\ xpc'[y] = xpc[y]
      BY <3>1, <3>2 DEF TypeOK
    <3> QED
      BY <3>1, <3>3, <3>4, <3>5 DEF TargetsKept, TypeOK
  <2>12. ASSUME NEW x \in Cancels, Release(x) PROVE TargetsKept'
    <3>1. /\ xpc[x] = "looked" /\ pc' = pc /\ target' = target /\ found' = found
          /\ released' = released \cup found[x] /\ xpc' = [xpc EXCEPT ![x] = "asking"]
      BY <2>12 DEF Release
    <3> QED
      BY <3>1 DEF TargetsKept, TypeOK
  <2>13. ASSUME NEW x \in Cancels, RecordCancel(x) PROVE TargetsKept'
    <3>1. /\ xpc[x] = "asking" /\ pc' = pc /\ target' = target /\ found' = found
          /\ released' = released /\ xpc' = [xpc EXCEPT ![x] = "done"]
      BY <2>13 DEF RecordCancel
    <3> QED
      BY <3>1 DEF TargetsKept, TypeOK
  <2>14. CASE UNCHANGED vars
    BY <2>14 DEF vars, TargetsKept
  <2> QED
    BY <2>1, <2>2, <2>3, <2>4, <2>5, <2>6, <2>7, <2>8, <2>9, <2>10, <2>11, <2>12,
       <2>13, <2>14, NextSplits
<1> QED
  BY <1>1, <1>2, TypeCorrect, FlowsAlwaysListed, PTL DEF Spec

\* When CancelRelay has returned, the relay it chose has a done context or is
\* over, also when it had no attempt id to be found by (Hub.CancelRelay).
THEOREM CancelsReachTargets == Spec => []CancelReachesTarget
<1>1. TypeOK /\ TargetsKept /\ CancelHonoured => CancelReachesTarget
  BY DEF TypeOK, TargetsKept, CancelHonoured, CancelReachesTarget, InFlow
<1> QED
  BY <1>1, TypeCorrect, TargetsAlwaysKept, CancelsHonoured, PTL

\* When a leader has returned its attempt is settled, and as no more than it
\* achieved, whatever CancelRelay wrote meanwhile (relayOAuth,
\* updateRelayAttempt).
THEOREM AttemptsSettled == Spec => []AttemptSettled
<1>1. Init => EndsRecorded
  BY DEF Init, EndsRecorded
<1>2. TypeOK /\ EndsRecorded /\ [Next]_vars => EndsRecorded'
  <2> SUFFICES ASSUME TypeOK, EndsRecorded, [Next]_vars PROVE EndsRecorded'
    OBVIOUS
  <2> USE DEF Goto, flowVars, cancelVars, EndsRecorded, TypeOK
  <2>1. ASSUME NEW c \in Callers, Do(c) PROVE EndsRecorded'
    <3>1. \E s \in {"entered", "following", "returned"} : pc' = [pc EXCEPT ![c] = s]
      BY <2>1 DEF Do
    <3>2. pc[c] = "idle" /\ UNCHANGED <<published, ledger, outcome>>
      BY <2>1 DEF Do
    <3> QED
      BY <3>1, <3>2
  <2>2. ASSUME NEW c \in Callers, Follow(c) \/ Refuse(c) PROVE EndsRecorded'
    BY <2>2 DEF Follow, Refuse
  <2>3. ASSUME NEW c \in Callers, Register(c) PROVE EndsRecorded'
    BY <2>3 DEF Register
  <2>4. ASSUME NEW c \in Callers, RecordAttempt(c) PROVE EndsRecorded'
    BY <2>4 DEF RecordAttempt
  <2>5. ASSUME NEW c \in Callers, DialFails(c) PROVE EndsRecorded'
    BY <2>5 DEF DialFails, Terminal
  <2>6. ASSUME NEW c \in Callers, Dialled(c) PROVE EndsRecorded'
    BY <2>6 DEF Dialled
  <2>7. ASSUME NEW c \in Callers, FlowSucceeds(c) PROVE EndsRecorded'
    BY <2>7 DEF FlowSucceeds, Terminal
  <2>8. ASSUME NEW c \in Callers, FlowFails(c) PROVE EndsRecorded'
    BY <2>8 DEF FlowFails, Terminal
  <2>9. ASSUME NEW c \in Callers, Clear(c) PROVE EndsRecorded'
    BY <2>9 DEF Clear
  <2>10. ASSUME NEW c \in Callers, Leave(c) PROVE EndsRecorded'
    BY <2>10 DEF Leave
  <2>11. ASSUME NEW c \in Callers, RequestGone(c) \/ Timeout(c) PROVE EndsRecorded'
    BY <2>11 DEF RequestGone, Timeout
  <2>12. ASSUME NEW x \in Cancels, ChooseTarget(x) \/ LookUp(x) \/ Release(x) PROVE EndsRecorded'
    BY <2>12 DEF ChooseTarget, LookUp, Release
  <2>13. ASSUME NEW x \in Cancels, RecordCancel(x) PROVE EndsRecorded'
    BY <2>13 DEF RecordCancel, Terminal
  <2>14. CASE UNCHANGED vars
    BY <2>14 DEF vars
  <2> QED
    BY <2>1, <2>2, <2>3, <2>4, <2>5, <2>6, <2>7, <2>8, <2>9, <2>10, <2>11, <2>12,
       <2>13, <2>14, NextSplits
<1>3. EndsRecorded => AttemptSettled
  BY DEF EndsRecorded, AttemptSettled
<1> QED
  BY <1>1, <1>2, <1>3, TypeCorrect, PTL DEF Spec
=============================================================================
