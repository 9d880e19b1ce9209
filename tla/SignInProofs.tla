------------------------------ MODULE SignInProofs ------------------------------
(***************************************************************************)
(* SignIn for every number of requests, keys, ports and peers and every    *)
(* cap: a held port can be released, a release signal is true, a retry     *)
(* spares the sign-in it repeats, a replayed answer is real.               *)
(***************************************************************************)
EXTENDS SignIn, FiniteSetTheorems, TLAPS

\* A step is one of the actions of a request, or the end of a replay window.
LEMMA NextSplits ==
  ASSUME [Next]_vars
  PROVE \/ \E r \in Requests :
            \/ SendRequest(r) \/ Deliver(r) \/ BSideEnds(r) \/ ConnDown(r)
            \/ Register(r) \/ RejectRequest(r) \/ Acquire(r) \/ JoinedEnds(r)
            \/ CollectOnPort(r) \/ CancelNext(r) \/ WaitForRelease(r) \/ Bind(r)
            \/ Callback(r) \/ StopsListening(r) \/ AwaitComplete(r)
            \/ CloseListener(r) \/ Finish(r) \/ Unregister(r) \/ SessionTimeout(r)
            \/ UserCancel(r) \/ UserTold(r)
        \/ \E k \in Keys : ReplayExpires(k)
        \/ UNCHANGED vars
  BY DEF Next, ASide

\* A request's key is a key and its port is a port.
LEMMA KeyAndPort == \A r \in Requests : KeyOf[r] \in Keys /\ PortOf[r] \in Ports
  BY DEF Keys, Ports

\* Adding an entry to a registry that is not full keeps it within its cap, and
\* so does removing one.
LEMMA RegistrySize ==
  \A S \in SUBSET Requests : \A r \in Requests :
    /\ Cardinality(S) < MaxTracked => Cardinality(S \cup {r}) <= MaxTracked
    /\ Cardinality(S) <= MaxTracked => Cardinality(S \ {r}) <= MaxTracked
<1> SUFFICES ASSUME NEW S \in SUBSET Requests, NEW r \in Requests
             PROVE /\ Cardinality(S) < MaxTracked => Cardinality(S \cup {r}) <= MaxTracked
                   /\ Cardinality(S) <= MaxTracked => Cardinality(S \ {r}) <= MaxTracked
  OBVIOUS
<1>1. IsFiniteSet(S)
  BY SignInConstants, FS_Subset
<1>2. Cardinality(S) \in Nat /\ MaxTracked \in Nat
  BY <1>1, FS_CardinalityType, SignInConstants
<1>3. Cardinality(S \cup {r}) \in {Cardinality(S), Cardinality(S) + 1}
  BY <1>1, FS_AddElement
<1>4. Cardinality(S \ {r}) \in {Cardinality(S), Cardinality(S) - 1}
  BY <1>1, FS_RemoveElement
<1>5. Cardinality(S) < MaxTracked => Cardinality(S \cup {r}) <= MaxTracked
  BY <1>2, <1>3
<1>6. Cardinality(S) <= MaxTracked => Cardinality(S \ {r}) <= MaxTracked
  BY <1>2, <1>4
<1> QED
  BY <1>5, <1>6

\* Every variable keeps its type, and the registry never exceeds its cap:
\* Register is the only step that adds to it (session_registry.go:153).
THEOREM TypeCorrect == Spec => []TypeOK
<1>1. Init => TypeOK
  <2>1. Cardinality({}) = 0
    BY FS_EmptySet
  <2> QED
    BY <2>1, SignInConstants DEF Init, TypeOK, Steps
<1>2. TypeOK /\ [Next]_vars => TypeOK'
  <2> SUFFICES ASSUME TypeOK, [Next]_vars PROVE TypeOK'
    OBVIOUS
  <2> USE DEF TypeOK, Steps, cancelVars, oauthVars, bVars
  <2>1. ASSUME NEW r \in Requests, SendRequest(r) PROVE TypeOK'
    BY <2>1 DEF SendRequest
  <2>2. ASSUME NEW r \in Requests, Deliver(r) PROVE TypeOK'
    BY <2>2 DEF Deliver
  <2>3. ASSUME NEW r \in Requests, BSideEnds(r) PROVE TypeOK'
    BY <2>3 DEF BSideEnds
  <2>4. ASSUME NEW r \in Requests, ConnDown(r) PROVE TypeOK'
    BY <2>4 DEF ConnDown
  <2>5. ASSUME NEW r \in Requests, Register(r) PROVE TypeOK'
    <3>1. CASE Cardinality(registry) < MaxTracked
      <4>1. Cardinality(registry \cup {r}) <= MaxTracked
        BY <3>1, RegistrySize
      <4>2. /\ registry' = registry \cup {r} /\ Goto(r, "registered")
            /\ UNCHANGED <<bVars, doneCtx, pending, waitsFor, user, released,
                           listener, oauthVars, delivered>>
        BY <2>5, <3>1 DEF Register
      <4> QED
        BY <4>1, <4>2 DEF Goto
    <3>2. CASE ~(Cardinality(registry) < MaxTracked)
      BY <2>5, <3>2 DEF Register, Goto, Tell
    <3> QED
      BY <3>1, <3>2
  <2>6. ASSUME NEW r \in Requests, RejectRequest(r) PROVE TypeOK'
    BY <2>6 DEF RejectRequest, Goto, Tell
  <2>7. ASSUME NEW r \in Requests, Acquire(r) PROVE TypeOK'
    <3>1. active' \in [Keys -> SUBSET Requests]
      BY <2>7, KeyAndPort DEF Acquire
    <3>2. joined' \in [Requests -> SUBSET Requests]
      BY <2>7, KeyAndPort DEF Acquire
    <3>3. told' \in [Requests -> {"none", "error", "replay", "listening", "relay"}]
      BY <2>7 DEF Acquire, Tell
    <3>4. pc' \in [Requests -> Steps]
      BY <2>7 DEF Acquire, Goto
    <3> QED
      BY <2>7, <3>1, <3>2, <3>3, <3>4 DEF Acquire
  <2>8. ASSUME NEW r \in Requests, JoinedEnds(r) PROVE TypeOK'
    BY <2>8 DEF JoinedEnds, Goto, Tell
  <2>9. ASSUME NEW r \in Requests, CollectOnPort(r) PROVE TypeOK'
    BY <2>9 DEF CollectOnPort, Goto
  <2>10. ASSUME NEW r \in Requests, CancelNext(r) PROVE TypeOK'
    <3>1. PICK q \in pending[r] :
            /\ pending' = [pending EXCEPT ![r] = @ \ {q}]
            /\ IF q \in registry /\ PeerOf[q] = PeerOf[r]
               THEN /\ registry' = registry \ {q}
                    /\ doneCtx' = doneCtx \cup {q}
                    /\ waitsFor' = [waitsFor EXCEPT ![r] = {q}]
               ELSE UNCHANGED <<registry, doneCtx, waitsFor>>
      BY <2>10 DEF CancelNext
    <3>2. q \in Requests
      OBVIOUS
    <3>3. Cardinality(registry') <= MaxTracked
      BY <3>1, <3>2, RegistrySize
    <3> QED
      BY <2>10, <3>1, <3>2, <3>3 DEF CancelNext
  <2>11. ASSUME NEW r \in Requests, WaitForRelease(r) PROVE TypeOK'
    BY <2>11 DEF WaitForRelease
  <2>12. ASSUME NEW r \in Requests, Bind(r) PROVE TypeOK'
    BY <2>12, KeyAndPort DEF Bind, Goto, Tell
  <2>13. ASSUME NEW r \in Requests, Callback(r) PROVE TypeOK'
    BY <2>13 DEF Callback, Goto, Tell
  <2>14. ASSUME NEW r \in Requests, StopsListening(r) PROVE TypeOK'
    BY <2>14 DEF StopsListening, Goto
  <2>15. ASSUME NEW r \in Requests, AwaitComplete(r) PROVE TypeOK'
    BY <2>15 DEF AwaitComplete, Goto
  <2>16. ASSUME NEW r \in Requests, CloseListener(r) PROVE TypeOK'
    BY <2>16, KeyAndPort DEF CloseListener, Goto
  <2>17. ASSUME NEW r \in Requests, Finish(r) PROVE TypeOK'
    BY <2>17, KeyAndPort DEF Finish, Goto
  <2>18. ASSUME NEW r \in Requests, Unregister(r) PROVE TypeOK'
    <3>1. Cardinality(registry \ {r}) <= MaxTracked
      BY RegistrySize
    <3> QED
      BY <2>18, <3>1 DEF Unregister, Goto
  <2>19. ASSUME NEW r \in Requests, SessionTimeout(r) PROVE TypeOK'
    BY <2>19 DEF SessionTimeout
  <2>20. ASSUME NEW r \in Requests, UserCancel(r) PROVE TypeOK'
    <3>1. Cardinality(registry \ {r}) <= MaxTracked
      BY RegistrySize
    <3> QED
      BY <2>20, <3>1 DEF UserCancel
  <2>21. ASSUME NEW r \in Requests, UserTold(r) PROVE TypeOK'
    BY <2>21 DEF UserTold
  <2>22. ASSUME NEW k \in Keys, ReplayExpires(k) PROVE TypeOK'
    BY <2>22 DEF ReplayExpires
  <2>23. CASE UNCHANGED vars
    BY <2>23 DEF vars
  <2> QED
    BY <2>1, <2>2, <2>3, <2>4, <2>5, <2>6, <2>7, <2>8, <2>9, <2>10, <2>11, <2>12,
       <2>13, <2>14, <2>15, <2>16, <2>17, <2>18, <2>19, <2>20, <2>21, <2>22, <2>23,
       NextSplits
<1> QED
  BY <1>1, <1>2, PTL DEF Spec
-----------------------------------------------------------------------------
\* Sessions stay tracked and listeners stay with the session that bound them:
\* an entry leaves the registry only with its context cancelled or its session
\* over (session_registry.go:220-227, aside.go:439).
LEMMA TrackedAlways == Spec => []SessionsTracked
<1>1. Init => SessionsTracked
  BY DEF Init, SessionsTracked
<1>2. TypeOK /\ SessionsTracked /\ [Next]_vars => SessionsTracked'
  <2> SUFFICES ASSUME TypeOK, SessionsTracked, [Next]_vars PROVE SessionsTracked'
    OBVIOUS
  <2> USE DEF TypeOK, SessionsTracked, cancelVars, oauthVars, bVars
  <2>1. ASSUME NEW r \in Requests,
               SendRequest(r) \/ Deliver(r) \/ BSideEnds(r) \/ ConnDown(r) \/
               WaitForRelease(r) \/ UserTold(r)
        PROVE SessionsTracked'
    BY <2>1 DEF SendRequest, Deliver, BSideEnds, ConnDown, WaitForRelease,
       UserTold
  <2>2. ASSUME NEW r \in Requests,
               RejectRequest(r) \/ Acquire(r) \/ JoinedEnds(r) \/
               CollectOnPort(r)
        PROVE SessionsTracked'
    BY <2>2 DEF RejectRequest, Acquire, JoinedEnds, CollectOnPort, Goto
  <2>3. ASSUME NEW r \in Requests, Register(r) PROVE SessionsTracked'
    BY <2>3 DEF Register, Goto
  <2>4. ASSUME NEW r \in Requests, CancelNext(r) PROVE SessionsTracked'
    <3>1. PICK q \in pending[r] :
            \/ registry' = registry \ {q} /\ doneCtx' = doneCtx \cup {q}
            \/ UNCHANGED <<registry, doneCtx>>
      BY <2>4 DEF CancelNext
    <3>2. registry \cup doneCtx \subseteq registry' \cup doneCtx'
      BY <3>1
    <3> QED
      BY <2>4, <3>2 DEF CancelNext
  <2>5. ASSUME NEW r \in Requests, Bind(r) PROVE SessionsTracked'
    <3>1. /\ PortOf[r] \in Ports /\ pc[r] = "clearing"
          /\ UNCHANGED <<registry, doneCtx>>
      BY <2>5, KeyAndPort DEF Bind
    <3>2. \A p \in Ports : r \notin listener[p]
      BY <3>1
    <3>3. CASE /\ listener' = [listener EXCEPT ![PortOf[r]] = {r}]
               /\ \E step \in {"listening", "closing"} : pc' = [pc EXCEPT ![r] = step]
      <4>1. \A p \in Ports : \A q \in listener'[p] :
              (q = r /\ p = PortOf[r]) \/ (q # r /\ q \in listener[p])
        BY <3>1, <3>2, <3>3
      <4>2. /\ pc'[r] \in {"listening", "closing"}
            /\ \A q \in Requests : q # r => pc'[q] = pc[q]
        BY <3>3
      <4> QED
        BY <3>1, <4>1, <4>2
    <3>4. CASE listener' = listener /\ pc' = [pc EXCEPT ![r] = "finishing"]
      BY <3>1, <3>2, <3>4
    <3>5. \/ /\ listener' = [listener EXCEPT ![PortOf[r]] = {r}]
             /\ \E step \in {"listening", "closing"} : pc' = [pc EXCEPT ![r] = step]
          \/ listener' = listener /\ pc' = [pc EXCEPT ![r] = "finishing"]
      BY <2>5 DEF Bind, Goto
    <3> QED
      BY <3>3, <3>4, <3>5
  <2>6. ASSUME NEW r \in Requests,
               Callback(r) \/ StopsListening(r) \/ AwaitComplete(r)
        PROVE SessionsTracked'
    BY <2>6 DEF Callback, StopsListening, AwaitComplete, Goto
  <2>7. ASSUME NEW r \in Requests, CloseListener(r) PROVE SessionsTracked'
    <3>1. /\ pc[r] = "closing" /\ PortOf[r] \in Ports
          /\ listener' = [listener EXCEPT ![PortOf[r]] = @ \ {r}]
          /\ pc' = [pc EXCEPT ![r] = "finishing"]
          /\ UNCHANGED <<registry, doneCtx>>
      BY <2>7, KeyAndPort DEF CloseListener, Goto
    <3>2. \A p \in Ports : \A q \in listener'[p] : q # r /\ q \in listener[p]
      BY <3>1
    <3>3. \A p \in Ports : \A q \in listener'[p] :
            p = PortOf[q] /\ pc'[q] \in {"listening", "completing", "closing"}
      BY <3>1, <3>2
    <3> QED
      BY <3>1, <3>3
  <2>8. ASSUME NEW r \in Requests, Finish(r) PROVE SessionsTracked'
    BY <2>8 DEF Finish, Goto
  <2>9. ASSUME NEW r \in Requests, Unregister(r) PROVE SessionsTracked'
    BY <2>9 DEF Unregister, Goto
  <2>10. ASSUME NEW r \in Requests,
               SessionTimeout(r) \/ UserCancel(r)
        PROVE SessionsTracked'
    BY <2>10 DEF SessionTimeout, UserCancel
  <2>11. ASSUME NEW k \in Keys, ReplayExpires(k) PROVE SessionsTracked'
    BY <2>11 DEF ReplayExpires
  <2>12. CASE UNCHANGED vars
    BY <2>12 DEF vars
  <2> QED
    BY <2>1, <2>2, <2>3, <2>4, <2>5, <2>6, <2>7, <2>8, <2>9, <2>10, <2>11,
       <2>12, NextSplits
<1> QED
  BY <1>1, <1>2, TypeCorrect, PTL DEF Spec

\* No port is ever held by a session nobody can release, whatever the number of
\* sign-ins, ports and peers.
THEOREM HeldPortsReleasable == Spec => []HeldPortIsReleasable
<1>1. TypeOK /\ SessionsTracked => HeldPortIsReleasable
  BY DEF TypeOK, SessionsTracked, HeldPortIsReleasable
<1> QED
  BY <1>1, TypeCorrect, TrackedAlways, PTL
-----------------------------------------------------------------------------
\* A release signal is sent only once the listener is closed, or where there
\* never was one (aside.go:425, 519-526), and a session does not go back.
LEMMA ReleaseAlwaysPast == Spec => []ReleaseIsPast
<1>1. Init => ReleaseIsPast
  BY DEF Init, ReleaseIsPast
<1>2. TypeOK /\ ReleaseIsPast /\ [Next]_vars => ReleaseIsPast'
  <2> SUFFICES ASSUME TypeOK, ReleaseIsPast, [Next]_vars PROVE ReleaseIsPast'
    OBVIOUS
  <2> USE DEF TypeOK, ReleaseIsPast, cancelVars, oauthVars, bVars
  <2>1. ASSUME NEW r \in Requests,
               SendRequest(r) \/ Deliver(r) \/ BSideEnds(r) \/ ConnDown(r) \/
               WaitForRelease(r) \/ CancelNext(r) \/ SessionTimeout(r)
        PROVE ReleaseIsPast'
    BY <2>1 DEF SendRequest, Deliver, BSideEnds, ConnDown, WaitForRelease,
       CancelNext, SessionTimeout
  <2>2. ASSUME NEW r \in Requests, Register(r) PROVE ReleaseIsPast'
    BY <2>2 DEF Register, Goto
  <2>3. ASSUME NEW r \in Requests,
               RejectRequest(r) \/ JoinedEnds(r) \/ CollectOnPort(r)
        PROVE ReleaseIsPast'
    BY <2>3 DEF RejectRequest, JoinedEnds, CollectOnPort, Goto
  <2>4. ASSUME NEW r \in Requests, Acquire(r) PROVE ReleaseIsPast'
    BY <2>4 DEF Acquire, Goto
  <2>5. ASSUME NEW r \in Requests, Bind(r) PROVE ReleaseIsPast'
    BY <2>5 DEF Bind, Goto
  <2>6. ASSUME NEW r \in Requests,
               Callback(r) \/ StopsListening(r) \/ AwaitComplete(r)
        PROVE ReleaseIsPast'
    BY <2>6 DEF Callback, StopsListening, AwaitComplete, Goto
  <2>7. ASSUME NEW r \in Requests, CloseListener(r) PROVE ReleaseIsPast'
    BY <2>7 DEF CloseListener, Goto
  <2>8. ASSUME NEW r \in Requests, Finish(r) PROVE ReleaseIsPast'
    BY <2>8 DEF Finish, Goto
  <2>9. ASSUME NEW r \in Requests, Unregister(r) PROVE ReleaseIsPast'
    BY <2>9 DEF Unregister, Goto
  <2>10. ASSUME NEW r \in Requests, UserCancel(r) PROVE ReleaseIsPast'
    BY <2>10 DEF UserCancel
  <2>11. ASSUME NEW r \in Requests, UserTold(r) PROVE ReleaseIsPast'
    BY <2>11 DEF UserTold
  <2>12. ASSUME NEW k \in Keys, ReplayExpires(k) PROVE ReleaseIsPast'
    BY <2>12 DEF ReplayExpires
  <2>13. CASE UNCHANGED vars
    BY <2>13 DEF vars
  <2> QED
    BY <2>1, <2>2, <2>3, <2>4, <2>5, <2>6, <2>7, <2>8, <2>9, <2>10, <2>11,
       <2>12, <2>13, NextSplits
<1> QED
  BY <1>1, <1>2, TypeCorrect, PTL DEF Spec

\* A cancel that saw the release signal finds the port free for good: the order
\* of the two deferred calls (aside.go:519-526) in every interleaving.
THEOREM ReleasesTrue == Spec => []ReleasedPortIsFree
<1>1. SessionsTracked /\ ReleaseIsPast => ReleasedPortIsFree
  BY KeyAndPort DEF SessionsTracked, ReleaseIsPast, ReleasedPortIsFree
<1> QED
  BY <1>1, TrackedAlways, ReleaseAlwaysPast, PTL

\* An owner is in the manager's entry for its key.
LEMMA OwnerIsActive ==
  ASSUME KeysOwned
  PROVE \A q \in Requests : pc[q] \in Owning => q \in active[KeyOf[q]]
  BY Zenon DEF KeysOwned
-----------------------------------------------------------------------------
\* The manager has for a key the session that acquired it, until that session
\* finishes (session.go:137-162, 185-210); only an owner waits for a release.
LEMMA KeysAlwaysOwned == Spec => []KeysOwned
<1>1. Init => KeysOwned
  BY DEF Init, KeysOwned, Owning
<1>2. TypeOK /\ KeysOwned /\ [Next]_vars => KeysOwned'
  <2> SUFFICES ASSUME TypeOK, KeysOwned, [Next]_vars PROVE KeysOwned'
    OBVIOUS
  <2> USE DEF TypeOK, KeysOwned, cancelVars, oauthVars, bVars
  <2>1. ASSUME NEW r \in Requests,
               SendRequest(r) \/ Deliver(r) \/ BSideEnds(r) \/ ConnDown(r) \/
               SessionTimeout(r) \/ UserCancel(r) \/ UserTold(r)
        PROVE KeysOwned'
    BY <2>1 DEF SendRequest, Deliver, BSideEnds, ConnDown, SessionTimeout,
       UserCancel, UserTold
  <2>2. ASSUME NEW r \in Requests, Register(r) PROVE KeysOwned'
    <3>1. /\ UNCHANGED <<active, waitsFor>> /\ pc[r] # "clearing"
          /\ \E step \in Steps \ Owning : pc' = [pc EXCEPT ![r] = step]
      BY <2>2 DEF Register, Goto, Steps, Owning
    <3> QED
      BY <3>1
  <2>3. ASSUME NEW r \in Requests,
               RejectRequest(r) \/ JoinedEnds(r)
        PROVE KeysOwned'
    <3>1. /\ UNCHANGED <<active, waitsFor>> /\ pc[r] # "clearing"
          /\ \E step \in Steps \ Owning : pc' = [pc EXCEPT ![r] = step]
      BY <2>3 DEF RejectRequest, JoinedEnds, Goto, Steps, Owning
    <3> QED
      BY <3>1
  <2>4. ASSUME NEW r \in Requests, Acquire(r) PROVE KeysOwned'
    <3>1. /\ waitsFor' = waitsFor /\ pc[r] = "registered"
          /\ \/ /\ active' = active
                /\ \E step \in {"unregister", "joined"} : pc' = [pc EXCEPT ![r] = step]
             \/ /\ active[KeyOf[r]] = {}
                /\ active' = [active EXCEPT ![KeyOf[r]] = {r}]
                /\ pc' = [pc EXCEPT ![r] = "collect"]
      BY <2>4 DEF Acquire, Goto
    <3>2. CASE active' = active /\ \E step \in {"unregister", "joined"} : pc' = [pc EXCEPT ![r] = step]
      BY <3>1, <3>2 DEF Owning
    <3>3. CASE /\ active[KeyOf[r]] = {}
               /\ active' = [active EXCEPT ![KeyOf[r]] = {r}]
               /\ pc' = [pc EXCEPT ![r] = "collect"]
      <4>1. \A q \in Requests : pc[q] \in Owning => q \in active[KeyOf[q]]
        BY OwnerIsActive
      <4>2. active'[KeyOf[r]] = {r} /\ \A k \in Keys : k # KeyOf[r] => active'[k] = active[k]
        BY <3>3, KeyAndPort
      <4>3. \A q \in Requests : q # r => pc'[q] = pc[q]
        BY <3>3
      <4>4. waitsFor[r] = {}
        BY <3>1
      <4> QED
        BY <3>1, <4>1, <4>2, <4>3, <4>4, KeyAndPort
    <3> QED
      BY <3>1, <3>2, <3>3
  <2>5. ASSUME NEW r \in Requests, CollectOnPort(r) PROVE KeysOwned'
    BY <2>5 DEF CollectOnPort, Goto, Owning
  <2>6. ASSUME NEW r \in Requests, CancelNext(r) PROVE KeysOwned'
    BY <2>6 DEF CancelNext
  <2>7. ASSUME NEW r \in Requests, WaitForRelease(r) PROVE KeysOwned'
    BY <2>7 DEF WaitForRelease
  <2>8. ASSUME NEW r \in Requests, Bind(r) PROVE KeysOwned'
    BY <2>8 DEF Bind, Goto, Owning
  <2>9. ASSUME NEW r \in Requests,
               Callback(r) \/ StopsListening(r) \/ AwaitComplete(r) \/
               CloseListener(r)
        PROVE KeysOwned'
    <3>1. /\ UNCHANGED <<active, waitsFor>> /\ pc[r] \in Owning /\ pc[r] # "clearing"
          /\ \E step \in Steps : pc' = [pc EXCEPT ![r] = step]
      BY <2>9 DEF Callback, StopsListening, AwaitComplete, CloseListener, Goto,
         Steps, Owning
    <3>2. active[KeyOf[r]] = {r} /\ waitsFor[r] = {}
      BY <3>1
    <3>3. \A q \in Requests : q # r => pc'[q] = pc[q]
      BY <3>1
    <3> QED
      BY <3>1, <3>2, <3>3
  <2>10. ASSUME NEW r \in Requests, Finish(r) PROVE KeysOwned'
    <3>1. /\ KeyOf[r] \in Keys /\ active[KeyOf[r]] = {r}
          /\ waitsFor' = waitsFor /\ waitsFor[r] = {}
          /\ active' = [active EXCEPT ![KeyOf[r]] = {}]
          /\ pc' = [pc EXCEPT ![r] = "unregister"]
      BY <2>10, KeyAndPort DEF Finish, Goto, Owning
    <3>2. \A q \in Requests : pc[q] \in Owning => q \in active[KeyOf[q]]
      BY OwnerIsActive
    <3>3. \A k \in Keys : k # KeyOf[r] => active'[k] = active[k]
      BY <3>1
    <3>4. pc'[r] \notin Owning /\ \A q \in Requests : q # r => pc'[q] = pc[q]
      BY <3>1 DEF Owning
    <3> QED
      BY <3>1, <3>2, <3>3, <3>4, KeyAndPort
  <2>11. ASSUME NEW r \in Requests, Unregister(r) PROVE KeysOwned'
    BY <2>11 DEF Unregister, Goto, Owning
  <2>12. ASSUME NEW k \in Keys, ReplayExpires(k) PROVE KeysOwned'
    BY <2>12 DEF ReplayExpires
  <2>13. CASE UNCHANGED vars
    BY <2>13 DEF vars
  <2> QED
    BY <2>1, <2>2, <2>3, <2>4, <2>5, <2>6, <2>7, <2>8, <2>9, <2>10, <2>11,
       <2>12, <2>13, NextSplits
<1> QED
  BY <1>1, <1>2, TypeCorrect, PTL DEF Spec

\* A byte-identical retry never kills the sign-in it repeats: a session that
\* clears a port owns its key, and so does the sign-in it would kill.
THEOREM RetriesSpareOwners == Spec => []RetrySparesOwner
<1>1. KeysOwned => RetrySparesOwner
  BY DEF KeysOwned, Owning, RetrySparesOwner
<1> QED
  BY <1>1, KeysAlwaysOwned, PTL
-----------------------------------------------------------------------------
\* Success, wherever the A-side remembers it, came from a callback the
\* application consumed (aside.go:808, session.go:199-206, bside.go:541).
LEMMA SuccessAlwaysDelivered == Spec => []SuccessDelivered
<1>1. Init => SuccessDelivered
  BY DEF Init, SuccessDelivered
<1>2. TypeOK /\ SuccessDelivered /\ [Next]_vars => SuccessDelivered'
  <2> SUFFICES ASSUME TypeOK, SuccessDelivered, [Next]_vars PROVE SuccessDelivered'
    OBVIOUS
  <2> USE DEF TypeOK, SuccessDelivered, cancelVars, oauthVars, bVars
  <2>1. ASSUME NEW r \in Requests,
               SendRequest(r) \/ BSideEnds(r) \/ ConnDown(r) \/ Register(r)
               \/ RejectRequest(r) \/ JoinedEnds(r) \/ CollectOnPort(r)
        PROVE SuccessDelivered'
    BY <2>1 DEF SendRequest, BSideEnds, ConnDown, Register, RejectRequest,
       JoinedEnds, CollectOnPort
  <2>2. ASSUME NEW r \in Requests, Deliver(r) PROVE SuccessDelivered'
    BY <2>2 DEF Deliver
  <2>3. ASSUME NEW r \in Requests, Acquire(r) PROVE SuccessDelivered'
    <3>1. KeyOf[r] \in Keys
      BY KeyAndPort
    <3>2. \A k \in Keys : \A q \in active'[k] : KeyOf[q] = k
      BY <2>3, <3>1 DEF Acquire
    <3>3. \A p \in Requests : \A q \in joined'[p] : KeyOf[q] = KeyOf[p]
      BY <2>3, <3>1 DEF Acquire
    <3> QED
      BY <2>3, <3>2, <3>3 DEF Acquire
  <2>4. ASSUME NEW r \in Requests,
               CancelNext(r) \/ WaitForRelease(r) \/ Bind(r) \/ Callback(r)
               \/ StopsListening(r)
        PROVE SuccessDelivered'
    BY <2>4 DEF CancelNext, WaitForRelease, Bind, Callback, StopsListening
  <2>5. ASSUME NEW r \in Requests, AwaitComplete(r) PROVE SuccessDelivered'
    BY <2>5 DEF AwaitComplete
  <2>6. ASSUME NEW r \in Requests, CloseListener(r) PROVE SuccessDelivered'
    BY <2>6 DEF CloseListener
  <2>7. ASSUME NEW r \in Requests, Finish(r) PROVE SuccessDelivered'
    <3>1. KeyOf[r] \in Keys
      BY KeyAndPort
    <3>2. \A k \in recent' : \E q \in delivered : KeyOf[q] = k
      BY <2>7 DEF Finish
    <3>3. \A k \in Keys : \A q \in active'[k] : KeyOf[q] = k
      BY <2>7, <3>1 DEF Finish
    <3> QED
      BY <2>7, <3>2, <3>3 DEF Finish
  <2>8. ASSUME NEW r \in Requests,
               Unregister(r) \/ SessionTimeout(r) \/ UserCancel(r) \/
               UserTold(r)
        PROVE SuccessDelivered'
    BY <2>8 DEF Unregister, SessionTimeout, UserCancel, UserTold
  <2>9. ASSUME NEW k \in Keys, ReplayExpires(k) PROVE SuccessDelivered'
    BY <2>9 DEF ReplayExpires
  <2>10. CASE UNCHANGED vars
    BY <2>10 DEF vars
  <2> QED
    BY <2>1, <2>2, <2>3, <2>4, <2>5, <2>6, <2>7, <2>8, <2>9, <2>10, NextSplits
<1> QED
  BY <1>1, <1>2, TypeCorrect, PTL DEF Spec

\* A replayed answer is real: some request with the same key had its callback
\* consumed by the application.
THEOREM ReplaysReal == Spec => []ReplayIsReal
<1>1. Init => ReplayIsReal
  BY DEF Init, ReplayIsReal
<1>2. TypeOK /\ SuccessDelivered /\ ReplayIsReal /\ [Next]_vars => ReplayIsReal'
  <2> SUFFICES ASSUME TypeOK, SuccessDelivered, ReplayIsReal, [Next]_vars
               PROVE ReplayIsReal'
    OBVIOUS
  <2> USE DEF TypeOK, ReplayIsReal, cancelVars, oauthVars, bVars
  <2>1. ASSUME NEW r \in Requests,
               SendRequest(r) \/ BSideEnds(r) \/ ConnDown(r) \/ CollectOnPort(r)
               \/ CancelNext(r) \/ WaitForRelease(r) \/ StopsListening(r)
               \/ AwaitComplete(r) \/ CloseListener(r) \/ Finish(r)
               \/ Unregister(r) \/ SessionTimeout(r) \/ UserCancel(r) \/ UserTold(r)
        PROVE ReplayIsReal'
    BY <2>1 DEF SendRequest, BSideEnds, ConnDown, CollectOnPort, CancelNext,
       WaitForRelease, StopsListening, AwaitComplete, CloseListener, Finish,
       Unregister, SessionTimeout, UserCancel, UserTold
  <2>2. ASSUME NEW r \in Requests, Deliver(r) PROVE ReplayIsReal'
    BY <2>2 DEF Deliver
  <2>3. ASSUME NEW r \in Requests,
               Register(r) \/ RejectRequest(r) \/ Bind(r) \/ Callback(r)
        PROVE ReplayIsReal'
    BY <2>3 DEF Register, RejectRequest, Bind, Callback, Tell
  <2>4. ASSUME NEW r \in Requests, Acquire(r) PROVE ReplayIsReal'
    BY <2>4 DEF Acquire, Tell, SuccessDelivered
  <2>5. ASSUME NEW r \in Requests, JoinedEnds(r) PROVE ReplayIsReal'
    BY <2>5 DEF JoinedEnds, Tell, SuccessDelivered
  <2>6. ASSUME NEW k \in Keys, ReplayExpires(k) PROVE ReplayIsReal'
    BY <2>6 DEF ReplayExpires
  <2>7. CASE UNCHANGED vars
    BY <2>7 DEF vars
  <2> QED
    BY <2>1, <2>2, <2>3, <2>4, <2>5, <2>6, <2>7, NextSplits
<1> QED
  BY <1>1, <1>2, TypeCorrect, SuccessAlwaysDelivered, PTL DEF Spec
=============================================================================
