--------------------------------- MODULE SignIn ---------------------------------
(***************************************************************************)
(* OAuth sign-ins relayed from an application's machine (the B-side,       *)
(* internal/bridge/bside.go) to the machine with the browser (the A-side,  *)
(* aside.go), with the state A-side sessions share: the session registry   *)
(* (session_registry.go), the manager that coalesces byte-identical        *)
(* requests (session.go) and the loopback callback ports.  Registry and    *)
(* manager calls are atomic (one mutex each); sessions interleave between  *)
(* them, and a canceller waits for the cancelled session outside the lock. *)
(*                                                                         *)
(* A request is one B-side Run: its own connection, and a request ID of    *)
(* its own (generateRequestID is random, bside.go:198), so that no entry   *)
(* of the registry is overwritten.                                         *)
(***************************************************************************)
EXTENDS Integers, FiniteSetsExt

CONSTANTS
    Requests,       \* request IDs
    KeyOf,          \* oauthSessionKey: equal for byte-identical requests
    PortOf,         \* the callback port each request asks for
    PeerOf,         \* the peer fingerprint behind each request
    MaxTracked,     \* DefaultMaxTrackedSessions
    MaxActive,      \* maxOAuthActiveSessions
    UserCancels,    \* requests a user may cancel (bridge_cancel, dashboard)
    Breaks          \* requests whose connection may break on its own

ASSUME SignInConstants == /\ IsFiniteSet(Requests)
                          /\ MaxTracked \in Nat /\ MaxActive \in Nat

Keys == {KeyOf[r] : r \in Requests}
Ports == {PortOf[r] : r \in Requests}

VARIABLES
    b,          \* where BSide.Run is
    up,         \* the request's connection is open
    told,       \* the last message from the A-side
    completion, \* bridge_complete on its way to the A-side
    pc,         \* where ASide.Run is
    registry,   \* request IDs in SessionRegistry.sessions
    doneCtx,    \* sessions whose context is done
    pending,    \* ids CancelOnPort collected and has not handled yet
    waitsFor,   \* {the session Cancel is waiting for}, or {}
    released,   \* sessions whose listenerClosed channel is closed
    listener,   \* the session listening on each port, or {}
    active,     \* the session owning each key, or {}
    joined,     \* {the session a coalesced request waits for}, or {}
    result,     \* how an owner's session finished
    recent,     \* keys in the replay window
    delivered,  \* requests whose callback the application accepted
    user        \* user cancellations: {} | {"waiting"}, then how the wait ended

bVars == <<b, up, told, completion>>
cancelVars == <<registry, doneCtx, pending, waitsFor, user>>
oauthVars == <<active, joined, result, recent>>
vars == <<bVars, pc, cancelVars, released, listener, oauthVars, delivered>>

Steps == {"idle", "registered", "joined", "collect", "clearing", "listening",
          "completing", "closing", "finishing", "unregister", "ended"}

TypeOK ==
    /\ b \in [Requests -> {"idle", "waiting", "ended"}]
    /\ up \in [Requests -> BOOLEAN]
    /\ told \in [Requests -> {"none", "error", "replay", "listening", "relay"}]
    /\ completion \in [Requests -> {"none", "ok", "failed"}]
    /\ pc \in [Requests -> Steps]
    /\ registry \subseteq Requests /\ Cardinality(registry) <= MaxTracked
    /\ doneCtx \subseteq Requests
    /\ pending \in [Requests -> SUBSET Requests]
    /\ waitsFor \in [Requests -> SUBSET Requests]
    /\ released \subseteq Requests
    /\ listener \in [Ports -> SUBSET Requests]
    /\ active \in [Keys -> SUBSET Requests]
    /\ joined \in [Requests -> SUBSET Requests]
    /\ result \in [Requests -> {"none", "ok", "failed"}]
    /\ recent \subseteq Keys
    /\ delivered \subseteq Requests
    /\ user \in [Requests -> SUBSET {"waiting", "released", "timeout"}]

Init ==
    /\ b = [r \in Requests |-> "idle"]
    /\ up = [r \in Requests |-> FALSE]
    /\ told = [r \in Requests |-> "none"]
    /\ completion = [r \in Requests |-> "none"]
    /\ pc = [r \in Requests |-> "idle"]
    /\ registry = {} /\ doneCtx = {}
    /\ pending = [r \in Requests |-> {}]
    /\ waitsFor = [r \in Requests |-> {}]
    /\ released = {}
    /\ listener = [p \in Ports |-> {}]
    /\ active = [k \in Keys |-> {}]
    /\ joined = [r \in Requests |-> {}]
    /\ result = [r \in Requests |-> "none"]
    /\ recent = {}
    /\ delivered = {}
    /\ user = [r \in Requests |-> {}]

-----------------------------------------------------------------------------
(***************************************************************************)
(* The B-side: one request, at most one delivery to the application.       *)
(***************************************************************************)
SendRequest(r) ==
    /\ b[r] = "idle"
    /\ b' = [b EXCEPT ![r] = "waiting"]
    /\ up' = [up EXCEPT ![r] = TRUE]
    /\ UNCHANGED <<told, completion, pc, cancelVars, released, listener,
                   oauthVars, delivered>>

\* The relayed callback goes to the application once, and the outcome back.
\* The application may have consumed a callback whose delivery is reported as
\* failed (its answer was lost or late).
Deliver(r) ==
    /\ b[r] = "waiting" /\ told[r] = "relay"
    /\ b' = [b EXCEPT ![r] = "ended"]
    /\ \E consumed \in BOOLEAN, report \in {"ok", "failed"} :
        /\ report = "ok" => consumed
        /\ delivered' = IF consumed THEN delivered \cup {r} ELSE delivered
        /\ completion' = IF up[r] THEN [completion EXCEPT ![r] = report] ELSE completion
    /\ UNCHANGED <<up, told, pc, cancelVars, released, listener, oauthVars>>

\* An error, a replay or a relay that does not validate ends Run; so does a
\* closed connection.
BSideEnds(r) ==
    /\ b[r] = "waiting"
    /\ told[r] \in {"error", "replay", "relay"} \/ ~up[r]
    /\ b' = [b EXCEPT ![r] = "ended"]
    /\ up' = [up EXCEPT ![r] = FALSE]
    /\ UNCHANGED <<told, completion, pc, cancelVars, released, listener,
                   oauthVars, delivered>>

\* The connection closes: it breaks, the B-side gives up (its timeout, or the
\* user closes the application), or the A-side's context is done.
ConnDown(r) ==
    /\ up[r] /\ r \in Breaks \cup doneCtx
    /\ up' = [up EXCEPT ![r] = FALSE]
    /\ UNCHANGED <<b, told, completion, pc, cancelVars, released, listener,
                   oauthVars, delivered>>

-----------------------------------------------------------------------------
(***************************************************************************)
(* The A-side.                                                             *)
(***************************************************************************)
Goto(r, step) == pc' = [pc EXCEPT ![r] = step]
Tell(r, m) == told' = IF up[r] THEN [told EXCEPT ![r] = m] ELSE told

Register_OneTooMany(r) ==       \* mutant: the cap is off by one
    /\ pc[r] = "idle" /\ b[r] # "idle"
    /\ Cardinality(registry) <= MaxTracked
    /\ registry' = registry \cup {r}
    /\ Goto(r, "registered")
    /\ UNCHANGED <<bVars, doneCtx, pending, waitsFor, user, released, listener,
                   oauthVars, delivered>>
\* The session is tracked from here on; a full registry refuses it.
Register(r) ==
    /\ pc[r] = "idle" /\ b[r] # "idle"
    /\ IF Cardinality(registry) < MaxTracked
       THEN /\ registry' = registry \cup {r}
            /\ Goto(r, "registered") /\ UNCHANGED <<told, released>>
       ELSE /\ Tell(r, "error") /\ Goto(r, "ended")
            /\ released' = released \cup {r} /\ UNCHANGED registry
    /\ UNCHANGED <<b, up, completion, doneCtx, pending, waitsFor,
                   user, listener, oauthVars, delivered>>

\* The URL or the callback port does not validate.
RejectRequest(r) ==
    /\ pc[r] = "registered"
    /\ Tell(r, "error") /\ Goto(r, "unregister")
    /\ UNCHANGED <<b, up, completion, cancelVars, released, listener,
                   oauthVars, delivered>>

Acquire_NoCoalesce(r) ==        \* mutant: an active session is not looked up
    /\ pc[r] = "registered" /\ KeyOf[r] \notin recent
    /\ active' = [active EXCEPT ![KeyOf[r]] = {r}]
    /\ Goto(r, "collect")
    /\ UNCHANGED <<bVars, cancelVars, released, listener, joined, result,
                   recent, delivered>>
\* OAuthSessionManager.acquire: replay a recent success, join an active
\* session, or own the key.
Acquire(r) ==
    LET k == KeyOf[r] IN
    /\ pc[r] = "registered"
    /\ \/ /\ k \in recent
          /\ Tell(r, "replay") /\ Goto(r, "unregister")
          /\ UNCHANGED <<active, joined>>
       \/ /\ k \notin recent /\ active[k] # {}
          /\ joined' = [joined EXCEPT ![r] = active[k]]
          /\ Goto(r, "joined") /\ UNCHANGED <<told, active>>
       \/ /\ k \notin recent /\ active[k] = {}
          /\ Cardinality({x \in Keys : active[x] # {}}) >= MaxActive
          /\ Tell(r, "error") /\ Goto(r, "unregister")
          /\ UNCHANGED <<active, joined>>
       \/ /\ k \notin recent /\ active[k] = {}
          /\ Cardinality({x \in Keys : active[x] # {}}) < MaxActive
          /\ active' = [active EXCEPT ![k] = {r}]
          /\ Goto(r, "collect") /\ UNCHANGED <<told, joined>>
    /\ UNCHANGED <<b, up, completion, cancelVars, released, listener, result,
                   recent, delivered>>

\* A coalesced request: the owner finished, or its own context is done.
JoinedEnds(r) ==
    /\ pc[r] = "joined"
    /\ \/ /\ \E o \in joined[r] : result[o] = "ok"
          /\ Tell(r, "replay")
       \/ /\ (\E o \in joined[r] : result[o] = "failed") \/ r \in doneCtx
          /\ Tell(r, "error")
    /\ Goto(r, "unregister")
    /\ UNCHANGED <<b, up, completion, cancelVars, released, listener,
                   oauthVars, delivered>>

\* CancelOnPort, first lock: every other session on the port, of any peer.
CollectOnPort(r) ==
    /\ pc[r] = "collect"
    /\ pending' = [pending EXCEPT ![r] = {q \in registry \ {r} : PortOf[q] = PortOf[r]}]
    /\ Goto(r, "clearing")
    /\ UNCHANGED <<bVars, registry, doneCtx, waitsFor, user,
                   released, listener, oauthVars, delivered>>

CancelNext_NoCancel(r) ==       \* mutant: the entry goes, the session stays
    /\ pc[r] = "clearing" /\ waitsFor[r] = {}
    /\ \E q \in pending[r] :
        /\ pending' = [pending EXCEPT ![r] = @ \ {q}]
        /\ registry' = registry \ {q}
        /\ waitsFor' = [waitsFor EXCEPT ![r] = {q}]
    /\ UNCHANGED <<bVars, pc, doneCtx, user, released, listener, oauthVars, delivered>>
\* CancelOnPort, then Cancel for each id: under one lock the entry is removed
\* if it is there and belongs to the same peer; its context is cancelled.
CancelNext(r) ==
    /\ pc[r] = "clearing" /\ waitsFor[r] = {}
    /\ \E q \in pending[r] :
        /\ pending' = [pending EXCEPT ![r] = @ \ {q}]
        /\ IF q \in registry /\ PeerOf[q] = PeerOf[r]
           THEN /\ registry' = registry \ {q}
                /\ doneCtx' = doneCtx \cup {q}
                /\ waitsFor' = [waitsFor EXCEPT ![r] = {q}]
           ELSE UNCHANGED <<registry, doneCtx, waitsFor>>
    /\ UNCHANGED <<bVars, pc, user, released, listener, oauthVars, delivered>>

WaitForRelease_Unbounded(r) ==  \* mutant: no releaseWaitBound
    /\ waitsFor[r] # {} /\ waitsFor[r] \subseteq released
    /\ waitsFor' = [waitsFor EXCEPT ![r] = {}]
    /\ UNCHANGED <<bVars, pc, registry, doneCtx, pending, user,
                   released, listener, oauthVars, delivered>>
\* The cancelled session closed its listener, or releaseWaitBound expired.
WaitForRelease(r) ==
    /\ waitsFor[r] # {}
    /\ waitsFor' = [waitsFor EXCEPT ![r] = {}]
    /\ UNCHANGED <<bVars, pc, registry, doneCtx, pending, user,
                   released, listener, oauthVars, delivered>>

\* net.Listen on the exact port, then bridge_ack; when the ack is sent the
\* browser opens and callbacks are served.  The port may be taken: by another
\* session, or by a program of its own.
Bind(r) ==
    LET p == PortOf[r] IN
    /\ pc[r] = "clearing" /\ pending[r] = {} /\ waitsFor[r] = {}
    /\ \/ /\ listener[p] = {}
          /\ listener' = [listener EXCEPT ![p] = {r}]
          /\ Tell(r, "listening")
          /\ Goto(r, IF up[r] THEN "listening" ELSE "closing")
       \/ /\ Tell(r, "error") /\ Goto(r, "finishing")
          /\ UNCHANGED listener
    /\ UNCHANGED <<b, up, completion, cancelVars, released, oauthVars, delivered>>

\* The first valid callback is captured and relayed to the B-side; later ones
\* are refused.
Callback(r) ==
    /\ pc[r] = "listening"
    /\ Tell(r, "relay")
    /\ Goto(r, IF up[r] THEN "completing" ELSE "closing")
    /\ UNCHANGED <<b, up, completion, cancelVars, released, listener,
                   oauthVars, delivered>>

\* The context is done, the server failed, or a callback body was unreadable.
StopsListening(r) ==
    /\ pc[r] = "listening"
    /\ Goto(r, "closing")
    /\ UNCHANGED <<bVars, cancelVars, released, listener, oauthVars, delivered>>

\* bridge_complete, or an error on the connection (which a done context
\* closes).  runErr is nil only for a reported success.
AwaitComplete(r) ==
    /\ pc[r] = "completing"
    /\ \/ completion[r] = "ok" /\ result' = [result EXCEPT ![r] = "ok"]
       \/ completion[r] = "failed" /\ UNCHANGED result
       \/ ~up[r] /\ UNCHANGED result
    /\ Goto(r, "closing")
    /\ UNCHANGED <<bVars, cancelVars, released, listener, active, joined,
                   recent, delivered>>

CloseListener_SignalFirst(r) == \* mutant: the two defers in the other order
    /\ pc[r] = "closing"
    /\ IF r \in released
       THEN /\ listener' = [listener EXCEPT ![PortOf[r]] = @ \ {r}]
            /\ Goto(r, "finishing") /\ UNCHANGED released
       ELSE released' = released \cup {r} /\ UNCHANGED <<pc, listener>>
    /\ UNCHANGED <<bVars, cancelVars, oauthVars, delivered>>
\* The deferred calls in order: the server and its listener close, then
\* listenerClosed is signalled.
CloseListener(r) ==
    /\ pc[r] = "closing"
    /\ listener' = [listener EXCEPT ![PortOf[r]] = @ \ {r}]
    /\ released' = released \cup {r}
    /\ Goto(r, "finishing")
    /\ UNCHANGED <<bVars, cancelVars, oauthVars, delivered>>

Finish_Always(r) ==             \* mutant: a failed session is replayed too
    /\ pc[r] = "finishing"
    /\ active' = [active EXCEPT ![KeyOf[r]] = {}]
    /\ recent' = recent \cup {KeyOf[r]}
    /\ result' = [result EXCEPT ![r] = IF @ = "ok" THEN "ok" ELSE "failed"]
    /\ Goto(r, "unregister")
    /\ UNCHANGED <<bVars, cancelVars, released, listener, joined, delivered>>
\* ... then lease.finish: the key is free, a success is replayed for a while.
Finish(r) ==
    /\ pc[r] = "finishing"
    /\ active' = [active EXCEPT ![KeyOf[r]] = {}]
    /\ recent' = IF result[r] = "ok" THEN recent \cup {KeyOf[r]} ELSE recent
    /\ result' = [result EXCEPT ![r] = IF @ = "ok" THEN "ok" ELSE "failed"]
    /\ Goto(r, "unregister")
    /\ UNCHANGED <<bVars, cancelVars, released, listener, joined, delivered>>

\* ... then unregister, and the connection closes with the handler.
Unregister(r) ==
    /\ pc[r] = "unregister"
    /\ registry' = registry \ {r}
    /\ released' = released \cup {r}
    /\ up' = [up EXCEPT ![r] = FALSE]
    /\ Goto(r, "ended")
    /\ UNCHANGED <<b, told, completion, doneCtx, pending, waitsFor,
                   user, listener, oauthVars, delivered>>

\* ASideConfig.Timeout; a session that is returning does not read its context.
SessionTimeout(r) ==
    /\ pc[r] \notin {"idle", "closing", "finishing", "unregister", "ended"}
    /\ r \notin doneCtx
    /\ doneCtx' = doneCtx \cup {r}
    /\ UNCHANGED <<bVars, pc, registry, pending, waitsFor, user,
                   released, listener, oauthVars, delivered>>

\* The replay window of a key ends (pruneLocked).
ReplayExpires(k) ==
    /\ k \in recent
    /\ recent' = recent \ {k}
    /\ UNCHANGED <<bVars, pc, cancelVars, released, listener, active, joined,
                   result, delivered>>

-----------------------------------------------------------------------------
(***************************************************************************)
(* A user cancels a sign-in: handleBridgeCancel or CancelOpenSession.      *)
(***************************************************************************)
UserCancel(r) ==
    /\ r \in UserCancels /\ user[r] = {}
    /\ r \in registry
    /\ registry' = registry \ {r}
    /\ doneCtx' = doneCtx \cup {r}
    /\ user' = [user EXCEPT ![r] = {"waiting"}]
    /\ UNCHANGED <<bVars, pc, pending, waitsFor, released,
                   listener, oauthVars, delivered>>

\* The caller is told "cancelled" however the wait ended.
UserTold(r) ==
    /\ user[r] = {"waiting"}
    /\ user' = [user EXCEPT ![r] = IF r \in released THEN {"released"} ELSE {"timeout"}]
    /\ UNCHANGED <<bVars, pc, registry, doneCtx, pending, waitsFor,
                   released, listener, oauthVars, delivered>>

-----------------------------------------------------------------------------
ASide(r) ==
    \/ Register(r) \/ RejectRequest(r) \/ Acquire(r) \/ JoinedEnds(r)
    \/ CollectOnPort(r) \/ CancelNext(r) \/ WaitForRelease(r) \/ Bind(r)
    \/ AwaitComplete(r) \/ CloseListener(r) \/ Finish(r) \/ Unregister(r)
    \/ (r \in doneCtx /\ StopsListening(r))

Next ==
    \/ \E r \in Requests :
        \/ SendRequest(r) \/ Deliver(r) \/ BSideEnds(r) \/ ConnDown(r)
        \/ ASide(r) \/ Callback(r) \/ StopsListening(r) \/ SessionTimeout(r)
        \/ UserCancel(r) \/ UserTold(r)
    \/ \E k \in Keys : ReplayExpires(k)

Spec == Init /\ [][Next]_vars

\* Every session's timer fires, a done context closes its connection, and the
\* scheduler runs every goroutine that can go on.
FairSpec ==
    /\ Spec
    /\ \A r \in Requests :
        /\ WF_vars(ASide(r))
        /\ WF_vars(SessionTimeout(r))
        /\ WF_vars(r \in doneCtx /\ ConnDown(r))

-----------------------------------------------------------------------------
(***************************************************************************)
(* Properties.                                                             *)
(***************************************************************************)

\* A session that listens on a callback port can be found and released, or is
\* already on its way out: no port is held by a session nobody can cancel.
HeldPortIsReleasable ==
    \A p \in Ports : \A r \in listener[p] : r \in registry \cup doneCtx

\* A byte-identical retry never kills the sign-in it repeats: the sessions a
\* request cancels to take its port do not include one that owns its key.
RetrySparesOwner ==
    \A r, q \in Requests :
        /\ r # q /\ KeyOf[r] = KeyOf[q] /\ q \in waitsFor[r]
        => pc[q] \notin {"collect", "clearing", "listening", "completing"}

\* A request answered with a replay shares its key with a sign-in whose
\* callback the application accepted.
ReplayIsReal ==
    \A r \in Requests : told[r] = "replay" =>
        \E q \in delivered : KeyOf[q] = KeyOf[r]

\* A cancel whose wait ended with the release signal was told the truth: the
\* session does not hold its port then, nor at any later time.
ReleasedPortIsFree ==
    \A r \in Requests : "released" \in user[r] => r \notin listener[PortOf[r]]

\* Every session ends and leaves nothing behind: no port, no key, no entry.
SessionsEnd ==
    \A r \in Requests :
        pc[r] # "idle" ~> /\ pc[r] = "ended" /\ r \notin registry
                          /\ r \notin listener[PortOf[r]] /\ r \notin active[KeyOf[r]]

-----------------------------------------------------------------------------
(***************************************************************************)
(* The parts of the inductive invariant: where a session may be when the   *)
(* shared state refers to it.                                              *)
(***************************************************************************)
Owning == {"collect", "clearing", "listening", "completing", "closing", "finishing"}

\* A session is tracked, or cancelled, from Register to unregister; a port is
\* listened on only in the steps between Bind and the deferred Close.
SessionsTracked ==
    /\ \A r \in Requests : pc[r] \notin {"idle", "ended"} => r \in registry \cup doneCtx
    /\ \A p \in Ports : \A r \in listener[p] :
        p = PortOf[r] /\ pc[r] \in {"listening", "completing", "closing"}

\* A release signal is sent only by a session past its listener.
ReleaseIsPast ==
    /\ \A r \in released : pc[r] \in {"finishing", "unregister", "ended"}
    /\ \A r \in Requests : "released" \in user[r] => r \in released

\* The session that owns a key is the one the manager has for it, and only an
\* owner clears its port.
KeysOwned ==
    /\ \A r \in Requests : pc[r] \in Owning => active[KeyOf[r]] = {r}
    /\ \A r \in Requests : waitsFor[r] # {} => pc[r] = "clearing"

\* Success, wherever it is remembered, came from a delivered callback.
SuccessDelivered ==
    /\ \A r \in Requests : completion[r] = "ok" \/ result[r] = "ok" => r \in delivered
    /\ \A k \in recent : \E q \in delivered : KeyOf[q] = k
    /\ \A k \in Keys : \A q \in active[k] : KeyOf[q] = k
    /\ \A r \in Requests : \A q \in joined[r] : KeyOf[q] = KeyOf[r]
=============================================================================
