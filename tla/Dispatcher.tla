----------------------------- MODULE Dispatcher -----------------------------
(***************************************************************************)
(* The wire port of a Hub: a LAN or SSH listener that authenticates        *)
(* connections in goroutines of their own and queues them for Accept       *)
(* (internal/transport/lan.go, ssh.go), and the dispatcher that turns each *)
(* accepted connection into a session, routes it by its first envelope and *)
(* drains the sessions when the Hub stops (internal/bridge/dispatcher.go). *)
(*                                                                         *)
(* A connection that fails its handshake is never a result of Accept:      *)
(* ReturnHandshakeError, which would make it one, is set by tests only.    *)
(* Over SSH a connection opens one channel, as the program's own dial      *)
(* does.                                                                   *)
(***************************************************************************)
EXTENDS Naturals, FiniteSets, Sequences

CONSTANTS Conns,             \* connections peers may make
          HandshakeSlots,    \* concurrent handshakes, 64 in the code
          ResultSlots,       \* authenticated connections waiting for Accept
          SessionLimit       \* sessions, 100 in the code

ASSUME DispatcherAssumption ==
    /\ HandshakeSlots \in Nat \ {0} /\ ResultSlots \in Nat \ {0} /\ SessionLimit \in Nat \ {0}

VARIABLES stage,      \* connection -> how far it has come
          tracked,    \* connections whose handshake Close would cut short
          slots,      \* connections holding a slot of the handshakes
          sock,       \* connections whose socket is open on this machine
          results,    \* the listener's queue of authenticated connections
          lst,        \* the listener: its kind, closed channel, terminal error, serve loop, Close
          hand,       \* the connection Accept has taken from the queue, at most one
          loop,       \* Serve's accept loop: accepting, waiting for sessions, returned
          watch,      \* Serve's shutdown goroutine
          dctx,       \* the Serve context is cancelled
          trusting,   \* connections whose peer is paired at this moment
          cut         \* sessions whose socket this machine closed under them

dispVars == <<stage, tracked, slots, sock, results, lst, hand, loop, watch, dctx, trusting, cut>>

Stages == {"none", "handshake", "verified", "authenticated", "queued", "taken", "opening",
           "oauth", "drop", "pairing", "ended"}
Routed == {"oauth", "drop", "pairing"}
Sessions == {c \in Conns : stage[c] \in {"opening"} \cup Routed}

DispatcherTypeOK ==
    /\ stage \in [Conns -> Stages]
    /\ tracked \subseteq Conns /\ sock \subseteq Conns /\ cut \subseteq Conns /\ trusting \subseteq Conns
    /\ hand \subseteq Conns /\ Cardinality(hand) <= 1
    /\ results \in Seq(Conns) /\ Len(results) <= ResultSlots
    /\ lst \in [kind : {"lan", "ssh"}, closed : BOOLEAN, terminal : BOOLEAN, serving : BOOLEAN, swept : BOOLEAN]
    /\ loop \in {"accepting", "waiting", "returned"}
    /\ watch \in {"parked", "cancelled", "closing", "grace", "forced", "over"}
    /\ dctx \in BOOLEAN
    /\ Cardinality(Sessions) <= SessionLimit
    /\ slots \subseteq Conns /\ Cardinality(slots) <= HandshakeSlots

DispatcherInit ==
    /\ stage = [c \in Conns |-> "none"]
    /\ tracked = {} /\ slots = {} /\ sock = {} /\ results = <<>> /\ hand = {} /\ cut = {}
    /\ lst \in {[kind |-> k, closed |-> FALSE, terminal |-> FALSE, serving |-> TRUE, swept |-> FALSE] : k \in {"lan", "ssh"}}
    /\ loop = "accepting" /\ watch = "parked" /\ dctx = FALSE
    /\ trusting \in SUBSET Conns

To(c, s) == [stage EXCEPT ![c] = s]

-----------------------------------------------------------------------------
(* The listener.                                                           *)

\* The serve loop accepts a TCP connection, tracks it and takes a slot; with
\* none free it is untracked and closed again.
ServeAccepts(c) ==
    /\ lst.serving /\ ~lst.closed
    /\ stage[c] = "none"
    /\ IF Cardinality(slots) < HandshakeSlots
       THEN /\ stage' = To(c, "handshake") /\ sock' = sock \cup {c}
            /\ tracked' = tracked \cup {c} /\ slots' = slots \cup {c}
       ELSE stage' = To(c, "ended") /\ UNCHANGED <<sock, tracked, slots>>
    /\ UNCHANGED <<results, lst, hand, loop, watch, dctx, trusting, cut>>

\* listener.Accept fails: whatever the error, it is terminal, and every tracked
\* connection is closed.
AcceptBreaks ==
    /\ lst.serving /\ ~lst.closed
    /\ lst' = [lst EXCEPT !.terminal = TRUE, !.serving = FALSE]
    /\ sock' = sock \ tracked
    /\ cut' = cut
    /\ UNCHANGED <<slots, stage, tracked, results, hand, loop, watch, dctx, trusting>>

\* The serve loop sees the closed channel after the socket was closed.
ServeEnds ==
    /\ lst.serving /\ lst.closed
    /\ lst' = [lst EXCEPT !.serving = FALSE]
    /\ UNCHANGED <<slots, tracked, stage, sock, results, hand, loop, watch, dctx, trusting, cut>>

\* The TLS or SSH handshake fails, its deadline passes or cannot be cleared, or
\* its socket is gone.
HandshakeFails(c) ==
    /\ stage[c] \in {"handshake", "verified"}
    /\ stage' = To(c, "ended")
    /\ sock' = sock \ {c}
    /\ tracked' = tracked \ {c}
    /\ UNCHANGED <<slots, results, lst, hand, loop, watch, dctx, trusting, cut>>

RefuseConn(c) == stage' = To(c, "ended") /\ sock' = sock \ {c} /\ tracked' = tracked \ {c}

\* Authenticated, and publishConnection has looked whether the listener is
\* closed or has failed.
HandshakeSucceeds(c) ==
    /\ lst.kind = "lan" /\ stage[c] = "handshake" /\ c \in sock
    /\ IF lst.closed \/ lst.terminal
       THEN RefuseConn(c)
       ELSE stage' = To(c, "authenticated") /\ UNCHANGED <<sock, tracked>>
    /\ UNCHANGED <<slots, results, lst, hand, loop, watch, dctx, trusting, cut>>

\* SSH: the connection is authenticated and gives its slot back; Close may still
\* cut it short.
SSHAuthenticates(c) ==
    /\ lst.kind = "ssh" /\ stage[c] = "handshake" /\ c \in sock
    /\ stage' = To(c, "verified")
    /\ slots' = slots \ {c}
    /\ UNCHANGED <<tracked, sock, results, lst, hand, loop, watch, dctx, trusting, cut>>

\* Then promoteServerConn moves it from the pending connections to those the
\* server owns, unless the listener is closed.
PromoteServerConn(c) ==
    /\ stage[c] = "verified"
    /\ IF lst.closed
       THEN RefuseConn(c)
       ELSE stage' = To(c, "authenticated") /\ tracked' = tracked \ {c} /\ UNCHANGED sock
    /\ UNCHANGED <<slots, results, lst, hand, loop, watch, dctx, trusting, cut>>

\* results <- conn, or the closed channel: with both ready, either.
Publish(c) ==
    /\ stage[c] = "authenticated"
    /\ \/ /\ Len(results) < ResultSlots
          /\ c \in sock
          /\ results' = Append(results, c)
          /\ stage' = To(c, "queued")
          /\ sock' = sock
       \/ /\ lst.closed \/ c \notin sock
          /\ stage' = To(c, "ended")
          /\ sock' = sock \ {c}
          /\ results' = results
    /\ UNCHANGED <<slots, tracked, lst, hand, loop, watch, dctx, trusting, cut>>

\* The goroutine that queued a LAN connection runs its deferred untracking; it
\* may do so long after the connection was accepted.
Untrack(c) ==
    /\ c \in tracked
    /\ stage[c] \notin {"handshake", "verified", "authenticated"}
    /\ tracked' = tracked \ {c}
    /\ UNCHANGED <<slots, stage, sock, results, lst, hand, loop, watch, dctx, trusting, cut>>

\* ... and gives back the slot it still has: untracked first, then the slot.
FreeSlot(c) ==
    /\ c \in slots \ tracked
    /\ slots' = slots \ {c}
    /\ UNCHANGED <<tracked, stage, sock, results, lst, hand, loop, watch, dctx, trusting, cut>>

\* Close, first half: the closed channel, the socket, the tracked connections.
CloseLAN ==
    /\ lst.kind = "lan" /\ ~lst.closed
    /\ lst' = [lst EXCEPT !.closed = TRUE]
    /\ sock' = sock \ tracked
    /\ UNCHANGED <<slots, stage, tracked, results, hand, loop, dctx, trusting, cut>>

\* An SSH listener also closes every connection it has authenticated.
CloseSSH ==
    /\ lst.kind = "ssh" /\ ~lst.closed
    /\ lst' = [lst EXCEPT !.closed = TRUE]
    /\ sock' = {}
    /\ cut' = cut \cup ((Sessions \cap sock) \ tracked)
    /\ UNCHANGED <<slots, stage, tracked, results, hand, loop, dctx, trusting>>

CloseListener == CloseLAN \/ CloseSSH

\* Close, second half: the serve loop and the handshakes are over, what they
\* queued is closed.
CloseReturns ==
    /\ lst.closed /\ ~lst.swept /\ ~lst.serving
    /\ tracked = {} /\ slots = {} /\ \A c \in Conns : stage[c] # "authenticated"
    /\ lst' = [lst EXCEPT !.swept = TRUE]
    /\ sock' = sock \ {results[i] : i \in 1..Len(results)}
    /\ stage' = [c \in Conns |-> IF \E i \in 1..Len(results) : results[i] = c
                                 THEN "ended" ELSE stage[c]]
    /\ results' = <<>>
    /\ UNCHANGED <<slots, tracked, hand, loop, watch, dctx, trusting, cut>>

-----------------------------------------------------------------------------
(* Accept, and the dispatcher's accept loop.                               *)

TakeResult ==
    /\ loop = "accepting" /\ hand = {} /\ ~lst.terminal
    /\ results # <<>>
    /\ hand' = {Head(results)}
    /\ stage' = To(Head(results), "taken")
    /\ results' = Tail(results)
    /\ UNCHANGED <<slots, tracked, sock, lst, loop, watch, dctx, trusting, cut>>

\* Close and a terminal error take precedence over a connection taken from the
\* queue; past the session limit it is closed and the loop goes on.
AcceptTaken ==
    /\ hand # {}
    /\ hand' = {}
    /\ \E c \in hand :
         IF lst.closed \/ lst.terminal
         THEN /\ sock' = sock \ {c} /\ stage' = To(c, "ended")
              /\ loop' = "waiting"
              /\ watch' = IF watch = "parked" THEN "over" ELSE watch
         ELSE /\ IF Cardinality(Sessions) >= SessionLimit
                 THEN sock' = sock \ {c} /\ stage' = To(c, "ended")
                 ELSE sock' = sock /\ stage' = To(c, "opening")
              /\ UNCHANGED <<loop, watch>>
    /\ UNCHANGED <<slots, tracked, results, lst, dctx, trusting, cut>>

\* Accept reports the terminal error or the closed listener: Serve leaves its
\* loop, closes stopCh and waits for the sessions.  A shutdown goroutine still
\* parked ends here, whatever the sessions do afterwards.
AcceptErrs ==
    /\ loop = "accepting" /\ hand = {}
    /\ lst.terminal \/ lst.closed \/ ~lst.serving
    /\ loop' = "waiting"
    /\ watch' = IF watch = "parked" THEN "over" ELSE watch
    /\ UNCHANGED <<slots, tracked, stage, sock, results, lst, hand, dctx, trusting, cut>>

\* wg.Wait: every session has ended.
ServeLoopReturns ==
    /\ loop = "waiting"
    /\ Sessions = {}
    /\ loop' = "returned"
    /\ UNCHANGED <<slots, tracked, stage, sock, results, lst, hand, watch, dctx, trusting, cut>>

-----------------------------------------------------------------------------
(* The shutdown goroutine.                                                 *)

\* Sessions run on the Serve context: cancelling it closes their connections.
CancelServe_SharedContext ==
    /\ ~dctx
    /\ dctx' = TRUE
    /\ watch' = IF watch = "parked" THEN "cancelled" ELSE watch
    /\ sock' = sock \ Sessions
    /\ cut' = cut \cup (sock \cap Sessions)
    /\ UNCHANGED <<slots, tracked, stage, results, lst, hand, loop, trusting>>

CancelServe ==
    /\ ~dctx
    /\ dctx' = TRUE
    /\ watch' = IF watch = "parked" THEN "cancelled" ELSE watch
    /\ UNCHANGED <<slots, tracked, stage, sock, results, lst, hand, loop, trusting, cut>>

\* It stops accepting first; when Close has returned the grace window opens.
StopAccepting ==
    /\ watch = "cancelled"
    /\ watch' = "closing"
    /\ \/ CloseListener
       \/ lst.closed /\ UNCHANGED <<slots, tracked, stage, sock, results, lst, hand, loop, dctx, trusting, cut>>

OpenGrace ==
    /\ watch = "closing" /\ lst.swept
    /\ watch' = "grace"
    /\ UNCHANGED <<slots, stage, tracked, sock, results, lst, hand, loop, dctx, trusting, cut>>

\* The owner of the listener closes it too: Start's run loop and Stop.
OwnerCloses == dctx /\ CloseListener /\ watch' = watch

Drained ==
    /\ watch = "grace"
    /\ loop = "returned"
    /\ watch' = "over"
    /\ UNCHANGED <<slots, tracked, stage, sock, results, lst, hand, loop, dctx, trusting, cut>>

\* Returns at the end of the grace window without touching the sessions.
GraceOver_NoSweep ==
    /\ watch = "grace"
    /\ loop # "returned"
    /\ watch' = "forced"
    /\ UNCHANGED <<slots, tracked, stage, sock, results, lst, hand, loop, dctx, trusting, cut>>

\* The grace is over: endSessions reaches the sessions through their context,
\* and every registered connection is closed.
GraceOver ==
    /\ watch = "grace"
    /\ loop # "returned"
    /\ watch' = "forced"
    /\ sock' = sock \ Sessions
    /\ cut' = cut \cup (sock \cap Sessions)
    /\ UNCHANGED <<slots, tracked, stage, results, lst, hand, loop, dctx, trusting>>

-----------------------------------------------------------------------------
(* Sessions: handleConn.                                                   *)

\* A heartbeat is echoed and the session goes on waiting for its first
\* envelope: no state changes.  Anything else clears the deadline and routes.
\* OAuth, drops, cancels and unpair notices need a peer that is paired now.
Route(c, s) ==
    /\ stage[c] = "opening" /\ c \in sock /\ watch # "forced"
    /\ IF s \in {"oauth", "drop"} /\ c \notin trusting
       THEN stage' = To(c, "ended") /\ sock' = sock \ {c}
       ELSE stage' = To(c, s) /\ sock' = sock
    /\ UNCHANGED <<slots, tracked, results, lst, hand, loop, watch, dctx, trusting, cut>>

\* An unknown or one-shot first message, the peer's hang-up, the handshake
\* deadline, a socket closed under it, or a drain that is already over.
OpeningEnds(c) ==
    /\ stage[c] = "opening"
    /\ stage' = To(c, "ended")
    /\ sock' = sock \ {c}
    /\ UNCHANGED <<slots, tracked, results, lst, hand, loop, watch, dctx, trusting, cut>>

\* A routed session finishes by itself, or because its socket is closed.
SessionFinishes(c) ==
    /\ stage[c] \in Routed
    /\ stage' = To(c, "ended")
    /\ sock' = sock \ {c}
    /\ UNCHANGED <<slots, tracked, results, lst, hand, loop, watch, dctx, trusting, cut>>

\* The peer store changes under the running sessions.
TrustChanges(c) ==
    /\ stage[c] \in {"none", "opening"}
    /\ trusting' = trusting \ {c}
    /\ c \in trusting
    /\ UNCHANGED <<slots, tracked, stage, sock, results, lst, hand, loop, watch, dctx, cut>>

-----------------------------------------------------------------------------
ListenerSteps ==
    \/ ServeEnds \/ CloseReturns
    \/ \E c \in Conns : HandshakeFails(c) \/ Publish(c) \/ Untrack(c) \/ FreeSlot(c)

WatcherSteps == StopAccepting \/ OpenGrace \/ Drained \/ GraceOver
LoopSteps == TakeResult \/ AcceptTaken \/ AcceptErrs \/ ServeLoopReturns
AbortedEnds(c) == OpeningEnds(c) \/ (c \notin sock /\ SessionFinishes(c))

DispatcherNext ==
    \/ ListenerSteps \/ WatcherSteps \/ LoopSteps
    \/ CancelServe \/ OwnerCloses \/ AcceptBreaks
    \/ \E c \in Conns : \/ ServeAccepts(c) \/ HandshakeSucceeds(c) \/ SSHAuthenticates(c) \/ PromoteServerConn(c)
                        \/ \E s \in Routed : Route(c, s)
                        \/ OpeningEnds(c) \/ SessionFinishes(c) \/ TrustChanges(c)

\* Goroutines are scheduled; handshakes and unrouted sessions have deadlines;
\* a session whose socket is closed gets an error from its next read or write.
\* A routed session may otherwise wait for its peer for ever.
DispatcherFairness ==
    /\ WF_dispVars(ListenerSteps) /\ WF_dispVars(WatcherSteps) /\ WF_dispVars(LoopSteps)
    /\ \A c \in Conns : WF_dispVars(AbortedEnds(c))

DispatcherSpec == DispatcherInit /\ [][DispatcherNext]_dispVars /\ DispatcherFairness

-----------------------------------------------------------------------------
(* Properties.                                                             *)

\* Once the listener's Close has returned, every socket still open belongs to
\* a session or is in Accept's hand, which is about to decide: no connection
\* authenticated while the listener closed is left behind (Close, Accept,
\* handshakeCandidate, handleTCPConn).
ClosedListenerLeaksNothing ==
    lst.swept => sock \subseteq Sessions \cup hand

\* On the LAN, a session already running when the Hub stops is not cut before
\* the drain's grace is over, unless it is so new that its handshake goroutine
\* has not returned (Serve, sessionDrainGrace; closeHandshakes).
GraceHonoured == lst.kind = "lan" /\ watch # "forced" => cut = {}

\* A shutdown neither leaks connections nor cuts sessions it promised to drain.
SessionsGuarded == ClosedListenerLeaksNothing /\ GraceHonoured

\* A shutdown that finds the dispatcher serving ends: Serve returns, whatever
\* the peers of its sessions do (Serve).
DrainEnds == (watch = "cancelled") ~> (loop = "returned")
=============================================================================
