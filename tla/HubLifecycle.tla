---------------------------- MODULE HubLifecycle ----------------------------
(***************************************************************************)
(* One Hub object through several generations: Start and Stop calls of     *)
(* several goroutines, the callers of Ready, and what a generation owns    *)
(* while it runs: the wire listener, the web server, the runtime           *)
(* descriptor, the heartbeat loop with its probes, and the dispatcher with *)
(* its sessions (internal/hub/hub.go).  A generation is named by the Start *)
(* call that runs it; that name also stands for its context, its runDone   *)
(* channel and the readiness channel its cleanup installs.                 *)
(***************************************************************************)
EXTENDS Naturals, FiniteSets

CONSTANTS Starts,        \* Start calls, each a generation if it gets that far
          Stoppers,      \* goroutines that call Stop
          Waiters,       \* goroutines that wait on Ready and then ask Err
          NoRun          \* no generation

ASSUME LifecycleAssumption == NoRun \notin Starts /\ Starts # {}

VARIABLES hub,       \* the fields of Hub the calls share
          runs,      \* Start call -> where it is, its readiness channel, its error
          over,      \* what has been closed for good: contexts, runDone, channels
          owned,     \* what is alive: wire, web, beats, tasks, serves, sessions
          slot,      \* generation the runtime descriptor names
          stops,     \* Stop call -> where it is and the generation it captured
          waits      \* waiter -> the channel it holds and what it concluded

lifeVars == <<hub, runs, over, owned, slot, stops, waits>>

Runs == Starts \cup {NoRun}
RunStates == {"idle", "begun", "wired", "bound", "claimed", "serving", "ready",
              "closing", "ending", "unlocked", "over", "refused"}
StopStates == {"idle", "cancelled", "doorShut", "waited", "closed", "ok", "timedOut"}
Parts == {"wire", "web", "beats", "tasks", "serves", "sessions", "failed"}

LifecycleTypeOK ==
    /\ hub \in [running : BOOLEAN, runDone : Runs, readyCh : Runs, startErr : BOOLEAN,
                bgStopped : BOOLEAN]
    /\ runs \in [Starts -> [at : RunStates, ch : Runs, marked : BOOLEAN, err : BOOLEAN]]
    /\ over \in [ctx : SUBSET Starts, done : SUBSET Starts, ch : SUBSET Runs]
    /\ owned \in [Parts -> SUBSET Starts]
    /\ slot \in Runs
    /\ stops \in [Stoppers -> [at : StopStates, gen : Runs, bound : SUBSET {"wire", "web"}]]
    /\ waits \in [Waiters -> [at : {"idle", "waiting", "woken", "up", "failed"}, ch : Runs]]

LifecycleInit ==
    /\ hub = [running |-> FALSE, runDone |-> NoRun, readyCh |-> NoRun, startErr |-> FALSE,
              bgStopped |-> FALSE]
    /\ runs = [g \in Starts |-> [at |-> "idle", ch |-> NoRun, marked |-> FALSE, err |-> FALSE]]
    /\ over = [ctx |-> {}, done |-> {}, ch |-> {}]
    /\ owned = [p \in Parts |-> {}]
    /\ slot = NoRun
    /\ stops = [s \in Stoppers |-> [at |-> "idle", gen |-> NoRun, bound |-> {}]]
    /\ waits = [w \in Waiters |-> [at |-> "idle", ch |-> NoRun]]

Own(p, g) == [owned EXCEPT ![p] = @ \cup {g}]
Disown(ps, g) == [p \in Parts |-> IF p \in ps THEN owned[p] \ {g} ELSE owned[p]]
GoTo(g, at) == [runs EXCEPT ![g].at = at]
Fails(g, at) == [runs EXCEPT ![g].at = at, ![g].err = TRUE]

-----------------------------------------------------------------------------
(* Start, from taking the generation to its deferred cleanup.              *)

CanBegin == ~hub.running /\ (hub.runDone = NoRun \/ hub.runDone \in over.done)

Begin(g) ==
    /\ runs[g].at = "idle"
    /\ CanBegin
    /\ hub' = [hub EXCEPT !.running = TRUE, !.runDone = g, !.startErr = FALSE,
                          !.bgStopped = FALSE]
    /\ runs' = [runs EXCEPT ![g].at = "begun", ![g].ch = hub.readyCh]
    /\ UNCHANGED <<over, owned, slot, stops, waits>>

\* "hub is already running" or "hub is stopping".
BeginRefused(g) ==
    /\ runs[g].at = "idle"
    /\ ~CanBegin
    /\ runs' = GoTo(g, "refused")
    /\ UNCHANGED <<hub, over, owned, slot, stops, waits>>

\* Store, identity, peers, output directory, transport: any of them may fail
\* before a listener exists; the web port may fail after the wire port is bound,
\* and no listener is left behind.
PrepareFails(g) ==
    /\ runs[g].at \in {"begun", "wired"}
    /\ owned' = Disown({"wire", "web"}, g)
    /\ runs' = Fails(g, "ending")
    /\ UNCHANGED <<hub, over, slot, stops, waits>>

\* listenP2PWithFallback succeeds, and h.p2pLn is set.
BindWire(g) ==
    /\ runs[g].at = "begun"
    /\ owned' = Own("wire", g)
    /\ runs' = GoTo(g, "wired")
    /\ UNCHANGED <<hub, over, slot, stops, waits>>

\* findAvailableWebPort succeeds, and h.httpServer is set.
BindWeb(g) ==
    /\ runs[g].at = "wired"
    /\ owned' = Own("web", g)
    /\ runs' = GoTo(g, "bound")
    /\ UNCHANGED <<hub, over, slot, stops, waits>>

\* The heartbeat and discovery start, then the single-instance slot is claimed.
ClaimSlot(g) ==
    /\ runs[g].at = "bound"
    /\ slot' = g
    /\ owned' = Own("beats", g)
    /\ runs' = GoTo(g, "claimed")
    /\ UNCHANGED <<hub, over, stops, waits>>

ClaimSlotRefused(g) ==
    /\ runs[g].at = "bound"
    /\ owned' = [Disown({"wire", "web"}, g) EXCEPT !["beats"] = @ \cup {g}]
    /\ runs' = Fails(g, "ending")
    /\ UNCHANGED <<hub, over, slot, stops, waits>>

\* go httpServer.Serve, go dispatcher.Serve.
ServeBoth(g) ==
    /\ runs[g].at = "claimed"
    /\ owned' = Own("serves", g)
    /\ runs' = GoTo(g, "serving")
    /\ UNCHANGED <<hub, over, slot, stops, waits>>

\* The health probe answers, the staging sweeps run, markReady.
MarkReady(g) ==
    /\ runs[g].at = "serving"
    /\ g \in owned["web"]
    /\ over' = [over EXCEPT !.ch = @ \cup {runs[g].ch}]
    /\ runs' = [runs EXCEPT ![g].at = "ready", ![g].marked = TRUE]
    /\ UNCHANGED <<hub, owned, slot, stops, waits>>

\* The run loop returns: its context is done, a serving loop failed, or the
\* health probe never succeeded.  It closes the web server and the wire
\* listener; it does not wait for dispatcher.Serve, which is still draining.
FinishRun_LeaksWire(g, failed) ==
    /\ owned' = IF failed THEN Disown({"web"}, g) ELSE Disown({"wire", "web"}, g)
    /\ runs' = [runs EXCEPT ![g].at = "closing", ![g].err = failed]
    /\ UNCHANGED <<hub, over, slot, stops, waits>>

FinishRun(g, failed) ==
    /\ owned' = Disown({"wire", "web"}, g)
    /\ runs' = [runs EXCEPT ![g].at = "closing", ![g].err = failed]
    /\ UNCHANGED <<hub, over, slot, stops, waits>>

RunCancelled(g) ==
    /\ runs[g].at \in {"serving", "ready"}
    /\ g \in over.ctx
    /\ FinishRun(g, FALSE)

ProbeFails(g) ==
    /\ runs[g].at = "serving"
    /\ FinishRun(g, TRUE)

ServeFails(g) ==
    /\ runs[g].at = "ready"
    /\ g \in owned["failed"]
    /\ FinishRun(g, TRUE)

\* The deferred RemoveRuntimeInfoIfOwned, before the deferred cleanup.
ReleaseSlot(g) ==
    /\ runs[g].at = "closing"
    /\ slot' = IF slot = g THEN NoRun ELSE slot
    /\ runs' = GoTo(g, "ending")
    /\ UNCHANGED <<hub, over, owned, stops, waits>>

\* Under h.mu: the generation is no longer running, its startup error is
\* recorded, and the next generation's channel is installed.
CleanUpRun(g) ==
    /\ runs[g].at = "ending"
    /\ hub' = IF hub.runDone = g
              THEN [hub EXCEPT !.running = FALSE, !.readyCh = g,
                               !.startErr = @ \/ (runs[g].err /\ ~runs[g].marked)]
              ELSE hub
    /\ runs' = GoTo(g, "unlocked")
    /\ UNCHANGED <<over, owned, slot, stops, waits>>

\* After h.mu: wake the waiters, cancel the context, close runDone.
CloseDone(g) ==
    /\ runs[g].at = "unlocked"
    /\ over' = [ctx |-> over.ctx \cup {g}, done |-> over.done \cup {g},
                ch |-> over.ch \cup {runs[g].ch}]
    /\ runs' = GoTo(g, "over")
    /\ UNCHANGED <<hub, owned, slot, stops, waits>>

\* The context the caller passed to Start is cancelled (a signal, a test's end).
ParentCancelled(g) ==
    /\ runs[g].at \notin {"idle", "refused", "over"}
    /\ g \notin over.ctx
    /\ over' = [over EXCEPT !.ctx = @ \cup {g}]
    /\ UNCHANGED <<hub, runs, owned, slot, stops, waits>>

-----------------------------------------------------------------------------
(* What a generation started: probes through the background door, and the  *)
(* dispatcher's sessions.                                                  *)

BeginTask(g) ==
    /\ g \in owned["beats"] \ owned["tasks"]
    /\ ~hub.bgStopped
    /\ owned' = Own("tasks", g)
    /\ UNCHANGED <<hub, runs, over, slot, stops, waits>>

EndTask(g) ==
    /\ g \in owned["tasks"]
    /\ owned' = Disown({"tasks"}, g)
    /\ UNCHANGED <<hub, runs, over, slot, stops, waits>>

BeatEnds(g) ==
    /\ g \in owned["beats"] \cap over.ctx
    /\ owned' = Disown({"beats"}, g)
    /\ UNCHANGED <<hub, runs, over, slot, stops, waits>>

SessionOpens(g) ==
    /\ g \in owned["serves"] \cap owned["wire"]
    /\ g \notin over.ctx \cup owned["sessions"]
    /\ owned' = Own("sessions", g)
    /\ UNCHANGED <<hub, runs, over, slot, stops, waits>>

\* A session finishes, or the drain's grace runs out and it is aborted.
SessionEnds(g) ==
    /\ g \in owned["sessions"]
    /\ owned' = Disown({"sessions"}, g)
    /\ UNCHANGED <<hub, runs, over, slot, stops, waits>>

\* The listener fails for good while the Hub runs.
AcceptFails(g) ==
    /\ g \in owned["serves"] \cap owned["wire"]
    /\ runs[g].at \in {"serving", "ready"}
    /\ owned' = Disown({"wire"}, g)
    /\ UNCHANGED <<hub, runs, over, slot, stops, waits>>

ServeReturns(g) ==
    /\ g \in owned["serves"] \ (owned["sessions"] \cup owned["wire"])
    /\ owned' = [Disown({"serves"}, g) EXCEPT !["failed"] = IF g \in over.ctx THEN @ ELSE @ \cup {g}]
    /\ UNCHANGED <<hub, runs, over, slot, stops, waits>>

-----------------------------------------------------------------------------
(* Stop: what it captured under h.mu, then its steps outside the lock.     *)

\* Which of h.p2pLn and h.httpServer are set.
Listening(g) == CASE runs[g].at = "wired" -> {"wire"}
                  [] runs[g].at \in {"bound", "claimed", "serving", "ready", "closing", "ending"} -> {"wire", "web"}
                  [] OTHER -> {}

StopCalled(s) ==
    /\ stops[s].at = "idle"
    /\ \/ /\ hub.running
          /\ stops' = [stops EXCEPT ![s] = [at |-> "cancelled", gen |-> hub.runDone,
                                            bound |-> Listening(hub.runDone)]]
          /\ over' = [over EXCEPT !.ctx = @ \cup {hub.runDone}]
       \/ /\ ~hub.running
          /\ stops' = [stops EXCEPT ![s].at = "ok"]
          /\ over' = over
    /\ UNCHANGED <<hub, runs, owned, slot, waits>>

\* stopBackgroundWork: one flag for the Hub, not one for the generation.
StopDoor(s) ==
    /\ stops[s].at = "cancelled"
    /\ hub' = [hub EXCEPT !.bgStopped = TRUE]
    /\ stops' = [stops EXCEPT ![s].at = "doorShut"]
    /\ UNCHANGED <<runs, over, owned, slot, waits>>

\* heartbeatWG.Wait.
StopWait(s) ==
    /\ stops[s].at = "doorShut"
    /\ owned["tasks"] = {}
    /\ stops' = [stops EXCEPT ![s].at = "waited"]
    /\ UNCHANGED <<hub, runs, over, owned, slot, waits>>

\* Discovery, the listener if there was one, the web server.
StopClose(s) ==
    /\ stops[s].at = "waited"
    /\ owned' = Disown(stops[s].bound, stops[s].gen)
    /\ stops' = [stops EXCEPT ![s].at = "closed"]
    /\ UNCHANGED <<hub, runs, over, slot, waits>>

StopReturns(s) ==
    /\ stops[s].at = "closed"
    /\ stops[s].gen \in over.done
    /\ stops' = [stops EXCEPT ![s].at = "ok"]
    /\ UNCHANGED <<hub, runs, over, owned, slot, waits>>

\* Neither five seconds nor the two after force-closing the listeners are enough.
StopTimesOut(s) ==
    /\ stops[s].at = "closed"
    /\ stops[s].gen \notin over.done
    /\ stops' = [stops EXCEPT ![s].at = "timedOut"]
    /\ owned' = Disown(stops[s].bound, stops[s].gen)
    /\ UNCHANGED <<hub, runs, over, slot, waits>>

-----------------------------------------------------------------------------
(* A caller of Ready: takes the channel, wakes, asks Err.                  *)

AskReady(w) ==
    /\ waits[w].at = "idle"
    /\ waits' = [waits EXCEPT ![w] = [at |-> "waiting", ch |-> hub.readyCh]]
    /\ UNCHANGED <<hub, runs, over, owned, slot, stops>>

Woken(w) ==
    /\ waits[w].at = "waiting"
    /\ waits[w].ch \in over.ch
    /\ waits' = [waits EXCEPT ![w].at = "woken"]
    /\ UNCHANGED <<hub, runs, over, owned, slot, stops>>

AskErr(w) ==
    /\ waits[w].at = "woken"
    /\ waits' = [waits EXCEPT ![w].at = IF hub.startErr THEN "failed" ELSE "up"]
    /\ UNCHANGED <<hub, runs, over, owned, slot, stops>>

-----------------------------------------------------------------------------
StartSteps(g) == \/ BindWire(g) \/ BindWeb(g) \/ ClaimSlot(g) \/ ServeBoth(g) \/ MarkReady(g)
                 \/ RunCancelled(g) \/ ServeFails(g) \/ ReleaseSlot(g)
                 \/ CleanUpRun(g) \/ CloseDone(g)

StopSteps(s) == StopDoor(s) \/ StopWait(s) \/ StopClose(s) \/ StopReturns(s)

LifecycleNext ==
    \/ \E g \in Starts : \/ Begin(g) \/ BeginRefused(g) \/ PrepareFails(g)
                         \/ ClaimSlotRefused(g) \/ ProbeFails(g) \/ StartSteps(g)
                         \/ ParentCancelled(g)
                         \/ BeginTask(g) \/ EndTask(g) \/ BeatEnds(g)
                         \/ SessionOpens(g) \/ SessionEnds(g)
                         \/ AcceptFails(g) \/ ServeReturns(g)
    \/ \E s \in Stoppers : StopCalled(s) \/ StopSteps(s) \/ StopTimesOut(s)
    \/ \E w \in Waiters : AskReady(w) \/ Woken(w) \/ AskErr(w)

\* The Go scheduler runs every goroutine; probes and sessions have deadlines.
LifecycleFairness ==
    /\ \A g \in Starts : /\ WF_lifeVars(StartSteps(g))
                         /\ WF_lifeVars(EndTask(g))
                         /\ WF_lifeVars(BeatEnds(g))
    /\ \A s \in Stoppers : WF_lifeVars(StopSteps(s))

LifecycleSpec == LifecycleInit /\ [][LifecycleNext]_lifeVars /\ LifecycleFairness

-----------------------------------------------------------------------------
(* Properties.                                                             *)

\* What only one Hub may hold is held by one generation: listeners, web
\* server and descriptor of an older generation are gone before a newer one
\* has its own, whichever way the older one ended (Start's return paths and
\* its deferred cleanups, hub.go).
OneGenerationServes ==
    \A g, k \in owned["wire"] \cup owned["web"] \cup ({slot} \ {NoRun}) : g = k

\* Nobody waits on a readiness channel that no generation will close: a
\* channel handed out by Ready is closed, or is the one the next Start takes,
\* or is held by a generation that is not over (Ready and the cleanup in Start).
NoOrphanWaiter ==
    \A w \in Waiters :
        waits[w].at = "waiting" =>
            \/ waits[w].ch \in over.ch
            \/ waits[w].ch = hub.readyCh
            \/ \E g \in Starts : /\ runs[g].ch = waits[w].ch
                                 /\ runs[g].at \notin {"idle", "refused", "over"}

\* A caller that was woken and saw no error saw a Hub that came up, unless that
\* generation was cancelled before it was ready, or a newer Start has already
\* cleared the error it was to read (Err and the cleanup in Start).
WokenKnowsOutcome ==
    \A w \in Waiters : waits[w].at = "up" =>
        \E g \in Starts : /\ runs[g].ch = waits[w].ch
                          /\ \/ runs[g].marked
                             \/ ~runs[g].err
                             \/ hub.runDone # g

\* Once Stop has returned without error, no probe counted by the generation it
\* stopped is still writing, unless a newer generation has reopened the door
\* that Stop had shut (Stop, beginBackgroundWork).
StopWaitsForProbes ==
    \A s \in Stoppers :
        stops[s].at = "ok" /\ stops[s].gen # NoRun /\ hub.runDone = stops[s].gen =>
            stops[s].gen \notin owned["tasks"]

\* Generations do not overlap, neither in what they serve nor in the background
\* work that outlives the listeners (Start, Stop); and whoever waits for a Hub to
\* come up is woken and then learns what became of it (Ready, Err).
GenerationsSound == OneGenerationServes /\ StopWaitsForProbes /\ NoOrphanWaiter /\ WokenKnowsOutcome

\* A Stop that has captured a generation returns, with or without an error,
\* unless a newer generation keeps the shared wait group busy (Stop).
StopEnds ==
    \A s \in Stoppers :
        stops[s].at = "cancelled" ~>
            stops[s].at \in {"ok", "timedOut"} \/ hub.runDone # stops[s].gen
=============================================================================
