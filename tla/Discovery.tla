------------------------------- MODULE Discovery -------------------------------
(***************************************************************************)
(* The LAN discovery engine of a Hub (internal/discovery) and the watcher  *)
(* that reports its health (internal/hub/discovery_health.go): two sockets *)
(* that hear beacons, one that sends them, a bounded table of the hubs     *)
(* heard, and a sampler that logs a fault when it begins and when it ends. *)
(***************************************************************************)
EXTENDS Integers, Sequences, FiniteSets

CONSTANTS BeaconHosts, BeaconPorts,
          MaxDiscoveredNodes, MaxNodesPerSourceHost
ASSUME DiscoveryConstants == MaxDiscoveredNodes \in Nat \ {0} /\ MaxNodesPerSourceHost \in Nat \ {0}

VARIABLES engine,     \* where Start, or the end of the engine, has come
          started,    \* e.started
          bound,      \* listeners whose flag says they are bound
          out,        \* is the outbound socket open
          loops,      \* [Listeners -> what became of its read loop]
          cancelled,  \* the context of the engine
          sendErrors, \* did a write of a beacon fail
          limited,    \* hosts heard less than 50 ms ago
          nodes,      \* the table, the longest unheard first
          sample,     \* {} or {what Health has read so far}
          prior,      \* the previous sample of the watcher
          logged      \* what it has reported
discVars == <<engine, started, bound, out, loops, cancelled, sendErrors, limited, nodes, sample, prior, logged>>

Listeners == {"broadcast", "multicast"}

DiscoveryInit ==
    /\ engine = "new" /\ started = FALSE /\ bound = {} /\ out = FALSE
    /\ loops = [k \in Listeners |-> "none"] /\ cancelled = FALSE /\ sendErrors = FALSE
    /\ limited = {} /\ nodes = <<>>
    /\ sample = {} /\ prior = [degraded |-> FALSE, sendFailing |-> FALSE] /\ logged = {}

Table == UNCHANGED <<limited, nodes>>
Watcher == UNCHANGED <<sample, prior, logged>>

(* -------------------------------- Start -------------------------------- *)

\* Start says the engine is started before it opens its sockets, each of
\* which may fail without stopping the others.
BeginStart ==
    /\ engine = "new" /\ engine' = "bind_broadcast" /\ started' = TRUE
    /\ UNCHANGED <<bound, out, loops, cancelled, sendErrors>> /\ Table /\ Watcher
BindBroadcast ==
    /\ engine = "bind_broadcast" /\ engine' = "bind_multicast"
    /\ bound' \in {bound, bound \cup {"broadcast"}}
    /\ UNCHANGED <<started, out, loops, cancelled, sendErrors>> /\ Table /\ Watcher
BindMulticast ==
    /\ engine = "bind_multicast" /\ engine' = "bind_out"
    /\ \/ UNCHANGED <<bound, loops>>
       \/ bound' = bound \cup {"multicast"} /\ loops' = [loops EXCEPT !["multicast"] = "reading"]
    /\ UNCHANGED <<started, out, cancelled, sendErrors>> /\ Table /\ Watcher
BindOut ==
    /\ engine = "bind_out" /\ engine' = "running" /\ out' \in BOOLEAN
    /\ loops' = [loops EXCEPT !["broadcast"] = IF "broadcast" \in bound THEN "reading" ELSE @]
    /\ UNCHANGED <<started, bound, cancelled, sendErrors>> /\ Table /\ Watcher

(* ------------------------------ listening ------------------------------ *)

\* A rate per host; past the cap of the limiter the oldest entry goes.
AllowBeaconSource(h) ==
    /\ h \notin limited
    /\ IF Cardinality(limited) < 2 * MaxDiscoveredNodes THEN limited' = limited \cup {h}
       ELSE \E old \in limited : limited' = (limited \ {old}) \cup {h}
LimitOver(h) ==
    /\ h \in limited /\ limited' = limited \ {h}
    /\ UNCHANGED <<engine, started, bound, out, loops, cancelled, sendErrors, nodes>> /\ Watcher

SourceHostCount(h) == Cardinality({i \in DOMAIN nodes : nodes[i][1] = h})
Known(a) == \E i \in DOMAIN nodes : nodes[i] = a
\* The table with entry i as the one heard last.
Refreshed(i) == [j \in DOMAIN nodes |->
                   IF j < i THEN nodes[j] ELSE IF j < Len(nodes) THEN nodes[j + 1] ELSE nodes[i]]
\* A node heard again is refreshed; a new one needs a place of its host, and
\* takes the place of the longest unheard when the table is full.
RecordNode(a) ==
    \/ \E i \in DOMAIN nodes : nodes[i] = a /\ nodes' = Refreshed(i)
    \/ ~Known(a) /\ SourceHostCount(a[1]) >= MaxNodesPerSourceHost /\ nodes' = nodes
    \/ /\ ~Known(a) /\ SourceHostCount(a[1]) < MaxNodesPerSourceHost
       /\ nodes' = Append(IF Len(nodes) < MaxDiscoveredNodes THEN nodes ELSE Tail(nodes), a)

\* A valid beacon of another machine arrives at a listener.
HearBeacon(k, a) ==
    /\ loops[k] = "reading" /\ k \in bound
    /\ AllowBeaconSource(a[1]) /\ RecordNode(a)
    /\ UNCHANGED <<engine, started, bound, out, loops, cancelled, sendErrors>> /\ Watcher
\* More than 50 errors in a row: the loop gives up.  Its socket stays open and
\* counts as bound.
GiveUpListening(k) ==
    /\ loops[k] = "reading" /\ k \in bound /\ loops' = [loops EXCEPT ![k] = "gave_up"]
    /\ UNCHANGED <<engine, started, bound, out, cancelled, sendErrors>> /\ Table /\ Watcher
\* Its socket was closed.
LoopEnds(k) ==
    /\ loops[k] = "reading" /\ k \notin bound /\ engine \in {"stopped", "closing"}
    /\ loops' = [loops EXCEPT ![k] = "gone"]
    /\ UNCHANGED <<engine, started, bound, out, cancelled, sendErrors>> /\ Table /\ Watcher

PruneStaleNodes(n) ==
    /\ engine = "running" /\ n \in 1..Len(nodes) /\ nodes' = SubSeq(nodes, n + 1, Len(nodes))
    /\ UNCHANGED <<engine, started, bound, out, loops, cancelled, sendErrors, limited>> /\ Watcher
\* One round of beacons; a write that fails is counted for good.
BroadcastBeacon ==
    /\ engine = "running" /\ out /\ ~sendErrors /\ sendErrors' = TRUE
    /\ UNCHANGED <<engine, started, bound, out, loops, cancelled>> /\ Table /\ Watcher

(* ------------------------------- the end ------------------------------- *)

CancelEngine ==
    /\ ~cancelled /\ cancelled' = TRUE
    /\ UNCHANGED <<engine, started, bound, out, loops, sendErrors>> /\ Table /\ Watcher
CloseSockets == bound' = {} /\ out' = FALSE
StopOnCancel ==
    /\ engine = "running" /\ cancelled /\ engine' = "stopped" /\ started' = FALSE /\ CloseSockets
    /\ UNCHANGED <<loops, cancelled, sendErrors>> /\ Table /\ Watcher
\* Close waits for Start, then closes the sockets and waits for every loop.
CloseEngine ==
    /\ engine \in {"new", "running", "stopped"} /\ engine' = "closing"
    /\ started' = FALSE /\ cancelled' = TRUE /\ CloseSockets
    /\ UNCHANGED <<loops, sendErrors>> /\ Table /\ Watcher
EngineClosed ==
    /\ engine = "closing" /\ \A k \in Listeners : loops[k] # "reading" /\ engine' = "closed"
    /\ UNCHANGED <<started, bound, out, loops, cancelled, sendErrors>> /\ Table /\ Watcher

(* ------------------------------- watching ------------------------------ *)

\* Health reads started under its lock and the flags after it.  The first
\* sample comes ten seconds after Start was called, long after its binds.
HealthReadsStarted ==
    /\ sample = {} /\ ~cancelled /\ engine \notin {"new", "bind_broadcast", "bind_multicast", "bind_out"}
    /\ sample' = {started}
    /\ UNCHANGED <<engine, started, bound, out, loops, cancelled, sendErrors, prior, logged>> /\ Table
Usable == bound # {}
\* discoveryHealthEvent: what begins or ends with this sample.
HealthEvent(degraded) ==
    IF degraded # prior.degraded THEN {IF degraded THEN "degraded" ELSE "recovered"}
    ELSE IF sendErrors /\ ~prior.sendFailing THEN {"send_failing"} ELSE {}
SampleHealth ==
    \E running \in sample :
       LET degraded == running /\ ~Usable IN
       /\ sample' = {}
       /\ logged' = logged \cup IF running THEN HealthEvent(degraded) ELSE {}
       /\ prior' = [degraded |-> degraded, sendFailing |-> sendErrors]
       /\ UNCHANGED <<engine, started, bound, out, loops, cancelled, sendErrors>> /\ Table

EngineStarts == BeginStart \/ BindBroadcast \/ BindMulticast \/ BindOut
Watching == HealthReadsStarted \/ SampleHealth
DiscoveryNext ==
    \/ EngineStarts \/ BroadcastBeacon \/ CancelEngine \/ StopOnCancel \/ CloseEngine \/ EngineClosed
    \/ Watching
    \/ \E k \in Listeners : GiveUpListening(k) \/ LoopEnds(k)
                            \/ \E h \in BeaconHosts, p \in BeaconPorts : HearBeacon(k, <<h, p>>)
    \/ \E h \in BeaconHosts : LimitOver(h)
    \/ \E n \in 1..MaxDiscoveredNodes : PruneStaleNodes(n)

\* The code goes on; the watcher's ticker fires; a loop notices its closed
\* socket.
DiscoveryFairness ==
    /\ WF_discVars(EngineStarts) /\ WF_discVars(Watching)
    /\ WF_discVars(StopOnCancel) /\ WF_discVars(EngineClosed)
    /\ \A k \in Listeners : WF_discVars(LoopEnds(k))
DiscoverySpec == DiscoveryInit /\ [][DiscoveryNext]_discVars /\ DiscoveryFairness

(* ----------------------------- properties ------------------------------ *)

DiscoveryTypeOK ==
    /\ bound \subseteq Listeners /\ started \in BOOLEAN
    /\ Len(nodes) <= MaxDiscoveredNodes /\ Cardinality(limited) <= 2 * MaxDiscoveredNodes
    /\ \A h \in BeaconHosts : SourceHostCount(h) <= MaxNodesPerSourceHost
    /\ \A i, j \in DOMAIN nodes : nodes[i] = nodes[j] => i = j

\* A running engine that bound neither listening socket, or one of whose
\* beacons could not be written, gets a warning of the one kind or the other
\* (watchDiscoveryHealth, discoveryHealthEvent).  The code has no warning, and
\* this promises none, for read loops that gave up on an open socket (Health
\* mentions them, Usable does not count them), for an outbound socket that never
\* opened (broadcastBeacon returns and counts nothing), and for beacons that
\* fail in the very sample in which the engine turns out to have no socket.
BindOrSendFaultReported ==
    (started /\ engine = "running" /\ (bound = {} \/ sendErrors))
        ~> (logged \cap {"degraded", "send_failing"} # {} \/ cancelled)
=============================================================================
