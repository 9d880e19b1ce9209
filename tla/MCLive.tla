------------------------------- MODULE MCLive -------------------------------
(***************************************************************************)
(* The background work of a running Hub, for TLC, with its fairness: the   *)
(* health of paired peers, the address of a peer that moves, the discovery *)
(* engine, Start and Stop, and the dispatcher with its listener.  The      *)
(* parts share no variable; `topic' says which one a behaviour is about,   *)
(* the others keep their initial state.                                    *)
(***************************************************************************)
EXTENDS PeerHealth, Reconnection, Discovery, HubLifecycle, Dispatcher

VARIABLE topic

liveVars == <<healthVars, reconVars, discVars, lifeVars, dispVars, topic>>

\* The parts whose initial state is not fixed start in one state when they
\* are not the topic.
LiveInit ==
    /\ topic \in {"health", "address", "discovery", "lifecycle", "dispatcher"}
    /\ PeerHealthInit /\ ReconnectionInit /\ DiscoveryInit /\ LifecycleInit /\ DispatcherInit
    /\ topic # "address" => located = CHOOSE l \in [Movers -> Endpoints] :
                                         \A p, q \in Movers : p # q => l[p] # l[q]
    /\ topic # "dispatcher" => trusting = Conns /\ lst.kind = "lan"

HealthStep ==
    topic = "health" /\ PeerHealthNext
    /\ UNCHANGED <<reconVars, discVars, lifeVars, dispVars, topic>>
AddressStep ==
    topic = "address" /\ ReconnectionNext
    /\ UNCHANGED <<healthVars, discVars, lifeVars, dispVars, topic>>
DiscoveryStep ==
    topic = "discovery" /\ DiscoveryNext
    /\ UNCHANGED <<healthVars, reconVars, lifeVars, dispVars, topic>>
LifecycleStep ==
    topic = "lifecycle" /\ LifecycleNext
    /\ UNCHANGED <<healthVars, reconVars, discVars, dispVars, topic>>
DispatcherStep ==
    topic = "dispatcher" /\ DispatcherNext
    /\ UNCHANGED <<healthVars, reconVars, discVars, lifeVars, topic>>

LiveNext == HealthStep \/ AddressStep \/ DiscoveryStep \/ LifecycleStep \/ DispatcherStep

About(t, action) == topic = t /\ action

\* The fairness of each part's own specification, while it is the topic.
LiveFairness ==
    /\ WF_healthVars(About("health", Scheduler))
    /\ \A i \in ProbeSlots : WF_healthVars(About("health", Probe(i)))
    /\ \A e \in Endpoints :
          /\ WF_reconVars(About("address", e \in {located[p] : p \in Movers} /\ OnNodeDiscovered(e)))
          /\ WF_reconVars(About("address", CooldownOver(e)))
          /\ WF_reconVars(About("address", ReconcileAt(e)))
    /\ \A p \in Movers : WF_reconVars(About("address", ConfirmOf(p)))
    /\ WF_discVars(About("discovery", EngineStarts)) /\ WF_discVars(About("discovery", Watching))
    /\ WF_discVars(About("discovery", StopOnCancel)) /\ WF_discVars(About("discovery", EngineClosed))
    /\ \A k \in Listeners : WF_discVars(About("discovery", LoopEnds(k)))
    /\ \A g \in Starts : /\ WF_lifeVars(About("lifecycle", StartSteps(g)))
                         /\ WF_lifeVars(About("lifecycle", EndTask(g)))
                         /\ WF_lifeVars(About("lifecycle", BeatEnds(g)))
    /\ \A s \in Stoppers : WF_lifeVars(About("lifecycle", StopSteps(s)))
    /\ WF_dispVars(About("dispatcher", ListenerSteps))
    /\ WF_dispVars(About("dispatcher", WatcherSteps)) /\ WF_dispVars(About("dispatcher", LoopSteps))
    /\ \A c \in Conns : WF_dispVars(About("dispatcher", AbortedEnds(c)))

LiveSpec == LiveInit /\ [][LiveNext]_liveVars /\ LiveFairness

\* What a long-running Hub keeps stays bounded and belongs to somebody: no
\* health of a peer that is not paired, no work after Stop, and a discovery
\* table within its limits whoever sends beacons (peer_health.go, recordNode,
\* beginBackgroundWork).
StateBounded ==
    /\ HealthBounded /\ PeerHealthTypeOK /\ DiscoveryTypeOK
    /\ ReconnectionTypeOK /\ LifecycleTypeOK /\ DispatcherTypeOK

\* What the background work gets to in the end while the Hub runs: a removed
\* peer is no longer reported, a peer that moved is found unless its new host
\* is one some peer is recorded at, and a discovery engine that bound no
\* listening socket, or failed to write a beacon, is warned about; one whose
\* read loops gave up or that has no outbound socket is not, and nothing is
\* promised for it (runPeerHeartbeat, reconcileDiscoveredAddress,
\* watchDiscoveryHealth).
PeersSettle == RemovedPeerUnreported /\ MovedPeerFoundUnlessShadowed /\ BindOrSendFaultReported

\* What a shutdown gets to in the end: every call of Stop returns, and the
\* dispatcher's Serve returns whatever the peers of its sessions do (Stop,
\* ConnDispatcher.Serve).
ShutdownEnds == StopEnds /\ DrainEnds
=============================================================================
