SPECIFICATION LiveSpec
CONSTANTS
    Probed = {p1, p2}
    ProbeSlots = {1}
    MaxRung = 1
    MaxTrustChanges = 2
    Hosts = {h1, h2}
    Ports = {1, 2}
    Movers = {p1, p2}
    ReconcileMaxPeers = 2
    MaxSightings = 1
    MaxMoves = 1
    BeaconHosts = {h1, h2}
    BeaconPorts = {1, 2}
    MaxDiscoveredNodes = 2
    MaxNodesPerSourceHost = 1
    Starts = {g1}
    Stoppers = {s1}
    Waiters = {}
    NoRun = none
    Conns = {c1, c2}
    HandshakeSlots = 2
    ResultSlots = 1
    SessionLimit = 1
INVARIANTS StateBounded AddressWasProven SessionsGuarded
PROPERTIES PeersSettle ShutdownEnds
CHECK_DEADLOCK FALSE
