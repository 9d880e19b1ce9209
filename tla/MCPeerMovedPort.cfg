\* One paired peer that comes back on the same host at another port.
SPECIFICATION ReconnectionSpec
CONSTANTS
    Hosts = {h1}
    Ports = {1, 2}
    Movers = {p1}
    ReconcileMaxPeers = 1
    MaxSightings = 1
    MaxMoves = 1
CHECK_DEADLOCK FALSE
PROPERTY MovedPeerFound
