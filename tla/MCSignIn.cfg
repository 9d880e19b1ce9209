\* Three requests of one peer for one callback port, room for two.
SPECIFICATION Spec
CONSTANTS
    Requests = {1, 2, 3}
    KeyOf <- MCKeyOf
    PortOf <- MCPortOf
    PeerOf <- OnePeer
    MaxTracked = 2
    MaxActive = 1
    UserCancels = {}
    Breaks = {}
CHECK_DEADLOCK FALSE
INVARIANTS TypeOK HeldPortIsReleasable RetrySparesOwner ReplayIsReal
