\* Two requests, either may be cancelled by a user.
SPECIFICATION FairSpec
CONSTANTS
    Requests = {1, 3}
    KeyOf <- MCKeyOf
    PortOf <- MCPortOf
    PeerOf <- OnePeer
    MaxTracked = 2
    MaxActive = 2
    UserCancels = {1, 3}
    Breaks = {1}
CHECK_DEADLOCK FALSE
INVARIANT ReleasedPortIsFree
PROPERTY SessionsEnd
