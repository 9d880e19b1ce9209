SPECIFICATION ControlSpec
CONSTANTS
    Machines = {a, b}
    MaxPending = 1
    MaxUnpairs = 1
    MaxFaults = 1
    Starts = {g1, g2}
    Stoppers = {s1}
    Waiters = {w1}
    NoRun = none
    HubProcs = {h1, h2}
    Commands = {c1}
    MaxBorn = 2
    MaxMissed = 1
    Mortal = {h1}
    Browsers = {b1, b2}
    MaxSessions = 1
    SessionLife = 2
    MaxLinks = 3
    MaxGenerations = 2
    MaxLostReplies = 1
    MaxStalls = 1
    Loggers = {l1, l2}
    Readers = {r1}
    RingSize = 2
    QueueSize = 2
    MaxStreams = 1
    MaxEvents = 5
    Entries <- Paths
    Listing <- SortedPaths
    Leaf <- LeafOf
    Folded <- FoldedOf
    Content <- ContentOf
    Size <- SizeOf
    BadNames <- NamesWithSpaces
    MaxExpandedFiles = 2
    MaxExpandedTotalBytes = 2
    MaxFiles = 3
    MaxBatches = 2
    MaxBadSends = 1
SYMMETRY Interchangeable
INVARIANTS TrustAgreed GenerationsSound SlotSound AccessGuarded StreamFaithful 
PROPERTIES RunningHubFindable
CHECK_DEADLOCK FALSE
