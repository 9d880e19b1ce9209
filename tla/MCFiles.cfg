SPECIFICATION FilesSpec
CONSTANTS
    Attempts = {a1, a2, a3, a4}
    Peers <- MCPeers
    DeclaredSizes <- MCSizes
    ChunkLengths <- MCChunks
    DefaultChunkSize = 2
    MaxTransfers = 3
    MaxBytes = 0
    MaxPerPeerTransfers = 2
    MaxPerPeerBytes = 7
    MaxTransferQuotaBytes = 9
    Receivers = {r1, r2}
    PartNames = {p1, p2}
    LegacyParts = {p2}
    MarkerMaxAge = 1
    RetainedMax = 1
    MaxClock = 2
    MaxCrashes = 1
    Deliveries = {d1, d2}
    MaxSuffix = 1
    MaxPubCrashes = 1
    Sends = {s1, s2}
    RelayAttempts = {t1, t2}
    Capacity = 1
    MaxTicks = 1
    MaxClears = 1
    MaxHubCrashes = 1
    Tools = {hub, cli}
    Fingerprints = {f1, f2}
    Aliases = {none, n1}
    NoAlias = none
    Addresses = {x, y}
    MaxStoreCalls = 2
    MaxToolCrashes = 1
    Frames = {m1, m2}
    MaxControl = 1
    MaxMessage = 2
    MaxCuts = 1
INVARIANTS WithinLimits SessionsAccounted BytesAccounted
INVARIANTS OwnerMarked VisibleIsWhole HistoryTruthful StoreSound FramesSound
PROPERTIES MaintenanceSpares
SYMMETRY Interchangeable
CHECK_DEADLOCK FALSE
