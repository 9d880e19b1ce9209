SPECIFICATION FairSpec
CONSTANTS
    Attempts = {1, 2}
    DropOf <- SameDrop
    KeyOf <- SameKey
    KindOf <- Files
    Payload <- Single
    Size <- UnknownSize
    HeadChunks = 1
    ChannelCap = 1
    MaxTransfers = 1
    MaxBytes = 2
    MaxEntries = 2
    Overlap = TRUE
    MaxCrashes = 0
    CloseMayFail = TRUE
INVARIANTS QuotaReturned
PROPERTIES SendsAndSessionsEnd
