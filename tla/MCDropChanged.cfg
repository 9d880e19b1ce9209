SPECIFICATION Spec
CONSTANTS
    Attempts = {1, 2}
    DropOf <- SameDrop
    KeyOf <- SameKey
    KindOf <- Files
    Payload <- ChangedPayload
    Size <- DeclaredLen
    HeadChunks = 1
    ChannelCap = 1
    MaxTransfers = 2
    MaxBytes = 6
    MaxEntries = 2
    Overlap = TRUE
    MaxCrashes = 1
    CloseMayFail = FALSE
INVARIANTS PublishedIntact StagedOwnsDrop ClaimsTrue
