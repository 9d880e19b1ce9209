SPECIFICATION Spec
CONSTANTS
    Attempts = {1, 2, 3}
    DropOf <- OwnDrop
    KeyOf <- SameKey
    KindOf <- Files
    Payload <- RetryPayload
    Size <- DeclaredLen
    HeadChunks = 1
    ChannelCap = 1
    MaxTransfers = 2
    MaxBytes = 6
    MaxEntries = 2
    Overlap = FALSE
    MaxCrashes = 0
    CloseMayFail = FALSE
INVARIANTS AtMostOnce SuccessClaimsTrue
