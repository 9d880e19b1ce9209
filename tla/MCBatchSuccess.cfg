SPECIFICATION BatchSpec
CONSTANTS
    Entries <- Paths
    Listing <- SortedPaths
    Leaf <- LeafOf
    Folded <- FoldedOf
    Content <- ContentOf
    Size <- SizeOf
    BadNames <- NamesWithSpaces
    MaxExpandedFiles = 2
    MaxExpandedTotalBytes = 2
    MaxFiles = 2
    MaxBatches = 1
    MaxBadSends = 0
INVARIANT SuccessMeansAll
CHECK_DEADLOCK FALSE
