\* Two sessions deliver a file of the same name to the same directory.
SPECIFICATION PublicationSpec
CONSTANTS
    Deliveries = {d1, d2}
    MaxSuffix = 1
    MaxPubCrashes = 0
CHECK_DEADLOCK FALSE
INVARIANT PublishedKept
