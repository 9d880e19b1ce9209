\* A relay, its retry, a relay of another request, and one cancellation; room
\* for one relay in flight.
SPECIFICATION FairSpec
CONSTANTS
    Callers = {1, 2, 3}
    Cancels = {"x"}
    KeyOf <- MCKeyOf
    Leavers = {2}
    MaxActive = 1
CHECK_DEADLOCK FALSE
INVARIANTS TypeOK OneFlowPerKey CancelHonoured CancelReachesTarget AttemptSettled
PROPERTY CallersReturn
