SPECIFICATION Spec
CONSTANTS
    IdMax = 2
    PreludeLimit = 1
    MaxRequests = 3
    MaxFaults = 1
    MaxDown = 0
    Restarts = TRUE
INVARIANTS
    TypeOK
    OwnAnswer
    RunsOnceInOrder
    HeapBalanced
CHECK_DEADLOCK FALSE
