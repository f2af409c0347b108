SPECIFICATION FairSpec
CONSTANTS
    IdMax = 2
    PreludeLimit = 1
    MaxRequests = 2
    MaxFaults = 2
    MaxDown = 1
    Restarts = FALSE
PROPERTIES
    ImplementsRemoteEval
    EvalReturns
    DeliveredIsAnswered
    BoardReturnsToLoop
CHECK_DEADLOCK FALSE
