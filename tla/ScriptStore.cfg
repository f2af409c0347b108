CONSTANTS
    small = small
    large = large
    huge = huge
    Image <- MCImage
    Size <- MCSize
    Capacity = 2
    MaxCommands = 3
    MaxFaults = 2
SPECIFICATION FairSpec
INVARIANTS TypeOK OnlyWholeImagesRun AckedSurvives HeapBalanced
PROPERTIES InstallIsAllOrNothing ImplementsImageStore BoardReturnsToLoop
CHECK_DEADLOCK FALSE
