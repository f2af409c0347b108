SPECIFICATION InputSpec
CONSTANTS
    Character <- MCCharacter
    Line <- MCLine
    MaxLines = 3
INVARIANTS
    WaitsOnlyIfIncomplete
    EvaluatesWholeSnippets
CHECK_DEADLOCK FALSE
