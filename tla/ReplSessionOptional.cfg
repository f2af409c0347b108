CONSTANTS
    a = a
    c = c
    Name <- MCName
    Optional <- MCOptional
    MaxLength = 3
    MaxSnippets = 4
SPECIFICATION Spec
INVARIANT OptionalMoveRemembered
CHECK_DEADLOCK FALSE
