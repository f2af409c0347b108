SPECIFICATION Spec
CONSTANTS
    Value <- MCValue
    Sent <- MCSent
    Input <- MCInput
    MaxNesting = 1
    MaxBytes = 9
    MaxNodes = 4
INVARIANTS
    TypeOK
    ReservationsBounded
    AcceptsOnlyEncodings
    AcceptsWhatFits
CHECK_DEADLOCK FALSE
