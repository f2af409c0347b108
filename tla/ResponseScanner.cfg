SPECIFICATION Spec
CONSTANTS
    Byte <- MCByte
    Magic <- MCMagic
    HeaderLen = 5
    Id = 0
    Limit = 6
    MaxBody = 1
    MaxRead = 13
INVARIANTS
    TypeOK
    BytesConserved
    BodyFollowsHeader
    NoResponseMissed
    OutputBounded
CHECK_DEADLOCK FALSE
