CONSTANTS
    x = x
    y = y
    null = null
    short = short
    long = long
    list = list
    fn = fn
    a1 = a1
    Io = Io
    Empty = Empty
    Null = null
    Name <- MCName
    Scalar <- MCScalar
    Compound <- MCCompound
    Callable <- MCCallable
    Addr <- MCAddr
    Program <- MCProgram
    Size <- MCSize
    Nodes <- MCNodes
    MaxNodes = 6
    Header = 1
    Limit = 12
    Slots = 3
SPECIFICATION Spec
INVARIANTS TypeOK BufferOwned SizesAgree
PROPERTY ImplementsSessionStore
