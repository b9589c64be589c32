SPECIFICATION Spec
CONSTANTS
    Mantissa = 3
    MaxInt = 30
    Infinity = 64
    Node = {a, b}
    NoNode = NoNode
    Req = {x}
    MaxRedirects = 2
    MaxDown = 1
    Message <- OnlyPosts
    Noop = Noop
    ExecOp <- ExecCalls
    StrongOp <- StrongCalls
    WeakOp <- WeakCalls
    DB <- OneDB
    InitDB = "db"
    Result <- OneDB
    NextDB <- SameDB
    Answer <- SameAnswer
INVARIANT
    WritesAnywhere
CHECK_DEADLOCK FALSE
