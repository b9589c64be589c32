SPECIFICATION FairSpec
CONSTANTS
    Mantissa = 3
    MaxInt = 30
    Infinity = 64
    Node = {a, b}
    NoNode = NoNode
    Req = {x, y}
    MaxRedirects = 2
    MaxDown = 1
    Message <- Messages
    Noop = Noop
    ExecOp <- ExecCalls
    StrongOp <- StrongCalls
    WeakOp <- WeakCalls
    DB <- OneDB
    InitDB = "db"
    Result <- OneDB
    NextDB <- SameDB
    Answer <- SameAnswer
INVARIANTS
    TypeOK
    AtMostOnce
    StatusTellsEffect
    StrongSeesAcked
    OneRedirectIfCalm
PROPERTY
    RequestsAnswered
CHECK_DEADLOCK FALSE
