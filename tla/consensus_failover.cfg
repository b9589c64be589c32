SPECIFICATION Spec
CONSTANTS
    Node = {n1, n2, n3}
    NoNode = NoNode
    ExecOp = {e}
    StrongOp = {q}
    WeakOp = {}
    Noop = Noop
    DB <- Rows
    InitDB <- NoRows
    Result <- Replies
    NextDB <- Insert
    Answer <- Reply
    BusyTimeouts = FALSE
    BusyDB <- LockedOut
    BusyResult = locked
    MaxTerm = 2
    MaxDown = 1
SYMMETRY Symmetry
INVARIANTS
    TypeOK
    AckedDurable
    RefusedNeverLogged
    RealTimeOrder
    AnswersUnlessBusy
    IndexTracksCommands
PROPERTIES
    ImplementsStore
CHECK_DEADLOCK FALSE
