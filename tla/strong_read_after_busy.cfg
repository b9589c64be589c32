SPECIFICATION Spec
CONSTANTS
    Node = {n1, n2}
    NoNode = NoNode
    ExecOp = {e}
    StrongOp = {q}
    WeakOp = {w}
    Noop = Noop
    DB <- Rows
    InitDB <- NoRows
    Result <- Replies
    NextDB <- Insert
    Answer <- Reply
    BusyTimeouts = TRUE
    BusyDB <- LockedOut
    BusyResult = locked
    MaxTerm = 2
    MaxDown = 0
SYMMETRY Symmetry
INVARIANTS
    StrongReadUpToDate
CHECK_DEADLOCK FALSE
