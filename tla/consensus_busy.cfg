SPECIFICATION FairSpec
CONSTANTS
    Node = {n1, n2}
    NoNode = NoNode
    ExecOp = {e}
    StrongOp = {}
    WeakOp = {w}
    Noop = Noop
    DB <- Rows
    InitDB <- NoRows
    Result <- Replies
    NextDB <- Insert
    Answer <- Reply
    BusyTimeouts = TRUE
    BusyDB <- LockedOut
    BusyResult = locked
    MaxTerm = 2
    MaxDown = 1
INVARIANTS
    ReplicaAgreement
    
PROPERTIES
    CallsReturn
    ReplicasCatchUp
CHECK_DEADLOCK FALSE
