SPECIFICATION FairSpec
CONSTANTS
    Node = {n1, n2}
    Leader = n1
    Tx = {q1, q2}
    NoNode = NoNode
    Nil = Nil
    MaxUint64 = 99
    GzHeader = 50
    TrailingLogs = 1
    ReadFails = FALSE
    MaxIndex = 3
INVARIANTS
    TypeOK
    SnapshotExact
    SnapshotExclusion
    OpenIsExact
PROPERTY FsmProceeds
CHECK_DEADLOCK FALSE
