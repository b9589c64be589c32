SPECIFICATION FairSpec
CONSTANTS
    Node = {n1, n2}
    Leader = n1
    Tx = {q1}
    NoNode = NoNode
    Nil = Nil
    MaxUint64 = 99
    GzHeader = 50
    TrailingLogs = 0
    ReadFails = FALSE
    MaxIndex = 2
PROPERTY ReplicasConverge
CHECK_DEADLOCK FALSE
