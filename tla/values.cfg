SPECIFICATION Spec
CONSTANTS
    Mantissa = 3
    MaxInt = 30
    Infinity = 64
    ColumnType <- Types
    Json <- JsonValues
    Literal <- Literals
INVARIANTS
    TypeOK
    
    EchoStable
    
CHECK_DEADLOCK FALSE
