SPECIFICATION FairSpec
CONSTANTS
    ExecReq = {"tx", "txfail", "plain"}
    QueryReq = {"qtx", "qmix"}
    Stmts <- Statements
    Tx <- Transactional
    NoReq = NoReq
    BusyTimeouts = TRUE
INVARIANTS
    TypeOK
    
    NothingLeftOpen
    NoPartialTransaction
    ReadsAreSnapshots
PROPERTY CallsEnd
CHECK_DEADLOCK FALSE
