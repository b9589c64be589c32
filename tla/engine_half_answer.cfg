SPECIFICATION Spec
CONSTANTS
    ExecReq = {"tx"}
    QueryReq = {"qplain"}
    Stmts <- Statements
    Tx <- Transactional
    NoReq = NoReq
    BusyTimeouts = FALSE
INVARIANT NoHalfAnswers
CHECK_DEADLOCK FALSE
