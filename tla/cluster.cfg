SPECIFICATION FairSpec
CONSTANTS
    Proc = {"a", "b", "c", "d"}
    Id <- Name
    Addr <- Place
    Boot = "a"
    Joiner = {"d"}
    Admin = {"j1"}
    Nobody = "nobody"
    LeaseLapses = TRUE
    MaxTerm = 3
    MaxClosed = 1
INVARIANTS
    TypeOK
    AnswerIsCommitted
    
    StaysMember

    
CHECK_DEADLOCK FALSE
