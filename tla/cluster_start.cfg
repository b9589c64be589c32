SPECIFICATION FairSpec
CONSTANTS
    Proc = {"a", "b"}
    Id <- Name
    Addr <- Place
    Boot = "a"
    Joiner = {"b"}
    Admin = {}
    Nobody = "nobody"
    LeaseLapses = FALSE
    MaxTerm = 3
    MaxClosed = 0
PROPERTIES
    NewSucceeds
CHECK_DEADLOCK FALSE
