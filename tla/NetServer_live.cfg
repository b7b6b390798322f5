SPECIFICATION FairSpec
CONSTANTS
    c1 = c1
    c2 = c2
    Client = {c1}
    IP <- OneIP
    Code <- OnePlayer
    Vanilla = {}
    Antispoof = TRUE
    MaxClients = 1
    MaxClientsPerIP = 2
    NoClient = NoClient
    Orderly = FALSE
    MaxConnects <- Once
    NetCap = 3
PROPERTIES
    GoneIsFreed
    HalfOpenEnds
    
CHECK_DEADLOCK FALSE
