SPECIFICATION Spec
CONSTANTS
    c1 = c1
    c2 = c2
    Client = {c1, c2}
    IP <- OneIP
    Code <- OwnCode
    Vanilla = {c2}
    Antispoof = TRUE
    MaxClients = 2
    MaxClientsPerIP = 1
    NoClient = NoClient
    Orderly = TRUE
    MaxConnects <- ThriceTwice
    NetCap = 4
INVARIANTS
    OneSlotPerAddress
    GameMatchesSlots
    
    PerIPLimit
    InStep
CHECK_DEADLOCK FALSE
