SPECIFICATION Spec
CONSTANTS
    s1 = s1
    s2 = s2
    Server = {s1, s2}
    Slot <- Slots
    a = a
    b = b
    Name <- Names
    Code = {x}
    Locking = {s2}
    Ending = {s2}
    Losing = {s2}
    MaxRuns = 1
    MaxRequests <- Requests
INVARIANTS
    OnePlace
    
PROPERTIES
    Kept
CHECK_DEADLOCK FALSE
