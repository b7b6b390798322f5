SPECIFICATION FairTakeoverSpec
CONSTANTS
    MaxSequence = 6
    BufferCap = 2
    PacketCap = 1
    Overflow = FALSE
    MaxQueued <- Code1Server2
    PlainFrom = {}
    NetCap = 1
    Lifetime = 3
    StaleAcks = {0}
    Leftovers <- NothingLeft
INVARIANTS
    
    StillSaved

    
CHECK_DEADLOCK FALSE
