SPECIFICATION Spec
CONSTANTS
    MaxSequence = 6
    BufferCap = 2
    PacketCap = 1
    Overflow = FALSE
    MaxQueued <- OneWay7
    PlainFrom = {}
    NetCap = 2
    Lifetime = 6
INVARIANTS
    InOrder
    UndeliveredIsSaved
    IInv
PROPERTY Reliable
CHECK_DEADLOCK FALSE
