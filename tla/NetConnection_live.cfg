SPECIFICATION FairSpec
CONSTANTS
    MaxSequence = 4
    BufferCap = 1
    PacketCap = 1
    Overflow = FALSE
    MaxQueued <- OneWay3
    PlainFrom = {"client"}
    NetCap = 2
    Lifetime = 4
PROPERTIES
    EventuallyDelivered
    EventuallyAcked
CHECK_DEADLOCK FALSE
