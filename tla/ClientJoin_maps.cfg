SPECIFICATION FairJoinSpec
CONSTANTS
    MaxMaps = 3
    MaxJoins = 2
INVARIANTS
    PlayerIffReady
PROPERTIES
    Settles
CHECK_DEADLOCK FALSE
