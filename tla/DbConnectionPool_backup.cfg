SPECIFICATION FairSpec
CONSTANTS
    Ring = 3
    Backlog = 2
    MaxQueries = 5
INVARIANTS
    SuccessIsStored
PROPERTIES
    Kept
    BackupFirst
    ShutdownCompletes
CHECK_DEADLOCK FALSE
