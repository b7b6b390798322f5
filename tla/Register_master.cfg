SPECIFICATION FairSpec
CONSTANTS
  NumThreads = 2
  Protocol = {1, 2}
  MaxEvents = 2
  MaxPending = 3
INVARIANTS ListedIsKnown InfoWasTold
PROPERTIES Settles
CHECK_DEADLOCK FALSE
