SPECIFICATION FairSpec
CONSTANTS
  a = a
  b = b
  Writer = {a, b}
  Lengths <- MCLengths
  BufSize = 2
  LocalSize = 3
  MaxLines <- TwoAndOne
INVARIANTS Flushed
PROPERTIES IsLineLog EventuallyWritten
CHECK_DEADLOCK FALSE
