SPECIFICATION Spec
CONSTANTS
  Nil = Nil
  PageSize = 2
  Interval = 1
  Window = 2
  Timeout = 3
  MaxTail = 3
  Horizon = 4
INVARIANT
  OwnWritesSeen
