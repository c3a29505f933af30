SPECIFICATION Spec
CONSTANTS
  Nil = Nil
  PageSize = 2
  Interval = 1
  Window = 2
  Timeout = 3
  MaxTail = 3
  Horizon = 4
INVARIANTS
  TypeOK
  QuietOnMirror
  TimeoutsAreTruthful
PROPERTY
  WaitsReturn
\* The call has returned, the clock and the topic have come to their bounds.
CHECK_DEADLOCK FALSE
