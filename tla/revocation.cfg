SPECIFICATION Spec
CONSTANTS
  i1 = i1
  i2 = i2
  Issuer <- MCIssuer
  StatusList <- MCStatusList
  Stray <- MCStray
  MaxCredNum = 2
  MaxStray = 2
  MaxCalls = 3
SYMMETRY Symmetry
INVARIANTS
  TypeOK
  RevocationSticks
PROPERTY
  FreshListWins
\* A behaviour ends when every process has used up its calls.
CHECK_DEADLOCK FALSE
