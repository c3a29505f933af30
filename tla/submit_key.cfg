\* The operator's account has a key of its own.
SPECIFICATION SysSpec
CONSTANTS
  ka = ka
  kb = kb
  off = off
  garbled = garbled
  o1 = o1
  f1 = f1
  root = root
  c1 = c1
  e1 = e1
  t1 = t1
  t2 = t2
  t3 = t3
  Nil = Nil
  Key <- MCKey
  Anchor = ka
  OffCurve = off
  Garbled = garbled
  OwnFragment = {o1}
  SiblingFragment = {}
  ForeignFragment = {f1}
  RootKey = root
  Controller <- MCController
  Endpoint <- MCEndpoint
  Stamp <- MCStamp
  Topic <- MCCall
  Call <- MCCall
  Operator = {kb}
  Request <- MCRequest
  Malformed <- MCMalformed
  MaxTries = 2
INVARIANT
  OwnerAdmitted
\* A behaviour ends when every call has returned and the ledger is settled.
CHECK_DEADLOCK FALSE
