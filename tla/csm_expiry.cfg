\* A batch whose expiry passes while it is being submitted.
SPECIFICATION FairSpec
CONSTANTS
  ka = ka
  kb = kb
  off = off
  garbled = garbled
  o1 = o1
  f1 = f1
  root = root
  c1 = c1
  e1 = e1
  s1 = s1
  s2 = s2
  x1 = x1
  x2 = x2
  x3 = x3
  Nil = Nil
  Key <- MCKey
  Anchor = ka
  OffCurve = off
  Garbled = garbled
  OwnFragment = {o1}
  SiblingFragment = {}
  ForeignFragment = {f1}
  RootKey = root
  Controller <- MCController
  Endpoint <- MCEndpoint
  Stamp <- MCStamp
  Topic <- MCSession
  Session <- MCSession
  Call <- MCCall
  Request <- MCRequest
  Target <- MCTarget
  Malformed <- MCMalformed
  Operator = {ka}
  Expected = ka
  Signer <- MCSigner
  Horizon = 1
INVARIANT
  ExpiredUnpublished
\* A behaviour ends when every submission has returned and the ledger is settled.
CHECK_DEADLOCK FALSE
