\* Ids of a DID whose string extends the one being resolved.
SPECIFICATION Spec
CONSTANTS
  ka = ka
  kb = kb
  off = off
  garbled = garbled
  o1 = o1
  s1 = s1
  f1 = f1
  root = root
  c1 = c1
  e1 = e1
  e2 = e2
  Nil = Nil
  Key <- MCKey
  Anchor = ka
  OffCurve = off
  Garbled = garbled
  OwnFragment = {o1}
  SiblingFragment = {s1}
  ForeignFragment = {f1}
  RootKey = root
  Controller <- MCController
  Endpoint <- MCEndpoint
  Stamp <- MCStamp
  Message <- MCMessage
INVARIANT
  OnlyOwnFragments
