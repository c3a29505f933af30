\* One topic, two insiders and a stranger, single-encoding owner events.
SPECIFICATION PairSpec
CONSTANTS
  ka = ka
  kb = kb
  kc = kc
  off = off
  garbled = garbled
  o1 = o1
  f1 = f1
  root = root
  c1 = c1
  e1 = e1
  e2 = e2
  Nil = Nil
  Key <- MCKey
  Anchor = ka
  OffCurve = off
  Garbled = garbled
  OwnFragment = {o1}
  SiblingFragment = {}
  ForeignFragment = {f1}
  RootKey = root
  Controller <- MCController
  Endpoint <- MCEndpoint
  Stamp <- MCStamp
  Message <- MCMessage
  Insider = {ka, kb}
INVARIANTS
  TypeOK
  EstablishedTogether
  RootKeyControls
  RedeliveryInert
  StrangersInert
PROPERTIES
  OutcomeStable
  ImplementsControlledDid
