SPECIFICATION MCSpec
CONSTANTS
  r1 = r1
  r2 = r2
  s1 = s1
  Nil = Nil
  Topic <- MCTopic
  Entry <- MCEntry
  Reader <- MCReader
  Requests <- MCRequests
  MaxTail <- MCMaxTail
  Configurations <- MCConfigurations
  Name <- MCName
  TopicId <- MCTopicId
  Managed <- MCManaged
  Admin = {a1}
  SignerOf <- MCSignerOf
  Memo = {m1, m2}
  Period = {p1}
  Default = Default
  Operator = Operator
  NoKey = NoKey
  MaxNodes = 2
  MaxPolls = 2
  Signer = {s1}
  Unsigned = Unsigned
  MaxVersion = 2
  Task = {c1, c2}
  Pipelines <- MCPipelines
  RunSigner <- MCRunSigner
  MaxRuns = 4
INVARIANTS
  TypeOK
  EpochReadsArePrefixes
  NetworksApart
  OkMeansDone
  RunsAreWhole
  SignedAsAnnounced
PROPERTY
  WritesKeepSnapshot
  TopicCallsReturn
\* Tasks stop when MaxRuns calls were made.
CHECK_DEADLOCK FALSE
