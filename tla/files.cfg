SPECIFICATION Spec
CONSTANTS
  s1 = s1
  a1 = a1
  f = f
  g = g
  Nil = Nil
  Junk = Junk
  Garbled = Garbled
  Topic <- MCTopic
  File <- MCFile
  FileOf <- MCFileOf
  AdminKeyed = {a1}
  Resolver = {v1}
  x = x
  y = y
  Content <- MCContent
  CutOf <- MCCutOf
  Decoded <- MCDecoded
  MaxPosts = 2
INVARIANTS
  TypeOK
  FilesAreFinal
  AckedFileReadable
PROPERTY
  SubmissionsReturn
