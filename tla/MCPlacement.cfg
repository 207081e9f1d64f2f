\* Three servers: every order of joins and removals, and a tied document.
CONSTANTS
  s1 = s1
  s2 = s2
  s3 = s3
  a = a
  b = b
  c = c
  t = t
  None = None
  Servers = {s1, s2, s3}
  Docs = {a, b, c, t}
  Contents = {"v1"}
  TaskQueueSize = 1
  CacheSizes = {2}
  LabelHash <- LabelHashDef
  DocHash <- DocHashDef
SPECIFICATION Spec
INVARIANTS
  TypeOK
  Placement
  QueuedAtOwner
  SingleCopy
  CacheCoherent
  CachesShaped
  ExecutesTasksOfRemoved
  IInv
