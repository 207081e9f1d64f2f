\* A document with the hash of a server.
CONSTANTS
  s1 = s1
  s2 = s2
  s3 = s3
  a = a
  b = b
  c = c
  t = t
  None = None
  Servers = {s1, s2}
  Docs = {b, t}
  Contents = {"v1"}
  TaskQueueSize = 1
  CacheSizes = {1}
  LabelHash <- LabelHashDef
  DocHash <- DocHashDef
SPECIFICATION Spec
INVARIANT FindsTheDocument
