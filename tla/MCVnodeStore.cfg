\* Two servers with six labels: what clients see, and that requests end.
CONSTANTS
  s1 = s1
  s2 = s2
  s3 = s3
  a = a
  b = b
  c = c
  t = t
  None = None
  Servers = {s1, s2}
  Docs = {b, c}
  Contents = {"v1", "v2"}
  TaskQueueSize = 2
  CacheSizes = {0, 1}
  LabelHash <- LabelHashDef
  DocHash <- DocHashDef
SPECIFICATION Spec
PROPERTIES ActsAsOneStore RequestsEnd
