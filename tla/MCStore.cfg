\* Two servers and two contents: edits of one document that wait together;
\* caches of size 0 too, which may stop the program.
CONSTANTS
  s1 = s1
  s2 = s2
  s3 = s3
  a = a
  b = b
  c = c
  t = t
  None = None
  Servers = {s1, s2}
  Docs = {a, b}
  Contents = {"v1", "v2"}
  TaskQueueSize = 2
  CacheSizes = {0, 1, 2}
  LabelHash <- LabelHashDef
  DocHash <- DocHashDef
SPECIFICATION Spec
PROPERTIES ActsAsOneStore RequestsEnd
