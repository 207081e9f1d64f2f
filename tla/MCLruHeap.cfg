\* Four documents, two contents, a cache of three.
CONSTANTS
  n1 = n1
  n2 = n2
  n3 = n3
  n4 = n4
  p1 = p1
  p2 = p2
  p3 = p3
  p4 = p4
  Null = Null
  Garbage = Garbage
  None = None
  Nodes = {n1, n2, n3, n4}
  Strings = {p1, p2, p3, p4}
  Docs = {"a", "b", "c", "d"}
  Contents = {"x", "y"}
  Capacity = 3
  Data <- DataDef
SYMMETRY Addresses
SPECIFICATION Spec
INVARIANT HeapSound
PROPERTY IsTheCache
