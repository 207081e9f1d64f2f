\* Chains of up to three nodes, and transfers both ways.
CONSTANTS
  a = a
  b = b
  c = c
  n1 = n1
  n2 = n2
  n3 = n3
  Null = Null
  Garbage = Garbage
  Missing = Missing
  Nodes = {n1, n2, n3}
  Servers = {"A", "B"}
  Keys = {a, b, c}
  Vals = {"v", "w"}
  Data <- DataDef
  KeyHash <- Hashes
  HMax = 2
  MaxStored = 3
  SizeModulus = 1
SPECIFICATION Spec
INVARIANTS MapsWellFormed CursorIsLive
PROPERTIES MovesTheChosen TransferEnds
