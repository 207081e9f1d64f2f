\* Lists of up to four nodes and two values.
CONSTANTS
  n1 = n1
  n2 = n2
  n3 = n3
  n4 = n4
  Null = Null
  Garbage = Garbage
  Nodes = {n1, n2, n3, n4}
  Data = {"x", "y"}
  Indices <- IndicesDef
SYMMETRY Addresses
SPECIFICATION Spec
INVARIANTS WellFormed WellLinked
PROPERTIES IsASequence ReadsBothWays
