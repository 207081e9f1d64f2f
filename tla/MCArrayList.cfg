\* Every array of up to seven labels, with every capacity it may have.
CONSTANTS
  Width = 14
  Multiplier = 7995
  Reciprocal = 8691
  Labels <- LabelsDef
  Docs <- DocsDef
  LabelHash <- LabelHashDef
  DocHash <- DocHashDef
SPECIFICATION Spec
INVARIANTS
  TypeOK
  ArraySound
  FindsOwner
  FindsById
  NextIsAdjacent
PROPERTY IsTheRing
