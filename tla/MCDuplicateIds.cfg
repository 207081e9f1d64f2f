\* Arrays of up to six elements; ids 1 and 3 differ by the step of 2.
CONSTANTS
  Servers <- ServersDef
  LabelHash <- LabelHashDef
  DocHash <- DocHashDef
  Docs = {"a", "b"}
  Contents = {"x", "y"}
  None = None
  LabelStep = 2
  TaskQueueSize = 1
  MaxElements = 6
SPECIFICATION Spec
INVARIANT TypeOK
PROPERTIES StaysSound OnlyCongruentLose
