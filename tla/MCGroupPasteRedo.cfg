SPECIFICATION Spec
CONSTANTS
  None = None
  InvalidNodeId = 4
  InvalidGroupId = 3
  Start <- APair
  Sessions <- PasteSession
INVARIANTS RedoneDeletionIsUndone
