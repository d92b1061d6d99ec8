SPECIFICATION Spec
CONSTANTS
  None = None
  InvalidNodeId = 4
  Setups <- BothSetups
  Number = {0, 1}
INVARIANTS DataSettled NotReentered
PROPERTY Settles
