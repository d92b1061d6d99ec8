SPECIFICATION SearchSpec
CONSTANTS
  None = None
  InvalidNodeId = 3
  MaxPorts = 2
  Model <- MCModel
  Layout <- MCLayout
  NewPort = {}
CHECK_DEADLOCK FALSE
INVARIANTS AnswerIsReachability StackBounded
PROPERTY SearchEnds
