SPECIFICATION Spec
CONSTANTS
  None = None
  InvalidNodeId = 5
  MaxPorts = 1
  Model <- MCModel
  Layout <- MCLayout
  NewPort = {}
  Start <- MCStart
  GroupFile <- TwoNodes
  MaxHistory = 2
INVARIANTS HistoryFaithful
