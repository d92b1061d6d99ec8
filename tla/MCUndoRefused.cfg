SPECIFICATION Spec
CONSTANTS
  None = None
  InvalidNodeId = 3
  MaxPorts = 1
  Model <- MCModel
  Layout <- MCLayout
  NewPort = {}
  Start <- MCStart
  GroupFile = None
  MaxHistory = 2
PROPERTY RefusalKeepsHistory
