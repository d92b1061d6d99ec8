SPECIFICATION BothSpec
CONSTANTS
  None = None
  InvalidNodeId = 4
  MaxPorts = 1
  Model <- MCModel
  Layout <- MCLayout
  NewPort = {}
  Start <- MCStart
  GroupFile <- OneNode
  MaxHistory = 2
  BoardIds = 3
  MaxSteps = 3
  MaxPicked = 1
  BoardPorts <- MCBoardPorts
  NoDraft = NoDraft
INVARIANTS HistoryFaithful SceneMirrorsModel TopologyLegal RestoredIdsAreFree BoardConsistent
