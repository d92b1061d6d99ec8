SPECIFICATION PartsSpec
CONSTANTS
  None = None
  InvalidNodeId = 3
  MaxPorts = 2
  Model <- MCModel
  Layout <- MCLayout
  NewPort <- MCNewPort
INVARIANTS
  TypeOK NoDangling PortsNotOverbooked Acyclic CacheFresh NextIdFresh TypesAgree
  PortEditKeepsConnections
