SPECIFICATION GroupsSpec
CONSTANTS
  None = None
  InvalidNodeId = 3
  InvalidGroupId = 2
  Start <- NoGroups
  Sessions <- BothSessions
  n1 = n1
  n2 = n2
  CanvasNode = {n1, n2}
  CanvasGroup = {g1}
  CanvasWire <- MCCanvasWire
  MaxSpot = 2
  Extent <- MCExtent
  MouseWay <- MCMouseWay
  MayBePinned = {n2}
  Snap <- MCSnap
  NoItem = NoItem
INVARIANTS
  GroupsPartition LocksFollowGroups DeletionIsUndone HeldGroupIdsReserved CanvasConsistent
