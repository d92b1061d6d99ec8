SPECIFICATION BothSpec
CONSTANTS
  None = None
  ConnectionId <- MCConnectionId
  Replacements <- MCReplacements
  ZoomingView = {z}
  PlainView = {p}
  SceneNode = {n}
  MaxScale = 4
  MaxVelocity = 2
  MaxDelay = 1
  RangeBound = {0, 2}
INVARIANTS IndexConsistent DraftOnCourse CrispView
PROPERTIES ImplementsSet ScaleStaysInRange ZoomEnds
