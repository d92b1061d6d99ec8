SPECIFICATION DocumentsSpec
CONSTANTS
  InvalidNodeId = 3
  MaxNodes = 2
  MaxPortsPerNode = 2
  MaxPorts = 4
  MaxConnections = 2
  NoCommand = NoCommand
  PortFiles <- MCPortFiles
  SceneInvalidNodeId = 3
  InvalidGroupId = 2
  SceneModel <- MCSceneModel
  SceneLayout <- MCSceneLayout
  SceneFiles <- MCSceneFiles
  GroupFiles <- MCGroupFiles
  Nothing = Nothing
  PortSize = 16
  PortSpacing = 14
  IconOverhead = 48
  UnsignedSize = 65536
  Label = {0, 40}
  MaxLabels = 2
  Caption <- MCCaption
  EmbeddedWidget <- MCWidget
  NoWidget = NoWidget
  Diameter = {8, 32}
  ProcessingStatus <- MCStatus
  NoStatus = "NoStatus"
  Defaults <- MCDefaults
  Pixmap = {"red", "green"}
  Resolution = {1, 2}
  Dpr = {1, 2}
  NoStyle = NoStyle
  NullImage = NullImage
  Operand = {0, 1, 2}
  Duration = 3
  Missing = Missing
CHECK_DEADLOCK FALSE
INVARIANTS
  SavedGraphLoads UndoFailsOnlyWhenFull WidgetsAndSceneFollow SavedSceneLoads IdsStayTaken
  LayoutInside ClickFindsPort IconIsCurrent AnswersLatestOperands
PROPERTY ImplementsDocument
