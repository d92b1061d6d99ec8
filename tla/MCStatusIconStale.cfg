SPECIFICATION IconSpec
CONSTANTS
  ProcessingStatus <- MCStatus
  NoStatus = "NoStatus"
  Defaults <- MCDefaults
  Pixmap = {"red"}
  Resolution = {1, 2}
  Dpr = {1}
  NoStyle = NoStyle
  NullImage = NullImage
INVARIANT IconIsCurrent
