SPECIFICATION ViewSpec
CONSTANTS
  ZoomingView = {z}
  PlainView = {p}
  SceneNode = {n}
  MaxScale = 4
  MaxVelocity = 2
  MaxDelay = 1
  RangeBound = {0, 2}
PROPERTY ZeroMaximumIsUnlimited
