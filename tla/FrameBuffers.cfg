SPECIFICATION Spec
CONSTANTS
  Targets = {t1, t2}
  Cubes = {t2}
  BackBuffer = BackBuffer
  Cameras = 2
  MaxViews = 20
CHECK_DEADLOCK FALSE
INVARIANTS
  TypeOK
  ViewsInRange
  DrawsLand
  ViewsInOrder
  ClearsAsAsked
