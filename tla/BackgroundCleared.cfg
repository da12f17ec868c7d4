SPECIFICATION Spec
CONSTANTS
  Targets = {t1}
  Cubes = {}
  BackBuffer = BackBuffer
  Cameras = 2
  MaxViews = 29
CHECK_DEADLOCK FALSE
INVARIANTS
  BackgroundCleared
