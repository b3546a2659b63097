\* The lidar moves to and fro and in two directions at once.
CONSTANTS
  Dims <- MCDims
  cube_len = 10
  DET_RANGE = 2
  Steps <- MCSteps
  Corrections <- MCCorrections
  World <- MCWorld
  Far = 90
SPECIFICATION MapSpec
INVARIANTS SurroundsLidar MapInCube
PROPERTIES SeenStays
CHECK_DEADLOCK FALSE
