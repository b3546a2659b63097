\* Five scans: the first, one for the initialization, one for the map, two to align.
CONSTANTS
  MaxTime = 7
  Durations = {1, 3}
  MaxScans = 5
  MaxImu = 8
  MaxInit = 1
  InitTime = 2
  MovingThr = 0
  GravityThr = 1
  Alignments = {TRUE, FALSE}
SPECIFICATION LioSpec
INVARIANTS PairingInv ImuComplete FilterAtScanEnd PoseNotAhead
PROPERTIES MapsOwnScan
CONSTRAINT InOrder
CHECK_DEADLOCK FALSE
VIEW State
