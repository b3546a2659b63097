\* A scan jumps back while another waits.
CONSTANTS
  MaxTime = 4
  Durations = {0, 2}
  MaxScans = 3
  MaxImu = 4
SPECIFICATION Spec
INVARIANTS ScanHasItsTime
CHECK_DEADLOCK FALSE
