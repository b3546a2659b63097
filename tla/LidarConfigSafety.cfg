\* A configured lidar and two the file does not mention, for one of which no index is left.
CONSTANTS
  whole = whole
  stranger = stranger
  visitor = visitor
  Handles = {whole, stranger, visitor}
  UserConfig <- File
  Defined = {whole}
  NoHandle = NoHandle
  MaxLidars = 2
  MaxChanges = 2
  Rejects = TRUE
SPECIFICATION Spec
INVARIANTS PendingIsRequested SamplingMeansConfigured
SYMMETRY Strangers
CHECK_DEADLOCK FALSE
