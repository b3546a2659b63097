\* A lidar with two settings that may refuse, lose or delay any request.
CONSTANTS
  whole = whole
  stranger = stranger
  visitor = visitor
  Handles = {whole}
  UserConfig <- File
  Defined = {whole}
  NoHandle = NoHandle
  MaxLidars = 2
  MaxChanges = 1
  Rejects = TRUE
SPECIFICATION FairSpec
PROPERTIES PendingLeadsToSampling WorkModeReached
CHECK_DEADLOCK FALSE
