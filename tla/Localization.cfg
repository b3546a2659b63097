\* The installed parameters and three variations of them.
CONSTANTS
  Parameters <- Files
  MaxScans = 3
  MaxMaps = 4
  MaxOps = 4
SPECIFICATION FairSpec
INVARIANTS AlignedToLatestMap KeptScanIsLast PublishedIsPose
PROPERTIES LaunchActivates
CHECK_DEADLOCK FALSE
