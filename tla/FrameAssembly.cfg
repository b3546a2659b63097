\* Two lidars that may lose their synchronisation, or packets enough for two frames.
CONSTANTS
  l1 = l1
  l2 = l2
  Lidars = {l1, l2}
  PerMs = 1
  Interval = 2
  Lengths = {0}
  Syncs = {TRUE, FALSE}
  Stamps = {1, 2, 3, 4, 5}
  MaxTime = 4
  MaxMixed = 3
  MaxPackets = 5
SPECIFICATION MCSpec
INVARIANTS StreamIntact NeverAhead FramesShort
PROPERTIES ExitCompletes
CHECK_DEADLOCK FALSE
