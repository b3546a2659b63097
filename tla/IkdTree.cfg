CONSTANTS
  Nil = Nil
  Points <- MCPoints
  Callers <- MCCallers
  BuildMin = 3
  Boxes <- MCBoxes
  Targets <- MCTargets
  Wanted = {2}
  Size = 4
  Minimal = 3
  DeleteParam = 5
  BalanceParam = 6
  MaxOps = 6
SPECIFICATION Spec
INVARIANTS CountsRight RangesCover SearchExact RootStays
PROPERTIES IsPointMap
CHECK_DEADLOCK FALSE
