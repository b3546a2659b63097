SPECIFICATION FairSpec
CONSTANTS
  Points = {1, 2}
  Cells <- OneCell
  Boxes <- TwoBoxes
  Searchers = {s1, s2}
  Places = {"root", "son"}
  MaxOps = 4
INVARIANTS
  NothingLost
  SearchExcluded
PROPERTIES
  RebuildEnds
