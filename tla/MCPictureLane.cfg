SPECIFICATION FairSpec
CONSTANTS
  Job <- MCJob
  cls <- MCcls
  LIMITS <- MCLIMITS
  ORDER = 10
  MaxNumbered = 2
INVARIANTS CardWithinLimit
PROPERTIES DrawnInOrder RoomComesBack
