SPECIFICATION FairSpec
CONSTANTS
  v1 = v1
  v2 = v2
  Versions <- MCVersions
  AutobootMax = 2
INVARIANTS
  IInv
  RecordedMeansWhole
  NeverGivesUp
  UpgradeSettles
PROPERTIES
  AutobootEnds
CHECK_DEADLOCK FALSE
