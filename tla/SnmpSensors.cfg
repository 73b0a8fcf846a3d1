SPECIFICATION FairSpec
CONSTANTS
  s1 = s1
  s2 = s2
  Sensors <- MCSensors
  Order <- MCOrder
INVARIANTS
  OneAtATime
  ReadsAreStable
  RowsLive
  RowsMatchBuffers
PROPERTY
  TablesTrackPlatform
