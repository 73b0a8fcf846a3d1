SPECIFICATION Spec
CONSTANTS
  v1 = v1
  v2 = v2
  Versions <- MCVersions
  AutobootMax = 2
INVARIANTS
  SingleReboot
CHECK_DEADLOCK FALSE
