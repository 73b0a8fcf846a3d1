SPECIFICATION FairSpec
CONSTANTS
  psu1 = psu1
  fan1 = fan1
  Psus <- MCPsus
  Fans <- MCFans
  PsuStatuses <- MCPsuStatuses
  FanStatuses <- MCFanStatuses
INVARIANTS
  LogTellsPresence
  LogTellsFailure
PROPERTY
  FinalStatusLogged
