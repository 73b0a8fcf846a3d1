SPECIFICATION DFairSpec
CONSTANTS
  Main = Main
  Handler <- MCHandler
  NoThread = NoThread
  Callers <- MCCallers
  Fds = {3}
  Tids <- MCTids
  t1 = t1
  onMain = onMain
  onT1 = onT1
  MaxSigterms = 3
INVARIANTS
  DTypeOK
  ExitsOnlyWhenTold
PROPERTIES
  SigtermEndsRunning
  ExitsQuietly
CHECK_DEADLOCK FALSE
