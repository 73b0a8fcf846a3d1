SPECIFICATION FairSpec
CONSTANTS
  main = main
  NoThread = NoThread
  Callers <- MCCallers
  Fds = {3, 4}
  Tids <- MCTids
  t1 = t1
  t2 = t2
INVARIANTS
  StoppedMeansQuiet
  NoDescriptorLeak
PROPERTIES
  ImplementsService
  StopReturns
