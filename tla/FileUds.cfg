SPECIFICATION FairSpec
CONSTANTS
  p1 = p1
  p2 = p2
  f1 = f1
  f2 = f2
  f3 = f3
  NoFd = NoFd
  NoPath = NoPath
  Paths <- MCPaths
  Fds <- MCFds
  Backlog = 1
INVARIANTS
  IInv
  NoUseAfterFree
PROPERTIES
  ClosesOwn
  Answered
  RetriedAddSucceeds
CHECK_DEADLOCK FALSE
