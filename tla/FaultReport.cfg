SPECIFICATION Spec
CONSTANTS
  p1 = p1
  p2 = p2
  t1 = t1
  t2 = t2
  t3 = t3
  Nobody = Nobody
  Procs <- MCProcs
  Threads <- MCThreads
  ProcOf <- MCProcOf
  PipeMax = 3
  MaxDepth = 1
SYMMETRY MCSymmetry
INVARIANTS
  IInv
  Synchronized
  DamageIsBounded
CHECK_DEADLOCK FALSE
