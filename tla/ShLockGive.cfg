SPECIFICATION Spec
CONSTANTS
  p1 = p1
  p2 = p2
  t1 = t1
  t2 = t2
  t3 = t3
  Nobody = Nobody
  Procs <- MCProcs
  Threads <- MCThreads
  ProcOf <- MCProcOf
INVARIANT
  GiveSucceeds
