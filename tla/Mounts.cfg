SPECIFICATION Spec
CONSTANTS
  p1 = p1
  p2 = p2
  p3 = p3
  Procs <- MCProcs
SYMMETRY MCSymmetry
VIEW MCView
INVARIANTS
  IInv
  NestedRestores
  WritesLand
CHECK_DEADLOCK FALSE
