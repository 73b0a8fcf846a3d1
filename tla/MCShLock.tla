------------------------------ MODULE MCShLock ------------------------------
(***************************************************************************)
(* Two processes, one with two threads: the smallest instance with both a  *)
(* race between processes and contention inside one.                       *)
(***************************************************************************)
EXTENDS ShLock

CONSTANTS p1, p2, t1, t2, t3

MCProcs == {p1, p2}
MCThreads == {t1, t2, t3}
MCProcOf == [t \in MCThreads |-> IF t = t3 THEN p2 ELSE p1]
=============================================================================
