--------------------------- MODULE MCFaultReport ---------------------------
(***************************************************************************)
(* Two processes, one with two threads: reports overlap in one process and *)
(* between two.  The fifo holds the three writes of one report, so the     *)
(* next finds it full at any of its own.                                   *)
(***************************************************************************)
EXTENDS FaultReport, TLC

CONSTANTS p1, p2, t1, t2, t3

MCProcs == {p1, p2}
MCThreads == {t1, t2, t3}
MCProcOf == [t \in MCThreads |-> IF t = t3 THEN p2 ELSE p1]

MCSymmetry == Permutations({t1, t2})
=============================================================================
