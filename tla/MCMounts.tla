------------------------------ MODULE MCMounts ------------------------------
(***************************************************************************)
(* Three processes: a context in a context in a context, or two that       *)
(* overlap and an operator.                                                *)
(***************************************************************************)
EXTENDS Mounts, TLC

CONSTANTS p1, p2, p3

MCProcs == {p1, p2, p3}
MCSymmetry == Permutations(MCProcs)

\* The history of nesting matters until it is disturbed.
MCView == <<mnt, origin, pc, context, view, file, disturbed, told,
            IF disturbed THEN <<>> ELSE <<nesting, left, failed>> >>
=============================================================================
