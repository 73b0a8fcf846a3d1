------------------------------ MODULE ApiLock ------------------------------
(***************************************************************************)
(* What ONLP_LOCKED_API* (onlp/module/src/onlp_locks.h) promises its       *)
(* callers: of all threads of all processes at most one is inside a locked *)
(* body.  A holder leaves by returning or by dying.                        *)
(***************************************************************************)
CONSTANT Threads
VARIABLE holders

Init == holders = {}

Acquire(t) == holders = {} /\ holders' = {t}

Release(t) == holders = {t} /\ holders' = {}

Next == \E t \in Threads : Acquire(t) \/ Release(t)

Spec == Init /\ [][Next]_holders
=============================================================================
