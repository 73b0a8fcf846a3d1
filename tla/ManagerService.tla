--------------------------- MODULE ManagerService ---------------------------
(***************************************************************************)
(* What the lifecycle functions of the platform manager promise their      *)
(* users (onlp/sys.h), whatever becomes of descriptors and thread handles: *)
(* one manager thread at a time, which begins only after a start and ends  *)
(* only when it was told to, and nothing at work once the manager has been *)
(* stopped or joined.                                                      *)
(***************************************************************************)
CONSTANT Threads

VARIABLES active,  \* threads that manage the platform
          told,    \* a stop request waits for the active thread, or the next one
          quiet    \* the manager is stopped

vars == <<active, told, quiet>>

Init == active = {} /\ told = FALSE /\ quiet = TRUE

\* A start is called.
Start == quiet' = FALSE /\ UNCHANGED <<active, told>>

\* Its thread begins ...
Begin(t) == /\ ~quiet /\ active = {}
            /\ active' = {t}
            /\ UNCHANGED <<told, quiet>>

\* ... or cannot be created, and a request for it is void.
Fail == /\ active = {}
        /\ told' = FALSE
        /\ UNCHANGED <<active, quiet>>

\* A stop asks the thread to end.
Ask == /\ ~quiet
       /\ told' = TRUE
       /\ UNCHANGED <<active, quiet>>

\* The thread does.
End(t) == /\ active = {t} /\ told
          /\ active' = {} /\ told' = FALSE
          /\ UNCHANGED quiet

\* A blocking stop, or a join, returns.
Stopped == /\ active = {} /\ ~told
           /\ quiet' = TRUE
           /\ UNCHANGED <<active, told>>

Next == Start \/ Fail \/ Ask \/ Stopped \/ \E t \in Threads : Begin(t) \/ End(t)

Spec == Init /\ [][Next]_vars
=============================================================================
