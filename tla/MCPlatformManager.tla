------------------------- MODULE MCPlatformManager -------------------------
(***************************************************************************)
(* One caller making any sequence of start, stop and join calls, blocking  *)
(* or not.  Two descriptors and two thread ids let a leaked one be seen.   *)
(***************************************************************************)
EXTENDS PlatformManager

CONSTANTS main, t1, t2

MCCallers == {main}
MCTids == {t1, t2}
=============================================================================
