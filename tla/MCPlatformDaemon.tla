-------------------------- MODULE MCPlatformDaemon --------------------------
(***************************************************************************)
(* The daemon starts one manager thread, so one descriptor and one thread  *)
(* id are enough; of three signals two can be handled at a time, one on    *)
(* each thread, and another can arrive during the shutdown they began.     *)
(***************************************************************************)
EXTENDS PlatformDaemon

CONSTANTS t1, onMain, onT1

ASSUME CallersAssumption == DaemonCallers

MCCallers == {Main, onMain, onT1}
MCTids == {t1}
MCHandler == [h \in {Main, t1} |-> IF h = Main THEN onMain ELSE onT1]
=============================================================================
