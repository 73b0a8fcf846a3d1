--------------------------- MODULE PlatformDaemon ---------------------------
(***************************************************************************)
(* onlpd: platform_manager_daemon__ and its SIGTERM handler                *)
(* (onlp/module/src/onlp_main.c), composed with PlatformManager.  The main *)
(* thread arms the handler, blocks in start(1), calls stop(1) and exits;   *)
(* the handler calls stop(0) on whichever thread the kernel interrupts.    *)
(* SIGTERM is blocked only in a thread that runs the handler, so it can    *)
(* run on several threads at a time.                                       *)
(***************************************************************************)
EXTENDS PlatformManager

CONSTANTS Main,        \* the main thread, a caller of the library
          Handler,     \* the caller that the handler is, on each thread
          MaxSigterms  \* bound on the signals sent

\* The threads a signal can interrupt.
Hosts == {Main} \cup Tids

\* An operator, not an assumption: the manager's own theorems are for one caller.
DaemonCallers == /\ Callers = {Main} \cup {Handler[h] : h \in Hosts}
                 /\ Main \notin Tids
                 /\ \A h \in Hosts : Handler[h] # Main
                 /\ \A g, h \in Hosts : Handler[g] = Handler[h] => g = h

ASSUME MaxSigtermsAssumption == MaxSigterms \in Nat

VARIABLES
  dpc,     \* where platform_manager_daemon__ is
  sent     \* how many SIGTERMs were sent

dvars == <<vars, dpc, sent>>

DTypeOK == /\ TypeOK
           /\ dpc \in {"boot", "armed", "blocked", "stopping", "exit"}
           /\ sent \in 0..MaxSigterms

DInit == Init /\ dpc = "boot" /\ sent = 0

Interrupted(h) == ~At(Handler[h], "idle")

\* A thread is suspended while the handler runs on it.
Runs(h) == dpc # "exit" /\ ~Interrupted(h)

LocalStep == UNCHANGED <<vars, sent>>

\* signal(SIGTERM, sighandler__)
Arm == dpc = "boot" /\ Runs(Main) /\ dpc' = "armed" /\ LocalStep

\* Mutant: the main thread does not block in start.
CallsStartNoBlock == /\ dpc = "armed" /\ Runs(Main)
                     /\ CallStart(Main, FALSE)
                     /\ dpc' = "blocked"
                     /\ UNCHANGED sent

\* onlp_sys_platform_manage_start(1)
CallsStart == /\ dpc = "armed" /\ Runs(Main)
              /\ CallStart(Main, TRUE)
              /\ dpc' = "blocked"
              /\ UNCHANGED sent

\* onlp_sys_platform_manage_stop(1), whatever start returned.
CallsStop == /\ dpc = "blocked" /\ Runs(Main)
             /\ CallStop(Main, TRUE)
             /\ dpc' = "stopping"
             /\ UNCHANGED sent

\* exit(0)
Exits == /\ dpc = "stopping" /\ Runs(Main) /\ At(Main, "idle")
         /\ dpc' = "exit" /\ LocalStep

MainStep == \/ Arm \/ CallsStart \/ CallsStop \/ Exits
            \/ (Runs(Main) /\ Caller(Main) /\ UNCHANGED <<dpc, sent>>)

\* SIGTERM before the handler is installed ends the process.
SigtermKills == /\ dpc = "boot" /\ sent < MaxSigterms
                /\ sent' = sent + 1
                /\ dpc' = "exit"
                /\ UNCHANGED vars

\* SIGTERM interrupts any live thread that does not run the handler already; select()
\* in the manager thread then fails with EINTR, and the thread manages the platform
\* before it looks at the eventfd again.
Sigterm(h) == /\ dpc \notin {"boot", "exit"} /\ sent < MaxSigterms
              /\ ~Interrupted(h)
              /\ h \in Tids => th[h] \notin {"free", "exited"}
              /\ call' = [call EXCEPT ![Handler[h]] = [Idle EXCEPT !.pc = "stop"]]
              /\ th' = IF h \in Tids /\ th[h] = "loop"
                         THEN [th EXCEPT ![h] = "manage"] ELSE th
              /\ wanted' = FALSE
              /\ sent' = sent + 1
              /\ UNCHANGED <<eventfd, thread, efd, stopped, dpc>>

\* sighandler__: onlp_sys_platform_manage_stop(0)
HandlerStep(h) == /\ dpc # "exit"
                  /\ Caller(Handler[h])
                  /\ UNCHANGED <<dpc, sent>>

ManagerStep(t) == Runs(t) /\ Manager(t) /\ UNCHANGED <<dpc, sent>>

DNext == \/ MainStep \/ SigtermKills
         \/ \E h \in Hosts : Sigterm(h) \/ HandlerStep(h)
         \/ \E t \in Tids : ManagerStep(t)

DSpec == DInit /\ [][DNext]_dvars

DFairness == /\ WF_dvars(MainStep)
             /\ \A h \in Hosts : WF_dvars(HandlerStep(h))
             /\ \A t \in Tids : WF_dvars(ManagerStep(t))

DFairSpec == DSpec /\ DFairness
-----------------------------------------------------------------------------
\* A SIGTERM whose handler finds the manager running ends the daemon, wherever
\* the handler ran and however many more signals arrive, to be handled after it or at
\* the same time on another thread.
SigtermEndsRunning == (\E h \in Hosts : At(Handler[h], "write")) ~> dpc = "exit"

\* The daemon never leaves by itself: unless the manager could not be started,
\* it exits only after a SIGTERM.
ExitsOnlyWhenTold == dpc = "exit" /\ sent = 0 => thread = NoThread

\* When the daemon calls exit(0), no manager thread is still at work on the
\* platform.
ExitsQuietly == [][Exits => InLoop = {}]_dvars

\* The inductive invariant of these two: the manager's own, where each caller is in
\* the library at each place of the daemon, and what holds until the first SIGTERM.
HandlerInv == \A h \in Hosts : /\ call[Handler[h]].pc \in {"idle", "stop", "write"}
                               /\ ~call[Handler[h]].block

MainInv ==
  /\ dpc \in {"boot", "armed", "exit"} => At(Main, "idle")
  /\ dpc = "blocked" => call[Main].pc \in {"idle", "start", "create", "join", "joining"}
  /\ dpc = "stopping" => call[Main].pc \in {"idle", "stop", "write", "join", "joining"}
  /\ ~At(Main, "idle") => call[Main].block
  /\ dpc \in {"boot", "armed"} \/ call[Main].pc \in {"start", "create"} => thread = NoThread
  /\ dpc = "stopping" /\ At(Main, "idle") => stopped

\* Until a SIGTERM, no handler runs, no stop request is written, and a manager
\* that was started goes round its loop with the main thread waiting for it.
UntoldInv ==
  sent = 0 => /\ \A h \in Hosts : ~Interrupted(h)
              /\ ~At(Main, "write")
              /\ \A f \in Fds : efd[f] # "signalled"
              /\ thread # NoThread => /\ call[Main].pc \in {"join", "joining"}
                                      /\ dpc = "blocked"
                                      /\ th[thread] \in {"loop", "manage"}

DInv == DTypeOK /\ IInv /\ HandlerInv /\ MainInv /\ UntoldInv

\* "Signal handler for terminating the platform manager" (onlp_main.c): every
\* SIGTERM sent to the daemon makes it exit.  Not one that arrives before the
\* manager has its eventfd.
SigtermTerminates == sent > 0 ~> dpc = "exit"
=============================================================================
