--------------------------- MODULE PlatformManager ---------------------------
(***************************************************************************)
(* Starting, stopping and joining the platform manager thread              *)
(* (onlp/module/src/platform_manager.c).  control__ is shared, without a   *)
(* lock, by the callers of start, stop and join and by the manager thread: *)
(* the eventfd is at once the stop request, the "is running" flag and a    *)
(* kernel descriptor that is closed and handed out again.                  *)
(***************************************************************************)
EXTENDS Integers, FiniteSets

CONSTANTS Callers,  \* contexts that call the lifecycle functions
          Fds,      \* descriptors eventfd() can return
          Tids,     \* threads the process can have
          NoThread

ASSUME FdsAssumption == Fds \subseteq Nat \ {0}
ASSUME TidsAssumption == NoThread \notin Tids

VARIABLES
  eventfd,  \* control__.eventfd: 0 at load, -1 once terminated, or a descriptor
  thread,   \* control__.thread
  efd,      \* the kernel's view of each descriptor
  th,       \* where each manager thread is
  call,     \* where each caller is inside start, stop or join
  stopped,  \* history: a blocking stop or a join has returned since any start
  wanted    \* history: a start has returned 0 and no stop was called since

vars == <<eventfd, thread, efd, th, call, stopped, wanted>>

\* An "exited" thread waits for a join, which frees its id.
ThreadLocations == {"free", "loop", "manage", "terminating", "closed",
                    "returning", "exited"}
CallLocations == {"idle", "start", "create", "stop", "write", "join", "joining"}

Handles == {-1, 0} \cup Fds

TypeOK == /\ eventfd \in Handles
          /\ thread \in Tids \cup {NoThread}
          /\ efd \in [Fds -> {"closed", "quiet", "signalled"}]
          /\ th \in [Tids -> ThreadLocations]
          /\ call \in [Callers -> [pc : CallLocations, block : BOOLEAN, fd : Handles]]
          /\ stopped \in BOOLEAN
          /\ wanted \in BOOLEAN

Idle == [pc |-> "idle", block |-> FALSE, fd |-> 0]

Init == /\ eventfd = 0
        /\ thread = NoThread
        /\ efd = [f \in Fds |-> "closed"]
        /\ th = [t \in Tids |-> "free"]
        /\ call = [c \in Callers |-> Idle]
        /\ stopped = TRUE
        /\ wanted = FALSE

At(c, l) == call[c].pc = l
Move(c, l) == call' = [call EXCEPT ![c].pc = l]
Return(c) == call' = [call EXCEPT ![c] = Idle]
CloseFd(f) == efd' = [g \in Fds |-> IF g = f THEN "closed" ELSE efd[g]]

-----------------------------------------------------------------------------
(* onlp_sys_platform_manage_start                                          *)

CallStart(c, b) == /\ At(c, "idle")
                   /\ call' = [call EXCEPT ![c] = [Idle EXCEPT !.pc = "start", !.block = b]]
                   /\ stopped' = FALSE
                   /\ UNCHANGED <<eventfd, thread, efd, th, wanted>>

\* Mutant: the test for a running manager is missing.
StartUnchecked(c) == /\ At(c, "start")
                     /\ \E f \in Fds : /\ efd[f] = "closed"
                                       /\ eventfd' = f
                                       /\ efd' = [efd EXCEPT ![f] = "quiet"]
                     /\ Move(c, "create")
                     /\ UNCHANGED <<thread, th, stopped, wanted>>

\* "Already running", or a new eventfd, or eventfd() fails.
Start(c) == /\ At(c, "start")
            /\ \/ /\ eventfd > 0
                  /\ Return(c)
                  /\ wanted' = TRUE
                  /\ UNCHANGED <<eventfd, efd>>
               \/ /\ eventfd <= 0
                  /\ \E f \in Fds : /\ efd[f] = "closed"
                                    /\ eventfd' = f
                                    /\ efd' = [efd EXCEPT ![f] = "quiet"]
                  /\ Move(c, "create")
                  /\ UNCHANGED wanted
               \/ /\ eventfd <= 0
                  /\ eventfd' = -1
                  /\ Return(c)
                  /\ UNCHANGED <<efd, wanted>>
            /\ UNCHANGED <<thread, th, stopped>>

\* pthread_create succeeds.  A blocking start goes on to join.
Create(c) == /\ At(c, "create")
             /\ \E t \in Tids : /\ th[t] = "free"
                                /\ thread' = t
                                /\ th' = [th EXCEPT ![t] = "loop"]
             /\ IF call[c].block THEN Move(c, "join") ELSE Return(c)
             /\ wanted' = TRUE
             /\ UNCHANGED <<eventfd, efd, stopped>>

\* Mutant: the descriptor is not closed when pthread_create fails.
CreateFailsOpen(c) == /\ At(c, "create")
                      /\ eventfd' = -1
                      /\ Return(c)
                      /\ UNCHANGED <<thread, efd, th, stopped, wanted>>

\* Mutant: the error number is stored.
CreateFailsErrno(c) == /\ At(c, "create")
                       /\ CloseFd(eventfd)
                       /\ eventfd' = -11
                       /\ Return(c)
                       /\ UNCHANGED <<thread, th, stopped, wanted>>

\* pthread_create fails: the descriptor is given back.
CreateFails(c) == /\ At(c, "create")
                  /\ CloseFd(eventfd)
                  /\ eventfd' = -1
                  /\ Return(c)
                  /\ UNCHANGED <<thread, th, stopped, wanted>>
-----------------------------------------------------------------------------
(* onlp_sys_platform_manage_stop                                           *)

CallStop(c, b) == /\ At(c, "idle")
                  /\ call' = [call EXCEPT ![c] = [Idle EXCEPT !.pc = "stop", !.block = b]]
                  /\ wanted' = FALSE
                  /\ UNCHANGED <<eventfd, thread, efd, th, stopped>>

Stop(c) == /\ At(c, "stop")
           /\ IF eventfd > 0
                THEN /\ call' = [call EXCEPT ![c].pc = "write", ![c].fd = eventfd]
                     /\ UNCHANGED stopped
                ELSE /\ Return(c)
                     /\ stopped' = (stopped \/ call[c].block)
           /\ UNCHANGED <<eventfd, thread, efd, th, wanted>>

\* Mutant: nothing is written.
WriteNothing(c) == /\ At(c, "write")
                   /\ IF call[c].block THEN Move(c, "join") ELSE Return(c)
                   /\ UNCHANGED <<eventfd, thread, efd, th, stopped, wanted>>

\* Mutant: a blocking stop does not join.
WriteNoJoin(c) == /\ At(c, "write")
                  /\ efd' = [efd EXCEPT ![call[c].fd] = "signalled"]
                  /\ Return(c)
                  /\ stopped' = (stopped \/ call[c].block)
                  /\ UNCHANGED <<eventfd, thread, th, wanted>>

\* control__ is not volatile here: the descriptor written to is the one that was
\* tested, or the one control__ holds by now.  Writing to a closed one does
\* nothing.
Write(c) == /\ At(c, "write")
            /\ \E f \in {call[c].fd, eventfd} :
                 efd' = [g \in Fds |-> IF g = f /\ efd[g] = "quiet"
                                         THEN "signalled" ELSE efd[g]]
            /\ IF call[c].block THEN Move(c, "join") ELSE Return(c)
            /\ UNCHANGED <<eventfd, thread, th, stopped, wanted>>
-----------------------------------------------------------------------------
(* onlp_sys_platform_manage_join                                           *)

CallJoin(c) == /\ At(c, "idle")
               /\ Move(c, "join")
               /\ UNCHANGED <<eventfd, thread, efd, th, stopped, wanted>>

Join(c) == /\ At(c, "join")
           /\ IF eventfd > 0 THEN Move(c, "joining") /\ UNCHANGED stopped
                             ELSE Return(c) /\ stopped' = TRUE
           /\ UNCHANGED <<eventfd, thread, efd, th, wanted>>

\* Mutant: the thread is not waited for.
JoinedAtOnce(c) == /\ At(c, "joining")
                   /\ CloseFd(eventfd)
                   /\ eventfd' = -1
                   /\ Return(c)
                   /\ stopped' = TRUE
                   /\ UNCHANGED <<thread, th, wanted>>

\* pthread_join returns; the thread has closed its descriptor already, and
\* close(-1) does nothing.
Joined(c) == /\ At(c, "joining")
             /\ thread # NoThread /\ th[thread] = "exited"
             /\ th' = [th EXCEPT ![thread] = "free"]
             /\ CloseFd(eventfd)
             /\ eventfd' = -1
             /\ Return(c)
             /\ stopped' = TRUE
             /\ UNCHANGED <<thread, wanted>>
-----------------------------------------------------------------------------
(* onlp_sys_platform_manage_thread__                                       *)

GotoT(t, l) == th' = [th EXCEPT ![t] = l]

\* select() finds the eventfd readable, or reaches the next deadline.
Select(t) == /\ th[t] = "loop"
             /\ GotoT(t, IF eventfd \in Fds /\ efd[eventfd] = "signalled"
                           THEN "terminating" ELSE "manage")
             /\ UNCHANGED <<eventfd, thread, efd, call, stopped, wanted>>

\* onlp_sys_platform_manage_now returns to the loop.
Manage(t) == /\ th[t] = "manage"
             /\ GotoT(t, "loop")
             /\ UNCHANGED <<eventfd, thread, efd, call, stopped, wanted>>

\* close(ctrl->eventfd)
Close(t) == /\ th[t] = "terminating"
            /\ CloseFd(eventfd)
            /\ GotoT(t, "closed")
            /\ UNCHANGED <<eventfd, thread, call, stopped, wanted>>

\* ctrl->eventfd = -1, "also signifies that we have exit".
Signify(t) == /\ th[t] = "closed"
              /\ eventfd' = -1
              /\ GotoT(t, "returning")
              /\ UNCHANGED <<thread, efd, call, stopped, wanted>>

\* return NULL
Exit(t) == /\ th[t] = "returning"
           /\ GotoT(t, "exited")
           /\ UNCHANGED <<eventfd, thread, efd, call, stopped, wanted>>

Caller(c) == \/ Start(c) \/ Create(c) \/ CreateFails(c)
             \/ Stop(c)  \/ Write(c)
             \/ Join(c)  \/ Joined(c)

Manager(t) == Select(t) \/ Manage(t) \/ Close(t) \/ Signify(t) \/ Exit(t)

Next == \/ \E c \in Callers : \/ \E b \in BOOLEAN : CallStart(c, b) \/ CallStop(c, b)
                              \/ CallJoin(c)
                              \/ Caller(c)
        \/ \E t \in Tids : Manager(t)

Spec == Init /\ [][Next]_vars

\* The threads of a process are scheduled; nobody has to call anything.
Fairness == /\ \A c \in Callers : WF_vars(Caller(c))
            /\ \A t \in Tids : WF_vars(Manager(t))

FairSpec == Spec /\ Fairness
-----------------------------------------------------------------------------
InLoop == {t \in Tids : th[t] \in {"loop", "manage", "terminating", "closed"}}

\* With one caller there is never a second manager thread, however starts,
\* stops and joins follow each other: two would run the platform's fan control
\* and share one timer wheel.
AtMostOneManager == \A t, u \in InLoop : t = u

\* A stop request is in the eventfd, or the thread has read it and is ending.
Told == \/ eventfd \in Fds /\ efd[eventfd] = "signalled"
        \/ \E t \in InLoop : th[t] \in {"terminating", "closed"}

\* The lifecycle implements its promise: one thread, that begins after a start and
\* ends when told, and not while anybody believes the manager stopped.
Service == INSTANCE ManagerService WITH Threads <- Tids, active <- InLoop,
                                        told <- Told, quiet <- stopped
ImplementsService == Service!Spec

\* No stop request is lost: once one has reached the eventfd it stays until no thread
\* is left that could read it, whoever closes, clears and reopens the descriptor.
RequestKept == [][Told /\ ~Told' => InLoop' = {}]_vars

\* When a blocking stop, or a join, has returned, no manager thread manages the
\* platform or touches control__ any more.
StoppedMeansQuiet == stopped => InLoop = {} /\ eventfd <= 0

\* Every descriptor eventfd() handed out and nobody closed is the one
\* control__.eventfd holds: no cycle of starts and stops leaks one.
NoDescriptorLeak == \A f \in Fds : efd[f] # "closed" => eventfd = f

\* A blocking stop returns.
StopReturns == \A c \in Callers : (At(c, "write") /\ call[c].block) ~> At(c, "idle")

\* The inductive invariant of these three for one caller: a thread in its loop is
\* the one control__.thread names and owns the open descriptor, an open
\* descriptor has such a thread or is about to get one, and a start in progress
\* has not been called stopped.
RunningInv == \A t \in InLoop : /\ thread = t
                                /\ eventfd \in Fds
                                /\ efd[eventfd] = "closed" <=> th[t] = "closed"
CreateInv == \A c \in Callers :
               At(c, "create") => eventfd \in Fds /\ efd[eventfd] # "closed" /\ InLoop = {}
OpenInv == eventfd \in Fds => InLoop # {} \/ \E c \in Callers : At(c, "create")
StartInv == \A c \in Callers : call[c].pc \in {"start", "create"} => ~stopped

IInv == /\ TypeOK /\ RunningInv /\ CreateInv /\ OpenInv /\ StartInv
        /\ StoppedMeansQuiet /\ NoDescriptorLeak

\* "Start the platform management thread." (sys.h): after a start that returned
\* 0, and with no stop since, a manager thread runs that nobody told to end.  Not
\* so right after a stop that did not block: start takes the open eventfd for a
\* running manager.
StartedMeansRunning == wanted => \/ \E t \in InLoop : efd[eventfd] = "quiet"
                                 \/ \E c \in Callers : ~At(c, "idle")
=============================================================================
