------------------------------- MODULE ShLock -------------------------------
(***************************************************************************)
(* The lock behind every locked ONLP call: a robust, error-checking,       *)
(* process-shared pthread mutex in a System V segment                      *)
(* (onlplib/module/src/shlocks.c), taken and given around the body of each *)
(* public function by ONLP_LOCKED_API* (onlp/module/src/onlp_locks.[ch]).  *)
(*                                                                         *)
(* libonlp.so is built with ONLP_CONFIG_INCLUDE_SHLOCK_GLOBAL_INIT=1: each *)
(* process sets the lock up once, in the module constructor, before it has *)
(* a second thread.  The segment outlives every process (nothing removes   *)
(* it), so a process finds it absent, created but not yet published, or    *)
(* published.  A process may be killed at any step and started again.      *)
(***************************************************************************)
CONSTANTS Procs,    \* processes that link against libonlp
          Threads,  \* their threads
          ProcOf,   \* the process of each thread
          Nobody    \* the owner of a free mutex

ASSUME ProcOfAssumption == ProcOf \in [Threads -> Procs]
ASSUME NobodyAssumption == Nobody \notin Threads

VARIABLES
  shm,      \* the global segment exists
  magic,    \* l->magic == SHLOCK_MAGIC
  mutex,    \* l->mutex: its owner and its robust state
  ppc,      \* per process: where its start-up is; "up" once global_lock__ is set
  pc,       \* per thread: where it is between onlp_api_lock and _unlock
  raced     \* history: two initialisers have been in flight at once

vars == <<shm, magic, mutex, ppc, pc, raced>>

MutexStates == {"uninit", "ok", "ownerdead", "inconsistent", "notrecoverable"}

ProcLocations == {"down", "shmem", "magic", "mutexinit", "publish", "setglobal",
                  "up", "abort"}

ThreadLocations == {"idle", "lock", "consistent", "locked"}

TypeOK == /\ shm \in BOOLEAN
          /\ magic \in BOOLEAN
          /\ mutex \in [owner : Threads \cup {Nobody}, state : MutexStates]
          /\ ppc \in [Procs -> ProcLocations]
          /\ pc \in [Threads -> ThreadLocations]
          /\ raced \in BOOLEAN

ThreadsOf(p) == {t \in Threads : ProcOf[t] = p}

\* Between reading an unset magic and setting it.
Initialising == {p \in Procs : ppc[p] \in {"mutexinit", "publish"}}

\* pthread_mutex_lock has returned 0 or EOWNERDEAD, and unlock was not called.
Holders == {t \in Threads : pc[t] \in {"consistent", "locked"}}

\* At boot there is no segment and no process.
Init == /\ shm = FALSE
        /\ magic = FALSE
        /\ mutex = [owner |-> Nobody, state |-> "uninit"]
        /\ ppc = [p \in Procs |-> "down"]
        /\ pc = [t \in Threads |-> "idle"]
        /\ raced = FALSE

-----------------------------------------------------------------------------
(* Start-up of a process: __onlp_module_init__, onlp_shlock_global_init.   *)

GotoP(p, l) == ppc' = [ppc EXCEPT ![p] = l]

\* The threads of p stop; the kernel walks their robust lists and releases and
\* marks a mutex that one of them owns.
Exit(p, l) == /\ GotoP(p, l)
              /\ pc' = [t \in Threads |-> IF ProcOf[t] = p THEN "idle" ELSE pc[t]]
              /\ mutex' = IF mutex.owner \in ThreadsOf(p)
                            THEN [owner |-> Nobody, state |-> "ownerdead"]
                            ELSE mutex
              /\ UNCHANGED <<shm, magic, raced>>

\* A process is started, or started again with fresh static data.
Start(p) == /\ ppc[p] \in {"down", "abort"}
            /\ GotoP(p, "shmem")
            /\ UNCHANGED <<shm, magic, mutex, pc, raced>>

\* Mutant: only the creator of the segment initialises it.
ShmemCreateOwnerInits(p) == /\ ppc[p] = "shmem"
                            /\ shm' = TRUE
                            /\ GotoP(p, IF shm THEN "setglobal" ELSE "magic")
                            /\ UNCHANGED <<magic, mutex, pc, raced>>

\* onlp_shmem_create: a new segment is all zeroes; an existing one is opened as
\* it is.  onlp_shlock_create does not look at which of the two happened.
ShmemCreate(p) == /\ ppc[p] = "shmem"
                  /\ shm' = TRUE
                  /\ GotoP(p, "magic")
                  /\ UNCHANGED <<magic, mutex, pc, raced>>

\* shmget or shmat fails: onlp_shlock_create calls AIM_DIE.
ShmemCreateFails(p) == ppc[p] = "shmem" /\ Exit(p, "abort")

\* Mutant: the magic is not tested.
CheckNoMagic(p) == /\ ppc[p] = "magic"
                   /\ GotoP(p, "mutexinit")
                   /\ raced' = (raced \/ Initialising # {})
                   /\ UNCHANGED <<shm, magic, mutex, pc>>

\* The test at the head of onlp_shlock_init__.
CheckMagic(p) == /\ ppc[p] = "magic"
                 /\ GotoP(p, IF magic THEN "setglobal" ELSE "mutexinit")
                 /\ raced' = (raced \/ (~magic /\ Initialising # {}))
                 /\ UNCHANGED <<shm, magic, mutex, pc>>

\* shared_pthread_mutex_init__ overwrites the mutex, whatever its state.
MutexInit(p) == /\ ppc[p] = "mutexinit"
                /\ mutex' = [owner |-> Nobody, state |-> "ok"]
                /\ GotoP(p, "publish")
                /\ UNCHANGED <<shm, magic, pc, raced>>

MutexInitFails(p) == ppc[p] = "mutexinit" /\ Exit(p, "abort")

\* The name is written, then the magic.
Publish(p) == /\ ppc[p] = "publish"
              /\ magic' = TRUE
              /\ GotoP(p, "setglobal")
              /\ UNCHANGED <<shm, mutex, pc, raced>>

\* *rvl = l stores global_lock__.
SetGlobal(p) == /\ ppc[p] = "setglobal"
                /\ GotoP(p, "up")
                /\ UNCHANGED <<shm, magic, mutex, pc, raced>>

\* A process is killed, or exits, at any point.
Kill(p) == ppc[p] \notin {"down", "abort"} /\ Exit(p, "down")
-----------------------------------------------------------------------------
(* A locked API call in thread t.                                          *)

Goto(t, l) == pc' = [pc EXCEPT ![t] = l]

\* ONLP_API_LOCK: onlp_api_lock, onlp_shlock_global_take.
ApiCall(t) == /\ ppc[ProcOf[t]] = "up"
              /\ pc[t] = "idle"
              /\ Goto(t, "lock")
              /\ UNCHANGED <<shm, magic, mutex, ppc, raced>>

\* Mutant: EOWNERDEAD is not expected.
TakeNotRobust(t) == /\ pc[t] = "lock"
                    /\ mutex.owner = Nobody
                    /\ mutex.state = "ok"
                    /\ mutex' = [mutex EXCEPT !.owner = t]
                    /\ Goto(t, "locked")
                    /\ UNCHANGED <<shm, magic, ppc, raced>>

\* Mutant: the lock is tried and the result is ignored.
TakeUnchecked(t) == /\ pc[t] = "lock"
                    /\ mutex' = [owner |-> t, state |-> "ok"]
                    /\ Goto(t, "locked")
                    /\ UNCHANGED <<shm, magic, ppc, raced>>

\* onlp_shlock_take: pthread_mutex_lock returns 0, or EOWNERDEAD with the lock
\* held.
Take(t) == /\ pc[t] = "lock"
           /\ mutex.owner = Nobody
           /\ \/ /\ mutex.state = "ok"
                 /\ mutex' = [mutex EXCEPT !.owner = t]
                 /\ Goto(t, "locked")
              \/ /\ mutex.state = "ownerdead"
                 /\ mutex' = [owner |-> t, state |-> "inconsistent"]
                 /\ Goto(t, "consistent")
           /\ UNCHANGED <<shm, magic, ppc, raced>>

\* Mutant: pthread_mutex_consistent is not called.
LeaveInconsistent(t) == /\ pc[t] = "consistent"
                        /\ Goto(t, "locked")
                        /\ UNCHANGED <<shm, magic, mutex, ppc, raced>>

\* pthread_mutex_consistent after EOWNERDEAD (a no-op error on a mutex that
\* was re-initialised meanwhile).
MakeConsistent(t) == /\ pc[t] = "consistent"
                     /\ mutex' = IF mutex.state = "inconsistent"
                                   THEN [mutex EXCEPT !.state = "ok"]
                                   ELSE mutex
                     /\ Goto(t, "locked")
                     /\ UNCHANGED <<shm, magic, ppc, raced>>

\* onlp_shlock_give.  Unlocking an inconsistent robust mutex makes it useless.
Give(t) == /\ pc[t] = "locked"
           /\ mutex.owner = t
           /\ mutex' = [owner |-> Nobody,
                        state |-> IF mutex.state = "inconsistent"
                                    THEN "notrecoverable" ELSE mutex.state]
           /\ Goto(t, "idle")
           /\ UNCHANGED <<shm, magic, ppc, raced>>

\* An error-checking mutex refuses to be unlocked by a thread that is not its
\* owner: onlp_shlock_give calls AIM_DIE.
GiveFails(t) == pc[t] = "locked" /\ mutex.owner # t /\ Exit(ProcOf[t], "abort")
-----------------------------------------------------------------------------
StartUp(p) == \/ ShmemCreate(p)  \/ ShmemCreateFails(p)
              \/ CheckMagic(p)
              \/ MutexInit(p)    \/ MutexInitFails(p)
              \/ Publish(p)      \/ SetGlobal(p)

Locked(t) == Take(t) \/ MakeConsistent(t) \/ Give(t) \/ GiveFails(t)

Next == \/ \E p \in Procs : Start(p) \/ StartUp(p) \/ Kill(p)
        \/ \E t \in Threads : ApiCall(t) \/ Locked(t)

Spec == Init /\ [][Next]_vars

\* A thread inside the lock functions is scheduled, and the locked bodies
\* return; nothing makes a thread call, or a process start or die.
Fairness == \A t \in Threads : WF_vars(Locked(t))

FairSpec == Spec /\ Fairness
-----------------------------------------------------------------------------
\* As long as no two processes have been inside onlp_shlock_init__ at once, the
\* lock excludes: at most one thread of all processes runs a locked body, and
\* it owns the mutex, so that its onlp_shlock_give cannot abort.  Processes may
\* die anywhere, halfway through the initialisation included.
MutualExclusion == ~raced => \A t \in Holders : mutex.owner = t /\ Holders = {t}

\* "A single global lock is always initialized and ready at startup"
\* (shlocks.h): a process that got past start-up locks an initialised mutex,
\* even when initialisers overlapped or were killed between two writes.
ReadyAtStartup == \A p \in Procs : ppc[p] = "up" => magic /\ mutex.state # "uninit"

\* onlp_shlock_take always repairs the mutex of a dead owner before anybody can
\* unlock it: it never becomes ENOTRECOVERABLE, which would abort every later
\* API call of every process.
Recoverable == mutex.state # "notrecoverable"

\* No API call waits for a dead process: a thread that waits for ever does so
\* only because others keep getting the lock, however often the holder dies.
Progress == \A t \in Threads : <>[](pc[t] = "lock") => []<>(Holders # {})

\* The inductive strengthening of the three invariants.  Whatever happens, a
\* process that is up has seen the magic, whoever is about to publish or has
\* published did so after the mutex was initialised, and an inconsistent mutex
\* belongs to a thread that is about to repair it.
SetUpInv == /\ \A p \in Procs : ppc[p] \in {"setglobal", "up"} => magic
            /\ \A p \in Procs : ppc[p] = "publish" => mutex.state # "uninit"
            /\ magic => mutex.state # "uninit"
            /\ \A t \in Threads : pc[t] # "idle" => ppc[ProcOf[t]] = "up"

RobustInv == /\ mutex.state # "notrecoverable"
             /\ mutex.state = "inconsistent" => /\ mutex.owner \in Threads
                                                /\ pc[mutex.owner] = "consistent"

\* Without overlapping initialisers there is at most one, it works on a lock
\* nobody has seen yet, and the threads inside locked bodies own the mutex.
UnracedInv == ~raced => /\ \A p, q \in Initialising : p = q
                        /\ magic => Initialising = {}
                        /\ \A t \in Holders : mutex.owner = t

IInv == TypeOK /\ SetUpInv /\ RobustInv /\ UnracedInv

\* What onlp_shlock_give asserts with AIM_DIE: the thread that ends a locked
\* body owns the mutex ("No other runtime conditions are allowed").
GiveSucceeds == \A t \in Threads : pc[t] = "locked" => mutex.owner = t
-----------------------------------------------------------------------------
\* As long as no two processes have been inside onlp_shlock_init__ at once, the
\* lock implements the abstract lock: the threads inside locked bodies are the
\* abstract holders, and every change of hands goes through a free lock.
ApiHolders == IF raced THEN {} ELSE Holders
Abs == INSTANCE ApiLock WITH holders <- ApiHolders
AbsSpec == Abs!Spec

\* Processes started after an earlier one has set the lock up (onlpd runs from
\* an init script).
PublishedInit == /\ shm = TRUE
                 /\ magic = TRUE
                 /\ mutex = [owner |-> Nobody, state |-> "ok"]
                 /\ ppc = [p \in Procs |-> "down"]
                 /\ pc = [t \in Threads |-> "idle"]
                 /\ raced = FALSE

PublishedSpec == PublishedInit /\ [][Next]_vars

\* What they can rely on without the proviso: exclusion.
PublishedExclusion == \A t \in Holders : mutex.owner = t /\ Holders = {t}
=============================================================================
