---------------------------- MODULE ShLockProofs ----------------------------
(***************************************************************************)
(* The lock for any number of processes and threads: the invariants of     *)
(* ShLock from boot, the refinement of ApiLock, and what holds without      *)
(* proviso once the lock is published.                                     *)
(***************************************************************************)
EXTENDS ShLock, TLAPS

USE DEF MutexStates, ProcLocations, ThreadLocations

\* Every step of the library, of the kernel on behalf of a dead process, and of
\* a caller keeps the state well typed.
LEMMA TypeStep == TypeOK /\ [Next]_vars => TypeOK'
<1> SUFFICES ASSUME TypeOK, [Next]_vars PROVE TypeOK'
    OBVIOUS
<1> USE ProcOfAssumption, NobodyAssumption DEF TypeOK, GotoP, Goto, Exit
<1>1. ASSUME NEW p \in Procs, Start(p) \/ ShmemCreate(p) \/ CheckMagic(p) \/
             Publish(p) \/ SetGlobal(p)
      PROVE  TypeOK'
  BY <1>1 DEF Start, ShmemCreate, CheckMagic, Publish, SetGlobal
<1>6. ASSUME NEW p \in Procs, MutexInit(p) PROVE TypeOK'
  BY <1>6 DEF MutexInit
<1>7. ASSUME NEW p \in Procs, ShmemCreateFails(p) \/ MutexInitFails(p) \/ Kill(p)
      PROVE TypeOK'
  BY <1>7 DEF ShmemCreateFails, MutexInitFails, Kill
<1>2. ASSUME NEW t \in Threads, ApiCall(t) \/ MakeConsistent(t) \/ GiveFails(t)
      PROVE TypeOK'
  BY <1>2 DEF ApiCall, MakeConsistent, GiveFails
<1>3. ASSUME NEW t \in Threads, Take(t) PROVE TypeOK'
  BY <1>3 DEF Take
<1>4. ASSUME NEW t \in Threads, Give(t) PROVE TypeOK'
  BY <1>4 DEF Give
<1>5. CASE UNCHANGED vars
  BY <1>5 DEF vars
<1> QED BY <1>1, <1>2, <1>3, <1>4, <1>5, <1>6, <1>7 DEF Next, StartUp, Locked

\* What a step does to the process locations when process p leaves for good or
\* is killed: its threads hold nothing and nobody else moves.
LEMMA ExitKeepsInv ==
  ASSUME IInv, NEW p \in Procs, NEW l \in {"down", "abort"}, Exit(p, l)
  PROVE  SetUpInv' /\ RobustInv' /\ UnracedInv'
<1> USE ProcOfAssumption, NobodyAssumption
        DEF IInv, TypeOK, Exit, GotoP, ThreadsOf
<1>1. SetUpInv'
  BY DEF SetUpInv
<1>2. RobustInv'
  BY DEF RobustInv
<1>3. UnracedInv'
  BY DEF UnracedInv, Initialising, Holders
<1> QED BY <1>1, <1>2, <1>3

\* The strengthened invariant is inductive.
LEMMA IInvStep == IInv /\ [Next]_vars => IInv'
<1> SUFFICES ASSUME IInv, [Next]_vars
             PROVE  SetUpInv' /\ RobustInv' /\ UnracedInv'
    BY TypeStep DEF IInv
<1> USE ProcOfAssumption, NobodyAssumption
<1>1. ASSUME NEW p \in Procs, Start(p) PROVE SetUpInv' /\ RobustInv' /\ UnracedInv'
  BY <1>1 DEF IInv, TypeOK, Start, GotoP, SetUpInv, RobustInv, UnracedInv,
     Initialising, Holders
<1>2. ASSUME NEW p \in Procs, ShmemCreate(p)
      PROVE  SetUpInv' /\ RobustInv' /\ UnracedInv'
  BY <1>2 DEF IInv, TypeOK, ShmemCreate, GotoP, SetUpInv, RobustInv, UnracedInv,
     Initialising, Holders
<1>3. ASSUME NEW p \in Procs, CheckMagic(p)
      PROVE  SetUpInv' /\ RobustInv' /\ UnracedInv'
  <2> USE <1>3 DEF IInv, TypeOK, CheckMagic, GotoP
  <2>1. SetUpInv'
    BY DEF SetUpInv
  <2>2. RobustInv'
    BY DEF RobustInv
  <2>3. UnracedInv'
    \* The history variable stays FALSE only if p is alone in the window.
    <3> SUFFICES ASSUME ~raced'
                 PROVE  /\ \A q, r \in Initialising' : q = r
                        /\ magic' => Initialising' = {}
                        /\ \A t \in Holders' : mutex'.owner = t
        BY DEF UnracedInv
    <3>1. CASE magic
      BY <3>1 DEF UnracedInv, Initialising, Holders
    <3>2. CASE ~magic
      BY <3>2 DEF UnracedInv, Initialising, Holders
    <3> QED BY <3>1, <3>2
  <2> QED BY <2>1, <2>2, <2>3
<1>4. ASSUME NEW p \in Procs, MutexInit(p)
      PROVE  SetUpInv' /\ RobustInv' /\ UnracedInv'
  <2> USE <1>4 DEF IInv, TypeOK, MutexInit, GotoP
  <2>1. SetUpInv'
    BY DEF SetUpInv
  <2>2. RobustInv'
    BY DEF RobustInv
  <2>3. ~raced => Holders = {}
    \* A lone initialiser has an unset magic, so nobody is up, so nobody holds.
    BY DEF UnracedInv, SetUpInv, Initialising, Holders
  <2>4. UnracedInv'
    BY <2>3 DEF UnracedInv, Initialising, Holders
  <2> QED BY <2>1, <2>2, <2>4
<1>5. ASSUME NEW p \in Procs, Publish(p)
      PROVE  SetUpInv' /\ RobustInv' /\ UnracedInv'
  BY <1>5 DEF IInv, TypeOK, Publish, GotoP, SetUpInv, RobustInv, UnracedInv,
     Initialising, Holders
<1>6. ASSUME NEW p \in Procs, SetGlobal(p)
      PROVE  SetUpInv' /\ RobustInv' /\ UnracedInv'
  BY <1>6 DEF IInv, TypeOK, SetGlobal, GotoP, SetUpInv, RobustInv, UnracedInv,
     Initialising, Holders
<1>7. ASSUME NEW p \in Procs, ShmemCreateFails(p) \/ MutexInitFails(p) \/ Kill(p)
      PROVE  SetUpInv' /\ RobustInv' /\ UnracedInv'
  BY <1>7, ExitKeepsInv DEF ShmemCreateFails, MutexInitFails, Kill
<1>8. ASSUME NEW t \in Threads, ApiCall(t)
      PROVE  SetUpInv' /\ RobustInv' /\ UnracedInv'
  BY <1>8 DEF IInv, TypeOK, ApiCall, Goto, SetUpInv, RobustInv, UnracedInv,
     Initialising, Holders
<1>9. ASSUME NEW t \in Threads, Take(t)
      PROVE  SetUpInv' /\ RobustInv' /\ UnracedInv'
  <2> USE <1>9 DEF IInv, TypeOK, Take, Goto
  <2>1. SetUpInv'
    BY DEF SetUpInv
  <2>2. RobustInv'
    BY DEF RobustInv
  <2>3. UnracedInv'
    \* A free mutex has no holder, so the taker is the only one.
    BY DEF UnracedInv, Initialising, Holders
  <2> QED BY <2>1, <2>2, <2>3
<1>10. ASSUME NEW t \in Threads, MakeConsistent(t)
       PROVE  SetUpInv' /\ RobustInv' /\ UnracedInv'
  BY <1>10 DEF IInv, TypeOK, MakeConsistent, Goto, SetUpInv, RobustInv, UnracedInv,
     Initialising, Holders
<1>11. ASSUME NEW t \in Threads, Give(t)
       PROVE  SetUpInv' /\ RobustInv' /\ UnracedInv'
  BY <1>11 DEF IInv, TypeOK, Give, Goto, SetUpInv, RobustInv, UnracedInv,
     Initialising, Holders
<1>12. ASSUME NEW t \in Threads, GiveFails(t)
       PROVE  SetUpInv' /\ RobustInv' /\ UnracedInv'
  BY <1>12, ExitKeepsInv DEF GiveFails
<1>13. CASE UNCHANGED vars
  BY <1>13 DEF vars, IInv, SetUpInv, RobustInv, UnracedInv, Initialising, Holders
<1> QED BY <1>1, <1>2, <1>3, <1>4, <1>5, <1>6, <1>7, <1>8, <1>9, <1>10, <1>11,
           <1>12, <1>13 DEF Next, StartUp, Locked

\* The strengthened invariant holds from boot, for every set of processes.
THEOREM LockInvariant == Spec => []IInv
<1>1. Init => TypeOK
  <2>1. Init => shm \in BOOLEAN /\ magic \in BOOLEAN /\ raced \in BOOLEAN
    BY Zenon DEF Init
  <2>2. Init => /\ mutex \in [owner : Threads \cup {Nobody}, state : MutexStates]
                /\ ppc \in [Procs -> ProcLocations]
                /\ pc \in [Threads -> ThreadLocations]
    BY DEF Init
  <2> QED BY <2>1, <2>2 DEF TypeOK
<1>2. Init => SetUpInv /\ RobustInv
  BY ProcOfAssumption DEF Init, SetUpInv, RobustInv
<1>3. Init => UnracedInv
  BY DEF Init, UnracedInv, Initialising, Holders
<1> QED BY <1>1, <1>2, <1>3, IInvStep, PTL DEF Spec, IInv

\* Type correctness of the lock's state, from boot.
THEOREM TypeCorrect == Spec => []TypeOK
<1>1. IInv => TypeOK
  BY DEF IInv
<1> QED BY <1>1, LockInvariant, PTL

\* Unless two processes were inside onlp_shlock_init__ at once, at most one
\* thread is inside a locked body and it can give the lock back.
THEOREM MutualExclusionHolds == Spec => []MutualExclusion
<1>1. IInv => MutualExclusion
  BY DEF IInv, UnracedInv, MutualExclusion, Holders
<1> QED BY <1>1, LockInvariant, PTL

\* Every process that is up locks a mutex that was initialised.
THEOREM ReadyAtStartupHolds == Spec => []ReadyAtStartup
<1>1. IInv => ReadyAtStartup
  BY DEF IInv, SetUpInv, ReadyAtStartup
<1> QED BY <1>1, LockInvariant, PTL

\* onlp_shlock_take never lets the mutex become ENOTRECOVERABLE.
THEOREM RecoverableHolds == Spec => []Recoverable
<1>1. IInv => Recoverable
  BY DEF IInv, RobustInv, Recoverable
<1> QED BY <1>1, LockInvariant, PTL
-----------------------------------------------------------------------------
\* A process that exits releases the lock or leaves it as it was.
LEMMA ExitReleases ==
  ASSUME IInv, NEW p \in Procs, NEW l \in {"down", "abort"}, Exit(p, l)
  PROVE  [Abs!Next]_ApiHolders
<1> USE DEF IInv, TypeOK, Exit, ApiHolders
<1>1. Holders' = {t \in Holders : ProcOf[t] # p}
  BY DEF Holders
<1>2. CASE raced
  BY <1>2
<1>3. CASE ~raced /\ Holders = {}
  BY <1>1, <1>3
<1>4. ASSUME ~raced, NEW t \in Holders PROVE [Abs!Next]_ApiHolders
  <2>1. Holders = {t} /\ t \in Threads
    BY <1>4 DEF UnracedInv, Holders
  <2>2. CASE ProcOf[t] = p
    BY <1>1, <1>4, <2>1, <2>2 DEF Abs!Next, Abs!Release
  <2>3. CASE ProcOf[t] # p
    BY <1>1, <1>4, <2>1, <2>3
  <2> QED BY <2>2, <2>3
<1> QED BY <1>2, <1>3, <1>4

\* Until two initialisers overlap, the lock implements the abstract API lock:
\* exclusion, and every change of hands goes through a free lock, for any
\* processes and threads, whoever dies where.
THEOREM Refinement == Spec => AbsSpec
<1>1. Init => Abs!Init
  BY DEF Init, Abs!Init, ApiHolders, Holders
<1>2. IInv /\ [Next]_vars => [Abs!Next]_ApiHolders
  <2> SUFFICES ASSUME IInv, [Next]_vars PROVE [Abs!Next]_ApiHolders
      OBVIOUS
  <2> USE DEF IInv, TypeOK, ApiHolders
  <2>1. ASSUME NEW p \in Procs,
               Start(p) \/ ShmemCreate(p) \/ MutexInit(p) \/ Publish(p) \/ SetGlobal(p)
        PROVE  ApiHolders' = ApiHolders
    BY <2>1 DEF Start, ShmemCreate, MutexInit, Publish, SetGlobal, Holders
  <2>2. ASSUME NEW p \in Procs, CheckMagic(p) PROVE [Abs!Next]_ApiHolders
    \* An overlap of initialisers gives the abstract lock up.
    <3>1. Holders' = Holders
      BY <2>2 DEF CheckMagic, Holders
    <3>2. CASE raced' = raced
      BY <3>1, <3>2
    <3>3. CASE ~raced /\ raced' /\ Holders = {}
      BY <3>1, <3>3
    <3>4. ASSUME ~raced, raced', NEW t \in Holders PROVE Abs!Next
      BY <3>4 DEF UnracedInv, Holders, Abs!Next, Abs!Release
    <3>5. raced' = raced \/ (~raced /\ raced')
      BY <2>2, Zenon DEF CheckMagic
    <3> QED BY <3>2, <3>3, <3>4, <3>5
  <2>3. ASSUME NEW p \in Procs,
               ShmemCreateFails(p) \/ MutexInitFails(p) \/ Kill(p)
        PROVE  [Abs!Next]_ApiHolders
    BY <2>3, ExitReleases DEF ShmemCreateFails, MutexInitFails, Kill
  <2>4. ASSUME NEW t \in Threads, ApiCall(t) \/ MakeConsistent(t)
        PROVE  ApiHolders' = ApiHolders
    BY <2>4 DEF ApiCall, MakeConsistent, Goto, Holders
  <2>5. ASSUME NEW t \in Threads, Take(t), ~raced PROVE Abs!Next
    <3>1. Holders = {}
      BY <2>5, NobodyAssumption DEF Take, UnracedInv, Holders
    <3>2. Holders' = {t} /\ ~raced'
      BY <2>5, <3>1 DEF Take, Goto, Holders
    <3> QED BY <2>5, <3>1, <3>2 DEF Abs!Next, Abs!Acquire
  <2>6. ASSUME NEW t \in Threads, Give(t), ~raced PROVE Abs!Next
    <3>1. Holders = {t}
      BY <2>6 DEF Give, UnracedInv, Holders
    <3>2. Holders' = {} /\ ~raced'
      BY <2>6, <3>1 DEF Give, Goto, Holders
    <3> QED BY <2>6, <3>1, <3>2 DEF Abs!Next, Abs!Release
  <2>7. ASSUME NEW t \in Threads, Take(t) \/ Give(t), raced
        PROVE  ApiHolders' = ApiHolders
    BY <2>7 DEF Take, Give
  <2>8. ASSUME NEW t \in Threads, GiveFails(t) PROVE [Abs!Next]_ApiHolders
    BY <2>8, ExitReleases, ProcOfAssumption DEF GiveFails
  <2>9. CASE UNCHANGED vars
    BY <2>9 DEF vars, Holders
  <2> QED BY <2>1, <2>2, <2>3, <2>4, <2>5, <2>6, <2>7, <2>8, <2>9
          DEF Next, StartUp, Locked
<1> QED BY <1>1, <1>2, LockInvariant, PTL DEF Spec, AbsSpec, Abs!Spec
-----------------------------------------------------------------------------
\* After publication nobody initialises again.
PublishedInv == IInv /\ magic = TRUE /\ raced = FALSE

LEMMA PublishedStep == PublishedInv /\ [Next]_vars => PublishedInv'
<1> SUFFICES ASSUME PublishedInv, [Next]_vars PROVE magic' = TRUE /\ raced' = FALSE
    BY IInvStep DEF PublishedInv
<1>1. ASSUME NEW p \in Procs, Start(p) \/ StartUp(p) \/ Kill(p)
      PROVE  magic' = TRUE /\ raced' = FALSE
  BY <1>1 DEF PublishedInv, Start, StartUp, ShmemCreate, ShmemCreateFails,
     CheckMagic, MutexInit, MutexInitFails, Publish, SetGlobal, Kill, Exit
<1>2. ASSUME NEW t \in Threads, ApiCall(t) \/ Locked(t)
      PROVE  magic' = TRUE /\ raced' = FALSE
  BY <1>2 DEF PublishedInv, ApiCall, Locked, Take, MakeConsistent, Give,
     GiveFails, Exit
<1> QED BY <1>1, <1>2 DEF Next, vars, PublishedInv

\* Processes that find the lock published never overlap in onlp_shlock_init__,
\* so that the lock excludes for as long as the switch is up.
THEOREM PublishedExclusionHolds == PublishedSpec => []PublishedExclusion
<1>1. PublishedInit => PublishedInv
  <2>1. PublishedInit => TypeOK
    <3>1. PublishedInit => shm \in BOOLEAN /\ magic \in BOOLEAN /\ raced \in BOOLEAN
      BY Zenon DEF PublishedInit
    <3>2. PublishedInit => /\ mutex \in [owner : Threads \cup {Nobody}, state : MutexStates]
                           /\ ppc \in [Procs -> ProcLocations]
                           /\ pc \in [Threads -> ThreadLocations]
      BY DEF PublishedInit
    <3> QED BY <3>1, <3>2 DEF TypeOK
  <2>2. PublishedInit => SetUpInv /\ RobustInv
    BY ProcOfAssumption DEF PublishedInit, SetUpInv, RobustInv
  <2>3. PublishedInit => UnracedInv
    BY DEF PublishedInit, UnracedInv, Initialising, Holders
  <2> QED BY <2>1, <2>2, <2>3 DEF PublishedInit, PublishedInv, IInv
<1>2. PublishedInv => PublishedExclusion
  BY DEF PublishedInv, IInv, UnracedInv, PublishedExclusion, Holders
<1> QED BY <1>1, <1>2, PublishedStep, PTL DEF PublishedSpec
=============================================================================
