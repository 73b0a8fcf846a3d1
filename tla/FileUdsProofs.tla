--------------------------- MODULE FileUdsProofs ---------------------------
(***************************************************************************)
(* The file service for any number of paths and descriptors: what it       *)
(* closes, and when its worker may outlive it.                             *)
(***************************************************************************)
EXTENDS FileUds, TLAPS

USE BacklogAssumption, NoFdAssumption, NoPathAssumption

LEMMA InitInv == Init => IInv
<1> SUFFICES ASSUME Init PROVE IInv
  OBVIOUS
<1>0. waiting \in [Paths -> 0 .. Backlog]
  BY DEF Init
<1>1. TypeOK
  BY <1>0 DEF Init, TypeOK, WorkerLocations, CallerLocations
<1>2. RunningInv /\ BatchInv BY DEF Init, RunningInv, BatchInv
<1>3. DescriptorInv BY DEF Init, DescriptorInv, Present
<1> QED BY <1>1, <1>2, <1>3 DEF IInv

\* The worker's steps, as far as they leave the descriptors alone.
WorkerQuiet == \/ WStart \/ WStartFails \/ WTerminates \/ WHead \/ WHeadFails
               \/ WWait \/ WInterrupted \/ WWaitFails \/ WEventfd \/ WEndOfBatch
               \/ \E p \in Paths : WSkip(p) \/ WAcceptFails(p)

LEMMA NextCases ==
  ASSUME Next
  PROVE  /\ ~wrong
         /\ \/ ~Freed /\ WorkerQuiet
            \/ ~Freed /\ WScan
            \/ ~Freed /\ \E p \in Paths : WAccept(p)
            \/ ~Freed /\ (WHandle \/ WClose)
            \/ AddWakes \/ DestroyWakes \/ Join \/ Destroy \/ AddsNothing
            \/ Free
            \/ \E p \in Paths : Add(p) \/ Remove(p) \/ Connect(p)
            \/ \E f \in Fds : ForeignOpen(f) \/ ForeignClose(f)
  BY DEF Next, Worker, Loop, Serve, WorkerQuiet, Caller, InCall

LEMMA TypeStep == ASSUME IInv, Next PROVE TypeOK'
<1> USE DEF TypeOK, WorkerLocations, CallerLocations, control, services, worker, caller
<1> TypeOK BY DEF IInv
<1>1. ASSUME WorkerQuiet PROVE TypeOK'
  <2>1. ASSUME WStart \/ WStartFails \/ WTerminates \/ WHead \/ WHeadFails
        PROVE  TypeOK'
    BY <2>1 DEF WStart, WStartFails, WTerminates, WHead, WHeadFails, WBreak, WGoto
  <2>2. ASSUME WWait \/ WInterrupted \/ WWaitFails \/ WEventfd \/ WEndOfBatch
        PROVE  TypeOK'
    BY <2>2 DEF WWait, WInterrupted, WWaitFails, WEventfd, WEndOfBatch, WBreak, WGoto,
                Ready, Wake
  <2>3. ASSUME NEW p \in Paths, WSkip(p) \/ WAcceptFails(p) PROVE TypeOK'
    BY <2>3 DEF WSkip, WAcceptFails
  <2> QED BY <1>1, <2>1, <2>2, <2>3 DEF WorkerQuiet
<1>2. ASSUME WScan PROVE TypeOK'
  BY <1>2 DEF WScan, WGoto, Present, Removing, Lfds
<1>3. ASSUME ~Freed, NEW p \in Paths, WAccept(p) PROVE TypeOK'
  BY <1>3 DEF IInv, BatchInv, WAccept, Open, WGoto
<1>4. ASSUME WHandle \/ WClose PROVE TypeOK'
  BY <1>4 DEF WHandle, WClose, WGoto
<1>5. ASSUME AddWakes \/ DestroyWakes \/ Join \/ Destroy \/ AddsNothing PROVE TypeOK'
  BY <1>5 DEF AddWakes, DestroyWakes, Join, Destroy, AddsNothing, Goto
<1>6. ASSUME Free PROVE TypeOK'
  BY <1>6 DEF Free, Goto, Present, Lfds
<1>7. ASSUME NEW p \in Paths, Add(p) \/ Remove(p) \/ Connect(p) PROVE TypeOK'
  BY <1>7 DEF Add, Remove, Connect, Open, Goto, Present
<1>8. ASSUME NEW f \in Fds, ForeignOpen(f) \/ ForeignClose(f) PROVE TypeOK'
  BY <1>8 DEF ForeignOpen, ForeignClose, Open
<1> QED BY <1>1, <1>2, <1>3, <1>4, <1>5, <1>6, <1>7, <1>8, NextCases

LEMMA RunningStep == ASSUME IInv, Next PROVE RunningInv'
<1> USE DEF RunningInv, control, services, worker, caller, Freed
<1> TypeOK /\ RunningInv BY DEF IInv
<1>1. ASSUME ~Freed, WorkerQuiet PROVE RunningInv'
  BY <1>1 DEF TypeOK, WorkerQuiet, WStart, WStartFails, WTerminates, WHead, WHeadFails,
              WWait, WInterrupted, WWaitFails, WEventfd, WEndOfBatch, WSkip,
              WAcceptFails, WBreak, WGoto
<1>2. ASSUME WScan PROVE RunningInv'
  BY <1>2 DEF WScan, WGoto
<1>3. ASSUME NEW p \in Paths, WAccept(p) PROVE RunningInv'
  BY <1>3 DEF WAccept, WGoto
<1>4. ASSUME WHandle \/ WClose PROVE RunningInv'
  BY <1>4 DEF WHandle, WClose, WGoto
<1>5. ASSUME AddWakes \/ DestroyWakes \/ Join \/ AddsNothing PROVE RunningInv'
  BY <1>5 DEF AddWakes, DestroyWakes, Join, AddsNothing, Goto
<1>9. ASSUME Destroy PROVE RunningInv'
  <2>1. CASE running
    BY <1>9, <2>1 DEF Destroy, Goto
  <2>2. CASE ~running
    BY <1>9, <2>2 DEF Destroy, Goto
  <2> QED BY <2>1, <2>2
<1>6. ASSUME Free PROVE RunningInv'
  BY <1>6 DEF Free, Goto
<1>7. ASSUME NEW p \in Paths, Add(p) \/ Remove(p) \/ Connect(p) PROVE RunningInv'
  BY <1>7 DEF Add, Remove, Connect, Goto
<1>8. ASSUME NEW f \in Fds, ForeignOpen(f) \/ ForeignClose(f) PROVE RunningInv'
  BY <1>8 DEF ForeignOpen, ForeignClose
<1> QED BY <1>1, <1>2, <1>3, <1>4, <1>5, <1>6, <1>7, <1>8, <1>9, NextCases

LEMMA BatchStep == ASSUME IInv, Next PROVE BatchInv'
<1> USE DEF BatchInv, control, services, worker, caller, Freed, Wake
<1> TypeOK /\ BatchInv BY DEF IInv
<1>1. ASSUME ~Freed, WorkerQuiet PROVE BatchInv'
  <2>1. ASSUME WStart \/ WStartFails \/ WTerminates \/ WHead \/ WHeadFails
               \/ WInterrupted \/ WWaitFails \/ WEventfd \/ WEndOfBatch
        PROVE  BatchInv'
    BY <2>1 DEF WStart, WStartFails, WTerminates, WHead, WHeadFails, WInterrupted,
                WWaitFails, WEventfd, WEndOfBatch, WBreak, WGoto
  <2>2. ASSUME WWait PROVE BatchInv'
    BY <2>2 DEF WWait, WGoto, Ready
  <2>3. ASSUME NEW p \in Paths, WSkip(p) \/ WAcceptFails(p) PROVE BatchInv'
    BY <2>3 DEF WSkip, WAcceptFails
  <2> QED BY <1>1, <2>1, <2>2, <2>3 DEF WorkerQuiet
<1>2. ASSUME WScan PROVE BatchInv'
  BY <1>2 DEF WScan, WGoto
<1>3. ASSUME NEW p \in Paths, WAccept(p) PROVE BatchInv'
  BY <1>3 DEF WAccept, WGoto, TypeOK
<1>4. ASSUME WHandle \/ WClose PROVE BatchInv'
  BY <1>4 DEF WHandle, WClose, WGoto
<1>5. ASSUME AddWakes \/ DestroyWakes \/ Join \/ Destroy \/ AddsNothing
      PROVE  BatchInv'
  BY <1>5 DEF AddWakes, DestroyWakes, Join, Destroy, AddsNothing, Goto
<1>6. ASSUME Free PROVE BatchInv'
  BY <1>6 DEF Free, Goto
<1>7. ASSUME NEW p \in Paths, Add(p) \/ Remove(p) \/ Connect(p) PROVE BatchInv'
  BY <1>7 DEF Add, Remove, Connect, Goto, TypeOK
<1>8. ASSUME NEW f \in Fds, ForeignOpen(f) \/ ForeignClose(f) PROVE BatchInv'
  BY <1>8 DEF ForeignOpen, ForeignClose
<1> QED BY <1>1, <1>2, <1>3, <1>4, <1>5, <1>6, <1>7, <1>8, NextCases

LEMMA DescriptorStep == ASSUME IInv, Next PROVE DescriptorInv'
<1> USE DEF DescriptorInv, control, services, worker, caller, Present
<1> TypeOK /\ DescriptorInv /\ ~wrong BY NextCases DEF IInv
<1>1. ASSUME ~Freed, WorkerQuiet PROVE DescriptorInv'
  <2>1. ASSUME WStart \/ WStartFails \/ WTerminates \/ WHead \/ WHeadFails
        PROVE  DescriptorInv'
    BY <2>1 DEF WStart, WStartFails, WTerminates, WHead, WHeadFails, WBreak, WGoto
  <2>2. ASSUME WWait \/ WInterrupted \/ WWaitFails \/ WEventfd \/ WEndOfBatch
        PROVE  DescriptorInv'
    BY <2>2 DEF WWait, WInterrupted, WWaitFails, WEventfd, WEndOfBatch, WBreak, WGoto
  <2>3. ASSUME NEW p \in Paths, WSkip(p) \/ WAcceptFails(p) PROVE DescriptorInv'
    BY <2>3 DEF WSkip, WAcceptFails
  <2> QED BY <1>1, <2>1, <2>2, <2>3 DEF WorkerQuiet
<1>2. ASSUME WScan PROVE DescriptorInv'
  BY <1>2 DEF WScan, WGoto, TypeOK, Removing, Lfds
<1>3. ASSUME NEW p \in Paths, WAccept(p) PROVE DescriptorInv'
  BY <1>3 DEF WAccept, WGoto, TypeOK, Open
<1>4. ASSUME WHandle PROVE DescriptorInv'
  BY <1>4 DEF WHandle, WGoto, TypeOK
<1>5. ASSUME WClose PROVE DescriptorInv'
  BY <1>5 DEF WClose, WGoto, TypeOK
<1>6. ASSUME AddWakes \/ DestroyWakes \/ Join \/ Destroy \/ AddsNothing
      PROVE  DescriptorInv'
  BY <1>6 DEF AddWakes, DestroyWakes, Join, Destroy, AddsNothing, Goto
<1>7. ASSUME Free PROVE DescriptorInv'
  BY <1>7 DEF Free, Goto, TypeOK, Lfds
<1>8. ASSUME NEW p \in Paths, Add(p) PROVE DescriptorInv'
  BY <1>8 DEF Add, Open, Goto, TypeOK
<1>9. ASSUME NEW p \in Paths, Remove(p) \/ Connect(p) PROVE DescriptorInv'
  BY <1>9 DEF Remove, Connect, TypeOK
<1>10. ASSUME NEW f \in Fds, ForeignOpen(f) \/ ForeignClose(f) PROVE DescriptorInv'
  BY <1>10 DEF ForeignOpen, ForeignClose, Open, TypeOK
<1> QED BY <1>1, <1>2, <1>3, <1>4, <1>5, <1>6, <1>7, <1>8, <1>9, <1>10, NextCases

\* The inductive invariant.
THEOREM Invariance == Spec => []IInv
<1>1. ASSUME IInv, UNCHANGED vars PROVE IInv'
  BY <1>1 DEF IInv, TypeOK, RunningInv, BatchInv, DescriptorInv, Present, Freed,
              vars, control, services, worker, caller
<1>2. IInv /\ [Next]_vars => IInv'
  BY <1>1, TypeStep, RunningStep, BatchStep, DescriptorStep DEF IInv
<1> QED BY InitInv, <1>2, PTL DEF Spec

\* For any paths, any descriptors and any order of calls: once onlp_file_uds_destroy
\* has freed the control object the worker has ended, unless it had not yet set
\* running when destroy looked.
THEOREM NoUseAfterFreeHolds == Spec => []NoUseAfterFree
<1>1. IInv => NoUseAfterFree
  BY DEF IInv, RunningInv, NoUseAfterFree, Freed
<1> QED BY <1>1, Invariance, PTL

\* The descriptors of a step that closes some.
Closing(f) == owner[f] # "free" /\ owner'[f] = "free"

Allowed(f) == \/ owner[f] = "foreign" /\ (f \in window \/ ForeignClose(f))
              \/ owner[f] = "listen" /\ (f \in window \/ f \in Lfds(Paths) \ Lfds(Paths)')
              \/ owner[f] = "conn" /\ f = cfd

LEMMA ClosesOwnStep == ASSUME IInv, Next, NEW f \in Fds, Closing(f) PROVE Allowed(f)
<1> USE DEF Closing, Allowed, control, services, worker, caller
<1> TypeOK /\ DescriptorInv /\ ~wrong BY NextCases DEF IInv
<1>1. CASE WorkerQuiet
  BY <1>1 DEF WorkerQuiet, WStart, WStartFails, WTerminates, WHead, WHeadFails,
              WWait, WInterrupted, WWaitFails, WEventfd, WEndOfBatch, WSkip,
              WAcceptFails, WBreak
<1>2. CASE WScan
  <2>1. PICK p \in Removing : f = lfd[p]
    BY <1>2 DEF WScan, Lfds, TypeOK
  <2>2. p \in Present /\ owner[f] = "listen"
    BY <2>1 DEF Removing, Present, DescriptorInv
  <2>3. \A q \in Paths : lfd'[q] # f
    BY <1>2, <2>1, <2>2, NoFdAssumption DEF WScan, TypeOK, DescriptorInv, Present
  <2> QED BY <2>1, <2>2, <2>3 DEF Lfds, Removing
<1>3. CASE Free
  <2>1. PICK p \in Present : f = lfd[p]
    BY <1>3 DEF Free, Lfds, TypeOK
  <2> QED BY <1>3, <2>1, NoFdAssumption DEF Free, Lfds, Present, DescriptorInv
<1>4. CASE WHandle \/ WClose
  BY <1>4 DEF WHandle, WClose, TypeOK, DescriptorInv
<1>5. CASE \E p \in Paths : WAccept(p)
  BY <1>5 DEF WAccept, Open, TypeOK
<1>6. CASE AddWakes \/ DestroyWakes \/ Join \/ Destroy \/ AddsNothing
  BY <1>6 DEF AddWakes, DestroyWakes, Join, Destroy, AddsNothing
<1>7. CASE \E p \in Paths : Add(p) \/ Remove(p) \/ Connect(p)
  BY <1>7 DEF Add, Remove, Connect, Open, TypeOK
<1>8. CASE \E g \in Fds : ForeignOpen(g) \/ ForeignClose(g)
  BY <1>8 DEF ForeignOpen, ForeignClose, Open, TypeOK
<1> QED BY <1>1, <1>2, <1>3, <1>4, <1>5, <1>6, <1>7, <1>8, NextCases

\* The second close of a connection hits only a descriptor that was opened after
\* the handler's: the file service closes nothing else that is not its own.
THEOREM ClosesOwnHolds == Spec => ClosesOwn
<1>1. IInv /\ [Next]_vars => [\A f \in Fds : Closing(f) => Allowed(f)]_vars
  BY ClosesOwnStep
<1> QED BY <1>1, Invariance, PTL DEF Spec, ClosesOwn, Closing, Allowed
=============================================================================
