----------------------- MODULE PlatformManagerProofs -----------------------
(***************************************************************************)
(* The manager's lifecycle for any descriptors and thread ids and one      *)
(* caller: one manager thread, quiet after a stop, no descriptor lost.     *)
(***************************************************************************)
EXTENDS PlatformDaemon, TLAPS

OneCaller == \A c, d \in Callers : c = d

CallRecords == [pc : CallLocations, block : BOOLEAN, fd : Handles]

LEMMA MoveTyped ==
  ASSUME TypeOK, NEW c \in Callers, NEW l \in CallLocations, Move(c, l)
  PROVE  /\ call' \in [Callers -> CallRecords]
         /\ call'[c].pc = l
         /\ call'[c].block = call[c].block
         /\ \A d \in Callers : d # c => call'[d] = call[d]
<1>1. call \in [Callers -> CallRecords] /\ call[c] \in CallRecords
  BY DEF TypeOK, CallRecords
<1>2. [call[c] EXCEPT !.pc = l] \in CallRecords
  BY <1>1 DEF CallRecords
<1>3. call' = [call EXCEPT ![c] = [call[c] EXCEPT !.pc = l]]
  BY DEF Move
<1>4. call'[c] = [call[c] EXCEPT !.pc = l]
  BY <1>1, <1>3
<1>5. call'[c].pc = l /\ call'[c].block = call[c].block
  BY <1>1, <1>4 DEF CallRecords
<1>6. call' \in [Callers -> CallRecords]
  BY <1>1, <1>2, <1>3, Zenon
<1>7. \A d \in Callers : d # c => call'[d] = call[d]
  BY <1>1, <1>3
<1> QED BY <1>5, <1>6, <1>7

LEMMA CallTyped ==
  ASSUME TypeOK, NEW c \in Callers, NEW r \in CallRecords, call' = [call EXCEPT ![c] = r]
  PROVE  /\ call' \in [Callers -> CallRecords]
         /\ call'[c] = r
         /\ \A d \in Callers : d # c => call'[d] = call[d]
  BY DEF TypeOK, CallRecords

LEMMA IdleTyped == Idle \in CallRecords /\ Idle.pc = "idle"
  BY DEF Idle, CallRecords, CallLocations, Handles

\* What a call in progress becomes: one record of the right type at every step.  The
\* calls of the others stay as they are.
LEMMA CallStep ==
  ASSUME TypeOK, NEW c \in Callers,
         \/ \E b \in BOOLEAN : CallStart(c, b) \/ CallStop(c, b)
         \/ CallJoin(c) \/ Caller(c)
  PROVE  /\ call' \in [Callers -> CallRecords]
         /\ \A d \in Callers : d # c => call'[d] = call[d]
<1> USE IdleTyped
<1>1. CASE \E b \in BOOLEAN : CallStart(c, b) \/ CallStop(c, b)
  <2>1. PICK b \in BOOLEAN : CallStart(c, b) \/ CallStop(c, b)
    BY <1>1
  <2>2. /\ [Idle EXCEPT !.pc = "start", !.block = b] \in CallRecords
        /\ [Idle EXCEPT !.pc = "stop", !.block = b] \in CallRecords
    BY DEF CallRecords, CallLocations
  <2> QED BY <2>1, <2>2, CallTyped DEF CallStart, CallStop
<1>2. CASE Stop(c) /\ eventfd > 0
  <2>1. call[c] \in CallRecords
    BY DEF TypeOK, CallRecords
  <2>2. [call[c] EXCEPT !.pc = "write", !.fd = eventfd] \in CallRecords
    BY <2>1 DEF TypeOK, CallRecords, CallLocations
  <2>3. call' = [call EXCEPT ![c] = [call[c] EXCEPT !.pc = "write", !.fd = eventfd]]
    BY <1>2 DEF Stop, TypeOK
  <2> QED BY <2>2, <2>3, CallTyped
<1>3. CASE \E l \in CallLocations : Move(c, l)
  BY <1>3, MoveTyped
<1>4. CASE Return(c)
  BY <1>4, CallTyped DEF Return
<1>5. CASE ~ \E b \in BOOLEAN : CallStart(c, b) \/ CallStop(c, b)
  <2>1. {"create", "write", "join", "joining"} \subseteq CallLocations
    BY DEF CallLocations
  <2> QED BY <1>2, <1>3, <1>4, <1>5, <2>1
          DEF CallJoin, Caller, Start, Create, CreateFails, Stop, Write, Join, Joined
<1> QED BY <1>1, <1>5

LEMMA TypeStep == TypeOK /\ [Next]_vars => TypeOK'
<1> SUFFICES ASSUME TypeOK, [Next]_vars PROVE TypeOK'
    OBVIOUS
<1> USE DEF CallRecords
<1>1. ASSUME NEW c \in Callers, CallJoin(c) \/ \E b \in BOOLEAN : CallStart(c, b) \/ CallStop(c, b)
      PROVE  TypeOK'
  <2>1. call' \in [Callers -> CallRecords]
    BY <1>1, CallStep
  <2> QED BY <1>1, <2>1 DEF TypeOK, CallJoin, CallStart, CallStop
<1>2. ASSUME NEW c \in Callers, Caller(c) PROVE TypeOK'
  <2>1. call' \in [Callers -> CallRecords]
    BY <1>2, CallStep
  <2>2. CASE Start(c)
    BY <2>1, <2>2 DEF TypeOK, Start, Handles
  <2>3. CASE Create(c)
    BY <2>1, <2>3 DEF TypeOK, Create, ThreadLocations
  <2>4. CASE CreateFails(c)
    BY <2>1, <2>4 DEF TypeOK, CreateFails, CloseFd, Handles
  <2>5. CASE Stop(c)
    <3>1. stopped' \in BOOLEAN
      BY <2>5, Zenon DEF TypeOK, Stop
    <3> QED BY <2>1, <2>5, <3>1 DEF TypeOK, Stop
  <2>6. CASE Write(c)
    BY <2>1, <2>6 DEF TypeOK, Write
  <2>7. CASE Join(c)
    <3>1. stopped' \in BOOLEAN
      BY <2>7, Zenon DEF TypeOK, Join
    <3> QED BY <2>1, <2>7, <3>1 DEF TypeOK, Join
  <2>8. CASE Joined(c)
    BY <2>1, <2>8 DEF TypeOK, Joined, CloseFd, Handles, ThreadLocations
  <2> QED BY <1>2, <2>2, <2>3, <2>4, <2>5, <2>6, <2>7, <2>8 DEF Caller
<1>3. ASSUME NEW t \in Tids, Manager(t) PROVE TypeOK'
  BY <1>3 DEF TypeOK, Manager, Select, Manage, Close, Signify, Exit, GotoT,
              CloseFd, Handles, ThreadLocations
<1>4. CASE UNCHANGED vars
  BY <1>4 DEF TypeOK, vars
<1> QED BY <1>1, <1>2, <1>3, <1>4 DEF Next

LEMMA InitTyped == Init => TypeOK
<1> SUFFICES ASSUME Init PROVE TypeOK
    OBVIOUS
<1>1. call \in [Callers -> CallRecords]
  BY IdleTyped DEF Init
<1>2. stopped \in BOOLEAN /\ wanted \in BOOLEAN
  BY Zenon DEF Init
<1> QED BY <1>1, <1>2 DEF Init, TypeOK, CallRecords, Handles, ThreadLocations

\* Type correctness of control__, of the descriptors, the threads and the calls
\* in progress, for any number of callers.
THEOREM TypeCorrect == Spec => []TypeOK
<1>1. Init => TypeOK
  BY InitTyped
<1> QED BY <1>1, TypeStep, PTL DEF Spec

-----------------------------------------------------------------------------
\* Where the caller is after each kind of step.
LEMMA After ==
  ASSUME TypeOK, NEW c \in Callers
  PROVE  /\ Return(c) => call'[c].pc = "idle"
         /\ \A l \in CallLocations : Move(c, l) => call'[c].pc = l
         /\ \A b \in BOOLEAN : CallStart(c, b) => call'[c].pc = "start"
         /\ \A b \in BOOLEAN : CallStop(c, b) => call'[c].pc = "stop"
         /\ Stop(c) => call'[c].pc \in {"write", "idle"}
<1>1. Return(c) => call'[c].pc = "idle"
  BY CallTyped, IdleTyped DEF Return
<1>2. \A l \in CallLocations : Move(c, l) => call'[c].pc = l
  BY MoveTyped
<1>3. ASSUME NEW b \in BOOLEAN
      PROVE  /\ CallStart(c, b) => call'[c].pc = "start"
             /\ CallStop(c, b) => call'[c].pc = "stop"
  BY DEF CallStart, CallStop, TypeOK, Idle
<1>4. Stop(c) => call'[c].pc \in {"write", "idle"}
  <2>1. CASE eventfd > 0
    BY <2>1 DEF Stop, TypeOK
  <2> QED BY <1>1, <2>1 DEF Stop
<1> QED BY <1>1, <1>2, <1>3, <1>4

\* What keeps callers out of each other's way: nobody else is starting a manager,
\* or the caller only asks for a stop, as a signal handler does.
StartsAlone(c) == \A d \in Callers : d # c => call[d].pc \notin {"start", "create"}
OnlySignals(c) == call[c].pc \in {"stop", "write"} /\ ~call[c].block

\* A step of a caller.
LEMMA CallerStep ==
  ASSUME IInv, TypeOK', NEW c \in Callers, StartsAlone(c) \/ OnlySignals(c),
         \/ \E b \in BOOLEAN : CallStart(c, b) \/ CallStop(c, b)
         \/ CallJoin(c) \/ Caller(c)
  PROVE  IInv'
<1> USE FdsAssumption, TidsAssumption
<1>a. {"idle", "start", "create", "stop", "write", "join", "joining"} = CallLocations
  BY DEF CallLocations
<1>b. TypeOK /\ \A f \in Fds : f \in Nat /\ f > 0 /\ f # -1
  BY DEF IInv
<1>d. (eventfd > 0 <=> eventfd \in Fds) /\ (eventfd <= 0 <=> eventfd \notin Fds)
  BY <1>b DEF TypeOK, Handles
<1>e. /\ \A d \in Callers : d # c => call'[d] = call[d]
      /\ OnlySignals(c) \/ \A d \in Callers : d # c => call[d].pc \notin {"start", "create"}
  BY <1>b, CallStep DEF StartsAlone
<1> USE <1>a, <1>b, <1>d, <1>e
<1>1. ASSUME NEW b \in BOOLEAN, CallStart(c, b) PROVE IInv'
  <2>1. call'[c].pc = "start" /\ ~At(c, "create")
    BY <1>1, After DEF CallStart, At
  <2> QED BY <1>1, <2>1
          DEF IInv, RunningInv, CreateInv, OpenInv, StartInv, StoppedMeansQuiet,
              NoDescriptorLeak, InLoop, CallStart, At
<1>2. ASSUME \/ \E b \in BOOLEAN : CallStop(c, b)
             \/ CallJoin(c)
      PROVE  IInv'
  <2>1. call'[c].pc \in {"stop", "join"} /\ ~At(c, "create")
    BY <1>2, After DEF CallStop, CallJoin, At
  <2>2. UNCHANGED <<eventfd, thread, efd, th, stopped>>
    BY <1>2 DEF CallStop, CallJoin
  <2> QED BY <2>1, <2>2
          DEF IInv, RunningInv, CreateInv, OpenInv, StartInv, StoppedMeansQuiet,
              NoDescriptorLeak, InLoop, At
<1>3. CASE Start(c)
  <2>1. UNCHANGED <<thread, th, stopped>> /\ At(c, "start") /\ ~At(c, "create")
    BY <1>3 DEF Start, At
  <2>2. CASE call'[c].pc = "idle" /\ UNCHANGED <<eventfd, efd>>
    BY <2>1, <2>2 DEF IInv, RunningInv, CreateInv, OpenInv, StartInv, StoppedMeansQuiet,
              NoDescriptorLeak, InLoop, At
  <2>3. CASE eventfd <= 0
    <3>1. InLoop = {} /\ \A f \in Fds : efd[f] = "closed"
      BY <2>3 DEF IInv, RunningInv, NoDescriptorLeak, TypeOK
    <3>2. InLoop' = {} /\ ~stopped /\ ~stopped'
      BY <2>1, <3>1 DEF InLoop, IInv, StartInv, At
    <3>3. CASE eventfd' = -1 /\ efd' = efd /\ call'[c].pc = "idle"
      BY <2>1, <3>1, <3>2, <3>3
         DEF IInv, RunningInv, CreateInv, OpenInv, StartInv, StoppedMeansQuiet,
             NoDescriptorLeak, At
    <3>4. CASE /\ \E f \in Fds : eventfd' = f /\ efd' = [efd EXCEPT ![f] = "quiet"]
               /\ call'[c].pc = "create"
      BY <2>1, <3>1, <3>2, <3>4
         DEF IInv, RunningInv, CreateInv, OpenInv, StartInv, StoppedMeansQuiet,
             NoDescriptorLeak, At, TypeOK
    <3> QED BY <1>3, <2>3, <3>3, <3>4, After DEF Start
  <2>4. eventfd > 0 => call'[c].pc = "idle" /\ UNCHANGED <<eventfd, efd>>
    BY <1>3, After DEF Start
  <2> QED BY <2>2, <2>3, <2>4
<1>4. CASE Create(c)
  <2>1. PICK t \in Tids : th[t] = "free" /\ thread' = t /\ th' = [th EXCEPT ![t] = "loop"]
    BY <1>4 DEF Create
  <2>2. eventfd \in Fds /\ InLoop = {} /\ ~stopped
    BY <1>4 DEF Create, IInv, CreateInv, StartInv, At
  <2>3. InLoop' = {t} /\ th'[t] = "loop"
    BY <2>1, <2>2 DEF InLoop, TypeOK
  <2>4. call'[c].pc \in {"join", "idle"} /\ UNCHANGED <<eventfd, efd, stopped>>
    BY <1>4, After DEF Create
  <2>5. efd[eventfd] # "closed"
    BY <1>4, <2>2 DEF Create, IInv, CreateInv, At
  <2>6. \A d \in Callers : call'[d].pc \notin {"start", "create"}
    BY <1>4, <2>4 DEF Create, OnlySignals, At
  <2> QED BY <2>1, <2>2, <2>3, <2>4, <2>5, <2>6
          DEF IInv, RunningInv, CreateInv, OpenInv, StartInv, StoppedMeansQuiet,
              NoDescriptorLeak, At
<1>5. CASE CreateFails(c)
  <2>1. InLoop = {} /\ ~stopped /\ eventfd \in Fds
    BY <1>5 DEF CreateFails, IInv, CreateInv, StartInv, At
  <2>2. InLoop' = {} /\ ~stopped' /\ eventfd' = -1 /\ call'[c].pc = "idle"
    BY <1>5, <2>1, After DEF CreateFails, InLoop
  <2>3. \A f \in Fds : efd'[f] = "closed"
    BY <1>5 DEF CreateFails, CloseFd, IInv, NoDescriptorLeak
  <2>4. \A d \in Callers : call'[d].pc \notin {"start", "create"}
    BY <1>5, <2>2 DEF CreateFails, OnlySignals, At
  <2> QED BY <2>2, <2>3, <2>4
          DEF IInv, RunningInv, CreateInv, OpenInv, StartInv, StoppedMeansQuiet,
              NoDescriptorLeak, At
<1>6. CASE Stop(c) \/ Join(c)
  <2>1. UNCHANGED <<eventfd, thread, efd, th>> /\ ~At(c, "create")
    BY <1>6 DEF Stop, Join, At
  <2>2. call'[c].pc \in {"write", "idle", "joining"}
    BY <1>6, After DEF Join
  <2>3. eventfd \notin Fds => InLoop = {}
    BY DEF IInv, RunningInv
  <2>4. stopped' = stopped \/ eventfd \notin Fds
    BY <1>6 DEF Stop, Join
  <2>5. \A d \in Callers : call'[d].pc \in {"start", "create"} => ~stopped'
    <3>1. CASE OnlySignals(c)
      <4>1. stopped' => stopped
        BY <1>6, <3>1 DEF Stop, Join, OnlySignals, At
      <4> QED BY <2>2, <4>1 DEF IInv, StartInv
    <3>2. CASE ~OnlySignals(c)
      BY <2>2, <3>2
    <3> QED BY <3>1, <3>2
  <2>6. \A d \in Callers : call'[d].pc = "create" <=> call[d].pc = "create"
    BY <2>1, <2>2 DEF At
  <2> QED BY <2>1, <2>2, <2>3, <2>4, <2>5, <2>6
          DEF IInv, RunningInv, CreateInv, OpenInv, StartInv, StoppedMeansQuiet,
              NoDescriptorLeak, InLoop, At
<1>7. CASE Write(c)
  <2>1. UNCHANGED <<eventfd, thread, th, stopped>> /\ ~At(c, "create")
    BY <1>7 DEF Write, At
  <2>2. call'[c].pc \in {"join", "idle"}
    BY <1>7, After DEF Write
  <2>3. \A f \in Fds : efd'[f] = "closed" <=> efd[f] = "closed"
    BY <1>7 DEF Write
  <2> QED BY <2>1, <2>2, <2>3
          DEF IInv, RunningInv, CreateInv, OpenInv, StartInv, StoppedMeansQuiet,
              NoDescriptorLeak, InLoop, At
<1>8. CASE Joined(c)
  <2>1. /\ thread \in Tids /\ th[thread] = "exited" /\ thread' = thread
        /\ th' = [th EXCEPT ![thread] = "free"]
        /\ call'[c].pc = "idle" /\ eventfd' = -1 /\ ~At(c, "create")
    BY <1>8, After DEF Joined, TypeOK, At
  <2>2. InLoop = {}
    BY <2>1 DEF IInv, RunningInv, InLoop
  <2>3. InLoop' = {}
    BY <2>1, <2>2 DEF InLoop, TypeOK
  <2>4. \A d \in Callers : /\ call[d].pc # "create"
                           /\ call'[d].pc \notin {"start", "create"}
    BY <1>8, <2>1 DEF Joined, OnlySignals, At
  <2>5. eventfd \notin Fds
    BY <2>2, <2>4 DEF IInv, OpenInv, At
  <2>6. \A f \in Fds : efd'[f] = "closed"
    BY <1>8, <2>5 DEF Joined, CloseFd, IInv, NoDescriptorLeak
  <2> QED BY <2>1, <2>3, <2>4, <2>6
          DEF IInv, RunningInv, CreateInv, OpenInv, StartInv, StoppedMeansQuiet,
              NoDescriptorLeak, At
<1> QED BY <1>1, <1>2, <1>3, <1>4, <1>5, <1>6, <1>7, <1>8 DEF Caller

\* A step of a manager thread.
LEMMA ThreadStep ==
  ASSUME IInv, TypeOK', NEW t \in Tids, Manager(t)
  PROVE  IInv'
<1> USE FdsAssumption
<1>a. TypeOK /\ \A f \in Fds : f \in Nat /\ f > 0 /\ f # -1
  BY DEF IInv
<1> USE <1>a
<1>1. CASE Select(t) \/ Manage(t)
  <2>1. /\ th[t] \in {"loop", "manage"} /\ th'[t] \in {"loop", "manage", "terminating"}
        /\ \A u \in Tids : u # t => th'[u] = th[u]
        /\ UNCHANGED <<eventfd, thread, efd, call, stopped>>
    BY <1>1 DEF Select, Manage, GotoT, TypeOK
  <2>2. InLoop' = InLoop
    BY <2>1 DEF InLoop
  <2>3. \A u \in Tids : th'[u] = "closed" <=> th[u] = "closed"
    BY <2>1
  <2>4. RunningInv'
    BY <2>1, <2>2, <2>3 DEF IInv, RunningInv, InLoop
  <2> QED BY <2>1, <2>2, <2>4
          DEF IInv, CreateInv, OpenInv, StartInv, StoppedMeansQuiet, NoDescriptorLeak, At
<1>2. CASE Close(t)
  <2>1. /\ th[t] = "terminating" /\ th' = [th EXCEPT ![t] = "closed"]
        /\ UNCHANGED <<eventfd, thread, call, stopped>>
    BY <1>2 DEF Close, GotoT
  <2>2. InLoop' = InLoop /\ th'[t] = "closed" /\ t \in InLoop
    BY <2>1 DEF InLoop, TypeOK
  <2>3. InLoop = {t} /\ thread = t /\ eventfd \in Fds
    BY <2>2 DEF IInv, RunningInv
  <2>4. efd'[eventfd] = "closed" /\ \A f \in Fds : efd'[f] # "closed" => efd[f] # "closed"
    BY <1>2, <2>3 DEF Close, CloseFd, TypeOK
  <2> QED BY <2>1, <2>2, <2>3, <2>4
          DEF IInv, RunningInv, CreateInv, OpenInv, StartInv, StoppedMeansQuiet,
              NoDescriptorLeak, At
<1>3. CASE Signify(t)
  <2>1. /\ th[t] = "closed" /\ th' = [th EXCEPT ![t] = "returning"] /\ eventfd' = -1
        /\ UNCHANGED <<thread, efd, call, stopped>>
    BY <1>3 DEF Signify, GotoT
  <2>2. t \in InLoop
    BY <2>1 DEF InLoop
  <2>3. InLoop = {t} /\ eventfd \in Fds /\ efd[eventfd] = "closed"
    BY <2>1, <2>2 DEF IInv, RunningInv
  <2>4. InLoop' = {}
    BY <2>1, <2>3 DEF InLoop, TypeOK
  <2>5. \A f \in Fds : efd[f] = "closed"
    BY <2>3 DEF IInv, NoDescriptorLeak
  <2>6. \A c \in Callers : ~At(c, "create")
    BY <2>3 DEF IInv, CreateInv
  <2> QED BY <2>1, <2>4, <2>5, <2>6
          DEF IInv, RunningInv, CreateInv, OpenInv, StartInv, StoppedMeansQuiet,
              NoDescriptorLeak, At
<1>4. CASE Exit(t)
  <2>1. /\ th[t] = "returning" /\ th' = [th EXCEPT ![t] = "exited"]
        /\ UNCHANGED <<eventfd, thread, efd, call, stopped>>
    BY <1>4 DEF Exit, GotoT
  <2>2. InLoop' = InLoop /\ \A u \in InLoop : th'[u] = th[u]
    BY <2>1 DEF InLoop, TypeOK
  <2> QED BY <2>1, <2>2
          DEF IInv, RunningInv, CreateInv, OpenInv, StartInv, StoppedMeansQuiet,
              NoDescriptorLeak, At
<1> QED BY <1>1, <1>2, <1>3, <1>4 DEF Manager

LEMMA InvStutters == IInv /\ UNCHANGED vars => IInv'
  BY DEF vars, IInv, TypeOK, RunningInv, CreateInv, OpenInv, StartInv, StoppedMeansQuiet,
         NoDescriptorLeak, InLoop, At

LEMMA InvStep == ASSUME OneCaller PROVE IInv /\ [Next]_vars => IInv'
<1> SUFFICES ASSUME IInv, [Next]_vars PROVE IInv'
    OBVIOUS
<1>1. TypeOK'
  BY TypeStep DEF IInv
<1>2. CASE Next
  BY <1>1, <1>2, CallerStep, ThreadStep DEF Next, OneCaller, StartsAlone
<1>3. CASE UNCHANGED vars
  BY <1>3, InvStutters
<1> QED BY <1>2, <1>3

LEMMA InitInv == Init => IInv
<1> SUFFICES ASSUME Init PROVE IInv
    OBVIOUS
<1>1. InLoop = {}
  BY DEF Init, InLoop
<1>2. 0 \notin Fds /\ eventfd = 0 /\ ~(eventfd > 0)
  BY FdsAssumption DEF Init
<1>3. \A c \in Callers : call[c].pc = "idle"
  BY IdleTyped DEF Init
<1> QED BY <1>1, <1>2, <1>3, InitTyped
        DEF Init, IInv, RunningInv, CreateInv, OpenInv, StartInv, StoppedMeansQuiet,
            NoDescriptorLeak, At

\* For one caller: the thread in its loop is the one control__.thread names and
\* owns the open descriptor, whatever starts, stops and joins were made.
THEOREM LifecycleInvariant == ASSUME OneCaller PROVE Spec => []IInv
<1>1. Init => IInv
  BY InitInv
<1>2. IInv /\ [Next]_vars => IInv'
  BY InvStep
<1> QED BY <1>1, <1>2, PTL DEF Spec

\* One caller never gets a second manager thread.
THEOREM AtMostOneManagerHolds == ASSUME OneCaller PROVE Spec => []AtMostOneManager
<1>1. IInv => AtMostOneManager
  BY DEF IInv, RunningInv, AtMostOneManager
<1> QED BY <1>1, LifecycleInvariant, PTL

\* After a blocking stop, or a join, no thread manages the platform.
THEOREM StoppedMeansQuietHolds == ASSUME OneCaller PROVE Spec => []StoppedMeansQuiet
<1>1. IInv => StoppedMeansQuiet
  BY DEF IInv
<1> QED BY <1>1, LifecycleInvariant, PTL

\* No sequence of calls, failing or not, loses a descriptor.
THEOREM NoDescriptorLeakHolds == ASSUME OneCaller PROVE Spec => []NoDescriptorLeak
<1>1. IInv => NoDescriptorLeak
  BY DEF IInv
<1> QED BY <1>1, LifecycleInvariant, PTL

-----------------------------------------------------------------------------
(* The lifecycle implements ManagerService.                                *)

\* While no descriptor is open, nothing runs and nobody was told anything.
LEMMA NothingOpen ==
  ASSUME IInv, eventfd \notin Fds
  PROVE  InLoop = {} /\ ~Told
  BY DEF IInv, RunningInv, Told

LEMMA ToldBoolean == Told \in BOOLEAN /\ Told' \in BOOLEAN
  BY Zenon DEF Told

LEMMA ToldKept ==
  ASSUME UNCHANGED <<eventfd, efd>>, InLoop' = InLoop,
         \A t \in Tids : \/ th'[t] = th[t]
                         \/ /\ th[t] \notin {"terminating", "closed"}
                            /\ th'[t] \notin {"terminating", "closed"}
  PROVE  Told' = Told
<1>1. Told' <=> Told
  <2>1. InLoop \subseteq Tids
    BY DEF InLoop
  <2> QED BY <2>1 DEF Told
<1> QED BY <1>1, ToldBoolean

\* A step of a caller is a start, a beginning, a request or a stop of the service, or
\* nothing it knows of.
LEMMA CallerServes ==
  ASSUME IInv, IInv', NEW c \in Callers, StartsAlone(c) \/ OnlySignals(c),
         \/ \E b \in BOOLEAN : CallStart(c, b) \/ CallStop(c, b)
         \/ CallJoin(c) \/ Caller(c)
  PROVE  [Service!Next]_(Service!vars)
<1> USE FdsAssumption, TidsAssumption DEF Service!Next, Service!vars
<1>a. TypeOK /\ \A f \in Fds : f \in Nat /\ f > 0 /\ f # -1
  BY DEF IInv
<1>b. eventfd > 0 <=> eventfd \in Fds
  BY <1>a DEF TypeOK, Handles
<1> USE <1>a, <1>b
<1>1. CASE \E b \in BOOLEAN : CallStart(c, b)
  BY <1>1 DEF CallStart, InLoop, Told, Service!Start
<1>2. CASE CallJoin(c) \/ \E b \in BOOLEAN : CallStop(c, b)
  BY <1>2 DEF CallJoin, CallStop, InLoop, Told
<1>3. CASE Start(c)
  <2>1. InLoop' = InLoop /\ stopped' = stopped
    BY <1>3 DEF Start, InLoop
  <2>2. CASE eventfd > 0
    <3>1. UNCHANGED <<eventfd, efd, th>>
      <4>1. eventfd \in Int
        BY DEF TypeOK, Handles
      <4>2. ~(eventfd <= 0)
        BY <2>2, <4>1
      <4> QED BY <1>3, <4>2, Zenon DEF Start
    <3>2. Told' = Told
      BY <2>1, <3>1, ToldKept
    <3> QED BY <2>1, <3>2
  <2>3. CASE ~(eventfd > 0)
    <3>1. InLoop = {} /\ ~Told
      BY <2>3, NothingOpen
    <3>2. ~Told'
      BY <1>3, <2>1, <2>3, <3>1 DEF Start, Told, TypeOK
    <3> QED BY <2>1, <3>1, <3>2, ToldBoolean
  <2> QED BY <2>2, <2>3
<1>4. CASE Create(c)
  <2>1. PICK t \in Tids : th[t] = "free" /\ th' = [th EXCEPT ![t] = "loop"]
    BY <1>4 DEF Create
  <2>2. InLoop = {} /\ ~stopped
    BY <1>4 DEF Create, IInv, CreateInv, StartInv, At
  <2>3. InLoop' = {t} /\ th'[t] = "loop"
    BY <2>1, <2>2 DEF InLoop, TypeOK
  <2>4. UNCHANGED <<eventfd, efd, stopped>>
    BY <1>4 DEF Create
  <2>5. Told' = Told
    BY <2>2, <2>3, <2>4 DEF Told
  <2>6. Service!Begin(t)
    BY <2>2, <2>3, <2>4, <2>5 DEF Service!Begin
  <2> QED BY <2>6
<1>5. CASE CreateFails(c)
  <2>1. InLoop = {} /\ InLoop' = {} /\ stopped' = stopped /\ eventfd' \notin Fds
    BY <1>5 DEF CreateFails, IInv, CreateInv, InLoop, At
  <2>2. Told' = FALSE
    BY <2>1 DEF Told
  <2> QED BY <2>1, <2>2 DEF Service!Fail
<1>6. CASE Stop(c) \/ Join(c)
  <2>1. UNCHANGED <<eventfd, efd, th>>
    BY <1>6 DEF Stop, Join
  <2>2. InLoop' = InLoop /\ Told' = Told
    BY <2>1 DEF InLoop, Told
  <2>3. CASE stopped' = stopped
    BY <2>2, <2>3
  <2>4. CASE stopped' # stopped
    <3>1. stopped' = TRUE /\ eventfd \notin Fds
      BY <1>6, <2>4 DEF Stop, Join, TypeOK
    <3> QED BY <2>2, <3>1, NothingOpen DEF Service!Stopped
  <2> QED BY <2>3, <2>4
<1>7. CASE Write(c)
  <2>1. UNCHANGED <<eventfd, th, stopped>> /\ InLoop' = InLoop
    BY <1>7 DEF Write, InLoop
  <2>2. CASE Told' = Told
    BY <2>1, <2>2
  <2>3. CASE Told' # Told
    <3>1. eventfd \in Fds
      BY <2>1, <2>3 DEF Told
    <3>2. efd[eventfd] = "signalled" => efd'[eventfd] = "signalled"
      BY <1>7, <3>1 DEF Write
    <3>3. ~stopped /\ Told' = TRUE
      BY <2>1, <2>3, <3>1, <3>2 DEF IInv, StoppedMeansQuiet, Told
    <3> QED BY <2>1, <3>3 DEF Service!Ask
  <2> QED BY <2>2, <2>3
<1>8. CASE Joined(c)
  <2>1. thread \in Tids /\ th[thread] = "exited" /\ th' = [th EXCEPT ![thread] = "free"]
    BY <1>8 DEF Joined, TypeOK
  <2>2. InLoop = {} /\ InLoop' = InLoop
    BY <2>1 DEF IInv, RunningInv, InLoop, TypeOK
  <2>3. \A d \in Callers : ~At(d, "create")
    BY <1>8 DEF Joined, StartsAlone, OnlySignals, At
  <2>4. eventfd \notin Fds
    BY <2>2, <2>3 DEF IInv, OpenInv
  <2>5. eventfd' \notin Fds /\ stopped' = TRUE
    BY <1>8 DEF Joined
  <2>6. ~Told /\ ~Told'
    BY <2>2, <2>4, <2>5 DEF Told
  <2> QED BY <2>2, <2>5, <2>6, ToldBoolean DEF Service!Stopped
<1> QED BY <1>1, <1>2, <1>3, <1>4, <1>5, <1>6, <1>7, <1>8 DEF Caller

\* A step of the thread is its end, or nothing the service knows of.
LEMMA ThreadServes ==
  ASSUME IInv, NEW t \in Tids, Manager(t)
  PROVE  [Service!Next]_(Service!vars)
<1> USE FdsAssumption DEF Service!Next, Service!vars
<1>a. TypeOK /\ \A f \in Fds : f \in Nat /\ f > 0 /\ f # -1
  BY DEF IInv
<1> USE <1>a
<1>1. CASE Select(t)
  <2>1. /\ th[t] = "loop" /\ UNCHANGED <<eventfd, efd, stopped>>
        /\ \A u \in Tids : u # t => th'[u] = th[u]
        /\ th'[t] \in {"manage", "terminating"}
        /\ th'[t] = "terminating" <=> eventfd \in Fds /\ efd[eventfd] = "signalled"
    BY <1>1 DEF Select, GotoT, TypeOK
  <2>2. InLoop' = InLoop /\ t \in InLoop
    BY <2>1 DEF InLoop
  <2>3. CASE th'[t] = "manage"
    BY <2>1, <2>2, <2>3, ToldKept
  <2>4. CASE th'[t] = "terminating"
    <3>1. Told /\ Told'
      BY <2>1, <2>2, <2>4 DEF Told
    <3> QED BY <2>1, <2>2, <3>1, ToldBoolean
  <2> QED BY <2>1, <2>3, <2>4
<1>2. CASE Manage(t) \/ Exit(t)
  <2>1. /\ UNCHANGED <<eventfd, efd, stopped>> /\ \A u \in Tids : u # t => th'[u] = th[u]
        /\ \/ th[t] = "manage" /\ th'[t] = "loop"
           \/ th[t] = "returning" /\ th'[t] = "exited"
    BY <1>2 DEF Manage, Exit, GotoT, TypeOK
  <2>2. InLoop' = InLoop
    BY <2>1 DEF InLoop
  <2>3. Told' = Told
    BY <2>1, <2>2, ToldKept
  <2> QED BY <2>1, <2>2, <2>3
<1>3. CASE Close(t)
  <2>1. th[t] = "terminating" /\ th' = [th EXCEPT ![t] = "closed"] /\ UNCHANGED stopped
    BY <1>3 DEF Close, GotoT
  <2>2. InLoop' = InLoop /\ t \in InLoop /\ th'[t] = "closed"
    BY <2>1 DEF InLoop, TypeOK
  <2>3. Told /\ Told'
    BY <2>1, <2>2 DEF Told
  <2> QED BY <2>1, <2>2, <2>3
<1>4. CASE Signify(t)
  <2>1. /\ th[t] = "closed" /\ th' = [th EXCEPT ![t] = "returning"]
        /\ eventfd' = -1 /\ UNCHANGED stopped
    BY <1>4 DEF Signify, GotoT
  <2>2. t \in InLoop /\ Told
    BY <2>1 DEF InLoop, Told
  <2>3. InLoop = {t}
    BY <2>2 DEF IInv, RunningInv
  <2>4. InLoop' = {}
    BY <2>1, <2>3 DEF InLoop, TypeOK
  <2>5. ~Told'
    BY <2>1, <2>4 DEF Told
  <2>6. Service!End(t)
    BY <2>1, <2>2, <2>3, <2>4, <2>5 DEF Service!End
  <2> QED BY <2>6
<1> QED BY <1>1, <1>2, <1>3, <1>4 DEF Manager

LEMMA ServiceInit == Init => Service!Init
<1> SUFFICES ASSUME Init PROVE Service!Init
    OBVIOUS
<1>1. InLoop = {} /\ eventfd \notin Fds
  BY FdsAssumption DEF Init, InLoop
<1> QED BY <1>1 DEF Init, Told, Service!Init

LEMMA ServiceStutters == UNCHANGED vars => UNCHANGED Service!vars
  BY DEF vars, Service!vars, InLoop, Told

LEMMA ServiceStep ==
  ASSUME OneCaller, IInv, [Next]_vars PROVE [Service!Next]_(Service!vars)
<1>1. IInv'
  BY InvStep
<1>2. \A c \in Callers : StartsAlone(c)
  BY DEF OneCaller, StartsAlone
<1> QED BY <1>1, <1>2, CallerServes, ThreadServes, ServiceStutters DEF Next

\* With one caller the lifecycle is the promised service, over a descriptor that is
\* closed and reused and a thread handle nobody locks.
THEOREM Refinement == ASSUME OneCaller PROVE Spec => ImplementsService
<1>1. IInv /\ [Next]_vars => [Service!Next]_(Service!vars)
  BY ServiceStep
<1> QED BY <1>1, ServiceInit, LifecycleInvariant, PTL DEF Spec, ImplementsService, Service!Spec

\* What the service forgets a request for: its thread's end, or that it has none.
LEMMA ServiceKeeps ==
  ASSUME [Service!Next]_(Service!vars) PROVE Told /\ ~Told' => InLoop' = {}
  BY DEF Service!Next, Service!vars, Service!Start, Service!Fail, Service!Ask,
         Service!Stopped, Service!Begin, Service!End

\* A stop request of the one caller reaches the thread that runs, or none is left.
THEOREM RequestKeptHolds == ASSUME OneCaller PROVE Spec => RequestKept
<1>1. IInv /\ [Next]_vars => [Told /\ ~Told' => InLoop' = {}]_vars
  BY ServiceStep, ServiceKeeps
<1> QED BY <1>1, LifecycleInvariant, PTL DEF Spec, RequestKept

-----------------------------------------------------------------------------
(* The daemon: the main thread and its signal handlers are the callers.    *)

\* Which steps of the manager a step of the daemon is.
LEMMA DaemonMoves ==
  ASSUME DaemonCallers, HandlerInv, [DNext]_dvars
  PROVE  \/ UNCHANGED vars
         \/ \E b \in BOOLEAN : CallStart(Main, b) \/ CallStop(Main, b)
         \/ Caller(Main)
         \/ \E h \in Hosts : Caller(Handler[h]) /\ OnlySignals(Handler[h])
         \/ \E h \in Hosts : Sigterm(h)
         \/ \E t \in Tids : Manager(t)
<1>1. ASSUME NEW h \in Hosts, Caller(Handler[h]) PROVE OnlySignals(Handler[h])
  BY <1>1 DEF Caller, Start, Create, CreateFails, Stop, Write, Join, Joined, At,
              HandlerInv, OnlySignals
<1> QED BY <1>1 DEF DNext, MainStep, Arm, CallsStart, CallsStop, Exits, HandlerStep,
                    SigtermKills, LocalStep, ManagerStep, dvars

\* A SIGTERM: the handler is about to call stop(0) on the thread it interrupts, and a
\* manager thread that waited in select() manages the platform.
LEMMA SigtermStep ==
  ASSUME DaemonCallers, TypeOK, NEW h \in Hosts, Sigterm(h)
  PROVE  /\ call' \in [Callers -> CallRecords]
         /\ call'[Handler[h]].pc = "stop" /\ ~call'[Handler[h]].block
         /\ \A c \in Callers : c # Handler[h] => call'[c] = call[c]
         /\ th' \in [Tids -> ThreadLocations]
         /\ \A t \in Tids : th'[t] = th[t] \/ (th[t] = "loop" /\ th'[t] = "manage")
         /\ UNCHANGED <<eventfd, thread, efd, stopped, dpc>>
<1>1. /\ [Idle EXCEPT !.pc = "stop"] \in CallRecords
      /\ [Idle EXCEPT !.pc = "stop"].pc = "stop" /\ ~[Idle EXCEPT !.pc = "stop"].block
  BY DEF Idle, CallRecords, CallLocations, Handles
<1>2. /\ call' \in [Callers -> CallRecords]
      /\ call'[Handler[h]] = [Idle EXCEPT !.pc = "stop"]
      /\ \A c \in Callers : c # Handler[h] => call'[c] = call[c]
  BY <1>1, CallTyped DEF Sigterm, DaemonCallers
<1>3. /\ th' \in [Tids -> ThreadLocations]
      /\ \A t \in Tids : th'[t] = th[t] \/ (th[t] = "loop" /\ th'[t] = "manage")
  <2>1. CASE h \in Tids /\ th[h] = "loop"
    <3>1. th' = [th EXCEPT ![h] = "manage"]
      BY <2>1 DEF Sigterm
    <3> QED BY <2>1, <3>1 DEF TypeOK, ThreadLocations
  <2>2. CASE ~(h \in Tids /\ th[h] = "loop")
    BY <2>2 DEF Sigterm, TypeOK
  <2> QED BY <2>1, <2>2
<1> QED BY <1>1, <1>2, <1>3 DEF Sigterm

LEMMA DTypeStep ==
  ASSUME DaemonCallers, HandlerInv PROVE DTypeOK /\ [DNext]_dvars => DTypeOK'
<1> SUFFICES ASSUME DTypeOK, [DNext]_dvars PROVE DTypeOK'
    OBVIOUS
<1> USE DEF DTypeOK
<1>1. TypeOK'
  <2>1. CASE \E h \in Hosts : Sigterm(h)
    <3>1. wanted' = FALSE /\ FALSE \in BOOLEAN
      BY <2>1, Zenon DEF Sigterm
    <3> QED BY <2>1, <3>1, SigtermStep DEF TypeOK, CallRecords
  <2>2. CASE ~ \E h \in Hosts : Sigterm(h)
    BY <2>2, DaemonMoves, TypeStep DEF Next, DaemonCallers
  <2> QED BY <2>1, <2>2
<1>2. (dpc \in {"boot", "armed", "blocked", "stopping", "exit"})'
  BY DEF DNext, MainStep, Arm, CallsStart, CallsStop, Exits, HandlerStep, SigtermKills,
         Sigterm, ManagerStep, LocalStep, dvars
<1>3. sent' = sent \/ (sent < MaxSigterms /\ sent' = sent + 1)
  BY DEF DNext, MainStep, Arm, CallsStart, CallsStop, Exits, HandlerStep, SigtermKills,
         Sigterm, ManagerStep, LocalStep, dvars
<1>4. (sent \in 0..MaxSigterms)'
  BY <1>3, MaxSigtermsAssumption
<1> QED BY <1>1, <1>2, <1>4

\* The manager's invariant survives the handler, though it is a second caller.
LEMMA DaemonKeepsInv ==
  ASSUME DaemonCallers, DInv, [DNext]_dvars PROVE IInv'
<1> USE DEF DaemonCallers
<1>1. IInv /\ TypeOK' /\ HandlerInv
  BY DTypeStep DEF DInv, DTypeOK
<1>2. StartsAlone(Main)
  BY <1>1 DEF StartsAlone, HandlerInv
<1>3. ASSUME NEW h \in Hosts, Sigterm(h) PROVE IInv'
  <2>1. call[Handler[h]].pc = "idle" /\ TypeOK
    BY <1>1, <1>3 DEF Sigterm, Interrupted, At, IInv
  <2>2. InLoop' = InLoop /\ \A t \in Tids : th'[t] = "closed" <=> th[t] = "closed"
    BY <1>3, <2>1, SigtermStep DEF InLoop
  <2>3. \A c \in Callers : /\ (At(c, "create"))' <=> At(c, "create")
                           /\ call'[c].pc = "start" <=> call[c].pc = "start"
    BY <1>3, <2>1, SigtermStep DEF At
  <2>4. UNCHANGED <<eventfd, thread, efd, stopped>>
    BY <1>3, <2>1, SigtermStep
  <2>5. RunningInv'
    BY <1>1, <2>2, <2>4 DEF IInv, RunningInv, InLoop
  <2> QED BY <1>1, <2>2, <2>3, <2>4, <2>5
          DEF IInv, CreateInv, OpenInv, StartInv, StoppedMeansQuiet, NoDescriptorLeak, At
<1> QED BY <1>1, <1>2, <1>3, DaemonMoves, CallerStep, ThreadStep, InvStutters

\* Where a blocking call of the main thread goes, and what it leaves of control__.
LEMMA MainMoves ==
  ASSUME TypeOK, Main \in Callers, Caller(Main), call[Main].block
  PROVE  LET now == call[Main].pc
             then == call'[Main].pc
         IN /\ now # "idle" /\ (then # "idle" => call'[Main].block)
            /\ \/ now = "start" /\ then \in {"idle", "create"} /\ thread' = thread
               \/ now = "create" /\ then = "idle" /\ thread' = thread
               \/ now = "create" /\ then = "join" /\ Create(Main)
               \/ now = "stop" /\ then = "idle" /\ stopped' /\ thread' = thread
               \/ now = "stop" /\ then = "write" /\ eventfd > 0 /\ thread' = thread
               \/ now = "write" /\ then = "join" /\ thread' = thread
               \/ now = "join" /\ then = "joining" /\ thread' = thread
               \/ now = "join" /\ then = "idle" /\ stopped' /\ thread' = thread /\ eventfd <= 0
               \/ now = "joining" /\ then = "idle" /\ stopped' /\ thread' = thread /\ Joined(Main)
<1> USE DEF At
<1>1. CASE Start(Main)
  <2>1. CASE Return(Main)
    BY <1>1, <2>1, After DEF Start
  <2>2. CASE Move(Main, "create")
    BY <1>1, <2>2, MoveTyped DEF Start, CallLocations
  <2> QED BY <1>1, <2>1, <2>2 DEF Start
<1>2. CASE Create(Main)
  BY <1>2, MoveTyped DEF Create, CallLocations
<1>3. CASE CreateFails(Main)
  BY <1>3, After DEF CreateFails
<1>4. CASE Stop(Main)
  <2>1. CASE eventfd > 0
    BY <1>4, <2>1 DEF Stop, TypeOK
  <2>2. CASE ~(eventfd > 0)
    BY <1>4, <2>2, After DEF Stop
  <2> QED BY <2>1, <2>2
<1>5. CASE Write(Main)
  BY <1>5, MoveTyped DEF Write, CallLocations
<1>6. CASE Join(Main)
  <2>1. CASE eventfd > 0
    BY <1>6, <2>1, MoveTyped DEF Join, CallLocations
  <2>2. CASE ~(eventfd > 0)
    BY <1>6, <2>2, After DEF Join, TypeOK, Handles
  <2> QED BY <2>1, <2>2
<1>7. CASE Joined(Main)
  BY <1>7, After DEF Joined
<1> QED BY <1>1, <1>2, <1>3, <1>4, <1>5, <1>6, <1>7 DEF Caller

\* A handler's stop(0): it tests, writes and returns, and changes no more of the
\* manager than the eventfd's state.
LEMMA HandlerMoves ==
  ASSUME TypeOK, NEW g \in Callers, Caller(g), OnlySignals(g)
  PROVE  /\ call'[g].pc \in {"idle", "write"} /\ ~call'[g].block
         /\ \A c \in Callers : c # g => call'[c] = call[c]
         /\ UNCHANGED <<eventfd, thread, th>> /\ (stopped => stopped')
<1> USE DEF At, OnlySignals
<1>0. ~Idle.block
  BY DEF Idle
<1>1. Stop(g) \/ Write(g)
  BY DEF Caller, Start, Create, CreateFails, Join, Joined
<1>2. CASE Return(g)
  <2>1. /\ call'[g] = Idle
        /\ \A c \in Callers : c # g => call'[c] = call[c]
    BY <1>2, CallTyped, IdleTyped DEF Return
  <2>2. UNCHANGED <<eventfd, thread, th>>
    BY <1>1 DEF Stop, Write
  <2>3. stopped => stopped'
    <3>1. CASE Stop(g)
      BY <3>1, Zenon DEF Stop
    <3>2. CASE Write(g)
      BY <3>2 DEF Write
    <3> QED BY <1>1, <3>1, <3>2
  <2> QED BY <1>0, <2>1, <2>2, <2>3, IdleTyped
<1>3. CASE Stop(g) /\ eventfd > 0
  BY <1>3 DEF Stop, TypeOK
<1> QED BY <1>1, <1>2, <1>3 DEF Stop, Write

LEMMA HandlerInvStep ==
  ASSUME DaemonCallers, DInv, [DNext]_dvars PROVE HandlerInv'
<1>1. /\ TypeOK /\ HandlerInv /\ Main \in Callers
      /\ \A h \in Hosts : Handler[h] \in Callers /\ Handler[h] # Main
  BY DEF DInv, IInv, DaemonCallers
<1> SUFFICES ASSUME NEW g \in Hosts
             PROVE  call'[Handler[g]].pc \in {"idle", "stop", "write"} /\ ~call'[Handler[g]].block
  BY DEF HandlerInv
<1>2. CASE \/ \E b \in BOOLEAN : CallStart(Main, b) \/ CallStop(Main, b)
           \/ Caller(Main)
  BY <1>1, <1>2, CallStep DEF HandlerInv
<1>3. CASE \E h \in Hosts : Caller(Handler[h]) /\ OnlySignals(Handler[h])
  BY <1>1, <1>3, HandlerMoves DEF HandlerInv
<1>4. CASE \E h \in Hosts : Sigterm(h)
  BY <1>1, <1>4, SigtermStep DEF HandlerInv
<1>5. CASE UNCHANGED call
  BY <1>1, <1>5 DEF HandlerInv
<1>6. UNCHANGED vars \/ (\E t \in Tids : Manager(t)) => UNCHANGED call
  BY DEF vars, Manager, Select, Manage, Close, Signify, Exit
<1> QED BY <1>1, <1>2, <1>3, <1>4, <1>5, <1>6, DaemonMoves

LEMMA MainInvStep ==
  ASSUME DaemonCallers, DInv, [DNext]_dvars PROVE MainInv'
<1> USE DEF MainInv, At
<1>1. /\ TypeOK /\ HandlerInv /\ MainInv /\ DTypeOK
      /\ Main \in Callers /\ \A h \in Hosts : Handler[h] \in Callers /\ Handler[h] # Main
  BY DEF DInv, IInv, DaemonCallers
<1> USE <1>1
<1>2. CASE Arm \/ Exits \/ SigtermKills
  BY <1>2 DEF Arm, Exits, SigtermKills, LocalStep, vars
<1>3. CASE CallsStart
  <2>1. call'[Main].pc = "start" /\ call'[Main].block
    BY <1>3 DEF CallsStart, CallStart, TypeOK, Idle
  <2> QED BY <1>3, <2>1 DEF CallsStart, CallStart
<1>4. CASE CallsStop
  <2>1. call'[Main].pc = "stop" /\ call'[Main].block
    BY <1>4 DEF CallsStop, CallStop, TypeOK, Idle
  <2> QED BY <1>4, <2>1 DEF CallsStop, CallStop
<1>5. CASE Caller(Main) /\ UNCHANGED dpc
  <2>1. call[Main].pc # "idle" /\ call[Main].block
    BY <1>5 DEF Caller, Start, Create, CreateFails, Stop, Write, Join, Joined
  <2>2. dpc \in {"blocked", "stopping"}
    BY <2>1 DEF DTypeOK
  <2> QED BY <1>5, <2>1, <2>2, MainMoves
<1>6. ASSUME NEW h \in Hosts, Caller(Handler[h]), UNCHANGED dpc PROVE MainInv'
  <2>1. OnlySignals(Handler[h])
    BY <1>6 DEF Caller, Start, Create, CreateFails, Stop, Write, Join, Joined,
                HandlerInv, OnlySignals
  <2>2. /\ call'[Main] = call[Main] /\ UNCHANGED <<eventfd, thread, th>>
        /\ stopped => stopped'
    BY <1>6, <2>1, HandlerMoves
  <2> QED BY <1>6, <2>2
<1>7. CASE \E h \in Hosts : Sigterm(h)
  BY <1>7, SigtermStep
<1>8. CASE UNCHANGED <<call, thread, stopped, dpc>>
  BY <1>8
<1>9. UNCHANGED dvars \/ (\E t \in Tids : ManagerStep(t)) => UNCHANGED <<call, thread, stopped, dpc>>
  BY DEF dvars, vars, ManagerStep, Manager, Select, Manage, Close, Signify, Exit
<1> QED BY <1>2, <1>3, <1>4, <1>5, <1>6, <1>7, <1>8, <1>9 DEF DNext, MainStep, HandlerStep

\* Before any SIGTERM: no step of the main thread or of the manager writes a stop
\* request, so the manager's thread goes round and the main thread waits.
LEMMA UntoldStep ==
  ASSUME DaemonCallers, DInv, [DNext]_dvars PROVE UntoldInv'
<1> USE TidsAssumption DEF At
<1>1. /\ TypeOK /\ HandlerInv /\ MainInv /\ DTypeOK /\ UntoldInv /\ IInv
      /\ Main \in Callers /\ \A h \in Hosts : Handler[h] \in Callers /\ Handler[h] # Main
      /\ sent \in Nat
  BY MaxSigtermsAssumption DEF DInv, IInv, DaemonCallers, DTypeOK
<1>2. \A f \in Fds : f \in Nat /\ f > 0
  BY FdsAssumption
<1> USE <1>1, <1>2
<1>a. sent' = sent \/ sent' = sent + 1
  BY DEF DNext, MainStep, Arm, CallsStart, CallsStop, Exits, HandlerStep, SigtermKills,
         Sigterm, ManagerStep, LocalStep, dvars
<1> SUFFICES ASSUME sent = 0, sent' = 0 PROVE UntoldInv'
  BY <1>a DEF UntoldInv
<1>3. /\ \A h \in Hosts : call[Handler[h]].pc = "idle"
      /\ call[Main].pc # "write"
      /\ \A f \in Fds : efd[f] # "signalled"
      /\ thread # NoThread => /\ call[Main].pc \in {"join", "joining"} /\ dpc = "blocked"
                              /\ thread \in Tids /\ th[thread] \in {"loop", "manage"}
                              /\ thread \in InLoop /\ eventfd \in Fds
  BY DEF UntoldInv, Interrupted, TypeOK, IInv, RunningInv, InLoop
<1>4. CASE UNCHANGED vars /\ (dpc' = dpc \/ Arm \/ Exits)
  BY <1>3, <1>4 DEF UntoldInv, Interrupted, vars, Arm, Exits
<1>5. CASE CallsStart \/ CallsStop
  <2>1. thread = NoThread
    BY <1>3, <1>5 DEF CallsStart, CallsStop, CallStart, CallStop, MainInv
  <2>2. call'[Main].pc \in {"start", "stop"}
    BY <1>5, After DEF CallsStart, CallsStop
  <2>3. \A h \in Hosts : call'[Handler[h]] = call[Handler[h]]
    BY <1>5, CallStep DEF CallsStart, CallsStop
  <2> QED BY <1>3, <1>5, <2>1, <2>2, <2>3
          DEF UntoldInv, Interrupted, CallsStart, CallsStop, CallStart, CallStop
<1>6. CASE Caller(Main) /\ UNCHANGED dpc
  <2>1. call[Main].pc # "idle" /\ call[Main].block
    BY <1>6 DEF Caller, Start, Create, CreateFails, Stop, Write, Join, Joined, MainInv
  <2>2. \A h \in Hosts : call'[Handler[h]] = call[Handler[h]]
    BY <1>6, CallStep
  <2>3. \A f \in Fds : efd'[f] # "signalled"
    <3>1. CASE Start(Main)
      BY <1>3, <3>1 DEF Start, TypeOK
    <3>2. CASE ~Start(Main)
      BY <1>3, <1>6, <3>2 DEF Caller, Create, CreateFails, Stop, Write, Join, Joined, CloseFd
    <3> QED BY <3>1, <3>2
  <2>4. ~(call[Main].pc = "stop" /\ eventfd > 0)
    <3> SUFFICES ASSUME call[Main].pc = "stop", eventfd > 0 PROVE FALSE
        OBVIOUS
    <3>1. eventfd \in Fds /\ \A c \in Callers : call[c].pc # "create"
      BY <1>3 DEF TypeOK, Handles, DaemonCallers
    <3>2. PICK t \in Tids : t \in InLoop
      BY <3>1 DEF IInv, OpenInv, InLoop
    <3>3. thread = t
      BY <3>2 DEF IInv, RunningInv
    <3> QED BY <1>3, <3>3
  <2>5. CASE Create(Main) /\ call'[Main].pc = "join"
    <3>1. PICK t \in Tids : thread' = t /\ th' = [th EXCEPT ![t] = "loop"]
      BY <2>5 DEF Create
    <3>2. dpc = "blocked" /\ th'[t] = "loop"
      BY <2>5, <3>1 DEF Create, MainInv, DTypeOK, TypeOK
    <3> QED BY <1>3, <1>6, <2>2, <2>3, <2>5, <3>1, <3>2 DEF UntoldInv, Interrupted
  <2>6. CASE call[Main].pc \in {"start", "create", "stop"} /\ thread' = thread
    <3>1. thread = NoThread /\ call'[Main].pc # "write"
      BY <1>3, <1>6, <2>1, <2>4, <2>6, MainMoves
    <3> QED BY <1>3, <2>2, <2>3, <2>6, <3>1 DEF UntoldInv, Interrupted
  <2>7. CASE Join(Main)
    <3>1. /\ UNCHANGED <<thread, th>> /\ call[Main].pc = "join"
          /\ eventfd > 0 => call'[Main].pc = "joining"
      BY <2>7, MoveTyped DEF Join, CallLocations
    <3>2. call'[Main].pc # "write"
      BY <1>6, <2>1, <3>1, MainMoves
    <3> QED BY <1>3, <1>6, <2>2, <2>3, <3>1, <3>2 DEF UntoldInv, Interrupted
  <2>8. ~Joined(Main)
    BY <1>3 DEF Joined
  <2>9. CASE call[Main].pc \in {"start", "create", "stop"}
    <3>1. thread' = thread \/ (Create(Main) /\ call'[Main].pc = "join")
      BY <1>6, <2>1, <2>9, MainMoves
    <3> QED BY <2>5, <2>6, <2>9, <3>1
  <2>10. CASE call[Main].pc \notin {"start", "create", "stop"}
    BY <1>3, <1>6, <2>7, <2>8, <2>10 DEF Caller, Start, Create, CreateFails, Stop, Write
  <2> QED BY <2>9, <2>10
<1>7. CASE \E t \in Tids : Manager(t) /\ UNCHANGED dpc
  <2>1. PICK t \in Tids : Manager(t) /\ UNCHANGED dpc
    BY <1>7
  <2>2. UNCHANGED <<thread, call>> /\ \A f \in Fds : efd'[f] # "signalled"
    BY <1>3, <2>1 DEF Manager, Select, Manage, Close, Signify, Exit, CloseFd
  <2>3. thread # NoThread => th'[thread] \in {"loop", "manage"}
    BY <1>3, <2>1 DEF Manager, Select, Manage, Close, Signify, Exit, GotoT, TypeOK
  <2> QED BY <1>3, <2>1, <2>2, <2>3 DEF UntoldInv, Interrupted
<1>8. ~SigtermKills /\ \A h \in Hosts : ~Caller(Handler[h]) /\ ~Sigterm(h)
  BY <1>3 DEF Caller, Start, Create, CreateFails, Stop, Write, Join, Joined, SigtermKills, Sigterm
<1> QED BY <1>4, <1>5, <1>6, <1>7, <1>8
        DEF DNext, MainStep, Arm, Exits, LocalStep, HandlerStep, ManagerStep, dvars

LEMMA DInitInv == ASSUME DaemonCallers PROVE DInit => DInv
<1> SUFFICES ASSUME DInit PROVE DInv
    OBVIOUS
<1> USE DEF DInit
<1>1. TypeOK /\ IInv /\ DTypeOK
  BY InitInv, InitTyped, MaxSigtermsAssumption DEF DTypeOK
<1>2. /\ call[Main] = Idle /\ \A h \in Hosts : call[Handler[h]] = Idle
      /\ Idle.pc = "idle" /\ ~Idle.block
      /\ thread = NoThread /\ \A f \in Fds : efd[f] = "closed"
  BY DEF Init, DaemonCallers, Idle
<1> QED BY <1>1, <1>2
        DEF DInv, HandlerInv, MainInv, UntoldInv, Interrupted, At

LEMMA DInvStep == ASSUME DaemonCallers PROVE DInv /\ [DNext]_dvars => DInv'
<1> SUFFICES ASSUME DInv, [DNext]_dvars PROVE DInv'
    OBVIOUS
<1>1. DTypeOK'
  BY DTypeStep DEF DInv
<1> QED BY <1>1, DaemonKeepsInv, HandlerInvStep, MainInvStep, UntoldStep DEF DInv

\* The manager's invariant with signal handlers as further callers, and the daemon's
\* own: any number of signals, on any thread, at any moment, and handlers that run on
\* several threads at a time.
THEOREM DaemonInvariant == ASSUME DaemonCallers PROVE DSpec => []DInv
  BY DInitInv, DInvStep, PTL DEF DSpec

\* Type correctness of the daemon.
THEOREM DaemonTypeCorrect == ASSUME DaemonCallers PROVE DSpec => []DTypeOK
<1>1. DInv => DTypeOK
  BY DEF DInv
<1> QED BY <1>1, DaemonInvariant, PTL

\* In the daemon, too, there is one manager thread at most, no descriptor is lost and a
\* blocking stop that returned has left nothing running, whatever the handlers interrupt.
THEOREM DaemonLifecycle ==
  ASSUME DaemonCallers
  PROVE  DSpec => [](AtMostOneManager /\ NoDescriptorLeak /\ StoppedMeansQuiet)
<1>1. DInv => AtMostOneManager /\ NoDescriptorLeak /\ StoppedMeansQuiet
  BY DEF DInv, IInv, RunningInv, AtMostOneManager
<1> QED BY <1>1, DaemonInvariant, PTL

LEMMA DaemonServiceStep ==
  ASSUME DaemonCallers, DInv, [DNext]_dvars PROVE [Service!Next]_(Service!vars)
<1>1. /\ IInv /\ IInv' /\ TypeOK /\ HandlerInv /\ Main \in Callers
      /\ \A h \in Hosts : Handler[h] \in Callers
  BY DaemonKeepsInv DEF DInv, IInv, DaemonCallers
<1>2. StartsAlone(Main)
  BY <1>1 DEF StartsAlone, HandlerInv, DaemonCallers
<1>3. ASSUME NEW h \in Hosts, Sigterm(h) PROVE UNCHANGED Service!vars
  <2>1. /\ UNCHANGED <<eventfd, efd, stopped>>
        /\ \A t \in Tids : th'[t] = th[t] \/ (th[t] = "loop" /\ th'[t] = "manage")
    BY <1>1, <1>3, SigtermStep
  <2>2. InLoop' = InLoop
    BY <2>1 DEF InLoop
  <2>3. Told' = Told
    BY <2>1, <2>2, ToldKept
  <2> QED BY <2>1, <2>2, <2>3 DEF Service!vars
<1> QED BY <1>1, <1>2, <1>3, DaemonMoves, CallerServes, ThreadServes, ServiceStutters

\* A handler's stop(0), on any thread, at any step and beside another's, is one more
\* request to the service: the daemon, too, has the promised manager.
THEOREM DaemonRefinement == ASSUME DaemonCallers PROVE DSpec => ImplementsService
<1>1. DInv /\ [DNext]_dvars => [Service!Next]_(Service!vars)
  BY DaemonServiceStep
<1>2. DInit => Service!Init
  BY ServiceInit DEF DInit
<1> QED BY <1>1, <1>2, DaemonInvariant, PTL DEF DSpec, ImplementsService, Service!Spec

\* No SIGTERM that found the manager running is lost, wherever its handler ran and
\* whatever handlers ran at the same time.
THEOREM DaemonRequestKept == ASSUME DaemonCallers PROVE DSpec => RequestKept
<1>1. DInv /\ [DNext]_dvars => [Told /\ ~Told' => InLoop' = {}]_vars
  BY DaemonServiceStep, ServiceKeeps
<1> QED BY <1>1, DaemonInvariant, PTL DEF DSpec, RequestKept

\* Without a SIGTERM the daemon exits only if the manager could not be started.
THEOREM ExitsOnlyWhenToldHolds == ASSUME DaemonCallers PROVE DSpec => []ExitsOnlyWhenTold
<1>1. DInv => ExitsOnlyWhenTold
  BY DEF DInv, UntoldInv, ExitsOnlyWhenTold
<1> QED BY <1>1, DaemonInvariant, PTL

\* exit(0) finds no manager thread at work on the platform.
THEOREM ExitsQuietlyHolds == ASSUME DaemonCallers PROVE DSpec => ExitsQuietly
<1>1. DInv /\ [DNext]_dvars => [Exits => InLoop = {}]_dvars
  BY DEF DInv, MainInv, IInv, StoppedMeansQuiet, Exits
<1> QED BY <1>1, DaemonInvariant, PTL DEF DSpec, ExitsQuietly
=============================================================================
