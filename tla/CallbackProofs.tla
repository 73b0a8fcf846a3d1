--------------------------- MODULE CallbackProofs ---------------------------
(***************************************************************************)
(* The manager thread's callbacks: two of them tell the log which units    *)
(* are present and which have failed, for any units and statuses           *)
(* (StatusNotify); each is started in time, for any rates that leave time  *)
(* for it (ManageNow).                                                     *)
(***************************************************************************)
EXTENDS StatusNotify, ManageNow, FiniteSetTheorems, TLAPS

\* The messages of one visit, as Visit collects them.
VisitMessages(u) ==
  (IF flag[u] THEN {} ELSE Initial(u, status[u])) \cup Changes(u, table[u], status[u])

\* Nothing is recorded or believed of a unit before its first visit.
UnvisitedInv == \A u \in Units : ~flag[u] => table[u] = {} /\ belief[u] = {}

IInv == TypeOK /\ UnvisitedInv /\ LogTellsPresence /\ LogTellsFailure

LEMMA Typed == \A u \in Units : Statuses(u) \subseteq SUBSET Flags
  BY StatusesAssumption DEF Units, Statuses

\* What a reader of a visit's messages takes the unit to be.
LEMMA Concluded ==
  ASSUME NEW u \in Units
  PROVE  LET Heard(m) == \/ m \in Changes(u, table[u], status[u])
                         \/ ~flag[u] /\ m \in Initial(u, status[u])
         IN /\ "PRESENT" \in Conclude(u, VisitMessages(u))
                 <=> \/ Heard("inserted")
                     \/ /\ "PRESENT" \in belief[u]
                        /\ ~Heard("removed") /\ ~Heard("not present")
            /\ "FAILED" \in Conclude(u, VisitMessages(u))
                 <=> Heard("failed") \/ ("FAILED" \in belief[u] /\ ~Heard("recovered"))
            /\ "DEFECTIVE" \in Conclude(u, VisitMessages(u))
                 <=> \/ Heard("failed")
                     \/ /\ "DEFECTIVE" \in belief[u] /\ ~Heard("recovered")
                        /\ ~Heard("removed") /\ ~Heard("inserted")
  BY DEF Conclude, VisitMessages, Flags, Beliefs

\* After a visit the log tells what the visit has recorded.
LEMMA VisitTells ==
  ASSUME IInv, NEW u \in Units,
         table'[u] = status[u], belief'[u] = Conclude(u, VisitMessages(u))
  PROVE  TellsPresence(u, table[u])' /\ TellsFailure(u, table[u])'
<1>1. /\ ~flag[u] => table[u] = {} /\ belief[u] = {}
      /\ TellsPresence(u, table[u]) /\ TellsFailure(u, table[u])
  BY DEF IInv, UnvisitedInv, LogTellsPresence, LogTellsFailure
<1>2. TellsPresence(u, table[u])'
  BY <1>1, Concluded DEF Changes, Initial, TellsPresence
<1>3. "FAILED" \in status[u] => "FAILED" \in belief'[u]
  BY <1>1, Concluded DEF Changes, Initial, TellsFailure
<1>4. "DEFECTIVE" \in belief'[u] /\ "PRESENT" \in status[u] => "FAILED" \in status[u]
  BY <1>1, Concluded DEF Changes, Initial, TellsFailure
<1>5. u \in Fans => ("FAILED" \in belief'[u] <=> "FAILED" \in status[u])
  BY <1>1, UnitsAssumption, Concluded DEF Changes, Initial, TellsFailure
<1> QED BY <1>2, <1>3, <1>4, <1>5 DEF TellsFailure

LEMMA ConcludeTyped ==
  ASSUME NEW u \in Units PROVE Conclude(u, VisitMessages(u)) \in SUBSET Beliefs
  BY DEF Conclude

LEMMA TypeStep == TypeOK /\ UnvisitedInv /\ [Next]_vars => TypeOK' /\ UnvisitedInv'
<1> SUFFICES ASSUME TypeOK, UnvisitedInv, [Next]_vars PROVE TypeOK' /\ UnvisitedInv'
    OBVIOUS
<1>1. ASSUME NEW u \in Units, Change(u) PROVE TypeOK' /\ UnvisitedInv'
  BY <1>1, Typed DEF Change, TypeOK, UnvisitedInv
<1>2. ASSUME NEW u \in Units, Visit(u) PROVE TypeOK' /\ UnvisitedInv'
  <2>1. /\ table' = [table EXCEPT ![u] = status[u]]
        /\ flag' = [flag EXCEPT ![u] = TRUE]
        /\ belief' = [belief EXCEPT ![u] = Conclude(u, VisitMessages(u))]
        /\ todo' = todo \ {u} /\ UNCHANGED <<status, loaded>>
    BY <1>2 DEF Visit, VisitMessages
  <2>2. status[u] \in SUBSET Flags
    BY DEF TypeOK
  <2>3. TRUE \in BOOLEAN /\ flag' \in [Units -> BOOLEAN]
    BY <2>1, Zenon DEF TypeOK
  <2>4. TypeOK'
    BY <2>1, <2>2, <2>3, ConcludeTyped DEF TypeOK
  <2>5. flag'[u] /\ \A v \in Units : v # u => flag'[v] = flag[v]
    BY <2>1 DEF TypeOK
  <2>6. UnvisitedInv'
    BY <2>1, <2>5 DEF TypeOK, UnvisitedInv
  <2> QED BY <2>4, <2>6
<1>3. ASSUME NEW u \in Units, ReadFails(u) PROVE TypeOK' /\ UnvisitedInv'
  BY <1>3 DEF ReadFails, TypeOK, UnvisitedInv
<1>4. ASSUME NEW kind \in {"psu", "fan"}, NEW units \in SUBSET Units, Pass(kind, units)
      PROVE  TypeOK' /\ UnvisitedInv'
  BY <1>4 DEF Pass, TypeOK, UnvisitedInv
<1>5. CASE UNCHANGED vars
  BY <1>5 DEF vars, TypeOK, UnvisitedInv
<1>6. Psus \in SUBSET Units /\ Fans \in SUBSET Units
  BY DEF Units
<1> QED BY <1>1, <1>2, <1>3, <1>4, <1>5, <1>6 DEF Next, PassFails

\* Init, whatever the units report at first.
LEMMA InitInv == Init => IInv
<1> SUFFICES ASSUME Init PROVE IInv
    OBVIOUS
<1>1. flag \in [Units -> BOOLEAN] /\ \A u \in Units : ~flag[u]
  BY Zenon DEF Init
<1>2. TypeOK
  BY <1>1 DEF Init, TypeOK
<1>3. UnvisitedInv
  BY <1>1 DEF Init, UnvisitedInv
<1> QED BY <1>2, <1>3 DEF Init, IInv, LogTellsPresence, LogTellsFailure, TellsPresence,
                          TellsFailure

\* Type correctness of tables, pass and log.
THEOREM TypeCorrect == Spec => []TypeOK
<1>1. Init => TypeOK /\ UnvisitedInv
  BY InitInv DEF IInv
<1> QED BY <1>1, TypeStep, PTL DEF Spec

\* The log follows the recorded status through every visit, failed read and
\* change of the hardware.
THEOREM LogInvariant == Spec => []IInv
<1>1. IInv /\ [Next]_vars => IInv'
  <2> SUFFICES ASSUME IInv, [Next]_vars PROVE IInv'
      OBVIOUS
  <2>1. TypeOK' /\ UnvisitedInv'
    BY TypeStep DEF IInv
  <2>2. ASSUME NEW u \in Units, Visit(u)
        PROVE  LogTellsPresence' /\ LogTellsFailure'
    <3>1. /\ table' = [table EXCEPT ![u] = status[u]]
          /\ belief' = [belief EXCEPT ![u] = Conclude(u, VisitMessages(u))]
      BY <2>2 DEF Visit, VisitMessages
    <3>2. table'[u] = status[u] /\ belief'[u] = Conclude(u, VisitMessages(u))
      BY <3>1 DEF IInv, TypeOK
    <3>3. ASSUME NEW v \in Units, v # u
          PROVE  TellsPresence(v, table[v])' /\ TellsFailure(v, table[v])'
      <4>1. table'[v] = table[v] /\ belief'[v] = belief[v]
        BY <3>1, <3>3 DEF IInv, TypeOK
      <4>2. TellsPresence(v, table[v]) /\ TellsFailure(v, table[v])
        BY DEF IInv, LogTellsPresence, LogTellsFailure
      <4> QED BY <4>1, <4>2 DEF TellsPresence, TellsFailure
    <3> QED BY <3>2, <3>3, VisitTells DEF LogTellsPresence, LogTellsFailure
  <2>3. CASE UNCHANGED <<table, belief>>
    BY <2>1, <2>3 DEF IInv, LogTellsPresence, LogTellsFailure, TellsPresence, TellsFailure
  <2> QED BY <2>1, <2>2, <2>3 DEF IInv, Next, Change, ReadFails, Pass, PassFails, vars
<1> QED BY <1>1, InitInv, PTL DEF Spec

\* A reader of the log knows which units are present.
THEOREM LogTellsPresenceHolds == Spec => []LogTellsPresence
<1>1. IInv => LogTellsPresence
  BY DEF IInv
<1> QED BY <1>1, LogInvariant, PTL

\* No failure is left untold and no working unit taken to be defective, whatever the
\* drivers report of absent units.
THEOREM LogTellsFailureHolds == Spec => []LogTellsFailure
<1>1. IInv => LogTellsFailure
  BY DEF IInv
<1> QED BY <1>1, LogInvariant, PTL

-----------------------------------------------------------------------------
(* ManageNow                                                               *)

LEMMA MaxOfTwo ==
  ASSUME NEW a \in Int, NEW b \in Int
  PROVE  Max({a, b}) = IF a >= b THEN a ELSE b
<1> DEFINE m == IF a >= b THEN a ELSE b
<1>1. m \in {a, b} /\ \A y \in {a, b} : m >= y
  OBVIOUS
<1>2. \A x \in {a, b} : (\A y \in {a, b} : x >= y) => x = m
  OBVIOUS
<1> QED BY <1>1, <1>2 DEF Max

\* What d ticks do to the deadlines.
LEMMA AfterTicks ==
  ASSUME TimerTypeOK, NEW d \in Nat
  PROVE  /\ After(d) \in [Entries -> Int]
         /\ \A e \in Entries : /\ After(d)[e] \in -MaxLate..Rate[e]
                               /\ left[e] - d >= -MaxLate => After(d)[e] = left[e] - d
                               /\ left[e] - d < -MaxLate => After(d)[e] = -MaxLate
<1>1. \A e \in Entries : left[e] \in Int /\ left[e] <= Rate[e] /\ Rate[e] \in Nat
  BY RateAssumption, BoundsAssumption DEF TimerTypeOK
<1>2. ASSUME NEW e \in Entries
      PROVE  After(d)[e] = IF left[e] - d >= -MaxLate THEN left[e] - d ELSE -MaxLate
  BY <1>1, MaxOfTwo, BoundsAssumption DEF After
<1>3. /\ DOMAIN After(d) = Entries
      /\ After(d) = [e \in DOMAIN After(d) |-> After(d)[e]]
  BY DEF After
<1>4. \A e \in Entries : After(d)[e] \in Int /\ After(d)[e] \in -MaxLate..Rate[e]
  BY <1>1, <1>2, BoundsAssumption
<1>5. After(d) \in [Entries -> Int]
  BY <1>3, <1>4
<1> QED BY <1>1, <1>2, <1>4, <1>5, BoundsAssumption

LEMMA TimerTypeStep == TimerTypeOK /\ [TimerNext]_tvars => TimerTypeOK'
<1> SUFFICES ASSUME TimerTypeOK, [TimerNext]_tvars PROVE TimerTypeOK'
    OBVIOUS
<1> USE RateAssumption, BoundsAssumption
<1>1. CASE Sleep \/ SelectFails
  BY <1>1, AfterTicks DEF Sleep, SelectFails, TimerTypeOK
<1>2. ASSUME NEW e \in Entries, Manage(e) PROVE TimerTypeOK'
  <2>1. PICK d \in 0..MaxDuration : left' = [After(d) EXCEPT ![e] = Rate[e]]
    BY <1>2 DEF Manage
  <2>2. Rate[e] \in -MaxLate..Rate[e]
    OBVIOUS
  <2>3. left' \in [Entries -> Int] /\ \A f \in Entries : left'[f] \in -MaxLate..Rate[f]
    BY <2>1, <2>2, AfterTicks
  <2> QED BY <1>2, <2>3 DEF Manage, TimerTypeOK
<1>3. CASE Stop
  <2>1. TRUE \in BOOLEAN
    BY Zenon
  <2> QED BY <1>3, <2>1, Zenon DEF Stop, TimerTypeOK
<1>4. CASE Wake \/ Terminate \/ Done \/ UNCHANGED tvars
  BY <1>4 DEF Wake, Terminate, Done, tvars, TimerTypeOK
<1> QED BY <1>1, <1>2, <1>3, <1>4 DEF TimerNext, Thread

LEMMA TimerInitTyped == TimerInit => TimerTypeOK
<1> SUFFICES ASSUME TimerInit PROVE TimerTypeOK
    OBVIOUS
<1>1. stop \in BOOLEAN
  BY Zenon DEF TimerInit
<1> QED BY <1>1, RateAssumption, BoundsAssumption DEF TimerInit, TimerTypeOK

\* Type correctness of the timer loop: a deadline is never further away than its
\* entry's rate.
THEOREM TimerTypeCorrect == TimerSpec => []TimerTypeOK
  BY TimerInitTyped, TimerTypeStep, PTL DEF TimerSpec

\* Punctual and what it rests on.
TimerInv == TimerTypeOK /\ RestInv /\ BusyInv /\ Punctual

LEMMA DeadlineTyped ==
  ASSUME TimerTypeOK, NEW e \in Entries
  PROVE  left[e] \in Int /\ left[e] <= Rate[e] /\ Rate[e] \in Nat /\ Rate[e] > 0
  BY RateAssumption, BoundsAssumption DEF TimerTypeOK

\* While the callback of g runs for d ticks, an entry e that is overdue then has waited,
\* but for one sleep, for a feasible sequence of m callback ticks, g's the last, so for
\* less than MaxLate ticks.
LEMMA Overdue ==
  ASSUME Schedulable, TimerInv, NEW g \in Expired, NEW d \in 0..MaxDuration,
         NEW e \in Entries \ {g}, NEW n \in Nat, n = d - left[e],
         NEW m \in Int, m = n - SleepTicks
  PROVE  /\ n < MaxLate
         /\ \E s \in Busy(m, e) :
              /\ Feasible(s, m)
              /\ \A p \in 0..m - 1 :
                   s[p] # g => p >= Rate[s[p]] - (left[s[p]] - d)
<1> USE BoundsAssumption
<1> DEFINE b == Backlog(e)
<1>1. /\ g \in Entries /\ left[g] \in Int /\ left[g] <= 0 /\ Rate[g] \in Nat
      /\ left[e] \in Int /\ d \in Nat /\ d <= MaxDuration
      /\ \A f \in Entries : left[f] \in Int /\ Rate[f] \in Nat
  BY DeadlineTyped DEF TimerInv, Expired
<1>0. b \in Int /\ m = b + d /\ SleepTicks \in Nat
  BY <1>1 DEF Backlog
<1>2. \E old \in [0..b - 1 -> Entries \ {e}] :
         /\ Feasible(old, b)
         /\ \A p \in 0..b - 1 : p >= Rate[old[p]] - left[old[p]]
  <2>1. CASE left[e] <= 0
    BY <2>1 DEF TimerInv, BusyInv, Expired, Busy
  <2>2. CASE left[e] > 0
    <3>1. 0..b - 1 = {}
      BY <1>0, <1>1, <2>2 DEF Backlog
    <3>2. [p \in 0..b - 1 |-> g] \in [0..b - 1 -> Entries \ {e}]
      BY <3>1
    <3> QED BY <3>1, <3>2 DEF Feasible
  <2> QED BY <1>1, <2>1, <2>2
<1> HIDE DEF b
<1>3. PICK old \in [0..b - 1 -> Entries \ {e}] :
         /\ Feasible(old, b)
         /\ \A p \in 0..b - 1 : p >= Rate[old[p]] - left[old[p]]
  BY <1>2
<1> DEFINE s == [p \in 0..m - 1 |-> IF p < d THEN g ELSE old[p - d]]
<1>4. \A p \in 0..m - 1 : ~(p < d) => p - d \in 0..b - 1
  BY <1>0, <1>1
<1>5. s \in Busy(m, e)
  BY <1>1, <1>3, <1>4 DEF Busy
<1>6. ASSUME NEW p \in 0..m - 1, s[p] # g
      PROVE  p >= Rate[s[p]] - (left[s[p]] - d)
  <2>1. ~(p < d) /\ p - d \in 0..b - 1 /\ s[p] = old[p - d]
    BY <1>4, <1>6
  <2>2. p - d >= Rate[s[p]] - left[s[p]] /\ s[p] \in Entries
    BY <1>3, <2>1
  <2>3. Rate[s[p]] \in Nat /\ left[s[p]] \in Int
    BY <1>1, <2>2
  <2> HIDE DEF s
  <2> QED BY <1>1, <2>2, <2>3
<1>7. ASSUME NEW p \in 0..m - 1, NEW q \in 0..m - 1, p < q, s[p] = s[q]
      PROVE  q - p < MaxDuration \/ q - p > Rate[s[p]]
  <2>0. p \in Int /\ q \in Int /\ MaxDuration \in Nat
    BY <1>0
  <2>1. CASE q < d
    <3>1. q - p < MaxDuration
      BY <1>1, <2>0, <2>1
    <3> QED BY <3>1
  <2>2. CASE p < d /\ ~(q < d)
    <3>1. s[p] = g /\ old[q - d] = g /\ q - d \in 0..b - 1
      BY <1>4, <1>7, <2>2
    <3>2. q - d >= Rate[g] - left[g]
      BY <1>3, <3>1
    <3>3. ASSUME NEW x \in Int, NEW y \in Int, y <= 0, q - d >= x - y PROVE q - p > x
      <4>1. d \in Int
        OBVIOUS
      <4>2. q - d >= x
        BY <2>0, <3>3, <4>1
      <4> QED BY <2>0, <2>2, <4>1, <4>2
    <3>4. Rate[g] \in Int
      BY <1>1
    <3> QED BY <1>1, <3>1, <3>2, <3>3, <3>4
  <2>3. CASE ~(p < d)
    <3>1. p - d \in 0..b - 1 /\ q - d \in 0..b - 1 /\ p - d < q - d
      BY <1>1, <1>4, <1>7, <2>0, <2>3
    <3>2. old[p - d] = old[q - d] /\ s[p] = old[p - d]
      BY <1>1, <1>7, <2>0, <2>3
    <3>3. (q - d) - (p - d) < MaxDuration \/ (q - d) - (p - d) > Rate[old[p - d]]
      BY <1>3, <3>1, <3>2 DEF Feasible
    <3>4. (q - d) - (p - d) = q - p
      BY <1>1, <2>0
    <3> QED BY <3>2, <3>3, <3>4
  <2> QED BY <1>1, <2>0, <2>1, <2>2, <2>3
<1> HIDE DEF s
<1>8. Feasible(s, m)
  BY <1>7 DEF Feasible
<1>9. n < MaxLate
  <2> SUFFICES ASSUME n >= MaxLate PROVE FALSE
      OBVIOUS
  <2>1. ASSUME NEW k \in Int, k <= m
        PROVE  \E t \in Busy(k, e) : Feasible(t, k)
    <3> DEFINE t == [p \in 0..k - 1 |-> s[p]]
    <3>1. \A p \in 0..k - 1 : p \in 0..m - 1
      BY <2>1
    <3>2. t \in Busy(k, e)
      BY <1>5, <3>1 DEF Busy
    <3>3. Feasible(t, k)
      BY <1>8, <3>1 DEF Feasible
    <3> QED BY <3>2, <3>3
  <2>2. MaxLate - SleepTicks \in Int /\ MaxLate - SleepTicks <= m
    BY <1>0
  <2> QED BY <2>1, <2>2 DEF Schedulable
<1> QED BY <1>5, <1>6, <1>8, <1>9

\* No sequence at all is feasible and too long, so MaxLate is more than a sleep.
LEMMA LatenessPossible == ASSUME Schedulable, NEW e \in Entries PROVE MaxLate > SleepTicks
<1> SUFFICES ASSUME MaxLate <= SleepTicks PROVE FALSE
  BY BoundsAssumption
<1>1. 0..MaxLate - SleepTicks - 1 = {}
  BY BoundsAssumption
<1>2. [p \in 0..MaxLate - SleepTicks - 1 |-> e] \in Busy(MaxLate - SleepTicks, e)
  BY <1>1 DEF Busy
<1> QED BY <1>1, <1>2 DEF Schedulable, Feasible

\* Without a backlog there is nothing to show of the callbacks.
LEMMA NoBacklog ==
  ASSUME NEW e \in Entries, NEW l, NEW b \in Int, b <= 0
  PROVE  \E s \in Busy(b, e) : /\ Feasible(s, b)
                               /\ \A p \in 0..b - 1 : p >= Rate[s[p]] - l[s[p]]
<1>1. 0..b - 1 = {}
  OBVIOUS
<1>2. [p \in 0..b - 1 |-> e] \in Busy(b, e)
  BY <1>1 DEF Busy
<1> QED BY <1>1, <1>2 DEF Feasible

LEMMA PunctualStep ==
  ASSUME Schedulable PROVE TimerInv /\ [TimerNext]_tvars => TimerInv'
<1> SUFFICES ASSUME TimerInv, [TimerNext]_tvars PROVE TimerInv'
    OBVIOUS
<1> USE BoundsAssumption
<1>1. TimerTypeOK /\ TimerTypeOK'
  BY TimerTypeStep DEF TimerInv
<1>0. \A e \in Entries : left[e] \in Int /\ left'[e] \in Int
  BY <1>1 DEF TimerTypeOK
<1>2. CASE Sleep \/ SelectFails
  <2>1. PICK d \in Nat : /\ left' = After(d)
                         /\ (SelectFails /\ d <= SleepTicks) \/ (Sleep /\ d = 1)
    <3>1. CASE Sleep
      <4>1. left' = After(1)
        BY <3>1 DEF Sleep
      <4> QED BY <3>1, <4>1
    <3>2. CASE SelectFails
      <4>1. PICK x \in 0..SleepTicks : left' = After(x)
        BY <3>2 DEF SelectFails
      <4> QED BY <3>2, <4>1
    <3> QED BY <1>2, <3>1, <3>2
  <2>2. ASSUME NEW e \in Entries
        PROVE  left'[e] >= -SleepTicks /\ (Sleep => left'[e] >= 0)
    <3>1. left[e] >= 0 /\ (Sleep => left[e] >= 1)
      BY <1>0, <1>2 DEF TimerInv, RestInv, Sleep, SelectFails, Expired
    <3>2. MaxLate > SleepTicks
      BY LatenessPossible
    <3>3. left[e] - d >= -SleepTicks /\ (Sleep => left[e] - d >= 0)
      <4>1. CASE SelectFails /\ d <= SleepTicks
        BY <1>0, <3>1, <4>1 DEF SelectFails, Sleep
      <4>2. CASE Sleep /\ d = 1
        BY <1>0, <3>1, <4>2
      <4> QED BY <2>1, <4>1, <4>2
    <3>4. left[e] - d >= -MaxLate
      BY <1>0, <3>2, <3>3
    <3>5. left'[e] = left[e] - d
      BY <1>1, <2>1, <3>4, AfterTicks
    <3> QED BY <3>3, <3>5
  <2>3. Punctual'
    <3>1. \A e \in Entries : MaxLate > SleepTicks
      BY LatenessPossible
    <3> QED BY <1>0, <2>2, <3>1 DEF Punctual
  <2>4. BusyInv'
    <3>1. \A e \in Entries : Backlog(e)' \in Int /\ Backlog(e)' <= 0
      BY <1>0, <2>2 DEF Backlog
    <3> QED BY <3>1, NoBacklog DEF BusyInv, Expired
  <2>5. RestInv'
    BY <1>2, <2>2 DEF RestInv, SelectFails
  <2> QED BY <1>1, <2>3, <2>4, <2>5 DEF TimerInv
<1>3. ASSUME NEW g \in Entries, Manage(g) PROVE TimerInv'
  <2>1. PICK d \in 0..MaxDuration : left' = [After(d) EXCEPT ![g] = Rate[g]]
    BY <1>3 DEF Manage
  <2>2. g \in Expired /\ d \in Nat
    BY <1>3 DEF Manage
  <2>3. ASSUME NEW e \in Entries \ {g} PROVE left'[e] = left[e] - d /\ left[e] - d > -MaxLate
    <3>1. left[e] \in Int /\ left'[e] = After(d)[e]
      BY <1>1, <2>1, <2>2, DeadlineTyped, AfterTicks
    <3>2. left[e] - d > -MaxLate
      <4>1. ASSUME NEW n \in Nat, n = d - left[e] PROVE n < MaxLate
        <5>1. n - SleepTicks \in Int
          OBVIOUS
        <5> QED BY <2>2, <4>1, <5>1, Overdue
      <4>2. MaxLate > 0
        BY LatenessPossible
      <4> QED BY <2>2, <3>1, <4>1, <4>2
    <3> QED BY <1>1, <2>2, <3>1, <3>2, AfterTicks
  <2>4. left'[g] = Rate[g] /\ Rate[g] \in Nat /\ Rate[g] > 0
    BY <1>1, <2>1, <2>2, AfterTicks, DeadlineTyped
  <2>5. Punctual'
    BY <2>3, <2>4 DEF Punctual
  <2>6. ASSUME NEW e \in Expired'
        PROVE  \E s \in Busy(Backlog(e)', e) :
                 /\ Feasible(s, Backlog(e)')
                 /\ \A p \in 0..Backlog(e)' - 1 : p >= Rate[s[p]] - left'[s[p]]
    <3>1. e \in Entries \ {g} /\ left'[e] = left[e] - d /\ left'[e] <= 0 /\ left[e] \in Int
      BY <1>1, <2>3, <2>4, DeadlineTyped DEF Expired
    <3>2. /\ -left'[e] \in Nat /\ -left'[e] = d - left[e]
          /\ Backlog(e)' \in Int /\ Backlog(e)' = -left'[e] - SleepTicks
      BY <2>2, <3>1 DEF Backlog
    <3>3. PICK s \in Busy(Backlog(e)', e) :
            /\ Feasible(s, Backlog(e)')
            /\ \A p \in 0..Backlog(e)' - 1 :
                 s[p] # g => p >= Rate[s[p]] - (left[s[p]] - d)
      BY <2>2, <3>1, <3>2, Overdue
    <3>4. \A p \in 0..Backlog(e)' - 1 : p >= Rate[s[p]] - left'[s[p]]
      BY <2>3, <2>4, <3>2, <3>3 DEF Busy
    <3> QED BY <3>3, <3>4
  <2>7. RestInv'
    BY <1>3 DEF Manage, RestInv
  <2> QED BY <1>1, <2>5, <2>6, <2>7 DEF TimerInv, BusyInv
<1>4. CASE UNCHANGED left /\ (pc' = pc \/ pc' \in {"now", "gone"} \/ Done)
  <2>1. RestInv'
    BY <1>0, <1>4 DEF TimerInv, RestInv, Done, Expired
  <2> QED BY <1>1, <1>4, <2>1 DEF TimerInv, BusyInv, Punctual, Expired, Feasible, Backlog
<1> QED BY <1>2, <1>3, <1>4 DEF TimerNext, Thread, Wake, Terminate, Done, Stop, tvars

\* For any entries, rates and durations that are schedulable, no callback starts MaxLate
\* or more ticks after its deadline, in whatever order the wheel returns expired entries.
THEOREM PunctualHolds == ASSUME Schedulable PROVE TimerSpec => []Punctual
<1>1. TimerInit => TimerInv
  <2> SUFFICES ASSUME TimerInit PROVE TimerInv
      OBVIOUS
  <2>1. \A e \in Entries : left[e] \in Int /\ left[e] > 0
    BY RateAssumption DEF TimerInit
  <2> QED BY <2>1, TimerInitTyped, BoundsAssumption DEF TimerInv, RestInv, BusyInv, Punctual,
                                                          Expired
<1>2. TimerInv => Punctual
  BY DEF TimerInv
<1> QED BY <1>1, <1>2, PunctualStep, PTL DEF TimerSpec

\* When that is so: every rate leaves time for one run of all the other callbacks.  The
\* code's rates do if no callback takes longer than a quarter of a second: in ticks of
\* that length the shortest rate is 4, a sleep 4, and 3 < MaxLate - 4 <= 5.
OneRoundFits == \A e \in Entries :
                  /\ Cardinality(Entries \ {e}) * MaxDuration < MaxLate - SleepTicks
                  /\ MaxLate - SleepTicks <= Rate[e] + 1

\* Two of D successive numbers differ modulo D.
LEMMA ModuloApart ==
  ASSUME NEW D \in Nat, D > 0, NEW p \in Nat, NEW q \in Nat, p < q, p % D = q % D
  PROVE  q - p >= D
<1> DEFINE a == p \div D
           b == q \div D
           r == p % D
<1>1. a \in Int /\ b \in Int /\ r \in Int /\ p = D * a + r /\ q = D * b + r
  OBVIOUS
<1> HIDE DEF a, b, r
<1>2. q - p = D * (b - a)
  BY <1>1
<1>3. b - a >= 1
  BY <1>1, <1>2
<1> QED BY <1>1, <1>2, <1>3

LEMMA CountTo ==
  ASSUME NEW n \in Nat PROVE IsFiniteSet(0..n - 1) /\ Cardinality(0..n - 1) = n
<1>1. 0 \in Int /\ n - 1 \in Int
  OBVIOUS
<1>2. IsFiniteSet(0..n - 1) /\ Cardinality(0..n - 1) = IF 0 > n - 1 THEN 0 ELSE (n - 1) - 0 + 1
  BY <1>1, FS_Interval, Zenon
<1> QED BY <1>2

\* If every callback can run once in the shortest rate, the rates are schedulable: a
\* longer backlog would hold some entry's callback twice.
THEOREM OneRoundIsSchedulable ==
  ASSUME IsFiniteSet(Entries), OneRoundFits, MaxDuration > 0 PROVE Schedulable
<1> USE BoundsAssumption, RateAssumption
<1> DEFINE L == MaxLate - SleepTicks
<1>0. ASSUME NEW e \in Entries PROVE L \in Nat
  <2>1. Cardinality(Entries \ {e}) \in Nat
    BY FS_RemoveElement, FS_CardinalityType
  <2>2. Cardinality(Entries \ {e}) * MaxDuration \in Nat
    BY <2>1
  <2> QED BY <2>2 DEF OneRoundFits
<1> SUFFICES ASSUME NEW e \in Entries, NEW s \in Busy(L, e), Feasible(s, L)
             PROVE  FALSE
  BY DEF Schedulable
<1> L \in Nat
  BY <1>0
<1> DEFINE Ticks == 0..L - 1
           Slots == (Entries \ {e}) \X (0..MaxDuration - 1)
           slot == [p \in Ticks |-> <<s[p], p % MaxDuration>>]
<1>1. slot \in [Ticks -> Slots]
  BY DEF Busy
<1>2. IsFiniteSet(Ticks) /\ Cardinality(Ticks) = L
  BY CountTo
<1>3. IsFiniteSet(Slots) /\ Cardinality(Slots) < Cardinality(Ticks)
  <2>1. IsFiniteSet(Entries \ {e})
    BY FS_RemoveElement
  <2>2. IsFiniteSet(0..MaxDuration - 1) /\ Cardinality(0..MaxDuration - 1) = MaxDuration
    BY CountTo
  <2>3. /\ IsFiniteSet(Slots)
        /\ Cardinality(Slots) = Cardinality(Entries \ {e}) * Cardinality(0..MaxDuration - 1)
    BY <2>1, <2>2, FS_Product
  <2> QED BY <1>2, <2>2, <2>3 DEF OneRoundFits
<1>4. PICK p \in Ticks, q \in Ticks : p # q /\ slot[p] = slot[q]
  <2> HIDE DEF Ticks, Slots, slot
  <2> QED BY <1>1, <1>2, <1>3, FS_PigeonHole
<1>5. s[p] = s[q] /\ p % MaxDuration = q % MaxDuration /\ s[p] \in Entries
  BY <1>4 DEF Busy
<1>6. ASSUME NEW x \in Ticks, NEW y \in Ticks, x < y, s[x] = s[y], s[x] \in Entries,
             x % MaxDuration = y % MaxDuration
      PROVE  FALSE
  <2>0. x \in Nat /\ y \in Nat /\ y - x <= L - 1
    OBVIOUS
  <2>1. y - x >= MaxDuration
    BY <1>6, <2>0, ModuloApart
  <2>2. Rate[s[x]] \in Nat /\ L <= Rate[s[x]] + 1
    BY <1>6 DEF OneRoundFits
  <2>3. y - x <= Rate[s[x]]
    BY <2>0, <2>2
  <2> QED BY <1>6, <2>0, <2>1, <2>2, <2>3 DEF Feasible
<1> QED BY <1>4, <1>5, <1>6
=============================================================================
