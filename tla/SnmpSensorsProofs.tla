-------------------------- MODULE SnmpSensorsProofs --------------------------
(***************************************************************************)
(* The sensor tables for any number of sensors: the two threads never meet *)
(* on the list, and rows, buffers and sensors agree.                       *)
(***************************************************************************)
EXTENDS SnmpSensors, TLAPS

UpdLocations == {"idle", "mark", "root", "collect", "update", "swap", "raise"}
AgentLocations == {"idle", "reading", "restructure"}

\* What the type invariant says of the update thread, and the two buffers.
LEMMA Basics ==
  ASSUME TypeOK
  PROVE  /\ curr \in {0, 1} /\ next \in {0, 1} /\ next # curr
         /\ \A s \in Sensors, b \in {0, 1} : valid[s][b] \in BOOLEAN
         /\ upd.i \in Nat /\ Len(Order) \in Nat
         /\ \A i \in 1..Len(Order) : Order[i] \in Sensors
<1>1. 0..1 = {0, 1}
  OBVIOUS
<1>2. curr \in {0, 1} /\ next \in {0, 1} /\ next # curr
  BY <1>1 DEF TypeOK, next
<1>3. \A s \in Sensors, b \in {0, 1} : valid[s][b] \in BOOLEAN
  BY <1>1 DEF TypeOK
<1>4. Len(Order) \in Nat /\ \A i \in 1..Len(Order) : Order[i] \in Sensors
  BY OrderAssumption
<1>5. upd.i \in Nat
  BY <1>4 DEF TypeOK
<1> QED BY <1>2, <1>3, <1>4, <1>5

\* Moving the update thread keeps it well typed.
LEMMA UpdateAtTyped ==
  ASSUME NEW l \in UpdLocations
  PROVE  UpdateAt(l) \in [pc : UpdLocations, i : 1..Len(Order) + 1, listed : SUBSET Sensors]
<1>1. Len(Order) \in Nat
  BY OrderAssumption
<1>2. 1 \in 1..Len(Order) + 1
  BY <1>1
<1> QED BY <1>2 DEF UpdateAt

LEMMA SetNextTyped ==
  ASSUME NEW f \in [Sensors -> [0..1 -> BOOLEAN]], NEW s \in Sensors,
         NEW n \in {0, 1}, NEW v \in BOOLEAN
  PROVE  [f EXCEPT ![s][n] = v] \in [Sensors -> [0..1 -> BOOLEAN]]
<1>1. n \in 0..1 /\ f[s] \in [0..1 -> BOOLEAN]
  OBVIOUS
<1>2. [f[s] EXCEPT ![n] = v] \in [0..1 -> BOOLEAN]
  BY <1>1, Zenon
<1> QED BY <1>2, Zenon

\* Type correctness is inductive by itself.
LEMMA TypeStep == TypeOK /\ [Next]_vars => TypeOK'
<1> SUFFICES ASSUME TypeOK, [Next]_vars PROVE TypeOK'
    OBVIOUS
<1>b. /\ curr \in {0, 1} /\ next \in {0, 1}
      /\ upd.i \in Nat /\ Len(Order) \in Nat
      /\ \A i \in 1..Len(Order) : Order[i] \in Sensors
  BY Basics
<1>r. 0..1 = {0, 1}
  OBVIOUS
<1>i. upd.i <= Len(Order) => upd.i \in 1..Len(Order) /\ upd.i + 1 \in 1..Len(Order) + 1
  BY <1>b DEF TypeOK
<1>1. CASE HwChange
  BY <1>1 DEF TypeOK, HwChange
<1>2. CASE Begin \/ CollectEnds \/ UpdateEnds \/ Swap \/ Raise
  BY <1>2, <1>b, <1>r, UpdateAtTyped
     DEF TypeOK, Begin, CollectEnds, UpdateEnds, Swap, Raise, GotoU, UpdLocations
<1>3. CASE Mark
  <2>1. valid' \in [Sensors -> [0..1 -> BOOLEAN]]
    BY <1>3, <1>b, <1>r DEF TypeOK, Mark
  <2> QED BY <1>3, <2>1, UpdateAtTyped DEF TypeOK, Mark, GotoU, UpdLocations
<1>4. CASE CollectRoot
  BY <1>4, <1>b, UpdateAtTyped DEF TypeOK, CollectRoot, GotoU, UpdLocations
<1>5. CASE Collect
  <2> DEFINE s == Order[upd.i]
  <2>1. s \in Sensors
    BY <1>5, <1>i, <1>b DEF Collect
  <2>2. list' \subseteq Sensors /\ valid' \in [Sensors -> [0..1 -> BOOLEAN]]
    <3>1. valid \in [Sensors -> [0..1 -> BOOLEAN]] /\ list \subseteq Sensors
      BY DEF TypeOK
    <3>2. [valid EXCEPT ![s][next] = TRUE] \in [Sensors -> [0..1 -> BOOLEAN]]
      BY <3>1, <2>1, <1>b, SetNextTyped
    <3> QED BY <1>5, <2>1, <3>1, <3>2, Zenon DEF Collect, SetNext
  <2>3. upd' \in [pc : UpdLocations, i : 1..Len(Order) + 1, listed : SUBSET Sensors]
    BY <1>5, <1>i, UpdateAtTyped DEF TypeOK, Collect, GotoU, UpdLocations
  <2> QED BY <1>5, <2>2, <2>3 DEF TypeOK, Collect, UpdLocations
<1>6. CASE Update
  <2>1. Order[upd.i] \in Sensors
    BY <1>6, <1>i, <1>b DEF Update
  <2>2. valid' \in [Sensors -> [0..1 -> BOOLEAN]]
    <3>1. valid \in [Sensors -> [0..1 -> BOOLEAN]]
      BY DEF TypeOK
    <3>2. [valid EXCEPT ![Order[upd.i]][next] = FALSE] \in [Sensors -> [0..1 -> BOOLEAN]]
      BY <3>1, <2>1, <1>b, SetNextTyped
    <3> QED BY <1>6, <3>1, <3>2, Zenon DEF Update, SetNext
  <2>3. upd' \in [pc : UpdLocations, i : 1..Len(Order) + 1, listed : SUBSET Sensors]
    BY <1>6, <1>i DEF TypeOK, Update, UpdLocations
  <2> QED BY <1>6, <2>2, <2>3 DEF TypeOK, Update, UpdLocations
<1>7. CASE Answer \/ Alarm \/ RestructureEnds
  <2>1. AgentIdle \in [pc : AgentLocations, buf : 0..1, todo : SUBSET Sensors]
    BY DEF AgentIdle, AgentLocations
  <2>3. agent' \in [pc : AgentLocations, buf : 0..1, todo : SUBSET Sensors]
    BY <1>7, <2>1 DEF TypeOK, Answer, Alarm, RestructureEnds, AgentLocations
  <2>4. trigger' \in BOOLEAN
    BY <1>7, Zenon DEF TypeOK, Answer, Alarm, RestructureEnds
  <2> QED BY <1>7, <2>3, <2>4 DEF TypeOK, Answer, Alarm, RestructureEnds, AgentLocations
<1>8. ASSUME NEW s \in Sensors, Request(s) PROVE TypeOK'
  BY <1>8 DEF TypeOK, Request
<1>9. ASSUME NEW s \in Sensors, Restructure(s) PROVE TypeOK'
  <2>1. rows' \subseteq Sensors /\ list' \subseteq Sensors
    BY <1>9 DEF TypeOK, Restructure
  <2>2. valid' \in [Sensors -> [0..1 -> BOOLEAN]]
    <3>1. [b \in 0..1 |-> FALSE] \in [0..1 -> BOOLEAN]
      OBVIOUS
    <3> QED BY <1>9, <3>1, Zenon DEF TypeOK, Restructure
  <2>3. agent' \in [pc : AgentLocations, buf : 0..1, todo : SUBSET Sensors]
    BY <1>9 DEF TypeOK, Restructure, AgentLocations
  <2> QED BY <1>9, <2>1, <2>2, <2>3 DEF TypeOK, Restructure, AgentLocations
<1>10. CASE UNCHANGED vars
  BY <1>10 DEF TypeOK, vars
<1> QED BY <1>1, <1>2, <1>3, <1>4, <1>5, <1>6, <1>7, <1>8, <1>9, <1>10
        DEF Next, Updater, Alarms
-----------------------------------------------------------------------------
\* While the update thread works, no restructuring is due, and the rows are
\* those of the front buffer; between swap and trigger, of the back buffer.
LEMMA UpdatingFacts ==
  ASSUME SInv, upd.pc # "idle"
  PROVE  /\ ~trigger /\ agent.pc # "restructure"
         /\ \A s \in Sensors : Deciding(s) = IF upd.pc = "raise" THEN next ELSE curr
BY DEF SInv, TurnInv, Deciding

\* A step of the update thread that changes only back buffers of sensors in the
\* list, or adds a sensor with no more than a valid back buffer, keeps SInv.
LEMMA BackBufferStep ==
  ASSUME SInv, TypeOK', upd.pc \notin {"idle", "raise"}, upd'.pc \notin {"idle", "raise"},
         UNCHANGED <<curr, trigger, rows, agent>>,
         list \subseteq list',
         \A s \in Sensors \ list' : valid'[s] = valid[s],
         \A s \in Sensors : valid'[s][curr] = valid[s][curr]
  PROVE  TurnInv' /\ FreshInv' /\ RowsInv' /\ ReadInv'
<1> USE DEF SInv
<1>1. /\ ~trigger /\ agent.pc # "restructure"
      /\ \A s \in Sensors : Deciding(s) = curr
  BY UpdatingFacts
<1>2. TurnInv'
  BY <1>1 DEF TurnInv
<1>3. FreshInv'
  BY DEF FreshInv
<1>4. \A s \in Sensors : Deciding(s)' = curr
  BY <1>1 DEF Deciding
<1>5. \A s \in Sensors \ list : valid[s][curr] = FALSE
  BY Basics DEF FreshInv
<1>6. RowsInv'
  BY <1>1, <1>4, <1>5 DEF RowsInv
<1>7. ReadInv'
  BY <1>1 DEF ReadInv
<1> QED BY <1>2, <1>3, <1>6, <1>7

\* The strengthened invariant is inductive.
LEMMA SInvStep == SInv /\ [Next]_vars => SInv'
<1> SUFFICES ASSUME SInv, [Next]_vars
             PROVE  TurnInv' /\ FreshInv' /\ RowsInv' /\ ReadInv'
    BY TypeStep DEF SInv
<1>t. TypeOK /\ TypeOK'
  BY TypeStep DEF SInv
<1>b. /\ curr \in {0, 1} /\ next \in {0, 1} /\ next # curr
      /\ \A s \in Sensors, b \in {0, 1} : valid[s][b] \in BOOLEAN
      /\ upd.i \in Nat /\ Len(Order) \in Nat
      /\ \A i \in 1..Len(Order) : Order[i] \in Sensors
  BY <1>t, Basics
<1>i. upd.i <= Len(Order) => upd.i \in 1..Len(Order)
  BY <1>b, <1>t DEF TypeOK
<1>v. valid \in [Sensors -> [0..1 -> BOOLEAN]]
  BY <1>t DEF TypeOK
<1>r. 0..1 = {0, 1}
  OBVIOUS
<1>1. CASE HwChange \/ UNCHANGED vars
  BY <1>1 DEF HwChange, vars, SInv, TurnInv, FreshInv, RowsInv, ReadInv, Deciding, next
<1>2. CASE Begin
  BY <1>2 DEF Begin, GotoU, UpdateAt, SInv, TurnInv, FreshInv, RowsInv, ReadInv, Deciding, next
<1>3. CASE Mark
  <2>1. \A s \in Sensors : valid'[s][curr] = valid[s][curr]
    BY <1>3, <1>b, <1>r, <1>v DEF Mark
  <2>2. \A s \in Sensors \ list' : valid'[s] = valid[s]
    BY <1>3, <1>v DEF Mark
  <2> QED BY <1>3, <1>t, <2>1, <2>2, BackBufferStep DEF Mark, GotoU, UpdateAt
<1>4. CASE CollectRoot
  BY <1>4, <1>t, BackBufferStep DEF CollectRoot, GotoU, UpdateAt
<1>5. CASE Collect
  <2> DEFINE o == Order[upd.i]
  <2>1. o \in Sensors
    BY <1>5, <1>i, <1>b DEF Collect
  <2>2. \A s \in Sensors : valid'[s][curr] = valid[s][curr]
    BY <1>5, <2>1, <1>b, <1>r, <1>v DEF Collect, SetNext
  <2>3. \A s \in Sensors \ list' : valid'[s] = valid[s]
    BY <1>5, <2>1, <1>v DEF Collect, SetNext
  <2>4. upd'.pc \notin {"idle", "raise"}
    BY <1>5, <1>t DEF Collect, GotoU, UpdateAt, TypeOK
  <2> QED BY <1>5, <1>t, <2>2, <2>3, <2>4, BackBufferStep DEF Collect
<1>6. CASE CollectEnds \/ UpdateEnds
  BY <1>6, <1>t, BackBufferStep DEF CollectEnds, UpdateEnds, GotoU, UpdateAt
<1>7. CASE Update
  <2> DEFINE o == Order[upd.i]
  <2>1. o \in Sensors
    BY <1>7, <1>i, <1>b DEF Update
  <2>2. \A s \in Sensors : valid'[s][curr] = valid[s][curr]
    BY <1>7, <2>1, <1>b, <1>r, <1>v DEF Update, SetNext
  <2>3. \A s \in Sensors \ list' : valid'[s] = valid[s]
    BY <1>7, <2>1, <1>v DEF Update, SetNext
  <2>4. upd'.pc \notin {"idle", "raise"}
    BY <1>7, <1>t DEF Update, TypeOK
  <2> QED BY <1>7, <1>t, <2>2, <2>3, <2>4, BackBufferStep DEF Update
<1>8. CASE Swap
  \* What was the front buffer, and decided the rows, is the back buffer now.
  <2>1. ~trigger /\ agent.pc # "restructure" /\ \A s \in Sensors : Deciding(s) = curr
    BY <1>8, UpdatingFacts DEF Swap
  <2>2. next' = curr
    BY <1>8, <1>b DEF Swap, next
  <2>3. \A s \in Sensors : Deciding(s)' = curr
    BY <1>8, <2>1, <2>2 DEF Swap, GotoU, UpdateAt, Deciding
  <2>4. RowsInv'
    BY <1>8, <2>1, <2>3 DEF Swap, SInv, RowsInv
  <2> QED BY <1>8, <2>1, <2>4 DEF Swap, GotoU, UpdateAt, SInv, TurnInv, FreshInv, ReadInv
<1>9. CASE Raise
  <2>1. ~trigger /\ agent.pc # "restructure" /\ \A s \in Sensors : Deciding(s) = next
    BY <1>9, UpdatingFacts DEF Raise
  <2>2. \A s \in Sensors : Deciding(s)' = next
    BY <1>9, <2>1 DEF Raise, Deciding, next
  <2>3. RowsInv'
    BY <1>9, <2>1, <2>2 DEF Raise, SInv, RowsInv
  <2> QED BY <1>9, <2>1, <2>3 DEF Raise, GotoU, UpdateAt, SInv, TurnInv, FreshInv, ReadInv
<1>10. CASE Answer
  BY <1>10 DEF Answer, AgentIdle, SInv, TurnInv, FreshInv, RowsInv, ReadInv, Deciding, next
<1>11. CASE Alarm
  \* Every sensor of the list is still to be treated.
  <2>1. \A s \in list : Deciding(s)' = Deciding(s)
    BY <1>11, <1>t DEF Alarm, SInv, TurnInv, Deciding, next, TypeOK
  <2>2. RowsInv'
    BY <1>11, <2>1 DEF Alarm, SInv, RowsInv
  <2> QED BY <1>11, <2>2 DEF Alarm, SInv, TurnInv, FreshInv, ReadInv
<1>12. CASE RestructureEnds
  <2>1. \A s \in Sensors : Deciding(s)' = Deciding(s)
    BY <1>12 DEF RestructureEnds, AgentIdle, SInv, TurnInv, Deciding, next
  <2>2. RowsInv'
    BY <1>12, <2>1 DEF RestructureEnds, SInv, RowsInv
  <2> QED BY <1>12, <2>2
          DEF RestructureEnds, AgentIdle, SInv, TurnInv, FreshInv, ReadInv
<1>13. ASSUME NEW s \in Sensors, Request(s)
       PROVE  TurnInv' /\ FreshInv' /\ RowsInv' /\ ReadInv'
  BY <1>13 DEF Request, SInv, TurnInv, FreshInv, RowsInv, ReadInv, Deciding, next
<1>14. ASSUME NEW s \in Sensors, Restructure(s)
       PROVE  TurnInv' /\ FreshInv' /\ RowsInv' /\ ReadInv'
  <2>1. /\ trigger /\ upd.pc = "idle" /\ agent.pc = "restructure"
        /\ s \in agent.todo /\ agent.todo \subseteq list
    BY <1>14 DEF Restructure, SInv, TurnInv
  <2>2. /\ agent'.pc = "restructure" /\ agent'.todo = agent.todo \ {s}
        /\ UNCHANGED <<curr, trigger, upd>> /\ next' = next
    BY <1>14, <1>t DEF Restructure, TypeOK, next
  <2>3. /\ Deciding(s) = next /\ Deciding(s)' = curr
        /\ \A r \in Sensors \ {s} : Deciding(r)' = Deciding(r)
    BY <2>1, <2>2 DEF Deciding
  <2>4. \A r \in Sensors \ {s} : /\ valid'[r] = valid[r]
                                 /\ r \in list' <=> r \in list
                                 /\ r \in rows' <=> r \in rows
    BY <1>14, <1>v DEF Restructure
  <2>5. CASE valid[s][next] /\ ~valid[s][curr]
    <3>1. s \notin list' /\ s \notin rows' /\ valid'[s] = [b \in 0..1 |-> FALSE]
      BY <1>14, <1>v, <2>5 DEF Restructure
    <3>2. TurnInv'
      BY <1>14, <2>1, <2>2, <2>5 DEF Restructure, SInv, TurnInv
    <3>3. FreshInv'
      BY <2>4, <3>1 DEF SInv, FreshInv
    <3>4. RowsInv'
      BY <2>3, <2>4, <3>1 DEF SInv, RowsInv
    <3> QED BY <2>2, <3>2, <3>3, <3>4 DEF ReadInv
  <2>6. CASE ~(valid[s][next] /\ ~valid[s][curr])
    <3>1. list' = list /\ valid' = valid
      BY <1>14, <2>6 DEF Restructure
    <3>2. s \in rows' <=> valid[s][curr]
      BY <1>14, <1>b, <2>1, <2>3, <2>6 DEF Restructure, SInv, RowsInv
    <3> QED BY <2>1, <2>2, <2>3, <2>4, <3>1, <3>2
            DEF SInv, TurnInv, FreshInv, RowsInv, ReadInv
  <2> QED BY <2>5, <2>6
<1> QED BY <1>1, <1>2, <1>3, <1>4, <1>5, <1>6, <1>7, <1>8, <1>9, <1>10, <1>11,
           <1>12, <1>13, <1>14 DEF Next, Updater, Alarms

\* The strengthened invariant holds for any sensors.
THEOREM TablesInvariant == Spec => []SInv
<1>1. Init => TypeOK
  <2>1. Init => sysok \in BOOLEAN /\ trigger \in BOOLEAN
    BY Zenon DEF Init
  <2>2. UpdateAt("idle") \in [pc : UpdLocations, i : 1..Len(Order) + 1, listed : SUBSET Sensors]
    BY UpdateAtTyped DEF UpdLocations
  <2>3. Init => /\ hw \in [Sensors -> HwStates]
                /\ list \subseteq Sensors /\ rows \subseteq Sensors
                /\ valid \in [Sensors -> [0..1 -> BOOLEAN]]
                /\ curr \in 0..1
                /\ agent \in [pc : AgentLocations, buf : 0..1, todo : SUBSET Sensors]
    BY DEF Init, AgentIdle, AgentLocations
  <2> QED BY <2>1, <2>2, <2>3 DEF Init, TypeOK, UpdLocations, AgentLocations
<1>2. Init => TurnInv /\ FreshInv /\ RowsInv /\ ReadInv
  BY DEF Init, UpdateAt, AgentIdle, TurnInv, FreshInv, RowsInv, ReadInv
<1> QED BY <1>1, <1>2, SInvStep, PTL DEF Spec, SInv

\* Type correctness of the tables' state.
THEOREM TypeCorrect == Spec => []TypeOK
<1>1. SInv => TypeOK
  BY DEF SInv
<1> QED BY <1>1, TablesInvariant, PTL

\* The restructuring alarm never runs while the update thread is at work: the
\* trigger is lock enough for the list of sensors.
THEOREM OneAtATimeHolds == Spec => []OneAtATime
<1>1. SInv => OneAtATime
  BY DEF SInv, TurnInv, OneAtATime, Updating
<1> QED BY <1>1, TablesInvariant, PTL

\* No row points to a freed sensor.
THEOREM RowsLiveHolds == Spec => []RowsLive
<1>1. SInv => RowsLive
  BY DEF SInv, TypeOK, RowsInv, RowsLive
<1> QED BY <1>1, TablesInvariant, PTL

\* A request reads a sensor that exists, from a buffer nobody writes.
THEOREM ReadsAreStableHolds == Spec => []ReadsAreStable
<1>1. SInv => ReadsAreStable
  BY DEF SInv, TypeOK, TurnInv, RowsInv, ReadInv, ReadsAreStable
<1> QED BY <1>1, TablesInvariant, PTL

\* The tables have exactly the rows of the buffer that decides.
THEOREM RowsMatchBuffersHolds == Spec => []RowsMatchBuffers
<1>1. SInv => RowsMatchBuffers
  BY DEF SInv, TypeOK, TurnInv, RowsInv, Deciding, RowsMatchBuffers
<1> QED BY <1>1, TablesInvariant, PTL
=============================================================================
