----------------------------- MODULE SnmpSensors -----------------------------
(***************************************************************************)
(* The sensor tables of onlp-snmpd (onlp_snmp_sensors.c).  An update       *)
(* thread refreshes the back buffer of every sensor, swaps the buffers and *)
(* raises restructure_trigger; the agent thread answers requests from the  *)
(* front buffer and, in an alarm, adds and deletes table rows and lowers   *)
(* the trigger.  There is no lock: the trigger alone says whose turn it is *)
(* to touch the list of sensors, and the two validity bits of a sensor say *)
(* which rows have to appear or go.                                        *)
(***************************************************************************)
EXTENDS Integers, Sequences

CONSTANTS Sensors,  \* the thermals, fans and PSUs a platform can have
          Order     \* the order in which onlp_oid_iterate meets them

ASSUME OrderAssumption == /\ Order \in Seq(Sensors)
                          /\ \A s \in Sensors : \E i \in DOMAIN Order : Order[i] = s
                          /\ \A i, j \in DOMAIN Order : Order[i] = Order[j] => i = j

VARIABLES
  hw,       \* what the platform says of each sensor
  sysok,    \* the header of the root OID can be read
  list,     \* the sensors that have a control structure
  valid,    \* sensor_info[].valid of each
  curr,     \* curr_info: which buffer is the front one
  trigger,  \* restructure_trigger
  rows,     \* the sensors with a row in their netsnmp table
  upd,      \* the update thread: where it is, and how far in Order
  agent     \* the agent thread: where it is, and what it works on

vars == <<hw, sysok, list, valid, curr, trigger, rows, upd, agent>>

\* "nohdr": listed by its parent, but neither its header nor the sensor can be
\* read (a platform without hdr_get answers from info_get); "noinfo": the header
\* can be read, the sensor cannot.
HwStates == {"ok", "gone", "nohdr", "noinfo"}
UpdateAt(l) == [pc |-> l, i |-> 1, listed |-> {}]
AgentIdle == [pc |-> "idle", buf |-> 0, todo |-> {}]
next == 1 - curr

TypeOK == /\ hw \in [Sensors -> HwStates]
          /\ sysok \in BOOLEAN
          /\ list \subseteq Sensors
          /\ valid \in [Sensors -> [0..1 -> BOOLEAN]]
          /\ curr \in 0..1
          /\ trigger \in BOOLEAN
          /\ rows \subseteq Sensors
          /\ upd \in [pc : {"idle", "mark", "root", "collect", "update", "swap", "raise"},
                      i : 1..Len(Order) + 1, listed : SUBSET Sensors]
          /\ agent \in [pc : {"idle", "reading", "restructure"},
                        buf : 0..1, todo : SUBSET Sensors]

\* The first update and restructuring, which onlp_snmp_sensors_init runs before
\* there is an update thread, are the first turn of each thread here: no request
\* can reach a table without rows.
Init == /\ hw \in [Sensors -> HwStates]
        /\ sysok = TRUE
        /\ list = {}
        /\ valid = [s \in Sensors |-> [b \in 0..1 |-> FALSE]]
        /\ curr = 0
        /\ trigger = FALSE
        /\ rows = {}
        /\ upd = UpdateAt("idle")
        /\ agent = AgentIdle

\* Sensors come, go and fail.
HwChange == /\ \/ /\ \E s \in Sensors : \E h \in HwStates \ {hw[s]} : hw' = [hw EXCEPT ![s] = h]
                  /\ UNCHANGED sysok
               \/ sysok' = ~sysok /\ UNCHANGED hw
            /\ UNCHANGED <<list, valid, curr, trigger, rows, upd, agent>>
-----------------------------------------------------------------------------
(* update_tables__, in the update thread                                   *)

GotoU(l) == upd' = UpdateAt(l)
SetNext(s, v) == valid' = [valid EXCEPT ![s][next] = v]

\* Mutant: an update starts whether or not the restructuring has happened.
BeginUnasked == /\ upd.pc = "idle"
                /\ GotoU("mark")
                /\ UNCHANGED <<hw, sysok, list, valid, curr, trigger, rows, agent>>

\* The period has passed, and the last restructuring has happened.
Begin == /\ upd.pc = "idle" /\ ~trigger
         /\ GotoU("mark")
         /\ UNCHANGED <<hw, sysok, list, valid, curr, trigger, rows, agent>>

\* Every back buffer is marked invalid.
Mark == /\ upd.pc = "mark"
        /\ valid' = [s \in Sensors |-> IF s \in list THEN [valid[s] EXCEPT ![next] = FALSE]
                                                     ELSE valid[s]]
        /\ GotoU("root")
        /\ UNCHANGED <<hw, sysok, list, curr, trigger, rows, agent>>

\* onlp_oid_iterate reads the root's header, which lists the OIDs below; if that
\* fails, the iteration ends with an error that update_tables__ ignores.
CollectRoot == /\ upd.pc = "root"
               /\ IF sysok
                    THEN upd' = [pc |-> "collect", i |-> 1,
                                 listed |-> {s \in Sensors : hw[s] # "gone"}]
                    ELSE GotoU("update")
               /\ UNCHANGED <<hw, sysok, list, valid, curr, trigger, rows, agent>>

\* collect_sensors__ is called for the next OID of the header, whose own header
\* is read then; if that fails, the whole iteration ends in the same way.
Collect == LET s == Order[upd.i] IN
  /\ upd.pc = "collect" /\ upd.i <= Len(Order)
  /\ IF s \in upd.listed THEN list' = list \cup {s} /\ SetNext(s, TRUE)
                        ELSE UNCHANGED <<list, valid>>
  /\ IF s \in upd.listed /\ hw[s] \in {"gone", "nohdr"}
       THEN GotoU("update") ELSE upd' = [upd EXCEPT !.i = @ + 1]
  /\ UNCHANGED <<hw, sysok, curr, trigger, rows, agent>>

CollectEnds == /\ upd.pc = "collect" /\ upd.i > Len(Order)
               /\ GotoU("update")
               /\ UNCHANGED <<hw, sysok, list, valid, curr, trigger, rows, agent>>

\* Mutant: a sensor that cannot be read stays valid.
UpdateUnchecked == /\ upd.pc = "update" /\ upd.i <= Len(Order)
                   /\ upd' = [upd EXCEPT !.i = @ + 1]
                   /\ UNCHANGED <<hw, sysok, list, valid, curr, trigger, rows, agent>>

\* A sensor marked valid is read into its back buffer; one that cannot be read
\* is invalid again.
Update == LET s == Order[upd.i] IN
  /\ upd.pc = "update" /\ upd.i <= Len(Order)
  /\ IF s \in list /\ valid[s][next] /\ hw[s] # "ok"
       THEN SetNext(s, FALSE) ELSE UNCHANGED valid
  /\ upd' = [upd EXCEPT !.i = @ + 1]
  /\ UNCHANGED <<hw, sysok, list, curr, trigger, rows, agent>>

UpdateEnds == /\ upd.pc = "update" /\ upd.i > Len(Order)
              /\ GotoU("swap")
              /\ UNCHANGED <<hw, sysok, list, valid, curr, trigger, rows, agent>>

\* swap_curr_next_info
Swap == /\ upd.pc = "swap"
        /\ curr' = next
        /\ GotoU("raise")
        /\ UNCHANGED <<hw, sysok, list, valid, trigger, rows, agent>>

Raise == /\ upd.pc = "raise"
         /\ trigger' = TRUE
         /\ GotoU("idle")
         /\ UNCHANGED <<hw, sysok, list, valid, curr, rows, agent>>
-----------------------------------------------------------------------------
(* The agent thread: one request or one alarm at a time.                   *)

\* A handler is given the sensor its row points to, and picks the front buffer.
Request(s) == /\ agent.pc = "idle" /\ s \in rows
              /\ agent' = [pc |-> "reading", buf |-> curr, todo |-> {s}]
              /\ UNCHANGED <<hw, sysok, list, valid, curr, trigger, rows, upd>>

\* It has read the validity and the data from that buffer.
Answer == /\ agent.pc = "reading"
          /\ agent' = AgentIdle
          /\ UNCHANGED <<hw, sysok, list, valid, curr, trigger, rows, upd>>

\* Mutant: the trigger is lowered at the start.
AlarmLowers == /\ agent.pc = "idle" /\ trigger
               /\ trigger' = FALSE
               /\ agent' = [pc |-> "restructure", buf |-> 0, todo |-> list]
               /\ UNCHANGED <<hw, sysok, list, valid, curr, rows, upd>>

\* restructure_tables__
Alarm == /\ agent.pc = "idle" /\ trigger
         /\ agent' = [pc |-> "restructure", buf |-> 0, todo |-> list]
         /\ UNCHANGED <<hw, sysok, list, valid, curr, trigger, rows, upd>>

\* Mutant: a sensor that has become invalid is freed and its row forgotten.
RestructureKeepsRow(s) ==
  /\ agent.pc = "restructure" /\ s \in agent.todo
  /\ agent' = [agent EXCEPT !.todo = @ \ {s}]
  /\ IF valid[s][next] /\ ~valid[s][curr]
       THEN /\ list' = list \ {s}
            /\ valid' = [valid EXCEPT ![s] = [b \in 0..1 |-> FALSE]]
            /\ UNCHANGED rows
       ELSE /\ rows' = IF valid[s][curr] THEN rows \cup {s} ELSE rows
            /\ UNCHANGED <<list, valid>>
  /\ UNCHANGED <<hw, sysok, curr, trigger, upd>>

\* Mutant: only new sensors are looked for.
RestructureAddsOnly(s) ==
  /\ agent.pc = "restructure" /\ s \in agent.todo
  /\ agent' = [agent EXCEPT !.todo = @ \ {s}]
  /\ rows' = IF ~valid[s][next] /\ valid[s][curr] THEN rows \cup {s} ELSE rows
  /\ UNCHANGED <<hw, sysok, list, valid, curr, trigger, upd>>

\* One sensor of the list: its row appears, or goes together with the sensor.
Restructure(s) ==
  LET previously == valid[s][next]
      now == valid[s][curr]
  IN /\ agent.pc = "restructure" /\ s \in agent.todo
     /\ agent' = [agent EXCEPT !.todo = @ \ {s}]
     /\ rows' = CASE ~previously /\ now -> rows \cup {s}
                  [] previously /\ ~now -> rows \ {s}
                  [] OTHER -> rows
     /\ IF previously /\ ~now
          THEN /\ list' = list \ {s}
               /\ valid' = [valid EXCEPT ![s] = [b \in 0..1 |-> FALSE]]
          ELSE UNCHANGED <<list, valid>>
     /\ UNCHANGED <<hw, sysok, curr, trigger, upd>>

RestructureEnds == /\ agent.pc = "restructure" /\ agent.todo = {}
                   /\ agent' = AgentIdle
                   /\ trigger' = FALSE
                   /\ UNCHANGED <<hw, sysok, list, valid, curr, rows, upd>>

Updater == Begin \/ Mark \/ CollectRoot \/ Collect \/ CollectEnds \/ Update \/ UpdateEnds \/ Swap \/ Raise

Alarms == Answer \/ Alarm \/ RestructureEnds \/ \E s \in Sensors : Restructure(s)

Next == HwChange \/ Updater \/ Alarms \/ \E s \in Sensors : Request(s)

Spec == Init /\ [][Next]_vars

\* The update thread wakes up every period; handlers return; the alarm comes
\* round every second, between requests.
FairSpec == Spec /\ WF_vars(Updater) /\ WF_vars(Answer) /\ SF_vars(Alarm)
                 /\ WF_vars(RestructureEnds \/ \E s \in Sensors : Restructure(s))
-----------------------------------------------------------------------------
\* The update thread is between two accesses to the list or to back buffers.
Updating == upd.pc # "idle"

\* The trigger keeps the threads apart: the alarm never walks, or frees from,
\* the list while the update thread walks it, adds to it or writes a buffer.
OneAtATime == ~(Updating /\ agent.pc = "restructure")

\* A handler never reads a buffer that the update thread is writing, although
\* the buffers may be swapped between its two reads, nor a sensor that was freed.
ReadsAreStable == agent.pc = "reading" =>
                    /\ agent.todo \subseteq list
                    /\ upd.pc \in {"mark", "root", "collect", "update"} => agent.buf = curr

\* No row points to a sensor that has been freed.
RowsLive == rows \subseteq list

\* When no restructuring is due, the tables have exactly one row for each sensor
\* whose front buffer is valid; while one is due, they have those of the buffer
\* that was in front before.
RowsMatchBuffers ==
  agent.pc # "restructure" =>
    rows = {s \in list : valid[s][IF trigger \/ upd.pc = "raise" THEN next ELSE curr]}

\* The inductive strengthening.  The trigger is up only while the update thread
\* rests, and a restructuring runs only while it is up.
TurnInv == /\ trigger => upd.pc = "idle"
           /\ agent.pc = "restructure" => trigger /\ agent.todo \subseteq list

\* A sensor without a control structure has no valid buffer left over.
FreshInv == \A s \in Sensors \ list : valid[s] = [b \in 0..1 |-> FALSE]

\* The buffer whose validity decided the row of s.
Deciding(s) ==
  IF \/ ~trigger /\ upd.pc # "raise"
     \/ agent.pc = "restructure" /\ s \notin agent.todo
    THEN curr ELSE next

RowsInv == \A s \in Sensors : s \in rows <=> s \in list /\ valid[s][Deciding(s)]

\* A swap during a request is followed by the trigger, which the agent, being
\* busy with the request, cannot lower.
ReadInv == agent.pc = "reading" => /\ agent.todo \subseteq rows
                                   /\ agent.buf = curr \/ upd.pc = "raise" \/ trigger

SInv == TypeOK /\ TurnInv /\ FreshInv /\ RowsInv /\ ReadInv

\* When the platform settles, and every header can be read, the tables end up
\* with the rows of exactly the sensors that can be read.
TablesTrackPlatform ==
  <>[][FALSE]_<<hw, sysok>> /\ <>[](sysok /\ \A s \in Sensors : hw[s] # "nohdr")
  => <>[](rows = {s \in Sensors : hw[s] = "ok"})

\* "discover new sensors for all tables, writing validity into next_info for all
\* sensors": a sensor that can always be read gets, and keeps, its row.  It does
\* not, if one before it has a header that cannot be read.
ReadableSensorsListed ==
  \A s \in Sensors : [](sysok /\ hw[s] = "ok") => <>[](s \in rows)
=============================================================================
