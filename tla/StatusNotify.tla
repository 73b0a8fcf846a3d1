---------------------------- MODULE StatusNotify ----------------------------
(***************************************************************************)
(* The PSU and fan notifications of the platform manager                   *)
(* (platform_psus_notify__ and platform_fans_notify__ in                   *)
(* onlp/module/src/platform_manager.c): once a second each compares the    *)
(* status every unit reports with the one recorded at the last successful  *)
(* read and writes the differences to syslog.                              *)
(*                                                                         *)
(* The hardware and the reader of the log are the environment.  The reader *)
(* believes what the messages say; the properties compare that belief with *)
(* what the manager has read.                                              *)
(***************************************************************************)
EXTENDS FiniteSets

CONSTANTS Psus, Fans,   \* the units in sys_info's OID table
          PsuStatuses,  \* sets of status flags a PSU reports
          FanStatuses   \* sets of status flags a fan reports

Flags == {"PRESENT", "FAILED", "UNPLUGGED"}

\* A reader takes a unit to be failed from a failure to a recovery; and the one that
\* is in the slot to be defective only until it is removed, or another inserted.
Beliefs == Flags \cup {"DEFECTIVE"}

ASSUME UnitsAssumption == Psus \cap Fans = {}
ASSUME StatusesAssumption == /\ PsuStatuses \subseteq SUBSET Flags
                             /\ FanStatuses \subseteq SUBSET Flags

VARIABLES
  status,  \* what the hardware reports for each unit
  table,   \* psu_info_table and fan_info_table: the recorded status
  flag,    \* flag[]: the initial state was reported
  loaded,  \* the kinds of unit whose OID table was fetched
  todo,    \* the units the current pass has still to visit
  belief   \* the reader: what the log tells it of each unit

vars == <<status, table, flag, loaded, todo, belief>>

Units == Psus \cup Fans
Statuses(u) == IF u \in Psus THEN PsuStatuses ELSE FanStatuses

TypeOK == /\ status \in [Units -> SUBSET Flags]
          /\ table \in [Units -> SUBSET Flags]
          /\ flag \in [Units -> BOOLEAN]
          /\ loaded \subseteq {"psu", "fan"}
          /\ todo \subseteq Units
          /\ belief \in [Units -> SUBSET Beliefs]

\* The tables are zeroed static data; the reader starts from no message.
Init == /\ status \in [Units -> SUBSET Flags]
        /\ \A u \in Units : status[u] \in Statuses(u)
        /\ table = [u \in Units |-> {}]
        /\ flag = [u \in Units |-> FALSE]
        /\ loaded = {}
        /\ todo = {}
        /\ belief = [u \in Units |-> {}]
-----------------------------------------------------------------------------
\* "report initial failed state"
Initial(u, new) ==
  {m \in {"not present", "failed", "not plugged"} :
     \/ m = "not present" /\ "PRESENT" \notin new
     \/ m = "failed"      /\ "FAILED" \in new
     \/ /\ m = "not plugged" /\ u \in Psus
        /\ new \cap {"PRESENT", "FAILED", "UNPLUGGED"} = {"PRESENT", "UNPLUGGED"}}

\* Mutant: no recoveries.
ChangesNoRecovery(u, old, new) ==
  {m \in {"inserted", "removed", "failed"} :
     \/ m = "inserted"  /\ "PRESENT" \in new \ old
     \/ m = "removed"   /\ "PRESENT" \in old \ new
     \/ m = "failed"    /\ "FAILED" \in new \ old}

\* "Log any presences or failure transitions."  A fan recovers even if it is
\* absent, a PSU only if it is present; the power cord is reported only while
\* the PSU is present and has not failed.
Changes(u, old, new) ==
  {m \in {"inserted", "removed", "recovered", "failed", "plugged in", "unplugged"} :
     \/ m = "inserted"  /\ "PRESENT" \in new \ old
     \/ m = "removed"   /\ "PRESENT" \in old \ new
     \/ m = "recovered" /\ "FAILED" \in old \ new
                        /\ (u \in Psus => "PRESENT" \in new)
     \/ m = "failed"    /\ "FAILED" \in new \ old
     \/ /\ u \in Psus /\ "PRESENT" \in new /\ "FAILED" \notin new
        /\ \/ m = "plugged in" /\ "UNPLUGGED" \in old \ new
           \/ m = "unplugged"  /\ "UNPLUGGED" \in new \ old}

\* What a reader of the log concludes from the messages about unit u.
Conclude(u, msgs) ==
  LET heard(m) == m \in msgs
      kept(f, ends) == f \in belief[u] /\ \A m \in ends : ~heard(m)
  IN {f \in Beliefs :
        CASE f = "PRESENT"   -> heard("inserted") \/ kept(f, {"removed", "not present"})
          [] f = "FAILED"    -> heard("failed") \/ kept(f, {"recovered"})
          [] f = "DEFECTIVE" -> \/ heard("failed")
                                \/ kept(f, {"recovered", "removed", "inserted"})
          [] f = "UNPLUGGED" -> \/ heard("unplugged") \/ heard("not plugged")
                                \/ kept(f, {"plugged in", "removed"})}
-----------------------------------------------------------------------------
\* The hardware changes between two reads.
Change(u) == /\ \E s \in Statuses(u) : s # status[u] /\ status' = [status EXCEPT ![u] = s]
             /\ UNCHANGED <<table, flag, loaded, todo, belief>>

\* A pass over one kind of unit; the OID table is fetched by the first pass
\* that can, and an empty one is fetched again.  Passes run one at a time.
Pass(kind, units) == /\ todo = {}
                     /\ loaded' = IF units = {} THEN loaded ELSE loaded \cup {kind}
                     /\ todo' = units
                     /\ UNCHANGED <<status, table, flag, belief>>

\* onlp_sys_info_get fails: the pass returns -1 and visits nothing.
PassFails(kind) == todo = {} /\ kind \notin loaded /\ UNCHANGED vars

\* Mutant: a change is recorded only on the first visit.
VisitOnce(u) ==
  LET new == status[u]
      msgs == Changes(u, table[u], new)
  IN /\ u \in todo
     /\ flag' = [flag EXCEPT ![u] = TRUE]
     /\ table' = IF flag[u] THEN table ELSE [table EXCEPT ![u] = new]
     /\ belief' = [belief EXCEPT ![u] = Conclude(u, msgs)]
     /\ todo' = todo \ {u}
     /\ UNCHANGED <<status, loaded>>

\* Mutant: the recorded status is overwritten before it is compared.
VisitCopiesFirst(u) ==
  LET new == status[u]
      msgs == IF flag[u] THEN {} ELSE Initial(u, new)
  IN /\ u \in todo
     /\ flag' = [flag EXCEPT ![u] = TRUE]
     /\ table' = [table EXCEPT ![u] = new]
     /\ belief' = [belief EXCEPT ![u] = Conclude(u, msgs)]
     /\ todo' = todo \ {u}
     /\ UNCHANGED <<status, loaded>>

\* One unit of the pass is read, its initial state and its changes are logged,
\* and its status is recorded.
Visit(u) ==
  LET new == status[u]
      msgs == (IF flag[u] THEN {} ELSE Initial(u, new)) \cup Changes(u, table[u], new)
  IN /\ u \in todo
     /\ flag' = [flag EXCEPT ![u] = TRUE]
     /\ table' = [table EXCEPT ![u] = new]
     /\ belief' = [belief EXCEPT ![u] = Conclude(u, msgs)]
     /\ todo' = todo \ {u}
     /\ UNCHANGED <<status, loaded>>

\* onlp_psu_info_get or onlp_fan_info_get fails: the unit is skipped.
ReadFails(u) == /\ u \in todo
                /\ todo' = todo \ {u}
                /\ UNCHANGED <<status, table, flag, loaded, belief>>

Next == \/ \E u \in Units : Change(u) \/ Visit(u) \/ ReadFails(u)
        \/ Pass("psu", Psus) \/ PassFails("psu")
        \/ Pass("fan", Fans) \/ PassFails("fan")

Spec == Init /\ [][Next]_vars

\* Both timers keep firing, a pass goes on to its end, and no unit is
\* unreadable for ever.
FairSpec == /\ Spec
            /\ WF_vars(\E u \in Units : Visit(u) \/ ReadFails(u))
            /\ SF_vars(Pass("psu", Psus)) /\ SF_vars(Pass("fan", Fans))
            /\ \A u \in Units : SF_vars(Visit(u))
-----------------------------------------------------------------------------
TellsPresence(u, s) == "PRESENT" \in belief[u] <=> "PRESENT" \in s

TellsFailure(u, s) ==
  /\ "FAILED" \in s => "FAILED" \in belief[u]
  /\ "DEFECTIVE" \in belief[u] /\ "PRESENT" \in s => "FAILED" \in s
  /\ u \in Fans => ("FAILED" \in belief[u] <=> "FAILED" \in s)

\* Whoever reads the log knows which units are present, after every visit.
LogTellsPresence == \A u \in Units : TellsPresence(u, table[u])

\* Whatever a driver reports of an absent unit, and although an absent PSU logs no
\* recovery and reads of a unit may fail in between: no failure is left untold, no
\* unit that works is taken to be defective, and a fan has failed when the log says so
\* and only then.
LogTellsFailure == \A u \in Units : TellsFailure(u, table[u])

\* Once the hardware stops changing, its final status is recorded, and the log tells
\* the presence and the failures in it (of the power cord see LogTellsUnplugged).
FinalStatusLogged ==
  <>[][FALSE]_status =>
    <>[](/\ table = status
         /\ \A u \in Units : TellsPresence(u, status[u]) /\ TellsFailure(u, status[u]))

\* "Internal notification handler for PSU status changes (all platforms)": the
\* log tells which of the PSUs that work have their power cord unplugged.  It does
\* not: a cord that is pulled or plugged while the PSU is failed or absent goes
\* unreported.
LogTellsUnplugged ==
  \A u \in Psus : table[u] \cap {"PRESENT", "FAILED"} = {"PRESENT"} =>
                    ("UNPLUGGED" \in belief[u] <=> "UNPLUGGED" \in table[u])
=============================================================================
