---------------------------- MODULE FaultReport ----------------------------
(***************************************************************************)
(* Fault reports on their way to faultd: the signal handler that fills one *)
(* record per process (faultd_handler.c), its three writes into the fifo   *)
(* (faultd_client_write) and the server that takes the stream apart again  *)
(* (faultd_server_read, faultd.c).                                         *)
(*                                                                         *)
(* The stream has no message boundaries.  A record has a fixed size and is *)
(* written at once; its text ends with a NUL; and a record's first byte is *)
(* a NUL, too, since it belongs to the pointer pipename, which only the    *)
(* server sets.  A text that lost its terminator therefore ends in the     *)
(* first byte of the next record, which is then read shifted by one byte   *)
(* and takes a byte of what follows it.  The shift makes backtrace_symbols *)
(* NULL exactly if that byte is a NUL (on a little-endian machine).        *)
(***************************************************************************)
EXTENDS Naturals, Sequences

CONSTANTS Procs,     \* processes with the handler registered
          Threads, ProcOf,
          Nobody,
          PipeMax,   \* bound: writes the fifo holds
          MaxDepth   \* bound: handlers interrupting each other in one thread

ASSUME ProcOfAssumption == ProcOf \in [Threads -> Procs]
ASSUME NobodyAssumption == Nobody \notin Threads
ASSUME BoundsAssumption == PipeMax \in Nat /\ MaxDepth \in Nat

VARIABLES
  alive,      \* per process
  connected,  \* per process: faultd_client__ is set
  lock,       \* per process: thread_lock__ is taken
  info,       \* per process: the thread that filled faultd_info__ last
  pc,         \* per thread: where its (innermost) handler is
  depth,      \* per thread: handlers that sleep under that one
  pipe,       \* the fifo
  srv,        \* what the server reads: "record", "shifted" (a record's last byte), "text"
  cur,        \* the report it is reading, and what it is so far
  shown,      \* what the last report shown was
  lastWrite,  \* history: the last write that reached the fifo
  woken,      \* history: a signal has ended the sleep of a handler
  overlapped, \* history: a write came between the writes of another report
  restarted   \* history: the server died with a report in the fifo or in progress

process == <<alive, connected>>
handler == <<lock, info, pc, depth, woken>>
server == <<srv, cur, shown>>
fifo == <<pipe, lastWrite, overlapped>>
vars == <<process, handler, server, fifo, restarted>>

Locations == {"idle", "sleep", "fill", "record", "text", "end", "unlock"}

\* What reaches the fifo.  It is torn if it tells of another thread than
\* the one that writes it, and follows on if the write before it ended a report.
Items == [kind : {"record", "rest", "text", "end"}, of : Threads,
          torn : BOOLEAN, follows : BOOLEAN]

Verdicts == {"nothing", "whole", "cut", "spoilt", "torn", "mixed"}

HistoryOK == woken \in BOOLEAN /\ overlapped \in BOOLEAN /\ restarted \in BOOLEAN

TypeOK == /\ alive \in [Procs -> BOOLEAN]
          /\ connected \in [Procs -> BOOLEAN]
          /\ lock \in [Procs -> BOOLEAN]
          /\ info \in [Procs -> Threads \cup {Nobody}]
          /\ pc \in [Threads -> Locations]
          /\ depth \in [Threads -> 0 .. MaxDepth]
          /\ pipe \in Seq(Items)
          /\ srv \in {"record", "shifted", "text", "adrift", "down"}
          /\ cur \in [of : Threads \cup {Nobody}, verdict : Verdicts]
          /\ shown \in Verdicts
          /\ lastWrite \in {"nothing", "record", "text", "end"}
          /\ HistoryOK

Init == /\ alive = [p \in Procs |-> FALSE]
        /\ connected = [p \in Procs |-> FALSE]
        /\ lock = [p \in Procs |-> FALSE]
        /\ info = [p \in Procs |-> Nobody]
        /\ pc = [t \in Threads |-> "idle"]
        /\ depth = [t \in Threads |-> 0]
        /\ pipe = <<>>
        /\ srv = "record"
        /\ cur = [of |-> Nobody, verdict |-> "nothing"]
        /\ shown = "nothing"
        /\ lastWrite = "nothing"
        /\ woken = FALSE /\ overlapped = FALSE /\ restarted = FALSE

\* Threads whose report has begun in the fifo and is not finished.
Writing == {t \in Threads : pc[t] \in {"text", "end"}}

\* Threads that use the shared record.
Reporting == {t \in Threads : pc[t] \in {"fill", "record", "text", "end", "unlock"}}
-----------------------------------------------------------------------------
(* Processes come and go.                                                  *)

\* faultd_handler_register.  Without a server the fifo cannot be opened, and the
\* process never reports to it.
Register(p) == /\ ~alive[p]
               /\ alive' = [alive EXCEPT ![p] = TRUE]
               /\ connected' = [connected EXCEPT ![p] = srv # "down"]
               /\ lock' = [lock EXCEPT ![p] = FALSE]
               /\ info' = [info EXCEPT ![p] = Nobody]
               /\ UNCHANGED <<pc, depth, woken, server, fifo, restarted>>

\* The fault was fatal: it recurs with the handler reset (SA_RESETHAND), perhaps
\* in a second thread while the first one reports; or the process is killed.  The
\* fifo is emptied when nobody has it open any more.
Die(p) == /\ alive[p]
          /\ alive' = [alive EXCEPT ![p] = FALSE]
          /\ connected' = [connected EXCEPT ![p] = FALSE]
          /\ pc' = [t \in Threads |-> IF ProcOf[t] = p THEN "idle" ELSE pc[t]]
          /\ depth' = [t \in Threads |-> IF ProcOf[t] = p THEN 0 ELSE depth[t]]
          /\ pipe' = IF srv = "down" /\ \A q \in Procs \ {p} : ~connected[q]
                       THEN <<>> ELSE pipe
          /\ UNCHANGED <<lock, info, woken, server, lastWrite, overlapped, restarted>>
-----------------------------------------------------------------------------
(* faultd_signal_handler__                                                 *)

Goto(t, l) == pc' = [pc EXCEPT ![t] = l]

\* Mutant: the result of the trylock is not looked at.
EnterUnlocked(t) == /\ alive[ProcOf[t]]
                    /\ pc[t] = "idle"
                    /\ lock' = [lock EXCEPT ![ProcOf[t]] = TRUE]
                    /\ Goto(t, "fill")
                    /\ UNCHANGED <<process, info, depth, woken, server, fifo, restarted>>

\* A signal with this handler: a thread that does not get the spin lock sleeps.
\* All signals are masked in the handler, except in its sleep.
Enter(t) == /\ alive[ProcOf[t]]
            /\ \/ pc[t] = "idle" /\ depth' = depth
               \/ /\ pc[t] = "sleep" /\ depth[t] < MaxDepth
                  /\ depth' = [depth EXCEPT ![t] = @ + 1]
            /\ lock' = [lock EXCEPT ![ProcOf[t]] = TRUE]
            /\ Goto(t, IF lock[ProcOf[t]] THEN "sleep" ELSE "fill")
            /\ UNCHANGED <<process, info, woken, server, fifo, restarted>>

\* A signal with a handler of the program's own ends the pselect: the thread goes
\* on without the lock.
Interrupted(t) == /\ pc[t] = "sleep"
                  /\ Goto(t, "fill")
                  /\ woken' = TRUE
                  /\ UNCHANGED <<process, lock, info, depth, server, fifo, restarted>>

\* The signal and the backtrace of this thread go into the shared record.
Fill(t) == /\ pc[t] = "fill"
           /\ info' = [info EXCEPT ![ProcOf[t]] = t]
           /\ Goto(t, IF connected[ProcOf[t]] THEN "record" ELSE "unlock")
           /\ UNCHANGED <<process, lock, depth, woken, server, fifo, restarted>>

\* One write into the fifo.  Each is small enough to be atomic.
Write(t, kind, torn) ==
  /\ srv # "down"
  /\ Len(pipe) < PipeMax
  /\ pipe' = Append(pipe, [kind |-> kind, of |-> t, torn |-> torn,
                           follows |-> lastWrite \in {"nothing", "end"}])
  /\ lastWrite' = kind
  /\ overlapped' = (overlapped \/ Writing \ {t} # {})
  /\ UNCHANGED <<process, lock, info, depth, woken, server, restarted>>

\* A write fails for want of room (the fifo is non-blocking) or of a reader.
WriteFails == /\ srv = "down" \/ pipe # <<>>
              /\ UNCHANGED <<process, lock, info, depth, woken, server, fifo, restarted>>

\* faultd_client_write: the record,
WriteRecord(t) ==
  /\ pc[t] = "record"
  /\ \/ Write(t, "record", info[ProcOf[t]] # t) /\ Goto(t, "text")
     \/ WriteFails /\ Goto(t, "unlock")

\* the text of the backtrace, whose errors nobody sees (backtrace_symbols_fd writes each
\* frame by itself; to the server they are one text, up to a NUL),
WriteText(t) ==
  /\ pc[t] = "text"
  /\ Write(t, "text", info[ProcOf[t]] # t) \/ WriteFails
  /\ Goto(t, "end")

\* Mutant: there is no terminator.
WriteNoEnd(t) == /\ pc[t] = "end"
                 /\ Goto(t, "unlock")
                 /\ lastWrite' = "end"
                 /\ UNCHANGED <<process, lock, info, depth, woken, server, pipe,
                                overlapped, restarted>>

\* and the terminator, whose error nobody sees either.
WriteEnd(t) == /\ pc[t] = "end"
               /\ Write(t, "end", FALSE) \/ WriteFails
               /\ Goto(t, "unlock")

\* The end of a handler, whoever has the lock; a handler that this one
\* interrupted finds its sleep ended.
Unlock(t) == /\ pc[t] = "unlock"
             /\ lock' = [lock EXCEPT ![ProcOf[t]] = FALSE]
             /\ IF depth[t] > 0
                  THEN /\ depth' = [depth EXCEPT ![t] = @ - 1]
                       /\ Goto(t, "fill")
                       /\ woken' = TRUE
                  ELSE /\ Goto(t, "idle")
                       /\ UNCHANGED <<depth, woken>>
             /\ UNCHANGED <<process, info, server, fifo, restarted>>
-----------------------------------------------------------------------------
(* faultd: faultd_server_read in a loop.                                   *)

Take == /\ pipe' = Tail(pipe)
        /\ UNCHANGED <<process, handler, lastWrite, overlapped, restarted>>

\* The first byte of a record is taken for a terminator; the rest stays.
TakeFirstByte == /\ pipe' = [pipe EXCEPT ![1].kind = "rest"]
                 /\ UNCHANGED <<process, handler, lastWrite, overlapped, restarted>>

Reads(state, kind) == srv = state /\ pipe # <<>> /\ Head(pipe).kind = kind

\* faultd_info_show, and the memset before the next read.
Show(v) == /\ srv' = "record"
           /\ shown' = v
           /\ cur' = [of |-> Nobody, verdict |-> "nothing"]

\* read_size__ of a record, in its place.
ReadRecord == /\ Reads("record", "record")
              /\ cur' = [of |-> Head(pipe).of,
                         verdict |-> IF Head(pipe).torn THEN "torn" ELSE "whole"]
              /\ srv' = "text"
              /\ shown' = "nothing"
              /\ Take

\* ... or shifted by one byte: the last one is still missing.
ReadRest == /\ Reads("record", "rest")
            /\ cur' = [of |-> Nobody, verdict |-> "spoilt"]
            /\ srv' = "shifted"
            /\ shown' = "nothing"
            /\ Take

\* ... or in the middle of something else: where it ends depends on lengths.
ReadOther == /\ Reads("record", "text") \/ Reads("record", "end")
             /\ srv' = "adrift"
             /\ UNCHANGED <<cur, shown, process, handler, fifo, restarted>>

\* The missing byte is the first one of a text, which is then read as usual;
\* or a terminator, or the first byte of a record, which makes
\* backtrace_symbols NULL and ends the report.
ReadLastByte ==
  \/ /\ Reads("shifted", "text")
     /\ srv' = "text"
     /\ Take
     /\ UNCHANGED <<cur, shown>>
  \/ /\ Reads("shifted", "end")
     /\ Show(cur.verdict)
     /\ Take
  \/ /\ Reads("shifted", "record")
     /\ Show(IF Head(pipe).follows THEN "mixed" ELSE cur.verdict)
     /\ TakeFirstByte

\* What becomes of a report whose verdict was v when something of t follows.
Mix(v, t) == IF v = "whole" /\ t # cur.of THEN "mixed" ELSE v

\* read_until__
ReadText == /\ Reads("text", "text")
            /\ cur' = [cur EXCEPT !.verdict =
                         IF @ = "whole" /\ Head(pipe).torn THEN "torn"
                                                          ELSE Mix(@, Head(pipe).of)]
            /\ Take
            /\ UNCHANGED <<srv, shown>>

\* The terminator.
ReadEnd == /\ Reads("text", "end")
           /\ Show(Mix(cur.verdict, Head(pipe).of))
           /\ Take

\* Mutant: the reader of a text steps over the whole next record.
ReadPastRecord == /\ Reads("text", "record")
                  /\ Take
                  /\ UNCHANGED <<srv, cur, shown>>

\* A record where the terminator should be.
ReadIntoRecord ==
  /\ Reads("text", "record")
  /\ Show(IF Head(pipe).follows THEN "mixed"
          ELSE IF cur.verdict = "whole" THEN "cut" ELSE cur.verdict)
  /\ TakeFirstByte

Read == \/ ReadRecord \/ ReadRest \/ ReadOther \/ ReadLastByte
        \/ ReadText \/ ReadEnd \/ ReadIntoRecord

\* The fifo keeps its contents while a client has it open.
ServerDies == /\ srv # "down"
              /\ srv' = "down"
              /\ cur' = [of |-> Nobody, verdict |-> "nothing"]
              /\ shown' = "nothing"
              /\ pipe' = IF \E p \in Procs : connected[p] THEN pipe ELSE <<>>
              /\ restarted' = (restarted \/ srv # "record" \/ pipe # <<>> \/ Writing # {})
              /\ UNCHANGED <<process, handler, lastWrite, overlapped>>

\* Started again by aim_daemonize, with the same fifo.
ServerStarts == /\ srv = "down"
                /\ srv' = "record"
                /\ UNCHANGED <<process, handler, cur, shown, fifo, restarted>>
-----------------------------------------------------------------------------
Handler(t) == \/ Enter(t) \/ Interrupted(t) \/ Fill(t)
              \/ WriteRecord(t) \/ WriteText(t) \/ WriteEnd(t) \/ Unlock(t)

\* What follows is not modelled: the records of two threads, or the parts of two
\* reports, are mixed in the fifo, or the server starts inside a report.
Disturbed == woken \/ overlapped \/ restarted

Next == /\ ~Disturbed /\ srv # "adrift"
        /\ \/ \E p \in Procs : Register(p) \/ Die(p)
           \/ \E t \in Threads : Handler(t)
           \/ Read \/ ServerDies \/ ServerStarts

Spec == Init /\ [][Next]_vars
-----------------------------------------------------------------------------
\* The inductive strengthening.  Handlers of one process: who is past the lock
\* has it, and the shared record is the one of whoever filled it.
HandlerInv ==
  /\ \A t \in Threads : pc[t] # "idle" => alive[ProcOf[t]]
  /\ ~woken => /\ \A t \in Reporting : lock[ProcOf[t]]
               /\ \A t, u \in Reporting : ProcOf[t] = ProcOf[u] => t = u
               /\ \A t \in Writing \cup {u \in Threads : pc[u] = "record"} :
                    info[ProcOf[t]] = t

\* What may stand behind a in the fifo: the next part of the same report, or a
\* new record, which follows on exactly if a ends a report.
Fits(a, b) == \/ b.kind = "record" /\ (b.follows <=> a.kind = "end")
              \/ b.kind \in {"text", "end"} /\ a.kind # "end" /\ b.of = a.of

StreamInv == /\ \A i \in 1 .. Len(pipe) : ~pipe[i].torn
             /\ \A i \in 2 .. Len(pipe) : pipe[i].kind # "rest" /\ Fits(pipe[i - 1], pipe[i])

\* Where the server is: in front of a record, or of the rest of a cut one; or
\* inside a report, in front of its next part or of the record that cuts it.
ServerInv ==
  /\ shown \in {"nothing", "whole", "cut", "spoilt"}
  /\ srv = "record" /\ pipe # <<>> => pipe[1].kind \in {"record", "rest"}
  /\ srv = "text" => cur.verdict \in {"whole", "spoilt"}
  /\ srv = "shifted" => cur.verdict = "spoilt"
  /\ srv \in {"text", "shifted"} /\ pipe # <<>> =>
       \/ pipe[1].kind = "record" /\ ~pipe[1].follows
       \/ /\ pipe[1].kind \in {"text", "end"}
          /\ cur.verdict = "whole" => pipe[1].of = cur.of
  /\ srv = "down" => pipe = <<>> /\ Writing = {}
  /\ srv # "adrift"

\* The end of the stream: what was written last, and by whom if he is not done.
LastInv ==
  /\ pipe # <<>> => LET last == pipe[Len(pipe)]
                    IN /\ lastWrite = IF last.kind = "rest" THEN "record" ELSE last.kind
                       /\ \A t \in Writing : last.of = t
  /\ pipe = <<>> => /\ lastWrite \in {"nothing", "end"} <=> srv \in {"record", "down"}
                    /\ \A t \in Writing : cur.verdict = "whole" => cur.of = t
  /\ Writing # {} => lastWrite \in {"record", "text"}
  /\ \A t, u \in Writing : t = u

IInv == /\ TypeOK
        /\ HandlerInv
        /\ ~Disturbed => StreamInv /\ ServerInv /\ LastInv
-----------------------------------------------------------------------------
\* "Make sure we syncronize properly with other threads that may *also* be
\* faulting": until a signal has ended the sleep of a waiting handler, one
\* thread of a process at most is past the lock, from its first look at the
\* shared record to its last write.
Synchronized ==
  ~woken => \A t, u \in Reporting : ProcOf[t] = ProcOf[u] => t = u

\* What a report cut short can damage.  Processes may die between any two writes
\* of a report and writes may fail; as long as reports do not overlap, no sleep
\* was ended and faultd did not die in the middle of one, the server never takes
\* parts of two reports for one, shows no record another thread has written over,
\* and never loses its place in the stream.
DamageIsBounded ==
  shown \in {"mixed", "torn"} \/ srv = "adrift" => Disturbed
=============================================================================
