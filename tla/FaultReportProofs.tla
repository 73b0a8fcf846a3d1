------------------------- MODULE FaultReportProofs -------------------------
(***************************************************************************)
(* Fault reports for any number of processes and threads and a fifo of any *)
(* size: the handler's lock, and how far a cut report can do damage.       *)
(***************************************************************************)
EXTENDS FaultReport, TLAPS

USE ProcOfAssumption, NobodyAssumption, BoundsAssumption

LEMMA InitInv == Init => IInv
<1> SUFFICES ASSUME Init PROVE IInv
  OBVIOUS
<1>1. pipe \in Seq(Items) BY DEF Init
<1>0. HistoryOK BY DEF Init, HistoryOK
<1>2. TypeOK BY <1>0, <1>1 DEF Init, TypeOK, Locations, Verdicts
<1>3. HandlerInv BY DEF Init, HandlerInv, Reporting, Writing
<1>4. StreamInv /\ ServerInv BY DEF Init, StreamInv, ServerInv, Writing
<1>5. LastInv BY DEF Init, LastInv, Writing
<1> QED BY <1>2, <1>3, <1>4, <1>5 DEF IInv

LEMMA EmptyByLength ==
  ASSUME NEW s \in Seq(Items)
  PROVE  s = <<>> <=> Len(s) = 0
  OBVIOUS

LEMMA OneOrMore ==
  ASSUME NEW s \in Seq(Items), s # <<>>
  PROVE  Len(s) = 1 \/ Len(s) > 1
<1>1. Len(s) \in Nat /\ Len(s) # 0
  OBVIOUS
<1>2. \A n \in Nat : n # 0 => n = 1 \/ n > 1
  OBVIOUS
<1> QED BY <1>1, <1>2

LEMMA NextCases ==
  ASSUME Next
  PROVE  /\ ~Disturbed /\ srv # "adrift"
         /\ \/ \E p \in Procs : Register(p) \/ Die(p)
            \/ \E t \in Threads : \/ Enter(t) \/ Interrupted(t) \/ Fill(t)
                                  \/ WriteRecord(t) \/ WriteText(t) \/ WriteEnd(t)
                                  \/ Unlock(t)
            \/ ReadRecord \/ ReadRest \/ ReadOther \/ ReadLastByte
            \/ ReadText \/ ReadEnd \/ ReadIntoRecord
            \/ ServerDies \/ ServerStarts
  BY DEF Next, Handler, Read
-----------------------------------------------------------------------------
(* Types.                                                                  *)

LEMMA HistoryStep == ASSUME TypeOK, Next PROVE HistoryOK'
<1> USE DEF HistoryOK, handler, fifo
<1> HistoryOK BY DEF TypeOK
<1>1. ASSUME NEW p \in Procs, Register(p) \/ Die(p) PROVE HistoryOK'
  BY <1>1 DEF Register, Die
<1>2. ASSUME NEW t \in Threads, Enter(t) \/ Interrupted(t) \/ Fill(t) \/ Unlock(t)
      PROVE  HistoryOK'
  BY <1>2 DEF Enter, Interrupted, Fill, Unlock
<1>3. ASSUME NEW t \in Threads, WriteRecord(t) \/ WriteText(t) \/ WriteEnd(t)
      PROVE  HistoryOK'
  BY <1>3 DEF WriteRecord, WriteText, WriteEnd, Write, WriteFails
<1>4. ASSUME ReadRecord \/ ReadRest \/ ReadOther \/ ReadLastByte \/ ReadText
             \/ ReadEnd \/ ReadIntoRecord
      PROVE  HistoryOK'
  BY <1>4 DEF ReadRecord, ReadRest, ReadOther, ReadLastByte, ReadText, ReadEnd,
              ReadIntoRecord, Take, TakeFirstByte
<1>5. ASSUME ServerDies \/ ServerStarts PROVE HistoryOK'
  BY <1>5 DEF ServerDies, ServerStarts
<1> QED BY <1>1, <1>2, <1>3, <1>4, <1>5, NextCases

LEMMA TypeStep == ASSUME TypeOK, Next PROVE TypeOK'
<1> HistoryOK' BY HistoryStep
<1> USE DEF TypeOK, Locations, process, handler, server, fifo
<1>1. ASSUME NEW p \in Procs, Register(p) PROVE TypeOK'
  BY <1>1 DEF Register
<1>0. ASSUME NEW p \in Procs, Die(p) PROVE TypeOK'
  <2>1. pipe' \in Seq(Items)
    BY <1>0 DEF Die
  <2> QED BY <1>0, <2>1 DEF Die
<1>2. ASSUME NEW t \in Threads, Enter(t) PROVE TypeOK'
  <2>1. depth' \in [Threads -> 0 .. MaxDepth]
    BY <1>2 DEF Enter
  <2> QED BY <1>2, <2>1 DEF Enter, Goto
<1>3. ASSUME NEW t \in Threads, Interrupted(t) \/ Fill(t) PROVE TypeOK'
  <2>1. CASE Interrupted(t) BY <2>1 DEF Interrupted, Goto
  <2>2. CASE Fill(t) BY <2>2 DEF Fill, Goto
  <2> QED BY <1>3, <2>1, <2>2
<1>4. ASSUME NEW t \in Threads, WriteRecord(t) \/ WriteText(t) \/ WriteEnd(t)
      PROVE  TypeOK'
  <2>1. ASSUME NEW k \in {"record", "text", "end"}, NEW torn \in BOOLEAN, Write(t, k, torn)
        PROVE  pipe' \in Seq(Items) /\ lastWrite' \in {"record", "text", "end"}
                 /\ overlapped' \in BOOLEAN
    <3>1. [kind |-> k, of |-> t, torn |-> torn,
           follows |-> lastWrite \in {"nothing", "end"}] \in Items
      BY DEF Items
    <3> QED BY <2>1, <3>1 DEF Write
  <2>2. CASE WriteRecord(t)
    BY <2>1, <2>2 DEF WriteRecord, Write, WriteFails, Goto
  <2>3. CASE WriteText(t)
    BY <2>1, <2>3 DEF WriteText, Write, WriteFails, Goto
  <2>4. CASE WriteEnd(t)
    BY <2>1, <2>4 DEF WriteEnd, Write, WriteFails, Goto
  <2> QED BY <1>4, <2>2, <2>3, <2>4
<1>5. ASSUME NEW t \in Threads, Unlock(t) PROVE TypeOK'
  <2>1. depth' \in [Threads -> 0 .. MaxDepth]
    <3>1. depth[t] \in 0 .. MaxDepth
      OBVIOUS
    <3>2. depth[t] > 0 => depth[t] - 1 \in 0 .. MaxDepth
      BY <3>1
    <3> QED BY <1>5, <3>2 DEF Unlock
  <2>2. pc' \in [Threads -> Locations]
    BY <1>5 DEF Unlock, Goto
  <2> QED BY <1>5, <2>1, <2>2 DEF Unlock
<1>6. ASSUME Take, pipe # <<>> PROVE pipe' \in Seq(Items)
  BY <1>6 DEF Take
<1>7. ASSUME TakeFirstByte, pipe # <<>> PROVE pipe' \in Seq(Items)
  <2>1. pipe[1] \in Items
    BY <1>7
  <2>2. [pipe[1] EXCEPT !.kind = "rest"] \in Items
    BY <2>1 DEF Items
  <2> QED BY <1>7, <2>2 DEF TakeFirstByte
<1>8. ASSUME ReadRecord \/ ReadRest \/ ReadText \/ ReadEnd PROVE TypeOK'
  <2>1. pipe # <<>> /\ Take /\ Head(pipe) \in Items
    BY <1>8 DEF ReadRecord, ReadRest, ReadText, ReadEnd, Reads
  <2> QED BY <1>6, <1>8, <2>1 DEF ReadRecord, ReadRest, ReadText, ReadEnd, Show, Mix, Take,
             Verdicts, Items
<1>9. ASSUME ReadLastByte \/ ReadIntoRecord PROVE TypeOK'
  <2>1. pipe # <<>> /\ (Take \/ TakeFirstByte)
    BY <1>9 DEF ReadLastByte, ReadIntoRecord, Reads
  <2> QED BY <1>6, <1>7, <1>9, <2>1 DEF ReadLastByte, ReadIntoRecord, Show, Take,
             TakeFirstByte, Verdicts
<1>10. ASSUME ReadOther \/ ServerStarts PROVE TypeOK'
  BY <1>10 DEF ReadOther, ServerStarts
<1>11. ASSUME ServerDies PROVE TypeOK'
  BY <1>11 DEF ServerDies, Verdicts
<1> QED BY <1>0, <1>1, <1>2, <1>3, <1>4, <1>5, <1>8, <1>9, <1>10, <1>11, NextCases
-----------------------------------------------------------------------------
(* The lock of the handler.                                                *)

LEMMA HandlerStep == ASSUME TypeOK, HandlerInv, Next PROVE HandlerInv'
<1> USE DEF HandlerInv, Reporting, Writing, process, handler, server, fifo
<1>0. ~woken BY NextCases DEF Disturbed
<1> DEFINE Exclusive == /\ \A t \in Reporting : lock[ProcOf[t]]
                        /\ \A t, u \in Reporting : ProcOf[t] = ProcOf[u] => t = u
                        /\ \A t \in Writing \cup {u \in Threads : pc[u] = "record"} :
                             info[ProcOf[t]] = t
<1> Exclusive BY <1>0
<1> /\ lock \in [Procs -> BOOLEAN] /\ alive \in [Procs -> BOOLEAN]
    /\ pc \in [Threads -> Locations] /\ info \in [Procs -> Threads \cup {Nobody}]
  BY DEF TypeOK
<1>1. ASSUME NEW p \in Procs, Register(p) PROVE HandlerInv'
  BY <1>1 DEF Register
<1>9. ASSUME NEW p \in Procs, Die(p) PROVE HandlerInv'
  BY <1>9 DEF Die
<1>2. ASSUME NEW t \in Threads, Enter(t) PROVE HandlerInv'
  BY <1>2 DEF Enter, Goto
<1>3. ASSUME NEW t \in Threads, Interrupted(t) PROVE HandlerInv'
  BY <1>3 DEF Interrupted, Goto
<1>4. ASSUME NEW t \in Threads, Fill(t) PROVE HandlerInv'
  BY <1>4 DEF Fill, Goto
<1>5. ASSUME NEW t \in Threads, WriteRecord(t) \/ WriteText(t) \/ WriteEnd(t)
      PROVE  HandlerInv'
  <2>1. /\ UNCHANGED <<alive, lock, info, woken>>
        /\ \E l \in {"text", "end", "unlock"} : pc' = [pc EXCEPT ![t] = l]
        /\ pc[t] \in {"record", "text", "end"}
    BY <1>5 DEF WriteRecord, WriteText, WriteEnd, Write, WriteFails, Goto
  <2> QED BY <2>1
<1>6. ASSUME NEW t \in Threads, Unlock(t) PROVE HandlerInv'
  <2>1. CASE depth[t] > 0
    BY <1>6, <2>1 DEF Unlock, Goto
  <2>2. CASE ~(depth[t] > 0)
    BY <1>6, <2>2 DEF Unlock, Goto
  <2> QED BY <2>1, <2>2
<1>7. ASSUME ReadRecord \/ ReadRest \/ ReadOther \/ ReadLastByte \/ ReadText
             \/ ReadEnd \/ ReadIntoRecord
      PROVE  HandlerInv'
  BY <1>7 DEF ReadRecord, ReadRest, ReadOther, ReadLastByte, ReadText, ReadEnd,
              ReadIntoRecord, Take, TakeFirstByte
<1>8. ASSUME ServerDies \/ ServerStarts PROVE HandlerInv'
  BY <1>8 DEF ServerDies, ServerStarts
<1> QED BY <1>1, <1>2, <1>3, <1>4, <1>5, <1>6, <1>7, <1>8, <1>9, NextCases
-----------------------------------------------------------------------------
(* The stream.  Each lemma takes one way the fifo can change.              *)

Undisturbed == StreamInv /\ ServerInv /\ LastInv

\* Neither the fifo nor the server moves.
LEMMA QuietStep ==
  ASSUME Undisturbed, UNCHANGED <<server, pipe, lastWrite>>, Writing' \subseteq Writing
  PROVE  Undisturbed'
  BY DEF Undisturbed, StreamInv, ServerInv, LastInv, Fits, server

\* A write that reaches the fifo.
LEMMA WriteStep ==
  ASSUME TypeOK, HandlerInv, Undisturbed, ~woken, ~overlapped', NEW t \in Threads,
         NEW k \in {"record", "text", "end"}, NEW torn,
         pc[t] = k, Write(t, k, torn), torn => info[ProcOf[t]] # t,
         Writing' = IF k = "end" THEN Writing \ {t} ELSE Writing \cup {t}
  PROVE  Undisturbed'
<1> DEFINE item == [kind |-> k, of |-> t, torn |-> torn,
                    follows |-> lastWrite \in {"nothing", "end"}]
           n == Len(pipe)
<1>1. /\ pipe' = Append(pipe, item) /\ lastWrite' = k
      /\ srv # "down" /\ UNCHANGED <<srv, cur, shown>>
      /\ pipe \in Seq(Items) /\ n \in Nat
  BY DEF Write, server, TypeOK
<1>2. /\ Len(pipe') = n + 1 /\ pipe' # <<>>
      /\ \A i \in 1 .. n : pipe'[i] = pipe[i]
      /\ pipe'[n + 1] = item
  BY <1>1
<1>3. Writing \ {t} = {} /\ info[ProcOf[t]] = t
  BY DEF Write, HandlerInv, Writing
<1>4. ~item.torn /\ item.of = t /\ item.kind = k
  BY <1>3
<1>5. t \in Writing <=> k \in {"text", "end"}
  BY DEF Writing
<1>6. k = "record" \/ lastWrite \in {"record", "text"}
  BY <1>5 DEF Undisturbed, LastInv
<1>7. pipe # <<>> => Fits(pipe[n], item)
  <2> SUFFICES ASSUME pipe # <<>> PROVE Fits(pipe[n], item)
    OBVIOUS
  <2>1. lastWrite = IF pipe[n].kind = "rest" THEN "record" ELSE pipe[n].kind
    BY DEF Undisturbed, LastInv
  <2>2. t \in Writing => pipe[n].of = t
    BY DEF Undisturbed, LastInv
  <2>3. n \in 1 .. n /\ pipe[n] \in Items
    BY <1>1
  <2> QED BY <1>4, <1>5, <1>6, <2>1, <2>2, <2>3 DEF Fits, Items
<1>8. StreamInv'
  <2>1. \A i \in 1 .. n + 1 : ~pipe'[i].torn
    BY <1>1, <1>2, <1>4 DEF Undisturbed, StreamInv
  <2>2. ASSUME NEW i \in 2 .. n + 1
        PROVE  pipe'[i].kind # "rest" /\ Fits(pipe'[i - 1], pipe'[i])
    <3>1. CASE i \in 2 .. n
      BY <1>1, <1>2, <3>1 DEF Undisturbed, StreamInv
    <3>2. CASE i = n + 1
      BY <1>1, <1>2, <1>4, <1>7, <3>2
    <3> QED BY <1>1, <3>1, <3>2
  <2> QED BY <1>2, <2>1, <2>2 DEF StreamInv, Fits
<1>9. ServerInv'
  <2>1. CASE pipe # <<>>
    <3>1. pipe'[1] = pipe[1]
      BY <1>1, <1>2, <2>1
    <3> QED BY <1>1, <1>2, <2>1, <3>1 DEF Undisturbed, ServerInv
  <2>2. CASE pipe = <<>>
    <3>1. pipe'[1] = item
      BY <1>1, <1>2, <2>2
    <3>2. srv = "record" => k = "record"
      BY <1>6, <2>2 DEF Undisturbed, LastInv
    <3>3. srv # "record" => ~item.follows
      BY <1>1, <2>2 DEF Undisturbed, LastInv
    <3>4. k # "record" /\ cur.verdict = "whole" => item.of = cur.of
      BY <1>5, <2>2 DEF Undisturbed, LastInv
    <3> QED BY <1>1, <1>2, <1>4, <2>2, <3>1, <3>2, <3>3, <3>4 DEF Undisturbed, ServerInv
  <2> QED BY <2>1, <2>2
<1>10. LastInv'
  <2>1. \A u \in Writing' : u = t /\ k # "end"
    BY <1>3
  <2> QED BY <1>1, <1>2, <1>4, <2>1 DEF LastInv
<1> QED BY <1>8, <1>9, <1>10 DEF Undisturbed

\* The server takes the first part of the fifo.
LEMMA TakeStep ==
  ASSUME TypeOK, Undisturbed, pipe # <<>>, Take,
         ReadRecord \/ ReadRest \/ ReadText \/ ReadEnd \/ ReadLastByte
  PROVE  Undisturbed'
<1> DEFINE n == Len(pipe)
<1>1. /\ pipe' = Tail(pipe) /\ UNCHANGED <<lastWrite, pc>>
      /\ pipe \in Seq(Items) /\ n \in Nat \ {0} /\ Head(pipe) = pipe[1]
  BY DEF Take, handler, TypeOK
<1>0. n = 1 \/ n > 1
  BY OneOrMore DEF TypeOK
<1>2. /\ Len(pipe') = n - 1
      /\ \A i \in 1 .. n - 1 : pipe'[i] = pipe[i + 1]
      /\ pipe' = <<>> <=> n = 1
  <2>1. Len(pipe') = n - 1 /\ pipe' \in Seq(Items)
    BY <1>1
  <2>2. \A i \in 1 .. n - 1 : pipe'[i] = pipe[i + 1]
    BY <1>1
  <2>3. pipe' = <<>> <=> Len(pipe') = 0
    BY <2>1, EmptyByLength
  <2>4. n - 1 = 0 <=> n = 1
    BY <1>1
  <2> QED BY <2>1, <2>2, <2>3, <2>4
<1>3. Writing' = Writing
  BY <1>1 DEF Writing
<1>4. pipe[1] \in Items /\ ~pipe[1].torn
  BY <1>1 DEF Undisturbed, StreamInv
<1>5. n > 1 => Fits(pipe[1], pipe[2]) /\ pipe[2].kind # "rest"
  BY <1>1 DEF Undisturbed, StreamInv
<1>6. StreamInv'
  <2>1. \A i \in 1 .. n - 1 : ~pipe'[i].torn
    BY <1>1, <1>2 DEF Undisturbed, StreamInv
  <2>2. ASSUME NEW i \in 2 .. n - 1
        PROVE  pipe'[i].kind # "rest" /\ Fits(pipe'[i - 1], pipe'[i])
    <3>1. i + 1 \in 2 .. n /\ pipe'[i] = pipe[i + 1] /\ pipe'[i - 1] = pipe[i]
      BY <1>1, <1>2
    <3>2. pipe[i + 1].kind # "rest" /\ Fits(pipe[(i + 1) - 1], pipe[i + 1])
      BY <3>1 DEF Undisturbed, StreamInv
    <3> QED BY <3>1, <3>2
  <2> QED BY <1>2, <2>1, <2>2 DEF StreamInv, Fits
\* Where the server is afterwards, by what it took.
<1> DEFINE At == /\ srv' \in {"record", "shifted", "text"}
                 /\ shown' \in {"nothing", "whole", "cut", "spoilt"}
                 /\ srv' = "record" <=> pipe[1].kind = "end"
                 /\ srv' = "shifted" => cur'.verdict = "spoilt"
                 /\ srv' = "text" => /\ cur'.verdict \in {"whole", "spoilt"}
                                     /\ cur'.verdict = "whole" => cur'.of = pipe[1].of
<1>7. At
  <2>1. CASE ReadRecord
    BY <1>1, <1>4, <2>1 DEF ReadRecord, Reads
  <2>2. CASE ReadRest
    BY <1>1, <2>2 DEF ReadRest, Reads
  <2>3. CASE ReadText
    <3>1. /\ pipe[1].kind = "text" /\ srv' = "text" /\ shown' = shown
          /\ cur' = [cur EXCEPT !.verdict = IF @ = "whole" /\ pipe[1].torn
                                              THEN "torn" ELSE Mix(@, pipe[1].of)]
          /\ cur.verdict = "whole" => pipe[1].of = cur.of
          /\ cur.verdict \in {"whole", "spoilt"}
          /\ shown \in {"nothing", "whole", "cut", "spoilt"}
      BY <1>1, <2>3 DEF ReadText, Reads, Undisturbed, ServerInv
    <3>2. cur' = cur
      BY <1>4, <3>1 DEF Mix, TypeOK
    <3> QED BY <3>1, <3>2
  <2>4. CASE ReadEnd
    <3>1. /\ cur.verdict = "whole" => pipe[1].of = cur.of
          /\ cur.verdict \in {"whole", "spoilt"} /\ pipe[1].kind = "end"
      BY <1>1, <2>4 DEF ReadEnd, Reads, Undisturbed, ServerInv
    <3> QED BY <1>1, <2>4, <3>1 DEF ReadEnd, Show, Mix
  <2>5. CASE ReadLastByte
    <3>1. /\ srv = "shifted" /\ cur.verdict = "spoilt"
          /\ shown \in {"nothing", "whole", "cut", "spoilt"}
      BY <2>5 DEF ReadLastByte, Reads, Undisturbed, ServerInv
    <3>2. pipe[1].kind # "record" \/ pipe' = [pipe EXCEPT ![1].kind = "rest"]
      BY <1>1, <2>5 DEF ReadLastByte, Reads, TakeFirstByte
    <3>3. Len([pipe EXCEPT ![1].kind = "rest"]) = n /\ n # n - 1
      BY <1>1
    <3>4. pipe[1].kind # "record"
      BY <1>2, <3>2, <3>3
    <3> QED BY <1>1, <2>5, <3>1, <3>4 DEF ReadLastByte, Reads, Show
  <2> QED BY <2>1, <2>2, <2>3, <2>4, <2>5
<1>8. ServerInv'
  <2>1. CASE n = 1
    BY <1>2, <1>7, <2>1 DEF ServerInv
  <2>2. CASE n > 1
    <3>1. pipe'[1] = pipe[2] /\ pipe[2] \in Items /\ pipe' # <<>>
      BY <1>1, <1>2, <2>2
    <3>2. pipe[2].kind = "record" => ~pipe[2].follows \/ srv' = "record"
      BY <1>5, <1>7, <2>2 DEF Fits
    <3> QED BY <1>4, <1>5, <1>7, <2>2, <3>1, <3>2 DEF ServerInv, Fits, Items
  <2> QED BY <1>0, <2>1, <2>2
<1>9. LastInv'
  <2>1. CASE n = 1
    BY <1>1, <1>2, <1>3, <1>4, <1>7, <2>1 DEF Undisturbed, LastInv, Items
  <2>2. CASE n > 1
    <3>1. pipe'[Len(pipe')] = pipe[Len(pipe)] /\ pipe' # <<>> /\ pipe # <<>>
      BY <1>1, <1>2, <2>2
    <3> QED BY <1>1, <1>3, <3>1 DEF Undisturbed, LastInv
  <2> QED BY <1>0, <2>1, <2>2
<1> QED BY <1>6, <1>8, <1>9 DEF Undisturbed

\* The server takes the first byte of a record for a terminator.
LEMMA TakeFirstByteStep ==
  ASSUME TypeOK, Undisturbed, pipe # <<>>, TakeFirstByte, pipe[1].kind = "record",
         srv \in {"text", "shifted"}, srv' = "record",
         shown' \in {"cut", "spoilt"}
  PROVE  Undisturbed'
<1> DEFINE n == Len(pipe)
<1>1. /\ pipe' = [pipe EXCEPT ![1].kind = "rest"] /\ UNCHANGED <<lastWrite, pc>>
      /\ pipe \in Seq(Items) /\ n \in Nat \ {0}
  BY DEF TakeFirstByte, handler, TypeOK
<1>0. n = 1 \/ n > 1
  BY OneOrMore DEF TypeOK
<1>2. pipe[1] \in Items
  BY <1>1
<1>3. /\ Len(pipe') = n /\ pipe' # <<>>
      /\ \A i \in 2 .. n : pipe'[i] = pipe[i]
      /\ pipe'[1] = [pipe[1] EXCEPT !.kind = "rest"]
  BY <1>1
<1>4. /\ pipe'[1].kind = "rest" /\ pipe'[1].of = pipe[1].of
      /\ pipe'[1].torn = pipe[1].torn
  BY <1>2, <1>3 DEF Items
<1>5. Writing' = Writing
  BY <1>1 DEF Writing
<1>6. StreamInv'
  <2>1. \A i \in 1 .. n : ~pipe'[i].torn
    BY <1>1, <1>3, <1>4 DEF Undisturbed, StreamInv
  <2>2. ASSUME NEW i \in 2 .. n
        PROVE  pipe'[i].kind # "rest" /\ Fits(pipe'[i - 1], pipe'[i])
    <3>1. pipe'[i] = pipe[i] /\ pipe[i].kind # "rest" /\ Fits(pipe[i - 1], pipe[i])
      BY <1>1, <1>3 DEF Undisturbed, StreamInv
    <3>2. CASE i = 2
      BY <1>4, <3>1, <3>2 DEF Fits
    <3>3. CASE i # 2
      BY <1>3, <3>1, <3>3
    <3> QED BY <3>2, <3>3
  <2> QED BY <1>3, <2>1, <2>2 DEF StreamInv, Fits
<1>7. ServerInv'
  BY <1>3, <1>4 DEF ServerInv
<1>8. LastInv'
  <2>1. CASE n = 1
    BY <1>1, <1>3, <1>4, <1>5, <2>1 DEF Undisturbed, LastInv
  <2>2. CASE n > 1
    <3>1. pipe'[Len(pipe')] = pipe[Len(pipe)] /\ pipe' # <<>> /\ pipe # <<>>
      BY <1>1, <1>3, <2>2
    <3> QED BY <1>1, <1>5, <3>1 DEF Undisturbed, LastInv
  <2> QED BY <1>0, <2>1, <2>2
<1> QED BY <1>6, <1>7, <1>8 DEF Undisturbed
-----------------------------------------------------------------------------
LEMMA UndisturbedStep ==
  ASSUME IInv, Next, ~Disturbed'
  PROVE  Undisturbed'
<1>1. /\ TypeOK /\ HandlerInv /\ Undisturbed
      /\ ~woken /\ ~woken' /\ ~overlapped' /\ ~restarted'
  BY NextCases DEF IInv, Undisturbed, Disturbed
<1> USE <1>1
<1>2. ASSUME NEW p \in Procs, Register(p) PROVE Undisturbed'
  BY <1>2, QuietStep DEF Register, fifo, Writing
<1>3. ASSUME NEW p \in Procs, Die(p) PROVE Undisturbed'
  <2>1. Writing' \subseteq Writing
    BY <1>3 DEF Die, Writing
  <2>2. UNCHANGED <<server, pipe, lastWrite>>
    BY <1>3 DEF Die, Undisturbed, ServerInv
  <2> QED BY <2>1, <2>2, QuietStep
<1>4. ASSUME NEW t \in Threads, Enter(t) \/ Interrupted(t) \/ Fill(t) \/ Unlock(t)
      PROVE  Undisturbed'
  <2>1. UNCHANGED <<server, pipe, lastWrite>>
    BY <1>4 DEF Enter, Interrupted, Fill, Unlock, fifo
  <2>2. Writing' \subseteq Writing
    BY <1>4 DEF Enter, Interrupted, Fill, Unlock, Goto, Writing, TypeOK
  <2> QED BY <2>1, <2>2, QuietStep
<1>5. ASSUME NEW t \in Threads, WriteRecord(t) \/ WriteText(t) \/ WriteEnd(t)
      PROVE  Undisturbed'
  <2> pc \in [Threads -> Locations]
    BY DEF TypeOK
  <2>1. CASE WriteFails
    <3>1. UNCHANGED <<server, pipe, lastWrite>>
      BY <2>1 DEF WriteFails, fifo
    <3>2. Writing' \subseteq Writing
      BY <1>5, <2>1 DEF WriteRecord, WriteText, WriteEnd, Write, WriteFails, Goto,
                        Writing, fifo
    <3> QED BY <3>1, <3>2, QuietStep
  <2>2. CASE WriteRecord(t) /\ ~WriteFails
    BY <2>2, WriteStep DEF WriteRecord, Goto, Writing
  <2>3. CASE WriteText(t) /\ ~WriteFails
    BY <2>3, WriteStep DEF WriteText, Goto, Writing
  <2>4. CASE WriteEnd(t) /\ ~WriteFails
    BY <2>4, WriteStep DEF WriteEnd, Goto, Writing
  <2> QED BY <1>5, <2>1, <2>2, <2>3, <2>4
<1>6. ASSUME ReadRecord \/ ReadRest \/ ReadText \/ ReadEnd PROVE Undisturbed'
  BY <1>6, TakeStep DEF ReadRecord, ReadRest, ReadText, ReadEnd, Reads
<1>7. pipe # <<>> => Head(pipe) = pipe[1] /\ pipe[1] \in Items
  BY DEF TypeOK
<1>8. ASSUME ReadLastByte PROVE Undisturbed'
  <2>1. CASE Take
    BY <1>8, <2>1, TakeStep DEF ReadLastByte, Reads
  <2>2. CASE ~Take
    BY <1>7, <1>8, <2>2, TakeFirstByteStep
    DEF ReadLastByte, Reads, Show, Undisturbed, ServerInv
  <2> QED BY <2>1, <2>2
<1>9. ASSUME ReadIntoRecord PROVE Undisturbed'
  BY <1>7, <1>9, TakeFirstByteStep DEF ReadIntoRecord, Reads, Show, Undisturbed, ServerInv
<1>10. ASSUME ReadOther PROVE Undisturbed'
  BY <1>7, <1>10 DEF ReadOther, Reads, Undisturbed, ServerInv
<1>11. ASSUME ServerDies PROVE Undisturbed'
  <2>1. srv = "record" /\ pipe = <<>> /\ Writing = {}
    BY <1>11 DEF ServerDies
  <2>2. /\ srv' = "down" /\ shown' = "nothing" /\ pipe' = <<>>
        /\ UNCHANGED <<pc, lastWrite>>
    BY <1>11, <2>1 DEF ServerDies, handler
  <2>3. Writing' = {} /\ lastWrite \in {"nothing", "end"}
    BY <2>1, <2>2 DEF Undisturbed, LastInv, Writing
  <2> QED BY <2>2, <2>3 DEF Undisturbed, StreamInv, ServerInv, LastInv
<1>12. ASSUME ServerStarts PROVE Undisturbed'
  BY <1>12 DEF ServerStarts, handler, fifo, Writing, Undisturbed, StreamInv, ServerInv,
               LastInv, Fits
<1> QED BY <1>2, <1>3, <1>4, <1>5, <1>6, <1>8, <1>9, <1>10, <1>11, <1>12, NextCases

LEMMA InvStep == IInv /\ [Next]_vars => IInv'
<1> SUFFICES ASSUME IInv, [Next]_vars PROVE IInv'
  OBVIOUS
<1>1. CASE Next
  BY <1>1, TypeStep, HandlerStep, UndisturbedStep DEF IInv, Undisturbed
<1>2. CASE UNCHANGED vars
  BY <1>2 DEF IInv, TypeOK, HistoryOK, HandlerInv, StreamInv, ServerInv, LastInv, Fits,
              Writing, Reporting, Disturbed, vars, process, handler, server, fifo
<1> QED BY <1>1, <1>2
-----------------------------------------------------------------------------
\* The inductive invariant holds throughout.
THEOREM Invariance == Spec => []IInv
<1> QED BY InitInv, InvStep, PTL DEF Spec

\* One thread of a process at a time fills the shared record and reports it, as
\* long as no signal has ended the sleep of a handler that waits for the lock.
THEOREM SynchronizedHolds == Spec => []Synchronized
<1>1. IInv => Synchronized
  BY DEF IInv, HandlerInv, Synchronized
<1> QED BY <1>1, Invariance, PTL

\* As long as reports do not overlap, no sleep is ended and faultd does not die
\* in the middle of one, a report cut anywhere makes the server neither mix two
\* reports nor lose its place, however many of them are in the fifo.
THEOREM DamageIsBoundedHolds == Spec => []DamageIsBounded
<1>1. IInv => DamageIsBounded
  BY DEF IInv, ServerInv, DamageIsBounded
<1> QED BY <1>1, Invariance, PTL
=============================================================================
