-------------------------- MODULE StreamLevel_proof --------------------------
(***************************************************************************)
(* Theorems about StreamLevel, for every fan-out, batch size, buffer size  *)
(* and number of lines and items.                                          *)
(***************************************************************************)
EXTENDS StreamLevel, FiniteSetTheorems, TLAPS

-----------------------------------------------------------------------------
(* The inductive invariant.                                                *)

(* A line's items are settled, sent and produced in that order; its task   *)
(* is at sender.send exactly while it holds an item to send.               *)
LineInv ==
    \A p \in Line :
        /\ settled[p] <= sent[p] /\ sent[p] <= produced[p]
        /\ task[p] \in {"sending", "failing"} <=> sent[p] < produced[p]
        /\ task[p] = "opening" => produced[p] = 0
        /\ p > taken => task[p] = "none" /\ produced[p] = 0

(* What was sent and is not settled is in the channel or in drive's hands,  *)
(* once, and in the order of its line.                                     *)
TransitInv ==
    /\ held # NoItem => /\ held.item = settled[held.line] + 1
                        /\ held.item <= sent[held.line]
    /\ \A k \in 1..Len(chan) :
          /\ settled[chan[k].line] < chan[k].item
          /\ chan[k].item <= sent[chan[k].line]
          /\ chan[k] # held
    /\ \A j, k \in 1..Len(chan) :
          j < k /\ chan[j].line = chan[k].line => chan[j].item < chan[k].item
    /\ \A x \in Item :
          settled[x.line] < x.item /\ x.item <= sent[x.line]
              => x = held \/ \E k \in 1..Len(chan) : chan[k] = x

(* What is settled was reported if it is a failure, and otherwise written, *)
(* unless the consumer had gone.                                           *)
FailuresInv ==
    /\ \A x \in failures : x.item <= produced[x.line]
    /\ dropped \subseteq failures
    /\ \A x \in dropped : x.item <= settled[x.line]
    /\ \A x \in failures : x.item <= settled[x.line] => x \in dropped
    /\ \A p \in 1..taken : Garbled(p) => TheItem(p, 1) \in failures

RowsInv ==
    /\ \A k \in 1..Len(RowsOut) : /\ RowsOut[k].item <= settled[RowsOut[k].line]
                                  /\ RowsOut[k] \notin failures
    /\ \A j, k \in 1..Len(RowsOut) :
          j < k /\ RowsOut[j].line = RowsOut[k].line => RowsOut[j].item < RowsOut[k].item
    /\ \A x \in Item \ failures :
          x.item <= settled[x.line] => closed \/ \E k \in 1..Len(RowsOut) : RowsOut[k] = x
    /\ closed => reader = "gone"

(* The status is decided when nothing is left anywhere. *)
EndInv ==
    /\ done => InputOver
    /\ pc = "finish" => /\ done /\ chan = << >> /\ held = NoItem
                        /\ \A p \in Line : task[p] \notin Slots
    /\ exit \in {"ok", "partial"} => /\ pc = "finish"
                                     /\ reader = "open" => buf = << >>
    /\ exit = "ok" => dropped = {}

IInv == TypeOK /\ LineInv /\ TransitInv /\ FailuresInv /\ RowsInv /\ EndInv

-----------------------------------------------------------------------------
(* Items.                                                                  *)

(* TheItem makes the item of a line and a place, and nothing else is one.  *)
LEMMA ItemOf ==
    ASSUME NEW p \in Line, NEW i \in 1..MaxItems
    PROVE  /\ TheItem(p, i) \in Item
           /\ TheItem(p, i).line = p
           /\ TheItem(p, i).item = i
  BY DEF TheItem, Item

LEMMA ItemParts ==
    ASSUME NEW x \in Item
    PROVE  /\ x.line \in Line /\ x.item \in 1..MaxItems
           /\ x = TheItem(x.line, x.item)
           /\ x # NoItem
  BY LevelIOAssumption DEF TheItem, Item

(* The next line to read exists and is one of MaxLines. *)
LEMMA NextLineOK ==
    ASSUME IOTypeOK, LineReady
    PROVE  /\ NextLine \in Line /\ NextLine \in 1..Len(lines)
           /\ NextLine = taken + 1
  BY LevelIOAssumption DEF IOTypeOK, LineReady, NextLine, Line

-----------------------------------------------------------------------------
(* Type correctness: in particular the output buffer is never over-filled, *)
(* and no line is consumed before it was written.                          *)

LEMMA TypeInit == Init => TypeOK
<1> SUFFICES ASSUME Init PROVE TypeOK
  OBVIOUS
<1> USE LevelIOAssumption DEF Init, IOInit
<1>1. eof \in BOOLEAN /\ closed \in BOOLEAN /\ done \in BOOLEAN
  OBVIOUS
<1>2. /\ lines \in Seq({"record", "misfit", "blank", "garbled"})
      /\ Len(lines) <= MaxLines /\ taken \in 0..Len(lines)
  OBVIOUS
<1>3. pc \in {"peek", "poll", "finish"} /\ reader \in {"open", "gone"}
      /\ exit \in {"running", "ok", "partial", "failed"}
  OBVIOUS
<1>4. produced \in [Line -> 0..MaxItems] /\ settled \in [Line -> 0..MaxItems]
      /\ sent \in [Line -> 0..MaxItems] /\ task \in [Line -> TaskStates]
  BY DEF TaskStates
<1>5. buf \in Seq(Item) /\ Len(buf) <= BufCap /\ delivered \in Seq(Item) /\ chan \in Seq(Item)
  OBVIOUS
<1>6. failures \subseteq Item /\ dropped \subseteq Item /\ lost \subseteq Line
      /\ held \in Item \cup {NoItem}
  OBVIOUS
<1> QED
  BY <1>1, <1>2, <1>3, <1>4, <1>5, <1>6 DEF TypeOK, IOTypeOK

(* The steps of the parent, the consumer and read_input. *)
LEMMA TypeEnds ==
    ASSUME TypeOK, Upstream \/ Consumer \/ (Peek /\ UNCHANGED streamVars)
    PROVE  TypeOK'
<1>1. UNCHANGED <<produced, failures, held, settled, buf, delivered, dropped, closed,
                  task, sent, chan, done, lost>>
  BY DEF Upstream, Arrive, CloseInput, Consumer, ReaderLeaves, Peek, PeekBlank, PeekGarbled,
         PeekRecord, streamVars, sinkVars
<1>2. CASE Upstream
  <2>1. UNCHANGED <<taken, pc, reader, exit>>
    BY <1>2 DEF Upstream, Arrive, CloseInput
  <2>2. eof' \in BOOLEAN
    BY <1>2 DEF Upstream, Arrive, CloseInput, TypeOK, IOTypeOK
  <2>3. CASE Arrive
    <3>1. PICK k \in LineKinds : lines' = Append(lines, k)
      BY <2>3 DEF Arrive
    <3>2. k \in {"record", "misfit", "blank", "garbled"}
      BY <3>1, LevelIOAssumption
    <3>3. Len(lines) < MaxLines
      BY <2>3 DEF Arrive
    <3>4. /\ lines' \in Seq({"record", "misfit", "blank", "garbled"})
          /\ Len(lines') <= MaxLines /\ taken \in 0..Len(lines')
      BY <3>1, <3>2, <3>3, LevelIOAssumption DEF TypeOK, IOTypeOK
    <3> QED
      BY <1>1, <2>1, <2>2, <3>4 DEF TypeOK, IOTypeOK
  <2>4. CASE CloseInput
    <3>1. lines' = lines
      BY <2>4 DEF CloseInput
    <3> QED
      BY <1>1, <2>1, <2>2, <3>1 DEF TypeOK, IOTypeOK
  <2> QED
    BY <1>2, <2>3, <2>4 DEF Upstream
<1>3. CASE Consumer
  <2>1. UNCHANGED <<lines, eof, taken, pc, exit>> /\ reader' = "gone"
    BY <1>3 DEF Consumer, ReaderLeaves
  <2> QED
    BY <1>1, <2>1 DEF TypeOK, IOTypeOK
<1>4. CASE Peek
  <2>1. UNCHANGED <<lines, eof, reader>>
    BY <1>4 DEF Peek, PeekBlank, PeekGarbled, PeekRecord
  <2>2. taken' \in 0..Len(lines)
    BY <1>4, NextLineOK DEF Peek, PeekBlank, PeekGarbled, PeekRecord, TypeOK, IOTypeOK
  <2>3. pc' \in {"peek", "poll", "finish"} /\ exit' \in {"running", "ok", "partial", "failed"}
    BY <1>4 DEF Peek, PeekBlank, PeekGarbled, PeekRecord, TypeOK, IOTypeOK
  <2> QED
    BY <1>1, <2>1, <2>2, <2>3 DEF TypeOK, IOTypeOK
<1> QED
  BY <1>2, <1>3, <1>4

(* The steps of drive and of the Emitter. *)
Settles == Report \/ Write \/ FlushThenWrite \/ Discard

(* What the four ways to settle an item have in common. *)
LEMMA SettlesFrame ==
    ASSUME TypeOK, Settles, UNCHANGED streamVars
    PROVE  /\ Running /\ held \in Item /\ held' = NoItem
           /\ settled' = [settled EXCEPT ![held.line] = held.item]
           /\ UNCHANGED <<lines, eof, taken, pc, produced, failures, reader, exit,
                          task, sent, chan, done, lost>>
  BY DEF Settles, Report, Write, FlushThenWrite, Discard, Driving, Settled, TypeOK, IOTypeOK,
         streamVars

LEMMA TypeSettles ==
    ASSUME TypeOK, Settles, UNCHANGED streamVars
    PROVE  TypeOK'
<1>1. /\ held \in Item /\ held' = NoItem
      /\ UNCHANGED <<lines, eof, taken, pc, produced, failures, reader, exit,
                     task, sent, chan, done, lost>>
  BY SettlesFrame
<1>2. settled' \in [Line -> 0..MaxItems]
  <2>1. held.line \in Line /\ held.item \in 0..MaxItems
    BY <1>1, ItemParts
  <2> QED
    BY <2>1, SettlesFrame DEF TypeOK, IOTypeOK
<1>3. closed' \in BOOLEAN
  BY DEF Settles, Report, Write, FlushThenWrite, Discard, TypeOK, IOTypeOK
<1>4. dropped' \subseteq Item
  BY <1>1 DEF Settles, Report, Write, FlushThenWrite, Discard, TypeOK, IOTypeOK
<1>5. buf' \in Seq(Item) /\ Len(buf') <= BufCap /\ delivered' \in Seq(Item)
  <2>1. CASE Report \/ Discard
    BY <2>1 DEF Report, Discard, TypeOK, IOTypeOK
  <2>2. CASE Write
    BY <1>1, <2>2, LevelIOAssumption DEF Write, TypeOK, IOTypeOK
  <2>3. CASE FlushThenWrite
    BY <1>1, <2>3, LevelIOAssumption DEF FlushThenWrite, TypeOK, IOTypeOK
  <2> QED
    BY <2>1, <2>2, <2>3 DEF Settles
<1> QED
  BY <1>1, <1>2, <1>3, <1>4, <1>5 DEF TypeOK, IOTypeOK

LEMMA TypeSink ==
    ASSUME TypeOK, Sink
    PROVE  TypeOK'
<1>1. UNCHANGED streamVars
  BY DEF Sink
<1>2. UNCHANGED <<task, sent, chan, done, lost>>
  BY <1>1 DEF streamVars
<1>3. CASE Finish
  <2>1. UNCHANGED <<lines, eof, taken, pc, produced, failures, held, settled, dropped, closed,
                    reader>>
    BY <1>3 DEF Finish
  <2>2. exit' \in {"ok", "partial"}
    BY <1>3 DEF Finish, FailWhenDropped
  <2>3. buf' \in Seq(Item) /\ Len(buf') <= BufCap /\ delivered' \in Seq(Item)
    <3>1. CASE reader = "open"
      <4>1. delivered' = delivered \o buf /\ buf' = << >>
        BY <1>3, <3>1 DEF Finish
      <4> QED
        BY <4>1, LevelIOAssumption DEF TypeOK, IOTypeOK
    <3>2. CASE reader # "open"
      <4>1. UNCHANGED <<delivered, buf>>
        BY <1>3, <3>2 DEF Finish
      <4> QED
        BY <4>1 DEF TypeOK, IOTypeOK
    <3> QED
      BY <3>1, <3>2
  <2> QED
    BY <1>2, <2>1, <2>2, <2>3 DEF TypeOK, IOTypeOK
<1>4. CASE OutputFails
  <2>1. UNCHANGED <<lines, eof, taken, pc, produced, failures, held, settled, buf, delivered,
                    dropped, closed, reader>>
    BY <1>4 DEF OutputFails, sinkVars
  <2>2. exit' = "failed"
    BY <1>4 DEF OutputFails
  <2> QED
    BY <1>2, <2>1, <2>2 DEF TypeOK, IOTypeOK
<1> QED
  BY <1>1, <1>3, <1>4, TypeSettles, TypeEnds DEF Sink, Drive, Settles

(* The steps of the driver. *)
LEMMA TypePoll ==
    ASSUME TypeOK, Poll
    PROVE  TypeOK'
<1>1. UNCHANGED <<lines, eof, settled, buf, delivered, dropped, closed, reader, exit, lost>>
  BY DEF Poll, TakeBlank, Spawn, TakeFailure, InputEnds, Receive, ReceiveNone, JoinNext,
         ioVars, sinkVars, streamVars
<1>2. CASE TakeBlank
  <2>1. UNCHANGED <<pc, produced, failures, held, task, sent, chan, done>>
    BY <1>2 DEF TakeBlank, streamVars
  <2>2. taken' \in 0..Len(lines)
    BY <1>2, NextLineOK DEF TakeBlank, TypeOK
  <2> QED
    BY <1>1, <2>1, <2>2 DEF TypeOK, IOTypeOK
<1>3. CASE Spawn
  <2>1. UNCHANGED <<pc, produced, failures, held, sent, chan, done>>
    BY <1>3 DEF Spawn
  <2>2. taken' \in 0..Len(lines)
    BY <1>3, NextLineOK DEF Spawn, TypeOK
  <2>3. task' \in [Line -> TaskStates]
    BY <1>3 DEF Spawn, TypeOK, TaskStates, Slots
  <2> QED
    BY <1>1, <2>1, <2>2, <2>3 DEF TypeOK, IOTypeOK
<1>4. CASE TakeFailure
  <2>1. UNCHANGED <<pc, task, chan, done>>
    BY <1>4 DEF TakeFailure
  <2>2. NextLine \in Line /\ taken' \in 0..Len(lines)
    BY <1>4, NextLineOK DEF TakeFailure, TypeOK
  <2>3. TheItem(NextLine, 1) \in Item
    BY <2>2, ItemOf, LevelIOAssumption
  <2>4. held' \in Item \cup {NoItem} /\ failures' \subseteq Item
    BY <1>4, <2>3 DEF TakeFailure, TypeOK, IOTypeOK
  <2>5. produced' \in [Line -> 0..MaxItems] /\ sent' \in [Line -> 0..MaxItems]
    <3>1. 1 \in 0..MaxItems
      BY LevelIOAssumption
    <3> QED
      BY <1>4, <3>1 DEF TakeFailure, TypeOK, IOTypeOK
  <2> QED
    BY <1>1, <2>1, <2>2, <2>4, <2>5 DEF TypeOK, IOTypeOK
<1>5. CASE InputEnds
  <2>1. UNCHANGED <<taken, pc, produced, failures, held, task, sent, chan>> /\ done' = TRUE
    BY <1>5 DEF InputEnds, ioVars
  <2>2. done' \in BOOLEAN
    BY <2>1
  <2> QED
    BY <1>1, <2>1, <2>2 DEF TypeOK, IOTypeOK
<1>6. CASE Receive
  <2>1. UNCHANGED <<taken, pc, produced, failures, task, sent, done>>
    BY <1>6 DEF Receive
  <2>2. held' \in Item /\ chan' \in Seq(Item)
    BY <1>6 DEF Receive, TypeOK
  <2> QED
    BY <1>1, <2>1, <2>2 DEF TypeOK, IOTypeOK
<1>7. CASE ReceiveNone
  <2>1. UNCHANGED <<taken, produced, failures, held, task, sent, chan, done>> /\ pc' = "finish"
    BY <1>7 DEF ReceiveNone, streamVars
  <2> QED
    BY <1>1, <2>1 DEF TypeOK, IOTypeOK
<1>8. ASSUME NEW p \in Line, JoinNext(p)
      PROVE  TypeOK'
  <2>1. UNCHANGED <<taken, pc, produced, failures, held, sent, chan, done>>
    BY <1>8 DEF JoinNext, ioVars
  <2>2. task' \in [Line -> TaskStates]
    BY <1>8 DEF JoinNext, TypeOK, TaskStates
  <2> QED
    BY <1>1, <2>1, <2>2 DEF TypeOK, IOTypeOK
<1> QED
  BY <1>2, <1>3, <1>4, <1>5, <1>6, <1>7, <1>8 DEF Poll

(* The steps of a line's task. *)
LEMMA TypeTask ==
    ASSUME TypeOK, LineInv, NEW p \in Line, RunTask(p)
    PROVE  TypeOK'
<1>1. UNCHANGED <<lines, eof, taken, pc, held, settled, buf, delivered, dropped, closed,
                  reader, exit, done>>
  BY DEF RunTask, Opens, OpenFails, ReadsBatch, StreamEnds, Send, Panics, ioVars, sinkVars
<1>2. task' \in [Line -> TaskStates]
  <2>1. PICK s \in TaskStates : task' = [task EXCEPT ![p] = s]
    BY DEF RunTask, Opens, OpenFails, ReadsBatch, StreamEnds, Send, Panics, AfterSend,
           TypeOK, TaskStates, Slots
  <2> QED
    BY <2>1 DEF TypeOK
<1>3. CASE Opens(p) \/ StreamEnds(p)
  BY <1>1, <1>2, <1>3 DEF Opens, StreamEnds, ioVars, sinkVars, TypeOK, IOTypeOK
<1>4. CASE OpenFails(p)
  <2>1. UNCHANGED <<sent, chan, lost>>
    BY <1>4 DEF OpenFails
  <2>2. produced' \in [Line -> 0..MaxItems]
    BY <1>4, LevelIOAssumption DEF OpenFails, TypeOK, IOTypeOK
  <2>3. failures' \subseteq Item
    BY <1>4, ItemOf, LevelIOAssumption DEF OpenFails, TypeOK, IOTypeOK
  <2> QED
    BY <1>1, <1>2, <2>1, <2>2, <2>3 DEF TypeOK, IOTypeOK
<1>5. CASE ReadsBatch(p)
  <2>1. UNCHANGED <<sent, chan, lost>>
    BY <1>5 DEF ReadsBatch
  <2>2. PICK n \in 1..MaxBatch :
             /\ produced[p] + n <= MaxItems
             /\ produced' = [produced EXCEPT ![p] = @ + n]
             /\ \E bad \in SUBSET ((produced[p] + 1)..(produced[p] + n)) :
                  failures' = failures \cup {TheItem(p, i) : i \in bad}
    BY <1>5 DEF ReadsBatch
  <2>3. produced' \in [Line -> 0..MaxItems]
    BY <2>2, StreamLevelAssumption DEF TypeOK, IOTypeOK
  <2>4. (produced[p] + 1)..(produced[p] + n) \subseteq 1..MaxItems
    BY <2>2, StreamLevelAssumption, LevelIOAssumption DEF TypeOK, IOTypeOK
  <2>5. failures' \subseteq Item
    BY <2>2, <2>4, ItemOf DEF TypeOK, IOTypeOK
  <2> QED
    BY <1>1, <1>2, <2>1, <2>3, <2>5 DEF TypeOK, IOTypeOK
<1>6. CASE Send(p)
  <2>1. UNCHANGED <<produced, failures, lost>>
    BY <1>6 DEF Send, ioVars
  <2>2. /\ TheItem(p, sent[p] + 1) \in Item
        /\ sent[p] + 1 \in 0..MaxItems
    <3>1. task[p] \in {"sending", "failing"}
      BY <1>6 DEF Send
    <3>2. sent[p] < produced[p]
      BY <3>1 DEF LineInv
    <3> QED
      <4>1. sent[p] \in 0..MaxItems /\ produced[p] \in 0..MaxItems
        BY DEF TypeOK, IOTypeOK
      <4>2. sent[p] + 1 \in 1..MaxItems
        BY <3>2, <4>1, LevelIOAssumption
      <4> QED
        BY <4>2, ItemOf
  <2>3. chan' \in Seq(Item) /\ sent' \in [Line -> 0..MaxItems]
    BY <1>6, <2>2 DEF Send, TypeOK
  <2> QED
    BY <1>1, <1>2, <2>1, <2>3 DEF TypeOK, IOTypeOK
<1>7. CASE Panics(p)
  BY <1>1, <1>2, <1>7 DEF Panics, ioVars, sinkVars, TypeOK, IOTypeOK
<1> QED
  BY <1>3, <1>4, <1>5, <1>6, <1>7 DEF RunTask

LEMMA TypeStep ==
    ASSUME IInv, Next
    PROVE  TypeOK'
<1>0. TypeOK /\ LineInv
  BY DEF IInv
<1>1. CASE Exited
  BY <1>0, <1>1 DEF Exited, vars, ioVars, sinkVars, TypeOK, IOTypeOK
<1> QED
  BY <1>0, <1>1, TypeEnds, TypeSink, TypePoll, TypeTask DEF Next

-----------------------------------------------------------------------------
(* Every step keeps the items of a line in order.                          *)

(* What the type of the counters gives. *)
LEMMA Counters ==
    ASSUME TypeOK, NEW p \in Line
    PROVE  /\ settled[p] \in Nat /\ sent[p] \in Nat /\ produced[p] \in Nat /\ p \in Nat
           /\ produced[p] <= MaxItems /\ taken \in Nat
  BY LevelIOAssumption DEF TypeOK, IOTypeOK, Line

LEMMA LineInvStep ==
    ASSUME IInv, Next
    PROVE  LineInv'
<1>0. TypeOK /\ LineInv /\ TransitInv
  BY DEF IInv
<1>1. CASE Upstream \/ Consumer \/ (Peek /\ UNCHANGED streamVars)
  <2>1. UNCHANGED <<produced, settled, sent, task>>
    BY <1>1 DEF Upstream, Arrive, CloseInput, Consumer, ReaderLeaves, Peek, PeekBlank,
                PeekGarbled, PeekRecord, streamVars, sinkVars
  <2>2. taken' = taken \/ (LineReady /\ taken' = NextLine)
    BY <1>1 DEF Upstream, Arrive, CloseInput, Consumer, ReaderLeaves, Peek, PeekBlank,
                PeekGarbled, PeekRecord
  <2>3. taken' \in Nat /\ taken' >= taken
    BY <1>0, <2>2, NextLineOK DEF TypeOK, IOTypeOK
  <2> QED
    BY <1>0, <2>1, <2>3, Counters DEF LineInv
<1>2. CASE Settles /\ UNCHANGED streamVars
  <2>1. /\ held \in Item /\ settled' = [settled EXCEPT ![held.line] = held.item]
        /\ UNCHANGED <<taken, produced, sent, task>>
    BY <1>0, <1>2, SettlesFrame
  <2>2. held.item <= sent[held.line]
    BY <1>0, <2>1, ItemParts DEF TransitInv
  <2>3. \A p \in Line : settled'[p] <= sent[p]
    BY <1>0, <2>1, <2>2 DEF LineInv, TypeOK, IOTypeOK
  <2> QED
    BY <1>0, <2>1, <2>3 DEF LineInv
<1>3. CASE (Finish \/ OutputFails) /\ UNCHANGED streamVars
  BY <1>0, <1>3 DEF Finish, OutputFails, sinkVars, streamVars, LineInv
<1>4. CASE Poll
  <2>1. CASE TakeBlank
    <3>1. UNCHANGED <<produced, settled, sent, task>> /\ taken' = taken + 1
      BY <2>1 DEF TakeBlank, sinkVars, streamVars, NextLine
    <3> QED
      BY <1>0, <3>1, Counters DEF LineInv
  <2>2. CASE Spawn
    <3>1. /\ UNCHANGED <<produced, settled, sent>> /\ taken' = taken + 1
          /\ task' = [task EXCEPT ![NextLine] = "opening"]
      BY <2>2 DEF Spawn, sinkVars, NextLine
    <3>2. NextLine \in Line /\ NextLine = taken + 1
      BY <1>0, <2>2, NextLineOK DEF Spawn, TypeOK
    <3>3. produced[NextLine] = 0 /\ sent[NextLine] = 0
      BY <1>0, <3>2, Counters DEF LineInv
    <3> QED
      BY <1>0, <3>1, <3>2, <3>3, Counters DEF LineInv, TypeOK
  <2>3. CASE TakeFailure
    <3>1. /\ UNCHANGED <<settled, task>> /\ taken' = taken + 1
          /\ produced' = [produced EXCEPT ![NextLine] = 1]
          /\ sent' = [sent EXCEPT ![NextLine] = 1]
      BY <2>3 DEF TakeFailure, sinkVars, NextLine
    <3>2. NextLine \in Line /\ NextLine = taken + 1
      BY <1>0, <2>3, NextLineOK DEF TakeFailure, TypeOK
    <3>3. /\ produced[NextLine] = 0 /\ sent[NextLine] = 0 /\ settled[NextLine] = 0
          /\ task[NextLine] = "none"
      BY <1>0, <3>2, Counters DEF LineInv
    <3> QED
      BY <1>0, <3>1, <3>2, <3>3, Counters DEF LineInv, TypeOK, IOTypeOK
  <2>4. CASE InputEnds \/ Receive \/ ReceiveNone
    <3>1. UNCHANGED <<taken, produced, settled, sent, task>>
      BY <2>4 DEF InputEnds, Receive, ReceiveNone, ioVars, sinkVars, streamVars
    <3> QED
      BY <1>0, <3>1 DEF LineInv
  <2>5. ASSUME NEW q \in Line, JoinNext(q)
        PROVE  LineInv'
    <3>1. /\ UNCHANGED <<taken, produced, settled, sent>>
          /\ task[q] = "finished" /\ task' = [task EXCEPT ![q] = "joined"]
      BY <2>5 DEF JoinNext, ioVars, sinkVars
    <3> QED
      BY <1>0, <3>1 DEF LineInv, TypeOK
  <2> QED
    BY <1>4, <2>1, <2>2, <2>3, <2>4, <2>5 DEF Poll
<1>5. ASSUME NEW q \in Line, RunTask(q)
      PROVE  LineInv'
  <2>0. UNCHANGED <<taken, settled>>
    BY <1>5 DEF RunTask, Opens, OpenFails, ReadsBatch, StreamEnds, Send, Panics, ioVars, sinkVars
  <2>1. CASE Opens(q) \/ StreamEnds(q) \/ Panics(q)
    <3>1. /\ UNCHANGED <<produced, sent>> /\ task[q] \in {"opening", "reading"}
      BY <2>1 DEF Opens, StreamEnds, Panics, ioVars
    <3>2. PICK s \in {"reading", "finished"} : task' = [task EXCEPT ![q] = s]
      BY <2>1 DEF Opens, StreamEnds, Panics
    <3> QED
      BY <1>0, <2>0, <3>1, <3>2 DEF LineInv, TypeOK
  <2>2. CASE OpenFails(q)
    <3>1. /\ sent' = sent /\ task[q] = "opening"
          /\ task' = [task EXCEPT ![q] = "failing"]
          /\ produced' = [produced EXCEPT ![q] = 1]
      BY <2>2 DEF OpenFails
    <3>2. produced[q] = 0 /\ sent[q] = 0 /\ ~(q > taken)
      BY <1>0, <3>1, Counters DEF LineInv
    <3> QED
      BY <1>0, <2>0, <3>1, <3>2, Counters DEF LineInv, TypeOK, IOTypeOK
  <2>3. CASE ReadsBatch(q)
    <3>1. PICK n \in 1..MaxBatch : produced' = [produced EXCEPT ![q] = @ + n]
      BY <2>3 DEF ReadsBatch
    <3>2. /\ sent' = sent /\ task[q] = "reading"
          /\ task' = [task EXCEPT ![q] = "sending"]
      BY <2>3 DEF ReadsBatch
    <3>3. n \in Nat /\ n >= 1
      BY <3>1, StreamLevelAssumption
    <3>4. sent[q] = produced[q] /\ ~(q > taken)
      BY <1>0, <3>2, Counters DEF LineInv
    <3> QED
      BY <1>0, <2>0, <3>1, <3>2, <3>3, <3>4, Counters DEF LineInv, TypeOK, IOTypeOK
  <2>4. CASE Send(q)
    <3>1. /\ produced' = produced /\ task[q] \in {"sending", "failing"}
          /\ sent' = [sent EXCEPT ![q] = @ + 1]
          /\ task' = [task EXCEPT ![q] = AfterSend(q)]
      BY <2>4 DEF Send, ioVars
    <3>2. sent[q] < produced[q] /\ ~(q > taken)
      BY <1>0, <3>1 DEF LineInv
    <3>3. /\ AfterSend(q) # "opening"
          /\ AfterSend(q) \in {"sending", "failing"} <=> sent[q] + 1 < produced[q]
      BY <3>1 DEF AfterSend
    <3> QED
      BY <1>0, <2>0, <3>1, <3>2, <3>3, Counters DEF LineInv, TypeOK
  <2> QED
    BY <1>5, <2>1, <2>2, <2>3, <2>4 DEF RunTask
<1>6. CASE Exited
  BY <1>0, <1>6 DEF Exited, vars, ioVars, sinkVars, LineInv
<1> QED
  BY <1>1, <1>2, <1>3, <1>4, <1>5, <1>6 DEF Next, Sink, Drive, Settles

-----------------------------------------------------------------------------
(* Every step keeps what is between a task and drive whole and in order.   *)

LEMMA TransitSettles ==
    ASSUME IInv, Settles, UNCHANGED streamVars
    PROVE  TransitInv'
<1>0. TypeOK /\ LineInv /\ TransitInv
  BY DEF IInv
<1>1. /\ held \in Item /\ held' = NoItem
      /\ settled' = [settled EXCEPT ![held.line] = held.item]
      /\ UNCHANGED <<sent, chan>>
  BY <1>0, SettlesFrame
<1>2. /\ held # NoItem /\ held.line \in Line /\ held.item \in Nat
      /\ held.item = settled[held.line] + 1
  BY <1>0, <1>1, ItemParts DEF TransitInv
<1>3. \A x \in Item : settled'[x.line] = IF x.line = held.line THEN held.item
                                                              ELSE settled[x.line]
  BY <1>0, <1>1, <1>2, ItemParts DEF TypeOK, IOTypeOK
<1>4. \A k \in 1..Len(chan) : chan[k] \in Item /\ chan[k] # NoItem
  BY <1>0, ItemParts DEF TypeOK
<1>5. \A k \in 1..Len(chan) : chan[k].line = held.line => chan[k].item > held.item
  <2> TAKE k \in 1..Len(chan)
  <2>1. chan[k].item \in Nat /\ settled[chan[k].line] < chan[k].item /\ chan[k] # held
    BY <1>0, <1>4, ItemParts DEF TransitInv
  <2> HAVE chan[k].line = held.line
  <2>2. settled[held.line] \in Nat
    BY <1>0, <1>2, Counters
  <2>3. chan[k].item # held.item
    BY <1>1, <1>4, <2>1, ItemParts
  <2> QED
    BY <1>2, <2>1, <2>2, <2>3
<1>6. \A k \in 1..Len(chan) : settled'[chan[k].line] < chan[k].item
  BY <1>0, <1>3, <1>4, <1>5 DEF TransitInv
<1>7. ASSUME NEW x \in Item, settled'[x.line] < x.item, x.item <= sent[x.line]
      PROVE  \E k \in 1..Len(chan) : chan[k] = x
  <2>1. settled[x.line] < x.item /\ x # held
    <3>1. settled[x.line] \in Nat /\ x.item \in Nat
      BY <1>0, Counters, ItemParts
    <3> QED
      BY <1>2, <1>3, <1>7, <3>1
  <2> QED
    BY <1>0, <1>7, <2>1 DEF TransitInv
<1> QED
  BY <1>0, <1>1, <1>4, <1>6, <1>7 DEF TransitInv

LEMMA TransitTakeFailure ==
    ASSUME IInv, TakeFailure
    PROVE  TransitInv'
<1>0. TypeOK /\ LineInv /\ TransitInv
  BY DEF IInv
<1> DEFINE x == TheItem(NextLine, 1)
<1>1. /\ held = NoItem /\ held' = x /\ UNCHANGED <<settled, chan>>
      /\ sent' = [sent EXCEPT ![NextLine] = 1]
  BY DEF TakeFailure, Polling, sinkVars
<1>2. NextLine \in Line /\ NextLine = taken + 1
  BY <1>0, NextLineOK DEF TakeFailure, TypeOK
<1>3. x \in Item /\ x.line = NextLine /\ x.item = 1
  BY <1>2, ItemOf, LevelIOAssumption
<1>4. sent[NextLine] = 0 /\ settled[NextLine] = 0
  BY <1>0, <1>2, Counters DEF LineInv
<1>5. \A k \in 1..Len(chan) : chan[k] \in Item /\ chan[k].line # NextLine
  <2> TAKE k \in 1..Len(chan)
  <2>1. chan[k] \in Item /\ chan[k].item \in Nat /\ chan[k].item >= 1
    BY <1>0, ItemParts DEF TypeOK
  <2>2. chan[k].item <= sent[chan[k].line]
    BY <1>0 DEF TransitInv
  <2> QED
    BY <1>4, <2>1, <2>2
<1>6. \A y \in Item : sent'[y.line] = IF y.line = NextLine THEN 1 ELSE sent[y.line]
  BY <1>0, <1>1, <1>2, ItemParts DEF TypeOK
<1>7. ASSUME NEW y \in Item, settled[y.line] < y.item, y.item <= sent'[y.line]
      PROVE  y = x \/ \E k \in 1..Len(chan) : chan[k] = y
  <2>1. CASE y.line = NextLine
    BY <1>3, <1>6, <1>7, <2>1, ItemParts
  <2>2. CASE y.line # NextLine
    <3>1. y.item <= sent[y.line] /\ y # NoItem
      BY <1>6, <1>7, <2>2, ItemParts
    <3> QED
      BY <1>0, <1>1, <1>7, <3>1 DEF TransitInv
  <2> QED
    BY <2>1, <2>2
<1>8. \A k \in 1..Len(chan) : chan[k].item <= sent'[chan[k].line] /\ chan[k] # x
  BY <1>0, <1>3, <1>5, <1>6 DEF TransitInv
<1> HIDE DEF x
<1> QED
  BY <1>0, <1>1, <1>3, <1>4, <1>6, <1>7, <1>8 DEF TransitInv

LEMMA TransitReceive ==
    ASSUME IInv, Receive
    PROVE  TransitInv'
<1>0. TypeOK /\ LineInv /\ TransitInv
  BY DEF IInv
<1>1. /\ held = NoItem /\ held' = chan[1] /\ chan # << >> /\ chan' = Tail(chan)
      /\ UNCHANGED <<settled, sent>>
  BY DEF Receive, Polling, sinkVars
<1>2. /\ Len(chan) \in Nat /\ Len(chan) >= 1 /\ Len(chan') = Len(chan) - 1
      /\ \A k \in 1..Len(chan') : k + 1 \in 1..Len(chan) /\ chan'[k] = chan[k + 1]
  BY <1>0, <1>1 DEF TypeOK
<1>3. \A k \in 1..Len(chan) : /\ chan[k] \in Item /\ chan[k].item \in Nat
                              /\ chan[k].line \in Line /\ settled[chan[k].line] \in Nat
                              /\ sent[chan[k].line] \in Nat
  BY <1>0, ItemParts, Counters DEF TypeOK
<1> DEFINE h == chan[1]
<1>4. /\ h \in Item /\ settled[h.line] < h.item /\ h.item <= sent[h.line]
      /\ h.line \in Line /\ h.item \in 1..MaxItems
  BY <1>0, <1>2, <1>3, ItemParts DEF TransitInv
<1>5. h.item = settled[h.line] + 1
  <2> DEFINE y == TheItem(h.line, settled[h.line] + 1)
  <2>1. settled[h.line] + 1 \in 1..MaxItems
    <3>1. settled[h.line] \in Nat /\ h.item \in Nat /\ h.item <= MaxItems
      BY <1>0, <1>4, Counters, LevelIOAssumption
    <3> QED
      BY <1>4, <3>1, LevelIOAssumption
  <2>2. y \in Item /\ y.line = h.line /\ y.item = settled[h.line] + 1
    BY <1>4, <2>1, ItemOf
  <2>3. settled[y.line] < y.item /\ y.item <= sent[y.line] /\ y # NoItem
    BY <1>0, <1>4, <2>2, Counters, ItemParts
  <2> HIDE DEF y
  <2>4. PICK k \in 1..Len(chan) : chan[k] = y
    BY <1>0, <1>1, <2>2, <2>3 DEF TransitInv
  <2>5. CASE k = 1
    BY <2>2, <2>4, <2>5
  <2>6. CASE k # 1
    <3>1. chan[1].item < chan[k].item
      BY <1>0, <1>2, <2>2, <2>4, <2>6 DEF TransitInv
    <3> QED
      BY <1>3, <1>4, <2>2, <2>4, <3>1
  <2> QED
    BY <2>5, <2>6
<1>6. \A k \in 1..Len(chan') : chan'[k] # h
  <2> TAKE k \in 1..Len(chan')
  <2>1. chan[k + 1].line = h.line => h.item < chan[k + 1].item
    BY <1>0, <1>2 DEF TransitInv
  <2> QED
    BY <1>2, <1>3, <1>4, <2>1
<1>7. \A j, k \in 1..Len(chan') :
          j < k /\ chan'[j].line = chan'[k].line => chan'[j].item < chan'[k].item
  <2> TAKE j, k \in 1..Len(chan')
  <2>1. j + 1 \in 1..Len(chan) /\ k + 1 \in 1..Len(chan) /\ j \in Nat /\ k \in Nat
    BY <1>2
  <2>2. j + 1 < k + 1 /\ chan[j + 1].line = chan[k + 1].line
            => chan[j + 1].item < chan[k + 1].item
    BY <1>0, <2>1 DEF TransitInv
  <2> QED
    BY <1>2, <2>1, <2>2
<1>8. \A k \in 1..Len(chan') : /\ settled[chan'[k].line] < chan'[k].item
                               /\ chan'[k].item <= sent[chan'[k].line]
  BY <1>0, <1>2 DEF TransitInv
<1>9. ASSUME NEW x \in Item, settled[x.line] < x.item, x.item <= sent[x.line]
      PROVE  x = h \/ \E k \in 1..Len(chan') : chan'[k] = x
  <2>1. PICK k \in 1..Len(chan) : chan[k] = x
    BY <1>0, <1>1, <1>9, ItemParts DEF TransitInv
  <2>2. CASE k = 1
    BY <2>1, <2>2
  <2>3. CASE k # 1
    <3>1. k - 1 \in 1..Len(chan') /\ (k - 1) + 1 = k
      BY <1>2, <2>3
    <3> QED
      BY <1>2, <2>1, <3>1
  <2> QED
    BY <2>2, <2>3
<1> QED
  BY <1>1, <1>4, <1>5, <1>6, <1>7, <1>8, <1>9 DEF TransitInv

LEMMA TransitSend ==
    ASSUME IInv, NEW p \in Line, Send(p)
    PROVE  TransitInv'
<1>0. TypeOK /\ LineInv /\ TransitInv
  BY DEF IInv
<1> DEFINE x == TheItem(p, sent[p] + 1)
<1>1. /\ UNCHANGED <<settled, held>> /\ chan' = Append(chan, x)
      /\ sent' = [sent EXCEPT ![p] = @ + 1] /\ task[p] \in {"sending", "failing"}
  BY DEF Send, ioVars, sinkVars
<1>2. /\ settled[p] <= sent[p] /\ sent[p] < produced[p]
      /\ settled[p] \in Nat /\ sent[p] \in Nat /\ sent[p] + 1 \in 1..MaxItems
  <2>1. settled[p] <= sent[p] /\ sent[p] < produced[p]
    BY <1>0, <1>1 DEF LineInv
  <2>2. /\ settled[p] \in Nat /\ sent[p] \in Nat /\ produced[p] \in Nat
        /\ produced[p] <= MaxItems /\ MaxItems \in Nat
    BY <1>0, Counters, LevelIOAssumption
  <2> QED
    BY <2>1, <2>2
<1>3. x \in Item /\ x.line = p /\ x.item = sent[p] + 1
  BY <1>2, ItemOf
<1> HIDE DEF x
<1>4. /\ Len(chan) \in Nat /\ Len(chan') = Len(chan) + 1 /\ chan'[Len(chan) + 1] = x
      /\ \A k \in 1..Len(chan) : chan'[k] = chan[k] /\ chan[k] \in Item
  BY <1>0, <1>1, <1>3 DEF TypeOK
<1>5. \A y \in Item : /\ y.item \in Nat /\ sent[y.line] \in Nat
                      /\ sent'[y.line] = IF y.line = p THEN sent[p] + 1 ELSE sent[y.line]
  BY <1>0, <1>1, ItemParts, Counters DEF TypeOK
<1>6. \A k \in 1..Len(chan) : chan[k].line = p => chan[k].item < x.item
  BY <1>0, <1>3, <1>4, <1>5 DEF TransitInv
<1>7. held # NoItem => held \in Item /\ (held.line = p => held.item < x.item)
  BY <1>0, <1>3, <1>5 DEF TransitInv, TypeOK, IOTypeOK
<1>8. held # NoItem => held.item = settled[held.line] + 1 /\ held.item <= sent'[held.line]
  BY <1>0, <1>5, <1>7 DEF TransitInv
<1>9. \A k \in 1..Len(chan') : /\ settled[chan'[k].line] < chan'[k].item
                               /\ chan'[k].item <= sent'[chan'[k].line]
                               /\ chan'[k] # held
  <2> TAKE k \in 1..Len(chan')
  <2>1. CASE k = Len(chan) + 1
    <3>1. chan'[k] = x
      BY <1>4, <2>1
    <3>2. x # held
      BY <1>3, <1>5, <1>7, ItemParts
    <3> QED
      BY <1>2, <1>3, <1>5, <3>1, <3>2
  <2>2. CASE k \in 1..Len(chan)
    BY <1>0, <1>4, <1>5, <2>2 DEF TransitInv
  <2> QED
    BY <1>4, <2>1, <2>2
<1>10. ASSUME NEW j \in 1..Len(chan'), NEW k \in 1..Len(chan'),
              j < k, chan'[j].line = chan'[k].line
       PROVE  chan'[j].item < chan'[k].item
  <2>1. j \in 1..Len(chan)
    BY <1>4, <1>10
  <2>2. CASE k = Len(chan) + 1
    BY <1>3, <1>4, <1>6, <1>10, <2>1, <2>2
  <2>3. CASE k \in 1..Len(chan)
    BY <1>0, <1>4, <1>10, <2>1, <2>3 DEF TransitInv
  <2> QED
    BY <1>4, <2>2, <2>3
<1>11. ASSUME NEW y \in Item, settled[y.line] < y.item, y.item <= sent'[y.line]
       PROVE  y = held \/ \E k \in 1..Len(chan') : chan'[k] = y
  <2>1. CASE y.item <= sent[y.line]
    <3>1. y = held \/ \E k \in 1..Len(chan) : chan[k] = y
      BY <1>0, <1>11, <2>1 DEF TransitInv
    <3> QED
      BY <1>4, <3>1
  <2>2. CASE ~(y.item <= sent[y.line])
    <3>1. y.line = p /\ y.item = x.item
      BY <1>3, <1>5, <1>11, <2>2
    <3>2. y = x
      BY <1>3, <3>1, ItemParts
    <3> QED
      BY <1>4, <3>2
  <2> QED
    BY <2>1, <2>2
<1> QED
  BY <1>1, <1>8, <1>9, <1>10, <1>11 DEF TransitInv

(* The other steps leave the channel and drive's item alone. *)
LEMMA TransitInvStep ==
    ASSUME IInv, Next
    PROVE  TransitInv'
<1>1. CASE UNCHANGED <<held, chan, settled, sent>>
  BY <1>1 DEF IInv, TransitInv
<1>2. CASE Upstream \/ Consumer \/ Exited \/ (Peek /\ UNCHANGED streamVars)
  BY <1>1, <1>2 DEF Upstream, Arrive, CloseInput, Consumer, ReaderLeaves, Exited, Peek,
                    PeekBlank, PeekGarbled, PeekRecord, vars, ioVars, sinkVars, streamVars
<1>3. CASE (Finish \/ OutputFails) /\ UNCHANGED streamVars
  BY <1>1, <1>3 DEF Finish, OutputFails, sinkVars, streamVars
<1>4. CASE Poll
  <2>1. CASE TakeBlank \/ Spawn \/ InputEnds \/ ReceiveNone \/ \E p \in Line : JoinNext(p)
    BY <1>1, <2>1 DEF TakeBlank, Spawn, InputEnds, ReceiveNone, JoinNext, ioVars, sinkVars,
                      streamVars
  <2> QED
    BY <1>4, <2>1, TransitTakeFailure, TransitReceive DEF Poll
<1>5. ASSUME NEW p \in Line, RunTask(p)
      PROVE  TransitInv'
  <2>1. CASE Opens(p) \/ OpenFails(p) \/ ReadsBatch(p) \/ StreamEnds(p) \/ Panics(p)
    BY <1>1, <2>1 DEF Opens, OpenFails, ReadsBatch, StreamEnds, Panics, ioVars, sinkVars
  <2> QED
    BY <1>5, <2>1, TransitSend DEF RunTask
<1> QED
  BY <1>2, <1>3, <1>4, <1>5, TransitSettles DEF Next, Sink, Drive, Settles

-----------------------------------------------------------------------------
(* Every step keeps the account of failures and rows.                      *)

(* Where a settled item went. *)
LEMMA SettlesRows ==
    ASSUME TypeOK, Settles, UNCHANGED streamVars
    PROVE  /\ RowsOut \in Seq(Item)
           /\ \/ /\ held \in failures /\ dropped' = dropped \cup {held}
                 /\ RowsOut' = RowsOut /\ closed' = closed
              \/ /\ held \notin failures /\ dropped' = dropped
                 /\ RowsOut' = Append(RowsOut, held) /\ closed' = closed
              \/ /\ held \notin failures /\ dropped' = dropped
                 /\ RowsOut' = RowsOut /\ closed' = TRUE /\ (closed \/ reader = "gone")
<1>1. RowsOut \in Seq(Item) /\ buf \in Seq(Item) /\ delivered \in Seq(Item) /\ held \in Item
  BY SettlesFrame DEF RowsOut, TypeOK, IOTypeOK
<1>2. CASE Report
  BY <1>1, <1>2 DEF Report, RowsOut
<1>3. CASE Write
  <2>1. /\ held \notin failures /\ dropped' = dropped /\ closed' = closed
        /\ delivered' = delivered /\ buf' = Append(buf, held)
    BY <1>3 DEF Write
  <2>2. delivered \o Append(buf, held) = Append(delivered \o buf, held)
    BY <1>1
  <2> QED
    BY <1>1, <2>1, <2>2 DEF RowsOut
<1>4. CASE FlushThenWrite
  <2>1. /\ held \notin failures /\ dropped' = dropped /\ closed' = closed
        /\ delivered' = delivered \o buf /\ buf' = <<held>>
    BY <1>4 DEF FlushThenWrite
  <2>2. (delivered \o buf) \o <<held>> = Append(delivered \o buf, held)
    BY <1>1
  <2> QED
    BY <1>1, <2>1, <2>2 DEF RowsOut
<1>5. CASE Discard
  BY <1>1, <1>5 DEF Discard, RowsOut
<1> QED
  BY <1>2, <1>3, <1>4, <1>5 DEF Settles

(* A failure is new: its item was not produced before. *)
Fails == TakeFailure \/ \E p \in Line : OpenFails(p) \/ ReadsBatch(p)

LEMMA NewFailures ==
    ASSUME IInv, Fails
    PROVE  /\ failures \subseteq failures'
           /\ \A x \in failures' \ failures : /\ x \in Item /\ x.item > produced[x.line]
                                             /\ x.item <= produced'[x.line]
           /\ \A p \in Line : produced[p] <= produced'[p]
           /\ UNCHANGED <<lines, eof, settled, buf, delivered, dropped, closed, reader, exit>>
<1>0. TypeOK /\ LineInv
  BY DEF IInv
<1>1. UNCHANGED <<lines, eof, settled, buf, delivered, dropped, closed, reader, exit>>
  BY DEF Fails, TakeFailure, OpenFails, ReadsBatch, sinkVars
<1>2. \A p \in Line : produced[p] \in Nat /\ produced[p] <= MaxItems
  BY <1>0, Counters
<1>3. CASE TakeFailure
  <2>1. /\ failures' = failures \cup {TheItem(NextLine, 1)}
        /\ produced' = [produced EXCEPT ![NextLine] = 1]
    BY <1>3 DEF TakeFailure
  <2>2. NextLine \in Line /\ NextLine = taken + 1
    BY <1>0, <1>3, NextLineOK DEF TakeFailure, TypeOK
  <2>3. produced[NextLine] = 0
    BY <1>0, <2>2, Counters DEF LineInv
  <2>4. /\ TheItem(NextLine, 1) \in Item
        /\ TheItem(NextLine, 1).line = NextLine /\ TheItem(NextLine, 1).item = 1
    BY <2>2, ItemOf, LevelIOAssumption
  <2> QED
    BY <1>0, <1>1, <1>2, <2>1, <2>2, <2>3, <2>4 DEF TypeOK, IOTypeOK
<1>4. ASSUME NEW p \in Line, OpenFails(p)
      PROVE  /\ failures \subseteq failures'
             /\ \A x \in failures' \ failures : /\ x \in Item /\ x.item > produced[x.line]
                                               /\ x.item <= produced'[x.line]
             /\ \A q \in Line : produced[q] <= produced'[q]
  <2>1. /\ failures' = failures \cup {TheItem(p, 1)}
        /\ produced' = [produced EXCEPT ![p] = 1] /\ task[p] = "opening"
    BY <1>4 DEF OpenFails
  <2>2. produced[p] = 0
    BY <1>0, <2>1 DEF LineInv
  <2>3. TheItem(p, 1) \in Item /\ TheItem(p, 1).line = p /\ TheItem(p, 1).item = 1
    BY ItemOf, LevelIOAssumption
  <2> QED
    BY <1>0, <1>2, <2>1, <2>2, <2>3 DEF TypeOK, IOTypeOK
<1>5. ASSUME NEW p \in Line, ReadsBatch(p)
      PROVE  /\ failures \subseteq failures'
             /\ \A x \in failures' \ failures : /\ x \in Item /\ x.item > produced[x.line]
                                               /\ x.item <= produced'[x.line]
             /\ \A q \in Line : produced[q] <= produced'[q]
  <2>1. PICK n \in 1..MaxBatch :
             /\ produced[p] + n <= MaxItems
             /\ produced' = [produced EXCEPT ![p] = @ + n]
             /\ \E bad \in SUBSET ((produced[p] + 1)..(produced[p] + n)) :
                  failures' = failures \cup {TheItem(p, i) : i \in bad}
    BY <1>5 DEF ReadsBatch
  <2>2. PICK bad \in SUBSET ((produced[p] + 1)..(produced[p] + n)) :
             failures' = failures \cup {TheItem(p, i) : i \in bad}
    BY <2>1
  <2>3. n \in Nat /\ n >= 1 /\ produced[p] \in Nat /\ MaxItems \in Nat
    BY <1>2, <2>1, StreamLevelAssumption, LevelIOAssumption
  <2>4. produced'[p] = produced[p] + n /\ \A q \in Line : q # p => produced'[q] = produced[q]
    BY <1>0, <2>1 DEF TypeOK, IOTypeOK
  <2>5. \A i \in bad : i \in 1..MaxItems /\ i > produced[p] /\ i <= produced[p] + n
    BY <2>1, <2>3
  <2>6. \A i \in bad : /\ TheItem(p, i) \in Item /\ TheItem(p, i).line = p
                       /\ TheItem(p, i).item = i
    BY <2>5, ItemOf
  <2>7. \A x \in failures' \ failures : /\ x \in Item /\ x.item > produced[x.line]
                                       /\ x.item <= produced'[x.line]
    BY <2>2, <2>4, <2>5, <2>6
  <2>8. \A q \in Line : produced[q] <= produced'[q]
    BY <1>2, <2>3, <2>4
  <2> QED
    BY <2>2, <2>7, <2>8
<1> QED
  BY <1>1, <1>3, <1>4, <1>5 DEF Fails

(* A step that settles nothing and makes no new failure. *)
Quiet == Next /\ ~(Settles /\ UNCHANGED streamVars) /\ ~Fails

LEMMA QuietFrame ==
    ASSUME TypeOK, Quiet
    PROVE  /\ UNCHANGED <<produced, failures, settled, dropped, closed>>
           /\ RowsOut' = RowsOut
           /\ reader' \in {reader, "gone"}
<1>1. CASE Finish /\ UNCHANGED streamVars
  <2>1. UNCHANGED <<produced, failures, settled, dropped, closed, reader>>
    BY <1>1 DEF Finish
  <2>2. RowsOut' = RowsOut
    <3>1. CASE reader = "open"
      <4>1. delivered' = delivered \o buf /\ buf' = << >>
        BY <1>1, <3>1 DEF Finish
      <4>2. delivered \o buf \in Seq(Item)
        BY DEF TypeOK, IOTypeOK
      <4> QED
        BY <4>1, <4>2 DEF RowsOut
    <3> QED
      BY <1>1, <3>1 DEF Finish, RowsOut
  <2> QED
    BY <2>1, <2>2
<1>2. CASE (\E p \in Line : RunTask(p)) \/ Poll
  BY <1>2 DEF Quiet, Fails, Poll, TakeBlank, Spawn, InputEnds, Receive, ReceiveNone, JoinNext,
              RunTask, Opens, StreamEnds, Send, Panics, ioVars, sinkVars, RowsOut
<1>3. CASE Upstream \/ Consumer \/ ((Peek \/ OutputFails) /\ UNCHANGED streamVars) \/ Exited
  BY <1>3 DEF Upstream, Arrive, CloseInput, Consumer, ReaderLeaves, Peek, PeekBlank, PeekGarbled,
              PeekRecord, OutputFails, Exited, vars, ioVars, sinkVars, RowsOut
<1> QED
  BY <1>1, <1>2, <1>3 DEF Quiet, Next, Sink, Drive, Settles

(* A line that is consumed without a failure is not garbled. *)
LEMMA TakenReadable ==
    ASSUME TypeOK, Next, ~TakeFailure, NEW p \in 1..taken', Garbled(p)'
    PROVE  p \in 1..taken /\ Garbled(p)
<1>1. CASE UNCHANGED <<lines, taken>>
  BY <1>1 DEF Garbled
<1>2. CASE Arrive
  <2>1. PICK k \in LineKinds : lines' = Append(lines, k)
    BY <1>2 DEF Arrive
  <2>2. taken' = taken /\ p \in 1..Len(lines)
    BY <1>2 DEF Arrive, TypeOK, IOTypeOK
  <2>3. k \in {"record", "misfit", "blank", "garbled"}
    BY <2>1, LevelIOAssumption
  <2>4. lines'[p] = lines[p]
    BY <2>1, <2>2, <2>3 DEF TypeOK, IOTypeOK
  <2> QED
    BY <2>2, <2>4 DEF Garbled
<1>3. CASE PeekBlank \/ TakeBlank \/ Spawn
  <2>1. lines' = lines /\ taken' = taken + 1 /\ ~Garbled(taken + 1) /\ taken \in Nat
    BY <1>3 DEF PeekBlank, TakeBlank, Spawn, NextLine, Garbled, TypeOK, IOTypeOK
  <2> QED
    BY <2>1 DEF Garbled
<1>4. CASE CloseInput \/ Consumer \/ PeekGarbled \/ PeekRecord \/ Drive \/ OutputFails \/ Exited
  BY <1>1, <1>4 DEF CloseInput, Consumer, ReaderLeaves, PeekGarbled, PeekRecord, Drive, Report,
                    Write, FlushThenWrite, Discard, Finish, OutputFails, Exited, vars, ioVars
<1>5. CASE InputEnds \/ Receive \/ ReceiveNone \/ \E q \in Line : JoinNext(q) \/ RunTask(q)
  BY <1>1, <1>5 DEF InputEnds, Receive, ReceiveNone, JoinNext, RunTask, Opens, OpenFails,
                    ReadsBatch, StreamEnds, Send, Panics, ioVars
<1> QED
  BY <1>2, <1>3, <1>4, <1>5 DEF Next, Upstream, Sink, Peek, Poll

LEMMA FailuresInvStep ==
    ASSUME IInv, Next
    PROVE  FailuresInv'
<1>0. TypeOK /\ LineInv /\ FailuresInv
  BY DEF IInv
<1>1. \A x \in Item : settled[x.line] <= produced[x.line] /\ settled[x.line] \in Nat
                      /\ produced[x.line] \in Nat /\ x.item \in Nat
  <2> TAKE x \in Item
  <2>1. x.line \in Line /\ settled[x.line] <= sent[x.line] /\ sent[x.line] <= produced[x.line]
    BY <1>0, ItemParts DEF LineInv
  <2> QED
    BY <1>0, <2>1, Counters, ItemParts
<1>2. \A p \in 1..taken' : Garbled(p)' => TheItem(p, 1) \in failures'
  <2>1. CASE TakeFailure
    <3>1. /\ taken' = taken + 1 /\ lines' = lines
          /\ failures' = failures \cup {TheItem(taken + 1, 1)} /\ taken \in Nat
      BY <1>0, <2>1 DEF TakeFailure, NextLine, TypeOK, IOTypeOK
    <3> QED
      BY <1>0, <3>1 DEF FailuresInv, Garbled
  <2>2. CASE ~TakeFailure
    <3>1. failures \subseteq failures'
      BY <1>0, NewFailures, QuietFrame, SettlesFrame DEF Quiet
    <3> QED
      BY <1>0, <2>2, <3>1, TakenReadable DEF FailuresInv
  <2> QED
    BY <2>1, <2>2
<1>3. CASE Quiet
  BY <1>0, <1>2, <1>3, QuietFrame DEF FailuresInv
<1>4. CASE Settles /\ UNCHANGED streamVars
  <2>1. /\ held \in Item /\ UNCHANGED <<produced, failures>>
        /\ settled' = [settled EXCEPT ![held.line] = held.item]
    BY <1>0, <1>4, SettlesFrame
  <2>2. \/ held \in failures /\ dropped' = dropped \cup {held}
        \/ held \notin failures /\ dropped' = dropped
    BY <1>0, <1>4, SettlesRows
  <2>3. held.line \in Line /\ held.item \in Nat /\ held.item = settled[held.line] + 1
    BY <2>1, ItemParts DEF IInv, TransitInv
  <2>4. \A x \in Item : settled'[x.line] = IF x.line = held.line THEN held.item
                                                                ELSE settled[x.line]
    BY <1>0, <2>1, <2>3, ItemParts DEF TypeOK, IOTypeOK
  <2>5. \A x \in Item : x.item <= settled'[x.line] <=> (x.item <= settled[x.line] \/ x = held)
    BY <1>1, <2>1, <2>3, <2>4, ItemParts
  <2>6. failures \subseteq Item /\ dropped \subseteq Item
    BY <1>0 DEF TypeOK, IOTypeOK
  <2>7. /\ dropped' \subseteq failures
        /\ \A x \in dropped' : x.item <= settled'[x.line]
        /\ \A x \in failures : x.item <= settled'[x.line] => x \in dropped'
    BY <1>0, <2>1, <2>2, <2>5, <2>6 DEF FailuresInv
  <2> QED
    BY <1>0, <1>2, <2>1, <2>7 DEF FailuresInv
<1>5. CASE Fails
  <2>1. failures \subseteq Item /\ failures' \subseteq Item
    BY <1>0, <1>5, NewFailures DEF TypeOK, IOTypeOK
  <2>2. \A x \in Item : produced[x.line] <= produced'[x.line] /\ produced'[x.line] \in Nat
    <3>1. TypeOK'
      BY TypeStep
    <3>2. \A p \in Line : produced'[p] \in Nat
      BY <3>1, LevelIOAssumption DEF TypeOK, IOTypeOK
    <3> QED
      BY <1>5, <3>2, NewFailures, ItemParts
  <2>3. \A x \in failures' : x.item <= produced'[x.line]
    BY <1>0, <1>1, <1>5, <2>1, <2>2, NewFailures DEF FailuresInv
  <2>4. /\ dropped' = dropped /\ settled' = settled /\ failures \subseteq failures'
        /\ \A x \in failures' \ failures : x \in Item /\ x.item > produced[x.line]
    BY <1>5, NewFailures
  <2>5. \A x \in failures' : x.item <= settled[x.line] => x \in failures
    BY <1>1, <2>4
  <2> QED
    BY <1>0, <1>2, <2>3, <2>4, <2>5 DEF FailuresInv
<1> QED
  BY <1>3, <1>4, <1>5 DEF Quiet

LEMMA RowsInvStep ==
    ASSUME IInv, Next
    PROVE  RowsInv'
<1>0. TypeOK /\ LineInv /\ RowsInv
  BY DEF IInv
<1>1. /\ Len(RowsOut) \in Nat
      /\ \A k \in 1..Len(RowsOut) : RowsOut[k] \in Item
  BY <1>0 DEF RowsOut, TypeOK, IOTypeOK
<1>2. \A x \in Item : settled[x.line] <= produced[x.line] /\ settled[x.line] \in Nat
                      /\ produced[x.line] \in Nat /\ x.item \in Nat
  <2> TAKE x \in Item
  <2>1. x.line \in Line /\ settled[x.line] <= sent[x.line] /\ sent[x.line] <= produced[x.line]
    BY <1>0, ItemParts DEF LineInv
  <2> QED
    BY <1>0, <2>1, Counters, ItemParts
<1>3. CASE Quiet
  <2>1. /\ UNCHANGED <<failures, settled, closed>> /\ RowsOut' = RowsOut
        /\ reader' \in {reader, "gone"}
    BY <1>0, <1>3, QuietFrame
  <2> QED
    BY <1>0, <2>1 DEF RowsInv
<1>4. CASE Fails
  <2>1. /\ UNCHANGED <<settled, closed, reader>> /\ RowsOut' = RowsOut
        /\ failures \subseteq failures'
        /\ \A x \in failures' \ failures : x \in Item /\ x.item > produced[x.line]
    BY <1>4, NewFailures DEF RowsOut
  <2>2. \A x \in Item : x.item <= settled[x.line] /\ x \notin failures => x \notin failures'
    BY <1>2, <2>1
  <2> QED
    BY <1>0, <1>1, <2>1, <2>2 DEF RowsInv
<1>5. CASE Settles /\ UNCHANGED streamVars
  <2>1. /\ held \in Item /\ UNCHANGED <<failures, reader>>
        /\ settled' = [settled EXCEPT ![held.line] = held.item]
    BY <1>0, <1>5, SettlesFrame
  <2>2. held.line \in Line /\ held.item \in Nat /\ held.item = settled[held.line] + 1
    BY <2>1, ItemParts DEF IInv, TransitInv
  <2>3. \A x \in Item : settled'[x.line] = IF x.line = held.line THEN held.item
                                                                ELSE settled[x.line]
    BY <1>0, <2>1, <2>2, ItemParts DEF TypeOK, IOTypeOK
  <2>4. \A x \in Item : x.item <= settled'[x.line] <=> (x.item <= settled[x.line] \/ x = held)
    BY <1>2, <2>1, <2>2, <2>3, ItemParts
  <2>5. CASE held \in failures /\ RowsOut' = RowsOut /\ closed' = closed
    BY <1>0, <1>1, <2>1, <2>4, <2>5 DEF RowsInv
  <2>6. CASE held \notin failures /\ RowsOut' = Append(RowsOut, held) /\ closed' = closed
    <3>1. /\ Len(RowsOut') = Len(RowsOut) + 1 /\ RowsOut'[Len(RowsOut) + 1] = held
          /\ \A k \in 1..Len(RowsOut) : RowsOut'[k] = RowsOut[k]
      <4>1. RowsOut \in Seq(Item)
        BY <1>0 DEF RowsOut, TypeOK, IOTypeOK
      <4> QED
        BY <2>1, <2>6, <4>1
    <3>2. \A k \in 1..Len(RowsOut') : k \in 1..Len(RowsOut) \/ k = Len(RowsOut) + 1
      BY <1>1, <3>1
    <3>3. \A k \in 1..Len(RowsOut') : /\ RowsOut'[k].item <= settled'[RowsOut'[k].line]
                                     /\ RowsOut'[k] \notin failures
      BY <1>0, <1>1, <2>1, <2>4, <2>6, <3>1, <3>2 DEF RowsInv
    <3>4. \A k \in 1..Len(RowsOut) : RowsOut[k].line = held.line => RowsOut[k].item < held.item
      BY <1>0, <1>1, <1>2, <2>2 DEF RowsInv
    <3>5. ASSUME NEW j \in 1..Len(RowsOut'), NEW k \in 1..Len(RowsOut'),
                 j < k, RowsOut'[j].line = RowsOut'[k].line
          PROVE  RowsOut'[j].item < RowsOut'[k].item
      <4>1. j \in 1..Len(RowsOut)
        BY <1>1, <3>1, <3>5
      <4>2. CASE k \in 1..Len(RowsOut)
        BY <1>0, <3>1, <3>5, <4>1, <4>2 DEF RowsInv
      <4>3. CASE k = Len(RowsOut) + 1
        BY <3>1, <3>4, <3>5, <4>1, <4>3
      <4> QED
        BY <3>2, <4>2, <4>3
    <3>6. ASSUME NEW x \in Item \ failures, x.item <= settled'[x.line]
          PROVE  closed \/ \E k \in 1..Len(RowsOut') : RowsOut'[k] = x
      <4>1. CASE x = held
        BY <1>1, <3>1, <4>1
      <4>2. CASE x.item <= settled[x.line]
        <5>1. closed \/ \E k \in 1..Len(RowsOut) : RowsOut[k] = x
          BY <1>0, <4>2 DEF RowsInv
        <5> QED
          BY <1>1, <3>1, <5>1
      <4> QED
        BY <2>4, <3>6, <4>1, <4>2
    <3> QED
      BY <1>0, <2>1, <2>6, <3>3, <3>5, <3>6 DEF RowsInv
  <2>7. CASE held \notin failures /\ RowsOut' = RowsOut /\ closed' = TRUE
             /\ (closed \/ reader = "gone")
    BY <1>0, <1>1, <2>1, <2>4, <2>7 DEF RowsInv
  <2> QED
    BY <1>0, <1>5, <2>5, <2>6, <2>7, SettlesRows
<1> QED
  BY <1>3, <1>4, <1>5 DEF Quiet

(* Once the driver has seen the end of its input, nothing more is read. *)
LEMMA InputStaysOver ==
    ASSUME TypeOK, InputOver, Next
    PROVE  InputOver'
<1>1. CASE UNCHANGED <<lines, eof, taken>>
  BY <1>1 DEF InputOver, Garbled
<1>2. CASE Arrive
  <2>1. PICK k \in LineKinds : lines' = Append(lines, k)
    BY <1>2 DEF Arrive
  <2>2. taken' = taken /\ ~eof
    BY <1>2 DEF Arrive
  <2>3. PICK p \in 1..taken : Garbled(p)
    BY <2>2 DEF InputOver
  <2>4. k \in {"record", "misfit", "blank", "garbled"} /\ p \in 1..Len(lines)
    BY <2>1, LevelIOAssumption DEF TypeOK, IOTypeOK
  <2>5. lines'[p] = lines[p]
    BY <2>1, <2>4 DEF TypeOK, IOTypeOK
  <2> QED
    BY <2>2, <2>3, <2>5 DEF InputOver, Garbled
<1>3. CASE CloseInput
  BY <1>3 DEF CloseInput, InputOver, Garbled
<1>4. CASE Consumer \/ Peek \/ Drive \/ OutputFails \/ Exited
  BY <1>1, <1>4 DEF Consumer, ReaderLeaves, Peek, PeekBlank, PeekGarbled, PeekRecord, LineReady,
                    Drive, Report, Write, FlushThenWrite, Discard, Finish, OutputFails, Exited,
                    vars, ioVars
<1>5. CASE Poll \/ \E q \in Line : RunTask(q)
  BY <1>1, <1>5 DEF Poll, TakeBlank, Spawn, TakeFailure, InputEnds, Receive, ReceiveNone, JoinNext,
                    LineReady, RunTask, Opens, OpenFails, ReadsBatch, StreamEnds, Send, Panics,
                    ioVars
<1> QED
  BY <1>2, <1>3, <1>4, <1>5 DEF Next, Upstream, Sink

LEMMA EndInvStep ==
    ASSUME IInv, Next
    PROVE  EndInv'
<1>0. TypeOK /\ EndInv
  BY DEF IInv
<1>1. CASE Upstream \/ Consumer \/ (Peek /\ UNCHANGED streamVars)
  <2>1. UNCHANGED <<done, chan, held, task, dropped, buf>>
    BY <1>1 DEF Upstream, Arrive, CloseInput, Consumer, ReaderLeaves, Peek, PeekBlank,
                PeekGarbled, PeekRecord, streamVars, sinkVars
  <2>2. pc' = pc \/ pc' = "poll"
    BY <1>1 DEF Upstream, Arrive, CloseInput, Consumer, ReaderLeaves, Peek, PeekBlank,
                PeekGarbled, PeekRecord
  <2>3. exit' \notin {"ok", "partial"}
    BY <1>1 DEF Upstream, Arrive, CloseInput, Consumer, ReaderLeaves, Peek, PeekBlank,
                PeekGarbled, PeekRecord, Running
  <2> QED
    BY <1>0, <2>1, <2>2, <2>3, InputStaysOver DEF EndInv
<1>2. CASE Settles /\ UNCHANGED streamVars
  <2>1. /\ held \in Item /\ Running
        /\ UNCHANGED <<pc, exit, done, chan, task>>
    BY <1>0, <1>2, SettlesFrame
  <2>2. pc # "finish" /\ exit \notin {"ok", "partial"}
    BY <1>0, <2>1, ItemParts DEF EndInv, Running
  <2> QED
    BY <1>0, <2>1, <2>2, InputStaysOver DEF EndInv
<1>3. CASE Finish /\ UNCHANGED streamVars
  <2>1. /\ UNCHANGED <<pc, held, dropped, reader, done, chan, task>>
        /\ pc = "finish" /\ exit' = FailWhenDropped
        /\ reader = "open" => buf' = << >>
    BY <1>3 DEF Finish, streamVars
  <2> QED
    BY <1>0, <2>1, InputStaysOver DEF EndInv, FailWhenDropped
<1>4. CASE OutputFails /\ UNCHANGED streamVars
  BY <1>0, <1>4, InputStaysOver DEF OutputFails, sinkVars, streamVars, EndInv
<1>5. CASE Poll
  <2>1. /\ UNCHANGED exit /\ Running /\ pc = "poll"
    BY <1>5 DEF Poll, TakeBlank, Spawn, TakeFailure, InputEnds, Receive, ReceiveNone, JoinNext,
                Polling, ioVars
  <2>2. done' => InputOver'
    <3>1. CASE InputEnds
      BY <1>0, <3>1, InputStaysOver DEF InputEnds
    <3>2. CASE ~InputEnds
      <4>1. done' = done
        BY <1>5, <3>2 DEF Poll, TakeBlank, Spawn, TakeFailure, Receive, ReceiveNone, JoinNext,
                          streamVars
      <4> QED
        BY <1>0, <4>1, InputStaysOver DEF EndInv
    <3> QED
      BY <3>1, <3>2
  <2>3. CASE ReceiveNone
    <3>1. /\ done' = done /\ chan' = chan /\ held' = held /\ task' = task
          /\ done /\ chan = << >> /\ held = NoItem /\ \A p \in Line : task[p] \notin Slots
      BY <2>3 DEF ReceiveNone, Polling, streamVars
    <3> QED
      BY <2>1, <2>2, <3>1 DEF EndInv, Running
  <2>4. CASE ~ReceiveNone
    <3>1. pc' = "poll"
      BY <1>5, <2>1, <2>4 DEF Poll, TakeBlank, Spawn, TakeFailure, InputEnds, Receive, JoinNext,
                              ioVars
    <3> QED
      BY <2>1, <2>2, <3>1 DEF EndInv, Running
  <2> QED
    BY <2>3, <2>4
<1>6. ASSUME NEW q \in Line, RunTask(q)
      PROVE  EndInv'
  <2>1. /\ UNCHANGED <<pc, exit, done>> /\ Running /\ task[q] \in Slots
    BY <1>6 DEF RunTask, Opens, OpenFails, ReadsBatch, StreamEnds, Send, Panics, ioVars, Slots
  <2>2. pc # "finish"
    BY <1>0, <2>1 DEF EndInv
  <2> QED
    BY <1>0, <2>1, <2>2, InputStaysOver DEF EndInv, Running
<1>7. CASE Exited
  BY <1>0, <1>7, InputStaysOver DEF Exited, vars, ioVars, sinkVars, EndInv
<1> QED
  BY <1>1, <1>2, <1>3, <1>4, <1>5, <1>6, <1>7 DEF Next, Sink, Drive, Settles

-----------------------------------------------------------------------------
(* The invariant, and what follows from it.                                *)

LEMMA IInvInit == Init => IInv
<1> SUFFICES ASSUME Init PROVE IInv
  OBVIOUS
<1>1. TypeOK
  BY TypeInit
<1>2. /\ settled = [p \in Line |-> 0] /\ sent = [p \in Line |-> 0]
      /\ produced = [p \in Line |-> 0] /\ task = [p \in Line |-> "none"]
      /\ taken = 0 /\ held = NoItem /\ chan = << >> /\ failures = {} /\ dropped = {}
      /\ RowsOut = << >> /\ closed = FALSE /\ done = FALSE /\ pc = "peek" /\ exit = "running"
  BY DEF Init, IOInit, RowsOut
<1>3. LineInv
  BY <1>2 DEF LineInv
<1>4. TransitInv
  <2>1. \A x \in Item : ~(x.item <= sent[x.line])
    BY <1>2, ItemParts
  <2>2. Len(chan) = 0 /\ held = NoItem
    BY <1>2
  <2> QED
    BY <2>1, <2>2 DEF TransitInv
<1>5. FailuresInv
  BY <1>2 DEF FailuresInv
<1>6. RowsInv
  <2>1. \A x \in Item : ~(x.item <= settled[x.line])
    BY <1>2, ItemParts
  <2>2. Len(RowsOut) = 0 /\ ~closed
    BY <1>2
  <2> QED
    BY <2>1, <2>2 DEF RowsInv
<1>7. EndInv
  BY <1>2 DEF EndInv
<1> QED
  BY <1>1, <1>3, <1>4, <1>5, <1>6, <1>7 DEF IInv

LEMMA IInvStep == IInv /\ [Next]_vars => IInv'
<1>1. CASE IInv /\ Next
  BY <1>1, TypeStep, LineInvStep, TransitInvStep, FailuresInvStep, RowsInvStep, EndInvStep
     DEF IInv
<1>2. ASSUME IInv, UNCHANGED vars
      PROVE  IInv'
  <2>1. UNCHANGED <<lines, eof, taken, pc, produced, failures, held, settled, buf, delivered,
                    dropped, closed, reader, exit, task, sent, chan, done, lost>>
    BY <1>2 DEF vars, ioVars, sinkVars
  <2>2. TypeOK' /\ LineInv' /\ TransitInv'
    BY <1>2, <2>1 DEF IInv, TypeOK, IOTypeOK, LineInv, TransitInv
  <2>3. FailuresInv'
    BY <1>2, <2>1 DEF IInv, FailuresInv, Garbled
  <2>4. RowsInv'
    BY <1>2, <2>1 DEF IInv, RowsInv, RowsOut
  <2>5. EndInv'
    BY <1>2, <2>1 DEF IInv, EndInv, InputOver, Garbled
  <2> QED
    BY <2>2, <2>3, <2>4, <2>5 DEF IInv
<1> QED
  BY <1>1, <1>2

(* The invariant holds of every behaviour of the level. *)
THEOREM Invariant == Spec => []IInv
  BY IInvInit, IInvStep, PTL DEF Spec

(* Every variable keeps its range: the output buffer is never over-filled, *)
(* and no line is consumed before it was written.                          *)
THEOREM TypeCorrect == Spec => []TypeOK
<1>1. IInv => TypeOK
  BY DEF IInv
<1> QED
  BY Invariant, <1>1, PTL

(* The rows of one parent are written once each and in order, whatever the *)
(* interleaving of tasks, channel and driver.                              *)
THEOREM StreamOrderHolds == Spec => []StreamOrder
<1>1. IInv => StreamOrder
  <2> SUFFICES ASSUME IInv PROVE StreamOrder
    OBVIOUS
  <2>1. RowsOut \in Seq(Item)
    BY DEF IInv, TypeOK, IOTypeOK, RowsOut
  <2> QED
    BY <2>1 DEF IInv, RowsInv, StreamOrder
<1> QED
  BY Invariant, <1>1, PTL

(* At a decided exit every task is over, so every item was sent; the        *)
(* channel and drive are empty, so every item sent was settled.            *)
LEMMA ExitSettles ==
    ASSUME IInv, exit \in {"ok", "partial"}
    PROVE  /\ \A x \in Item : x.item <= produced[x.line] => x.item <= settled[x.line]
           /\ dropped = failures
           /\ reader = "open" =>
                  \A x \in Item \ failures : x.item <= produced[x.line]
                      => \E k \in DOMAIN delivered : delivered[k] = x
<1>1. /\ chan = << >> /\ held = NoItem /\ \A p \in Line : task[p] \notin Slots
      /\ reader = "open" => buf = << >>
  BY DEF IInv, EndInv
<1>2. ASSUME NEW x \in Item, x.item <= produced[x.line]
      PROVE  x.item <= settled[x.line]
  <2>1. x.line \in Line /\ x.item \in Nat /\ x # NoItem
    BY ItemParts
  <2>2. /\ settled[x.line] \in Nat /\ sent[x.line] \in Nat /\ produced[x.line] \in Nat
        /\ sent[x.line] <= produced[x.line] /\ ~(sent[x.line] < produced[x.line])
    BY <1>1, <2>1, Counters DEF IInv, LineInv, Slots
  <2>3. x.item <= sent[x.line]
    BY <1>2, <2>1, <2>2
  <2>4. ~(settled[x.line] < x.item)
    BY <1>1, <2>1, <2>3 DEF IInv, TransitInv
  <2> QED
    BY <2>1, <2>2, <2>4
<1>3. dropped = failures
  <2>1. failures \subseteq Item
    BY DEF IInv, TypeOK, IOTypeOK
  <2> QED
    BY <1>2, <2>1 DEF IInv, FailuresInv, Garbled
<1>4. ASSUME reader = "open", NEW x \in Item \ failures, x.item <= produced[x.line]
      PROVE  \E k \in DOMAIN delivered : delivered[k] = x
  <2>1. delivered \in Seq(Item) /\ buf = << >>
    BY <1>1, <1>4 DEF IInv, TypeOK, IOTypeOK
  <2>2. RowsOut = delivered
    BY <2>1 DEF RowsOut
  <2>3. \E k \in 1..Len(RowsOut) : RowsOut[k] = x
    BY <1>2, <1>4 DEF IInv, RowsInv
  <2> QED
    BY <2>1, <2>2, <2>3
<1> QED
  BY <1>2, <1>3, <1>4

(* However the level ends, short of giving up, every item it read was      *)
(* settled: reported if a failure, and otherwise in the consumer's hands   *)
(* unless the consumer had gone.                                           *)
THEOREM EveryItemSettledHolds == Spec => []EveryItemSettled
<1>1. IInv => EveryItemSettled
  <2> SUFFICES ASSUME IInv, exit \in {"ok", "partial"}
               PROVE  /\ Unsettled = {}
                      /\ dropped = failures
                      /\ reader = "open" =>
                            \A x \in Item \ failures : x.item <= produced[x.line]
                                => \E k \in DOMAIN delivered : delivered[k] = x
    BY DEF EveryItemSettled
  <2>1. ASSUME NEW x \in Item
        PROVE  x.item \in Nat /\ settled[x.line] \in Nat
    BY ItemParts, Counters DEF IInv
  <2>2. Unsettled = {}
    BY <2>1, ExitSettles DEF Unsettled
  <2> QED
    BY <2>2, ExitSettles
<1> QED
  BY Invariant, <1>1, PTL

(* A green exit, with a consumer that stayed, means the walk was whole: all *)
(* of the input was read, nothing failed and everything was delivered.      *)
THEOREM GreenIsCompleteHolds == Spec => []GreenIsComplete
<1>1. IInv => GreenIsComplete
  <2> SUFFICES ASSUME IInv, exit = "ok", reader = "open"
               PROVE  /\ taken = Len(lines) /\ eof /\ failures = {}
                      /\ \A x \in Item : x.item <= produced[x.line]
                             => \E k \in DOMAIN delivered : delivered[k] = x
    BY DEF GreenIsComplete
  <2>1. dropped = {} /\ InputOver
    BY DEF IInv, EndInv
  <2>2. failures = {}
    BY <2>1, ExitSettles
  <2>3. \A p \in 1..taken : ~Garbled(p)
    BY <2>2 DEF IInv, FailuresInv
  <2>4. taken = Len(lines) /\ eof
    BY <2>1, <2>3 DEF InputOver
  <2> QED
    BY <2>2, <2>4, ExitSettles
<1> QED
  BY Invariant, <1>1, PTL

-----------------------------------------------------------------------------
(* Backpressure.                                                           *)

(* The channel holds no more than its capacity, and a task no more than the *)
(* rest of a batch.                                                        *)
BoundInv ==
    /\ Len(chan) <= Width
    /\ \A p \in Line : produced[p] <= sent[p] + MaxBatch

LEMMA BoundInit == Init => BoundInv
<1>1. Width \in Nat /\ MaxBatch \in Nat
  BY StreamLevelAssumption DEF Width
<1> QED
  BY <1>1 DEF Init, IOInit, BoundInv

LEMMA BoundStep == IInv /\ BoundInv /\ [Next]_vars => BoundInv'
<1> SUFFICES ASSUME IInv, BoundInv, [Next]_vars PROVE BoundInv'
  OBVIOUS
<1>0. /\ Width \in Nat \ {0} /\ MaxBatch \in Nat \ {0} /\ chan \in Seq(Item)
      /\ \A p \in Line : produced[p] \in Nat /\ sent[p] \in Nat
      /\ DOMAIN produced = Line /\ DOMAIN sent = Line
  BY StreamLevelAssumption, LevelIOAssumption DEF Width, IInv, TypeOK, IOTypeOK
<1>1. CASE UNCHANGED <<produced, sent, chan>>
  BY <1>1 DEF BoundInv
<1>2. CASE TakeFailure
  <2>1. NextLine \in Line
    BY <1>2, NextLineOK DEF TakeFailure, IInv, TypeOK
  <2>2. /\ produced' = [produced EXCEPT ![NextLine] = 1]
        /\ sent' = [sent EXCEPT ![NextLine] = 1] /\ chan' = chan
    BY <1>2 DEF TakeFailure
  <2> QED
    BY <1>0, <2>1, <2>2 DEF BoundInv
<1>3. CASE Receive
  <2>1. chan # << >> /\ chan' = Tail(chan) /\ UNCHANGED <<produced, sent>>
    BY <1>3 DEF Receive
  <2>2. Len(chan') <= Len(chan)
    BY <1>0, <2>1
  <2> QED
    BY <1>0, <2>1, <2>2 DEF BoundInv
<1>4. ASSUME NEW p \in Line, OpenFails(p) PROVE BoundInv'
  <2>1. produced' = [produced EXCEPT ![p] = 1] /\ UNCHANGED <<sent, chan>>
    BY <1>4 DEF OpenFails
  <2> QED
    BY <1>0, <2>1 DEF BoundInv
<1>5. ASSUME NEW p \in Line, ReadsBatch(p) PROVE BoundInv'
  <2>1. task[p] = "reading" /\ UNCHANGED <<sent, chan>>
    BY <1>5 DEF ReadsBatch
  <2>2. PICK n \in 1..MaxBatch : produced' = [produced EXCEPT ![p] = @ + n]
    BY <1>5 DEF ReadsBatch
  <2>3. produced[p] <= sent[p]
    BY <1>0, <2>1 DEF IInv, LineInv
  <2> QED
    BY <1>0, <2>1, <2>2, <2>3 DEF BoundInv
<1>6. ASSUME NEW p \in Line, Send(p) PROVE BoundInv'
  <2>1. /\ Len(chan) < Width /\ chan' = Append(chan, TheItem(p, sent[p] + 1))
        /\ sent' = [sent EXCEPT ![p] = @ + 1] /\ produced' = produced
    BY <1>6 DEF Send, ioVars
  <2>2. Len(chan') = Len(chan) + 1
    BY <1>0, <2>1
  <2> QED
    BY <1>0, <2>1, <2>2 DEF BoundInv
<1>7. CASE Upstream \/ Consumer \/ Sink
  BY <1>1, <1>7 DEF Upstream, Arrive, CloseInput, Consumer, ReaderLeaves, Sink, OutputFails,
     Peek, PeekBlank, PeekGarbled, PeekRecord,
     Drive, Report, Write, FlushThenWrite, Discard, Finish, streamVars
<1>8. CASE TakeBlank \/ Spawn \/ InputEnds \/ ReceiveNone \/ \E p \in Line : JoinNext(p)
  BY <1>1, <1>8 DEF TakeBlank, Spawn, InputEnds, ReceiveNone, JoinNext, streamVars, ioVars
<1>9. CASE \E p \in Line : Opens(p) \/ StreamEnds(p) \/ Panics(p)
  BY <1>1, <1>9 DEF Opens, StreamEnds, Panics, ioVars
<1>10. CASE UNCHANGED vars
  BY <1>1, <1>10 DEF vars, ioVars
<1> QED
  BY <1>2, <1>3, <1>4, <1>5, <1>6, <1>7, <1>8, <1>9, <1>10 DEF Next, Poll, RunTask, Exited

LEMMA Intervals ==
    ASSUME NEW n \in Nat
    PROVE  /\ IsFiniteSet(1..n) /\ Cardinality(1..n) = n
           /\ IsFiniteSet(0..n) /\ Cardinality(0..n) = n + 1
<1>1. 0 \in Int /\ 1 \in Int /\ n \in Int
  OBVIOUS
<1>2. IsFiniteSet(1..n) /\ Cardinality(1..n) = (IF 1 > n THEN 0 ELSE n - 1 + 1)
  BY <1>1, FS_Interval
<1>3. IsFiniteSet(0..n) /\ Cardinality(0..n) = (IF 0 > n THEN 0 ELSE n - 0 + 1)
  BY <1>1, FS_Interval
<1> QED
  BY <1>2, <1>3

(* What is not settled is at its task, in the channel or in hand: a place   *)
(* each, no two items in one.                                              *)
LEMMA UnsettledBound ==
    ASSUME IInv, BoundInv
    PROVE  Backpressure
<1> DEFINE Senders == {p \in Line : task[p] \in {"sending", "failing"}}
           Places == (Senders \X (1..MaxBatch)) \cup ({0} \X (0..Width))
           At(x) == CHOOSE k \in 1..Len(chan) : chan[k] = x
           place == [x \in Unsettled |->
                       IF x.item > sent[x.line] THEN <<x.line, x.item - sent[x.line]>>
                       ELSE IF x = held THEN <<0, 0>> ELSE <<0, At(x)>>]
<1>1. /\ MaxLines \in Nat /\ Width \in Nat /\ MaxBatch \in Nat /\ Len(chan) \in Nat
  BY StreamLevelAssumption, LevelIOAssumption DEF Width, IInv, TypeOK
<1>2. ASSUME NEW x \in Unsettled
      PROVE  /\ x \in Item /\ x.line \in Line /\ x.item \in Nat /\ sent[x.line] \in Nat
             /\ produced[x.line] \in Nat /\ settled[x.line] < x.item /\ x.item <= produced[x.line]
  BY ItemParts, LevelIOAssumption DEF Unsettled, IInv, TypeOK, IOTypeOK
<1>3. ASSUME NEW x \in Unsettled, x.item > sent[x.line]
      PROVE  place[x] \in Senders \X (1..MaxBatch)
  <2>1. x.line \in Senders
    BY <1>2, <1>3 DEF IInv, LineInv
  <2>2. produced[x.line] <= sent[x.line] + MaxBatch
    BY <1>2 DEF BoundInv
  <2>3. x.item - sent[x.line] \in 1..MaxBatch
    BY <1>1, <1>2, <1>3, <2>2
  <2> QED
    BY <1>3, <2>1, <2>3
<1>4. ASSUME NEW x \in Unsettled, ~(x.item > sent[x.line]), x # held
      PROVE  At(x) \in 1..Len(chan) /\ chan[At(x)] = x
  <2>1. \E k \in 1..Len(chan) : chan[k] = x
    BY <1>2, <1>4 DEF IInv, TransitInv
  <2> QED
    BY <2>1
<1>5. place \in Injection(Unsettled, Places)
  <2>1. ASSUME NEW x \in Unsettled PROVE place[x] \in Places
    <3>1. CASE x.item > sent[x.line]
      BY <1>3, <3>1
    <3>2. CASE ~(x.item > sent[x.line]) /\ x = held
      BY <1>1, <3>2
    <3>3. CASE ~(x.item > sent[x.line]) /\ x # held
      <4>1. At(x) \in 0..Width
        BY <1>1, <1>4, <3>3 DEF BoundInv
      <4>2. place[x] = <<0, At(x)>>
        BY <3>3
      <4> HIDE DEF At, place
      <4> QED
        BY <4>1, <4>2
    <3> QED
      BY <3>1, <3>2, <3>3
  <2>2. ASSUME NEW x \in Unsettled, NEW y \in Unsettled, place[x] = place[y] PROVE x = y
    <3> DEFINE Waits(z) == z.item > sent[z.line]
    <3>1. ASSUME NEW z \in Unsettled
          PROVE  /\ Waits(z) => place[z] = <<z.line, z.item - sent[z.line]>>
                 /\ ~Waits(z) /\ z = held => place[z] = <<0, 0>>
                 /\ ~Waits(z) /\ z # held => place[z] = <<0, At(z)>>
      OBVIOUS
    <3>2. x.line # 0 /\ y.line # 0
      BY <1>2, LevelIOAssumption DEF Line
    <3>3. CASE Waits(x) /\ Waits(y)
      <4>1. x.line = y.line /\ x.item - sent[x.line] = y.item - sent[y.line]
        BY <2>2, <3>1, <3>3
      <4>2. x.item = y.item
        BY <1>2, <4>1
      <4>3. x = TheItem(x.line, x.item) /\ y = TheItem(y.line, y.item)
        BY <1>2, ItemParts
      <4> QED
        BY <4>1, <4>2, <4>3
    <3>4. CASE ~Waits(x) /\ ~Waits(y)
      <4>1. CASE x # held /\ y # held
        BY <1>4, <2>2, <3>1, <3>4, <4>1
      <4>2. CASE x = held /\ y # held
        BY <1>1, <1>4, <2>2, <3>1, <3>4, <4>2
      <4>3. CASE x # held /\ y = held
        BY <1>1, <1>4, <2>2, <3>1, <3>4, <4>3
      <4> QED
        BY <4>1, <4>2, <4>3
    <3>5. CASE Waits(x) /\ ~Waits(y)
      BY <2>2, <3>1, <3>2, <3>5
    <3>6. CASE ~Waits(x) /\ Waits(y)
      BY <2>2, <3>1, <3>2, <3>6
    <3> QED
      BY <3>3, <3>4, <3>5, <3>6
  <2>3. place = [x \in Unsettled |-> place[x]]
    OBVIOUS
  <2> HIDE DEF place, Places
  <2>4. place \in [Unsettled -> Places]
    BY <2>1, <2>3
  <2> QED
    BY <2>2, <2>4 DEF Injection, IsInjective
<1>6. /\ IsFiniteSet(Places)
      /\ Cardinality(Places) <= MaxBatch * Cardinality(Senders) + Width + 1
  <2> HIDE DEF Senders
  <2>1. IsFiniteSet(Senders) /\ Cardinality(Senders) \in Nat
    <3>1. IsFiniteSet(Line) /\ Senders \subseteq Line
      BY <1>1, Intervals DEF Line, Senders
    <3> QED
      BY <3>1, FS_Subset, FS_CardinalityType
  <2>2. IsFiniteSet(1..MaxBatch) /\ Cardinality(1..MaxBatch) = MaxBatch
    BY <1>1, Intervals
  <2>3. IsFiniteSet(0..Width) /\ Cardinality(0..Width) = Width + 1
    BY <1>1, Intervals
  <2>4. IsFiniteSet({0}) /\ Cardinality({0}) = 1
    BY FS_Singleton
  <2>5. /\ IsFiniteSet(Senders \X (1..MaxBatch))
        /\ Cardinality(Senders \X (1..MaxBatch)) = Cardinality(Senders) * MaxBatch
    BY <2>1, <2>2, FS_Product
  <2>6. /\ IsFiniteSet({0} \X (0..Width))
        /\ Cardinality({0} \X (0..Width)) = Width + 1
    <3>1. /\ IsFiniteSet({0} \X (0..Width))
          /\ Cardinality({0} \X (0..Width)) = Cardinality({0}) * Cardinality(0..Width)
      BY <2>3, <2>4, FS_Product
    <3>2. Width + 1 \in Nat
      BY <1>1
    <3>3. 1 * (Width + 1) = Width + 1
      BY <3>2
    <3> QED
      BY <2>3, <2>4, <3>1, <3>3
  <2>7. /\ IsFiniteSet(Places)
        /\ Cardinality(Places) <= Cardinality(Senders) * MaxBatch + (Width + 1)
    <3> DEFINE A == Senders \X (1..MaxBatch)
               B == {0} \X (0..Width)
    <3>1. IsFiniteSet(A \cup B) /\ Cardinality(A \cup B) = Cardinality(A) + Cardinality(B) - Cardinality(A \cap B)
      BY <2>5, <2>6, FS_Union
    <3>2. IsFiniteSet(A \cap B) /\ Cardinality(A \cap B) \in Nat
      BY <2>5, FS_Subset, FS_CardinalityType
    <3>3. Cardinality(A) = Cardinality(Senders) * MaxBatch /\ Cardinality(B) = Width + 1
      BY <2>5, <2>6
    <3>4. Cardinality(Senders) * MaxBatch \in Nat
      BY <1>1, <2>1
    <3> HIDE DEF A, B
    <3>5. Cardinality(A \cup B) <= Cardinality(Senders) * MaxBatch + (Width + 1)
      BY <1>1, <3>1, <3>2, <3>3, <3>4
    <3> QED
      BY <3>1, <3>5 DEF A, B
  <2>8. /\ Cardinality(Senders) * MaxBatch = MaxBatch * Cardinality(Senders)
        /\ Cardinality(Senders) * MaxBatch \in Nat
    BY <1>1, <2>1
  <2> QED
    BY <1>1, <2>7, <2>8
<1>7. Cardinality(Unsettled) <= Cardinality(Places) /\ IsFiniteSet(Unsettled)
  <2> HIDE DEF place, Places
  <2> QED
    BY <1>5, <1>6, FS_Injection
<1>8. Cardinality(Unsettled) \in Nat /\ Cardinality(Places) \in Nat /\ Cardinality(Senders) \in Nat
  <2>1. IsFiniteSet(Line) /\ Senders \subseteq Line
    BY <1>1, Intervals DEF Line
  <2> HIDE DEF Places, Senders
  <2> QED
    BY <1>6, <1>7, <2>1, FS_Subset, FS_CardinalityType
<1>9. MaxBatch * Cardinality(Senders) \in Nat
  BY <1>1, <1>8
<1> HIDE DEF Places
<1> QED
  BY <1>1, <1>6, <1>7, <1>8, <1>9 DEF Backpressure

(* A consumer that stops reading stops the reads, however many parents and  *)
(* items there are: what the level has read and not settled is a batch for  *)
(* each task at its send, a channel and one item (source.rs, flat_map).     *)
THEOREM BackpressureHolds == Spec => []Backpressure
<1>1. IInv /\ BoundInv /\ [Next]_vars => (IInv /\ BoundInv)'
  BY IInvStep, BoundStep
<1>2. IInv /\ BoundInv => Backpressure
  BY UnsettledBound
<1> QED
  BY IInvInit, BoundInit, <1>1, <1>2, PTL DEF Spec

-----------------------------------------------------------------------------
(***************************************************************************)
(* StreamLevel implements LevelSpec: its initial states are initial states *)
(* of the promise, and each of its steps is a step of the promise or       *)
(* changes nothing the promise speaks of.                                  *)
(***************************************************************************)

(* What the promise sees of a state. *)
LEMMA PromiseVars ==
    Promise!vars = <<lines, eof, reader, taken, settled, CompleteLines, RowsOut, dropped, exit>>
  BY DEF Promise!vars

LEMMA PromiseInit == Init => Promise!Init
<1> SUFFICES ASSUME Init PROVE Promise!Init
  OBVIOUS
<1>1. RowsOut = << >> /\ CompleteLines = {}
  BY DEF Init, IOInit, RowsOut, CompleteLines
<1>2. settled = [p \in Promise!Line |-> 0]
  BY DEF Init, IOInit, Line, Promise!Line
<1> QED
  BY <1>1, <1>2 DEF Promise!Init, Init, IOInit

(* The parent and the consumer are the promise's environment. *)
LEMMA PromiseEnvironment ==
    ASSUME IInv, Upstream \/ Consumer
    PROVE  Promise!Next
<1>1. UNCHANGED <<taken, task, settled, produced, buf, delivered, dropped, exit>>
  BY DEF Upstream, Arrive, CloseInput, Consumer, ReaderLeaves, streamVars, sinkVars
<1>2. CompleteLines' = CompleteLines /\ RowsOut' = RowsOut
  BY <1>1 DEF CompleteLines, RowsOut
<1>3. CASE Arrive
  BY <1>1, <1>2, <1>3 DEF Arrive, Promise!Next, Promise!Environment
<1>4. CASE CloseInput
  BY <1>1, <1>2, <1>4 DEF CloseInput, Promise!Next, Promise!Environment
<1>5. CASE ReaderLeaves
  BY <1>1, <1>2, <1>5 DEF ReaderLeaves, Promise!Next, Promise!Environment
<1> QED
  BY <1>3, <1>4, <1>5 DEF Upstream, Consumer

(* Consuming a line is Take. *)
LEMMA PromiseTakes ==
    ASSUME IInv, TakeBlank \/ Spawn \/ TakeFailure \/ (PeekBlank /\ UNCHANGED streamVars)
    PROVE  Promise!Next
<1>0. TypeOK /\ LineInv
  BY DEF IInv
<1>1. /\ Running /\ LineReady /\ taken' = taken + 1
      /\ UNCHANGED <<lines, eof, reader, settled, dropped, exit, buf, delivered>>
  BY DEF TakeBlank, Spawn, TakeFailure, PeekBlank, Polling, NextLine, sinkVars
<1> DEFINE n == taken + 1
<1>2. n \in Line /\ n = NextLine /\ 1..taken \subseteq Line /\ taken \in Nat /\ n \notin 1..taken
      /\ 1..taken' = (1..taken) \cup {n}
  <2>1. n \in Line /\ n = NextLine
    BY <1>0, <1>1, NextLineOK DEF TypeOK
  <2>2. taken \in Nat /\ Len(lines) \in Nat /\ taken <= Len(lines) /\ Len(lines) <= MaxLines
        /\ MaxLines \in Nat
    BY <1>0, LevelIOAssumption DEF TypeOK, IOTypeOK
  <2>3. 1..taken \subseteq Line
    BY <2>2 DEF Line
  <2>4. n \notin 1..taken /\ 1..taken' = (1..taken) \cup {n}
    BY <1>1, <2>2
  <2> QED
    BY <2>1, <2>2, <2>3, <2>4
<1>3. task[n] = "none" /\ produced[n] = 0 /\ settled[n] = 0
  BY <1>0, <1>2, Counters DEF LineInv
<1>4. \A p \in 1..taken : task'[p] = task[p] /\ produced'[p] = produced[p]
  BY <1>0, <1>2 DEF TakeBlank, Spawn, TakeFailure, PeekBlank, streamVars, TypeOK, IOTypeOK
<1>5. CASE lines[n] = "blank"
  <2>1. task'[n] = "none" /\ produced'[n] = 0
    BY <1>2, <1>3, <1>5 DEF TakeBlank, Spawn, TakeFailure, PeekBlank, streamVars
  <2>2. CompleteLines' = CompleteLines \cup {n}
    BY <1>1, <1>2, <1>3, <1>4, <2>1 DEF CompleteLines, NotStreaming
  <2> QED
    BY <1>1, <1>5, <2>2 DEF Promise!Next, Promise!Take, Promise!InputOver, Promise!Garbled,
       LineReady, InputOver, Garbled, Running, RowsOut
<1>6. CASE lines[n] # "blank"
  <2>1. task'[n] = "opening" \/ produced'[n] = 1
    BY <1>0, <1>2, <1>6 DEF TakeBlank, Spawn, TakeFailure, PeekBlank, TypeOK, IOTypeOK
  <2>2. n \notin CompleteLines'
    BY <1>1, <1>3, <2>1 DEF CompleteLines, NotStreaming
  <2>3. CompleteLines' = CompleteLines
    BY <1>1, <1>2, <1>4, <2>2 DEF CompleteLines
  <2> QED
    BY <1>1, <1>6, <2>3 DEF Promise!Next, Promise!Take, Promise!InputOver, Promise!Garbled,
       LineReady, InputOver, Garbled, Running, RowsOut
<1> QED
  BY <1>5, <1>6

(* A line with a task, or with items, was consumed. *)
LEMMA WasTaken ==
    ASSUME TypeOK, LineInv, NEW p \in Line, task[p] # "none" \/ produced[p] # 0
    PROVE  p \in 1..taken
  BY Counters DEF LineInv, Line

(* Reporting, writing or discarding an item is Settle. *)
LEMMA PromiseSettles ==
    ASSUME IInv, Settles, UNCHANGED streamVars
    PROVE  Promise!Next
<1>0. TypeOK /\ LineInv
  BY DEF IInv
<1>1. /\ Running /\ held \in Item
      /\ settled' = [settled EXCEPT ![held.line] = held.item]
      /\ UNCHANGED <<lines, eof, taken, produced, reader, exit, task>>
  BY <1>0, SettlesFrame
<1> DEFINE p == held.line
<1>2. /\ p \in Line /\ held.item \in Nat /\ held = [line |-> p, item |-> held.item]
      /\ held.item = settled[p] + 1 /\ held.item <= sent[p] /\ sent[p] <= produced[p]
      /\ settled[p] \in Nat /\ sent[p] \in Nat /\ produced[p] \in Nat
  BY <1>0, <1>1, ItemParts, Counters DEF IInv, TransitInv, LineInv, TheItem
<1>3. settled[p] # produced[p] /\ produced[p] # 0
  BY <1>2
<1>4. p \in (1..taken) \ CompleteLines
  BY <1>0, <1>2, <1>3, WasTaken DEF CompleteLines
<1>5. \A q \in Line : q # p => settled'[q] = settled[q]
  BY <1>0, <1>1 DEF TypeOK, IOTypeOK
<1>6. 1..taken \subseteq Line
  BY <1>0, LevelIOAssumption DEF TypeOK, IOTypeOK, Line
<1>7. CompleteLines' \in {CompleteLines, CompleteLines \cup {p}}
  BY <1>1, <1>4, <1>5, <1>6 DEF CompleteLines
<1>8. settled' = [settled EXCEPT ![p] = @ + 1]
  BY <1>1, <1>2
<1>9. \/ RowsOut' = Append(RowsOut, held) /\ dropped' = dropped
      \/ dropped' = dropped \cup {held} /\ RowsOut' = RowsOut
      \/ reader = "gone" /\ RowsOut' = RowsOut /\ dropped' = dropped
  BY <1>0, SettlesRows DEF IInv, RowsInv
<1>10. held = [line |-> p, item |-> settled[p] + 1]
  BY <1>2
<1> HIDE DEF p
<1>11. Promise!Settle(p)
  BY <1>1, <1>4, <1>7, <1>8, <1>9, <1>10 DEF Promise!Settle, Running
<1> QED
  BY <1>2, <1>11 DEF Promise!Next, Promise!Line, Line, p

(* The level finishes when every line is complete, and gives up as allowed. *)
LEMMA PromiseEnds ==
    ASSUME IInv, Finish \/ OutputFails \/ PeekGarbled, UNCHANGED streamVars
    PROVE  Promise!Next
<1>1. /\ UNCHANGED <<lines, eof, reader, taken, settled, produced, dropped, task>> /\ Running
  BY DEF Finish, OutputFails, PeekGarbled, sinkVars, streamVars
<1>2. CompleteLines' = CompleteLines
  BY <1>1 DEF CompleteLines
<1>3. CASE Finish
  <2>1. RowsOut' = RowsOut
    <3>1. CASE reader = "open"
      <4>1. delivered' = delivered \o buf /\ buf' = << >> /\ delivered \o buf \in Seq(Item)
        BY <1>3, <3>1 DEF Finish, IInv, TypeOK, IOTypeOK
      <4> QED
        BY <4>1 DEF RowsOut
    <3> QED
      BY <1>3, <3>1 DEF Finish, RowsOut
  <2>2. /\ InputOver /\ chan = << >> /\ held = NoItem /\ \A p \in Line : task[p] \notin Slots
    BY <1>3 DEF Finish, IInv, EndInv
  <2>3. ASSUME NEW p \in Line
        PROVE  task[p] \in NotStreaming /\ settled[p] = produced[p]
    <3>1. task[p] \in NotStreaming
      BY <2>2 DEF IInv, TypeOK, TaskStates, Slots, NotStreaming
    <3>2. /\ settled[p] \in Nat /\ sent[p] \in Nat /\ produced[p] \in Nat
          /\ produced[p] <= MaxItems /\ MaxItems \in Nat
          /\ settled[p] <= sent[p] /\ sent[p] = produced[p]
      BY <2>2, Counters, LevelIOAssumption DEF IInv, LineInv, Slots
    <3>3. CASE settled[p] < sent[p]
      <4> DEFINE x == TheItem(p, sent[p])
      <4>1. sent[p] \in 1..MaxItems
        BY <3>2, <3>3
      <4>2. x \in Item /\ x.line = p /\ x.item = sent[p] /\ x # NoItem
        BY <4>1, ItemOf, ItemParts
      <4> HIDE DEF x
      <4> QED
        BY <2>2, <3>2, <3>3, <4>2 DEF IInv, TransitInv
    <3> QED
      BY <3>1, <3>2, <3>3
  <2>4. CompleteLines = 1..taken
    <3>1. taken \in Nat /\ taken <= MaxLines /\ MaxLines \in Nat
      BY LevelIOAssumption DEF IInv, TypeOK, IOTypeOK
    <3>2. 1..taken \subseteq Line
      BY <3>1 DEF Line
    <3> QED
      BY <2>3, <3>2 DEF CompleteLines
  <2>5. exit' = IF dropped = {} THEN "ok" ELSE "partial"
    BY <1>3 DEF Finish, FailWhenDropped
  <2> QED
    BY <1>1, <1>2, <2>1, <2>2, <2>4, <2>5 DEF Promise!Next, Promise!Finish, Promise!InputOver,
       Promise!Garbled, InputOver, Garbled, Running
<1>4. CASE OutputFails \/ PeekGarbled
  <2>1. exit' = "failed" /\ RowsOut' = RowsOut
    BY <1>4 DEF OutputFails, PeekGarbled, sinkVars, RowsOut
  <2> QED
    BY <1>1, <1>2, <2>1 DEF Promise!Next, Promise!GiveUp, Running
<1> QED
  BY <1>3, <1>4

(* A task that ends may complete its line; its other steps are invisible.  *)
LEMMA PromiseTask ==
    ASSUME IInv, NEW p \in Line, RunTask(p)
    PROVE  Promise!Next \/ UNCHANGED Promise!vars
<1>0. TypeOK /\ LineInv
  BY DEF IInv
<1>1. /\ Running /\ task[p] \in Slots
      /\ UNCHANGED <<lines, eof, reader, taken, settled, dropped, exit, buf, delivered>>
  BY DEF RunTask, Opens, OpenFails, ReadsBatch, StreamEnds, Send, Panics, ioVars, sinkVars, Slots
<1>2. p \in 1..taken /\ p \notin CompleteLines
  BY <1>0, <1>1, WasTaken DEF CompleteLines, NotStreaming, Slots
<1>3. \A q \in Line : q # p => task'[q] = task[q] /\ produced'[q] = produced[q]
  BY <1>0 DEF RunTask, Opens, OpenFails, ReadsBatch, StreamEnds, Send, Panics, ioVars,
              TypeOK, IOTypeOK
<1>4. 1..taken \subseteq Line
  BY <1>0, LevelIOAssumption DEF TypeOK, IOTypeOK, Line
<1>5. CompleteLines' \in {CompleteLines, CompleteLines \cup {p}}
  BY <1>1, <1>2, <1>3, <1>4 DEF CompleteLines
<1>6. RowsOut' = RowsOut
  BY <1>1 DEF RowsOut
<1>7. CASE CompleteLines' = CompleteLines
  BY <1>1, <1>6, <1>7, PromiseVars DEF Promise!vars
<1>8. CASE CompleteLines' = CompleteLines \cup {p}
  <2>1. Promise!Complete(p)
    BY <1>1, <1>2, <1>6, <1>8 DEF Promise!Complete, Running
  <2> QED
    BY <2>1 DEF Promise!Next, Promise!Line, Line
<1> QED
  BY <1>5, <1>7, <1>8

(* Everything else is invisible. *)
LEMMA PromiseStutters ==
    ASSUME IInv, \/ InputEnds \/ Receive \/ ReceiveNone \/ \E p \in Line : JoinNext(p)
                 \/ PeekRecord /\ UNCHANGED streamVars
                 \/ UNCHANGED vars
    PROVE  UNCHANGED Promise!vars
<1>1. UNCHANGED <<lines, eof, reader, taken, settled, produced, dropped, exit, buf, delivered>>
  BY DEF InputEnds, Receive, ReceiveNone, JoinNext, PeekRecord, vars, ioVars, sinkVars
<1>2. CompleteLines' = CompleteLines
  <2>1. CASE task' = task
    BY <1>1, <2>1 DEF CompleteLines
  <2>2. ASSUME NEW p \in Line, JoinNext(p)
        PROVE  CompleteLines' = CompleteLines
    <3>1. task[p] = "finished" /\ task' = [task EXCEPT ![p] = "joined"]
      BY <2>2 DEF JoinNext
    <3> QED
      BY <1>1, <3>1 DEF CompleteLines, NotStreaming, IInv, TypeOK
  <2> QED
    BY <2>1, <2>2 DEF InputEnds, Receive, ReceiveNone, PeekRecord, streamVars, vars
<1> QED
  BY <1>1, <1>2 DEF Promise!vars, RowsOut

LEMMA PromiseStep ==
    ASSUME IInv, [Next]_vars
    PROVE  Promise!Next \/ UNCHANGED Promise!vars
  BY PromiseEnvironment, PromiseTakes, PromiseSettles, PromiseEnds, PromiseTask, PromiseStutters
     DEF Next, Sink, Drive, Settles, Peek, Poll, Exited

(* The level keeps the promise of LevelSpec: it reads its lines in order,   *)
(* settles the items of each line once and in order, and exits with a      *)
(* status that says whether it dropped any, for every fan-out, batch size  *)
(* and buffer size.                                                        *)
THEOREM ImplementsPromise == Spec => PromiseSpec
<1>1. IInv /\ [Next]_vars => [Promise!Next]_(Promise!vars)
  BY PromiseStep
<1> QED
  BY PromiseInit, Invariant, <1>1, PTL DEF Spec, PromiseSpec, Promise!Spec
=============================================================================
