--------------------------- MODULE BatchLevel_proof ---------------------------
(***************************************************************************)
(* Theorems about BatchLevel, for every fan-out and number of lines.       *)
(***************************************************************************)
EXTENDS BatchLevel, SequenceTheorems, TLAPS

(* A read is in flight only while its batch is read; drive holds a row only *)
(* while the rows of a batch are yielded; the level finishes while it would *)
(* gather.  Each rests on the others: a batch is left when nothing of it is *)
(* in flight, and the next is gathered when nothing of it is left to drive. *)
PhaseInv ==
    /\ phase # "read" => InFlight = {}
    /\ held # NoItem => phase = "yield"
    /\ pc = "finish" => phase = "gather"

LEMMA PhaseInit == Init => PhaseInv
  BY DEF Init, IOInit, PhaseInv, InFlight

(* The parent, the consumer, read_input and the sink move no read and hold  *)
(* no row.                                                                 *)
LEMMA PhaseEnds ==
    ASSUME PhaseInv, Upstream \/ Consumer \/ Sink
    PROVE  PhaseInv'
<1>1. UNCHANGED batchVars
  BY DEF Upstream, Consumer, Sink
<1>2. held' \in {held, NoItem}
  BY DEF Upstream, Arrive, CloseInput, Consumer, ReaderLeaves, Sink, OutputFails,
         Peek, PeekBlank, PeekGarbled, PeekRecord,
         Drive, Report, Write, FlushThenWrite, Discard, Finish
<1>3. pc' \in {pc, "poll"}
  BY DEF Upstream, Arrive, CloseInput, Consumer, ReaderLeaves, Sink, OutputFails,
         Peek, PeekBlank, PeekGarbled, PeekRecord,
         Drive, Report, Write, FlushThenWrite, Discard, Finish
<1> QED
  BY <1>1, <1>2, <1>3 DEF PhaseInv, InFlight, batchVars

(* Gathering: no read is made.                                             *)
LEMMA PhaseGather ==
    ASSUME PhaseInv, TakeBlank \/ TakeLine \/ NoMoreChunks
    PROVE  PhaseInv'
<1>1. phase = "gather" /\ UNCHANGED <<phase, read, held>>
  BY DEF TakeBlank, TakeLine, NoMoreChunks, Gathering, batchVars
<1> QED
  BY <1>1 DEF PhaseInv, InFlight

(* The reads of a batch: nothing is held, and it ends with none in flight.  *)
LEMMA PhaseRead ==
    ASSUME PhaseInv, StartBatch \/ JoinAll \/ \E p \in Line : Answer(p)
    PROVE  PhaseInv'
<1>1. held = NoItem /\ pc = "poll" /\ UNCHANGED <<held, pc>>
  BY DEF StartBatch, JoinAll, Answer, Polling
<1>2. CASE StartBatch
  <2>1. phase' = "read"
    BY <1>2 DEF StartBatch
  <2> QED
    BY <1>1, <2>1 DEF PhaseInv
<1>3. CASE JoinAll
  <2>1. InFlight = {} /\ read' = read
    BY <1>3 DEF JoinAll
  <2> QED
    BY <1>1, <2>1 DEF PhaseInv, InFlight
<1>4. CASE \E p \in Line : Answer(p)
  <2>1. phase' = "read"
    BY <1>4 DEF Answer
  <2> QED
    BY <1>1, <2>1 DEF PhaseInv
<1> QED
  BY <1>2, <1>3, <1>4

(* The rows of a batch: one is held at a time, and the next batch waits for *)
(* the last.                                                               *)
LEMMA PhaseYield ==
    ASSUME PhaseInv, YieldRow \/ BatchYielded
    PROVE  PhaseInv'
<1>1. phase = "yield" /\ held = NoItem /\ UNCHANGED <<read, pc>> /\ pc = "poll"
  BY DEF YieldRow, BatchYielded, Polling, ioVars
<1>2. phase' = "yield" \/ (phase' = "gather" /\ held' = NoItem)
  BY <1>1 DEF YieldRow, BatchYielded, ioVars
<1> QED
  BY <1>1, <1>2 DEF PhaseInv, InFlight

LEMMA PhaseStep == PhaseInv /\ [Next]_vars => PhaseInv'
<1> SUFFICES ASSUME PhaseInv, [Next]_vars PROVE PhaseInv'
  OBVIOUS
<1>1. CASE Upstream \/ Consumer \/ Sink
  BY <1>1, PhaseEnds
<1>2. CASE Poll \/ \E p \in Line : Answer(p)
  BY <1>2, PhaseGather, PhaseRead, PhaseYield DEF Poll
<1>3. CASE UNCHANGED vars
  BY <1>3 DEF PhaseInv, InFlight, vars, ioVars, batchVars
<1> QED
  BY <1>1, <1>2, <1>3 DEF Next, Exited

(* filter_map never polls a batch's reads while it drives a row, nor leaves *)
(* one behind when it finishes ("a stalled consumer leaves no read in      *)
(* flight", source.rs:117), for any fan-out and any input.                 *)
THEOREM NoStalledReadHolds == Spec => []NoStalledRead
<1>1. PhaseInv => NoStalledRead
  BY DEF PhaseInv, NoStalledRead
<1> QED
  BY PhaseInit, PhaseStep, <1>1, PTL DEF Spec

-----------------------------------------------------------------------------
(* Parent order.                                                           *)

SeqInv ==
    /\ lines \in Seq({"record", "misfit", "blank", "garbled"}) /\ Len(lines) <= MaxLines
    /\ taken \in 0..Len(lines)
    /\ delivered \in Seq(Item) /\ buf \in Seq(Item) /\ rows \in Seq(Item)
    /\ chunk \in Seq(Line) /\ held \in Item \cup {NoItem}

(* n stands behind every row that was written.                             *)
Behind(n) == \A j \in 1..Len(RowsOut) : RowsOut[j].line < n

(* What leaves a level is in parent order, and what is on its way stands    *)
(* behind it in that order: the row in hand, the rows of the batch, or the  *)
(* lines of the chunk.  A failure may stand anywhere, since it is not       *)
(* written.                                                                *)
OutInv ==
    /\ ParentOrder
    /\ Behind(taken + 1)
HeldInv ==
    held \in Item => held.line <= taken /\ (held \notin failures => Behind(held.line))
RowsInv ==
    \A k \in 1..Len(rows) :
        /\ rows[k].line <= taken
        /\ rows[k] \notin failures =>
             /\ Behind(rows[k].line)
             /\ held \in Item \ failures => held.line < rows[k].line
             /\ \A j \in 1..k - 1 : rows[j] \notin failures => rows[j].line < rows[k].line
ChunkInv ==
    \A k \in 1..Len(chunk) :
        /\ chunk[k] <= taken /\ Behind(chunk[k])
        /\ \A j \in 1..k - 1 : chunk[j] < chunk[k]
BatchInv ==
    /\ phase = "gather" => rows = << >>
    /\ phase = "read" => \A k \in 1..Len(rows) : rows[k] \in failures
    /\ phase = "yield" => chunk = << >>
    /\ phase \in {"gather", "read", "yield"}

OrderInv == SeqInv /\ OutInv /\ HeldInv /\ RowsInv /\ ChunkInv /\ BatchInv

LEMMA OrderInit == Init => OrderInv
<1> SUFFICES ASSUME Init PROVE OrderInv
  OBVIOUS
<1>1. /\ delivered = << >> /\ buf = << >> /\ rows = << >> /\ chunk = << >> /\ lines = << >>
      /\ taken = 0 /\ held = NoItem /\ phase = "gather"
  BY DEF Init, IOInit
<1>2. RowsOut = << >>
  BY <1>1 DEF RowsOut
<1>3. SeqInv
  BY <1>1, LevelIOAssumption DEF SeqInv
<1>4. held \notin Item
  BY <1>1, LevelIOAssumption
<1> QED
  BY <1>1, <1>2, <1>3, <1>4 DEF OrderInv, OutInv, ParentOrder, Behind, HeldInv, RowsInv, ChunkInv, BatchInv

(* An item has a line, and NoItem is none.                                 *)
LEMMA ItemFacts ==
    /\ NoItem \notin Item
    /\ \A x \in Item : x.line \in Nat
    /\ \A p \in Line : p \in Nat /\ TheItem(p, 1) \in Item /\ TheItem(p, 1).line = p
  BY LevelIOAssumption DEF Item, Line, TheItem

(* A step that writes no row, takes no line and moves nothing of the batch. *)
LEMMA OrderFrame ==
    ASSUME OrderInv, UNCHANGED <<taken, RowsOut, phase, chunk, rows>>,
           SeqInv', failures \subseteq failures',
           held' \in {held, NoItem}
    PROVE  OrderInv'
<1>1. RowsOut' = RowsOut /\ \A n : Behind(n)' = Behind(n)
  BY DEF Behind
<1>2. OutInv'
  BY <1>1 DEF OrderInv, OutInv, ParentOrder, Behind
<1>3. HeldInv'
  BY <1>1, ItemFacts DEF OrderInv, HeldInv, Behind
<1>4. RowsInv'
  BY <1>1, ItemFacts DEF OrderInv, RowsInv, Behind
<1>5. ChunkInv' /\ BatchInv'
  BY <1>1 DEF OrderInv, ChunkInv, BatchInv, Behind
<1> QED
  BY <1>2, <1>3, <1>4, <1>5 DEF OrderInv

(* The listing of some of the chunk's lines.                               *)
LEMMA ListingFacts ==
    ASSUME SeqInv, NEW at \in Listings
    PROVE  /\ RowsAt(at) \in Seq(Item) /\ Len(RowsAt(at)) \in Nat
           /\ \A i \in 1..Len(RowsAt(at)) :
                /\ i \in DOMAIN at /\ at[i] \in 1..Len(chunk) /\ chunk[at[i]] \in Line
                /\ RowsAt(at)[i] = TheItem(chunk[at[i]], 1)
                /\ RowsAt(at)[i].line = chunk[at[i]]
<1>0. Len(chunk) \in Nat
  BY LenProperties DEF SeqInv
<1>1. PICK n \in 0..Len(chunk) : at \in [1..n -> DOMAIN chunk]
  BY DEF Listings
<1>2. DOMAIN chunk = 1..Len(chunk) /\ \A k \in 1..Len(chunk) : chunk[k] \in Line
  BY DEF SeqInv
<1>3. DOMAIN RowsAt(at) = 1..n /\ \A i \in 1..n : RowsAt(at)[i] = TheItem(chunk[at[i]], 1)
  BY <1>1 DEF RowsAt
<1>4. RowsAt(at) = [i \in 1..n |-> TheItem(chunk[at[i]], 1)]
  BY <1>1 DEF RowsAt
<1>5. \A i \in 1..n : TheItem(chunk[at[i]], 1) \in Item
  BY <1>1, <1>2, ItemFacts
<1>6. RowsAt(at) \in Seq(Item) /\ Len(RowsAt(at)) = n
  BY <1>0, <1>1, <1>3, <1>4, <1>5
<1> QED
  BY <1>1, <1>2, <1>3, <1>6, ItemFacts

(* Types.                                                                  *)
LEMMA SeqStep ==
    ASSUME SeqInv, [Next]_vars
    PROVE  SeqInv'
<1> USE DEF SeqInv
<1>1. CASE Upstream
  <2>1. UNCHANGED <<taken, delivered, buf, rows, chunk, held>>
    BY <1>1 DEF Upstream, Arrive, CloseInput, sinkVars, batchVars
  <2>2. CASE Arrive
    <3>1. Len(lines) < MaxLines /\ \E k \in LineKinds : lines' = Append(lines, k)
      BY <2>2 DEF Arrive
    <3>2. PICK k \in {"record", "misfit", "blank", "garbled"} : lines' = Append(lines, k)
      BY <3>1, LevelIOAssumption
    <3>3. /\ lines' \in Seq({"record", "misfit", "blank", "garbled"})
          /\ Len(lines') = Len(lines) + 1
      BY <3>2
    <3> QED
      BY <2>1, <3>1, <3>3, LevelIOAssumption
  <2>3. CASE CloseInput
    BY <2>1, <2>3 DEF CloseInput
  <2> QED
    BY <1>1, <2>2, <2>3 DEF Upstream
<1>2. CASE Consumer
  BY <1>2 DEF Consumer, ReaderLeaves, sinkVars, batchVars
<1>3. CASE Sink
  <2>1. UNCHANGED <<lines, rows, chunk>>
    BY <1>3 DEF Sink, batchVars, OutputFails, Peek, PeekBlank, PeekGarbled, PeekRecord,
       Drive, Report, Write, FlushThenWrite, Discard, Finish
  <2>2. held' \in {held, NoItem}
    BY <1>3 DEF Sink, OutputFails, Peek, PeekBlank, PeekGarbled, PeekRecord,
       Drive, Report, Write, FlushThenWrite, Discard, Finish
  <2>3. taken' \in 0..Len(lines)
    BY <1>3 DEF Sink, OutputFails, Peek, PeekBlank, PeekGarbled, PeekRecord, LineReady, NextLine,
       Drive, Report, Write, FlushThenWrite, Discard, Finish
  <2>4. delivered' \in Seq(Item) /\ buf' \in Seq(Item)
    <3>1. CASE Write \/ FlushThenWrite
      <4>1. held \in Item
        BY <3>1 DEF Write, FlushThenWrite, Driving
      <4>2. delivered' \in {delivered, delivered \o buf} /\ buf' \in {Append(buf, held), <<held>>}
        BY <3>1 DEF Write, FlushThenWrite
      <4>3. /\ delivered \o buf \in Seq(Item)
            /\ Append(buf, held) \in Seq(Item) /\ <<held>> \in Seq(Item)
        BY <4>1, ConcatProperties, AppendProperties
      <4> QED
        BY <4>2, <4>3
    <3>2. CASE Finish
      <4>1. delivered' \in {delivered, delivered \o buf} /\ buf' \in {buf, << >>}
        BY <3>2 DEF Finish
      <4>2. delivered \o buf \in Seq(Item) /\ << >> \in Seq(Item)
        BY ConcatProperties
      <4> QED
        BY <4>1, <4>2
    <3>3. CASE ~(Write \/ FlushThenWrite \/ Finish)
      BY <1>3, <3>3 DEF Sink, OutputFails, Peek, PeekBlank, PeekGarbled, PeekRecord,
         Drive, Report, Discard, sinkVars
    <3> QED
      BY <3>1, <3>2, <3>3
  <2> QED
    BY <2>1, <2>2, <2>3, <2>4
<1>4. CASE TakeBlank \/ TakeLine
  <2>1. UNCHANGED <<lines, delivered, buf, rows, held>> /\ taken' = taken + 1 /\ taken < Len(lines)
    BY <1>4 DEF TakeBlank, TakeLine, LineReady, NextLine, sinkVars, batchVars
  <2>2. NextLine \in Line /\ NextLine = taken + 1
    BY <2>1, LevelIOAssumption DEF NextLine, Line
  <2>3. chunk' \in {chunk, Append(chunk, NextLine)}
    BY <1>4 DEF TakeBlank, TakeLine, batchVars
  <2>4. Append(chunk, NextLine) \in Seq(Line)
    BY <2>2, AppendProperties
  <2>5. chunk' \in Seq(Line)
    BY <2>3, <2>4
  <2>6. taken' \in 0..Len(lines)
    BY <2>1
  <2> QED
    BY <2>1, <2>5, <2>6
<1>5. CASE StartBatch
  <2>1. UNCHANGED <<lines, taken, delivered, buf, chunk, held>>
    BY <1>5 DEF StartBatch, sinkVars
  <2>2. PICK at \in Listings : rows' = RowsAt(at)
    BY <1>5 DEF StartBatch
  <2> QED
    BY <2>1, <2>2, ListingFacts
<1>6. CASE JoinAll
  <2>1. UNCHANGED <<lines, taken, delivered, buf, held>> /\ chunk' = << >>
    BY <1>6 DEF JoinAll, sinkVars
  <2>2. PICK at \in Listings : rows' = rows \o RowsAt(at)
    BY <1>6 DEF JoinAll
  <2>3. RowsAt(at) \in Seq(Item)
    BY ListingFacts
  <2> QED
    BY <2>1, <2>2, <2>3
<1>7. CASE YieldRow
  <2>1. UNCHANGED <<lines, taken, delivered, buf, chunk>> /\ rows # << >>
        /\ held' = Head(rows) /\ rows' = Tail(rows)
    BY <1>7 DEF YieldRow, sinkVars
  <2> QED
    BY <2>1
<1>8. CASE NoMoreChunks \/ BatchYielded \/ (\E p \in Line : Answer(p)) \/ UNCHANGED vars
  BY <1>8 DEF NoMoreChunks, BatchYielded, Answer, vars, ioVars, sinkVars, batchVars
<1> QED
  BY <1>1, <1>2, <1>3, <1>4, <1>5, <1>6, <1>7, <1>8 DEF Next, Poll, Exited

(* A blank line is passed over.                                            *)
LEMMA OrderTakes ==
    ASSUME OrderInv, SeqInv', taken' = NextLine,
           UNCHANGED <<failures, held, delivered, buf, phase, chunk, rows>>
    PROVE  OrderInv'
<1>1. RowsOut' = RowsOut /\ \A n : Behind(n)' = Behind(n)
  BY DEF RowsOut, Behind
<1>2. taken \in Nat /\ taken' = taken + 1
  BY DEF OrderInv, SeqInv, NextLine
<1>3. OutInv'
  <2>1. \A j \in 1..Len(RowsOut) : RowsOut[j] \in Item
    BY ConcatProperties, ElementOfSeq DEF OrderInv, SeqInv, RowsOut
  <2>2. \A j \in 1..Len(RowsOut) : RowsOut[j].line \in Nat /\ RowsOut[j].line < taken + 1
    BY <2>1, ItemFacts DEF OrderInv, OutInv, Behind
  <2>3. Behind(taken + 1 + 1)
    BY <1>2, <2>2 DEF Behind
  <2> QED
    BY <1>1, <1>2, <2>3 DEF OrderInv, OutInv, ParentOrder, Behind
<1>4. HeldInv'
  BY <1>1, <1>2, ItemFacts DEF OrderInv, HeldInv
<1>5. RowsInv'
  <2>1. \A k \in 1..Len(rows) : rows[k].line \in Nat
    BY ElementOfSeq, ItemFacts DEF OrderInv, SeqInv
  <2> QED
    BY <1>1, <1>2, <2>1 DEF OrderInv, RowsInv
<1>6. ChunkInv'
  <2>1. \A k \in 1..Len(chunk) : chunk[k] \in Nat
    BY ElementOfSeq, ItemFacts DEF OrderInv, SeqInv
  <2> QED
    BY <1>1, <1>2, <2>1 DEF OrderInv, ChunkInv
<1>7. BatchInv'
  BY DEF OrderInv, BatchInv
<1> QED
  BY <1>3, <1>4, <1>5, <1>6, <1>7 DEF OrderInv

(* The row in hand is written: it stands behind all that was written, and   *)
(* before all that is on its way.                                          *)
LEMMA OrderWrites ==
    ASSUME OrderInv, PhaseInv, SeqInv', held \in Item \ failures,
           RowsOut' = Append(RowsOut, held), held' = NoItem,
           UNCHANGED <<taken, failures, phase, chunk, rows>>
    PROVE  OrderInv'
<1>1. RowsOut \in Seq(Item) /\ Len(RowsOut') = Len(RowsOut) + 1
  BY DEF OrderInv, SeqInv, RowsOut
<1>2. /\ \A j \in 1..Len(RowsOut) : RowsOut'[j] = RowsOut[j]
      /\ RowsOut'[Len(RowsOut) + 1] = held
  BY <1>1
<1>3. /\ held.line \in Nat /\ taken \in Nat /\ Len(RowsOut) \in Nat
      /\ \A j \in 1..Len(RowsOut) : RowsOut[j].line \in Nat /\ RowsOut[j].line < held.line
  BY <1>1, ItemFacts DEF OrderInv, HeldInv, Behind, SeqInv
<1>4. ASSUME NEW n \in Nat, Behind(n), held.line < n PROVE Behind(n)'
  BY <1>1, <1>2, <1>3, <1>4 DEF Behind
<1>5. OutInv'
  <2>1. Behind(taken + 1)'
    BY <1>3, <1>4 DEF OrderInv, OutInv, HeldInv
  <2>2. ParentOrder'
    <3> SUFFICES ASSUME NEW j \in 1..(Len(RowsOut) + 1), NEW k \in 1..(Len(RowsOut) + 1), j < k
                 PROVE  RowsOut'[j].line < RowsOut'[k].line
      BY <1>1 DEF ParentOrder
    <3>0. PICK n \in Nat : n = Len(RowsOut)
      BY <1>3
    <3>1. j \in 1..Len(RowsOut) /\ (k \in 1..Len(RowsOut) \/ k = Len(RowsOut) + 1)
      BY <3>0
    <3>2. CASE k \in 1..Len(RowsOut)
      BY <1>1, <1>2, <3>1, <3>2 DEF OrderInv, OutInv, ParentOrder
    <3>3. CASE k = Len(RowsOut) + 1
      BY <1>2, <1>3, <3>1, <3>3
    <3> QED
      BY <3>1, <3>2, <3>3
  <2> QED
    BY <2>1, <2>2 DEF OutInv
<1>6. HeldInv'
  BY ItemFacts DEF HeldInv
<1>7. RowsInv'
  <2> SUFFICES ASSUME NEW k \in 1..Len(rows)
               PROVE  /\ rows[k].line <= taken
                      /\ rows[k] \notin failures =>
                           /\ Behind(rows[k].line)'
                           /\ \A j \in 1..k - 1 : rows[j] \notin failures => rows[j].line < rows[k].line
    BY ItemFacts DEF RowsInv
  <2>1. rows[k] \in Item /\ rows[k].line \in Nat
    BY ItemFacts DEF OrderInv, SeqInv
  <2> QED
    BY <1>4, <2>1 DEF OrderInv, RowsInv
<1>8. ChunkInv'
  <2>1. chunk = << >>
    BY ItemFacts DEF OrderInv, BatchInv, PhaseInv
  <2> QED
    BY <2>1 DEF ChunkInv
<1>9. BatchInv'
  BY DEF OrderInv, BatchInv
<1> QED
  BY <1>5, <1>6, <1>7, <1>8, <1>9 DEF OrderInv

LEMMA OrderEnds ==
    ASSUME OrderInv, PhaseInv, SeqInv', Upstream \/ Consumer \/ Sink
    PROVE  OrderInv'
<1>0. UNCHANGED <<phase, chunk, rows>>
  BY DEF Upstream, Consumer, Sink, batchVars
<1>1. CASE Write \/ FlushThenWrite
  <2>1. held \in Item \ failures /\ held' = NoItem /\ UNCHANGED <<taken, failures>>
    BY <1>1 DEF Write, FlushThenWrite, Driving, OrderInv, SeqInv
  <2>2. RowsOut' = Append(RowsOut, held)
    <3>1. delivered \in Seq(Item) /\ buf \in Seq(Item)
      BY DEF OrderInv, SeqInv
    <3>2. CASE Write
      <4>1. delivered' = delivered /\ buf' = Append(buf, held)
        BY <3>2 DEF Write
      <4> QED
        BY <2>1, <3>1, <4>1 DEF RowsOut
    <3>3. CASE FlushThenWrite
      <4>1. delivered' = delivered \o buf /\ buf' = <<held>>
        BY <3>3 DEF FlushThenWrite
      <4>2. (delivered \o buf) \in Seq(Item)
        BY <3>1, ConcatProperties
      <4> QED
        BY <2>1, <4>1, <4>2, AppendIsConcat DEF RowsOut
    <3> QED
      BY <1>1, <3>2, <3>3
  <2> QED
    BY <1>0, <2>1, <2>2, OrderWrites
<1>2. CASE Finish
  <2>1. /\ delivered' \o buf' = delivered \o buf
        /\ UNCHANGED <<taken, failures, held>>
    <3>1. delivered \o buf \in Seq(Item)
      BY ConcatProperties DEF OrderInv, SeqInv
    <3> QED
      BY <1>2, <3>1, ConcatEmptySeq DEF Finish
  <2> QED
    BY <1>0, <2>1, OrderFrame DEF RowsOut
<1>3. CASE PeekBlank
  BY <1>0, <1>3, OrderTakes DEF PeekBlank, sinkVars
<1>4. CASE Upstream \/ Consumer \/ PeekGarbled \/ PeekRecord \/ OutputFails \/ Report \/ Discard
  <2>1. UNCHANGED <<taken, delivered, buf>> /\ held' \in {held, NoItem} /\ failures' = failures
    BY <1>4 DEF Upstream, Arrive, CloseInput, Consumer, ReaderLeaves, PeekGarbled, PeekRecord,
       OutputFails, Report, Discard, sinkVars
  <2> QED
    BY <1>0, <2>1, OrderFrame DEF RowsOut
<1> QED
  BY <1>1, <1>2, <1>3, <1>4 DEF Sink, Peek, Drive

(* Gathering a chunk: a line stands behind all the lines before it.         *)
LEMMA OrderGather ==
    ASSUME OrderInv, SeqInv', TakeBlank \/ TakeLine \/ NoMoreChunks
    PROVE  OrderInv'
<1>1. CASE TakeBlank
  BY <1>1, OrderTakes DEF TakeBlank, sinkVars, batchVars
<1>2. CASE NoMoreChunks
  BY <1>2, OrderFrame DEF NoMoreChunks, sinkVars, batchVars, RowsOut
<1>3. CASE TakeLine
  <2>1. /\ UNCHANGED <<failures, held, phase, rows, delivered, buf>> /\ phase = "gather"
        /\ taken' = taken + 1 /\ chunk' = Append(chunk, taken + 1)
    BY <1>3 DEF TakeLine, Gathering, NextLine, sinkVars
  <2>2. rows = << >> /\ held = NoItem
    BY <1>3, <2>1 DEF TakeLine, Gathering, Polling, OrderInv, BatchInv
  <2>3. RowsOut' = RowsOut /\ \A n : Behind(n)' = Behind(n)
    BY <2>1 DEF RowsOut, Behind
  <2>4. /\ taken \in Nat /\ Len(chunk) \in Nat
        /\ \A k \in 1..Len(chunk) : chunk[k] \in Nat /\ chunk[k] <= taken
    BY LenProperties, ElementOfSeq, ItemFacts DEF OrderInv, SeqInv, ChunkInv
  <2>5. OutInv'
    <3>1. \A j \in 1..Len(RowsOut) : RowsOut[j] \in Item
      BY ConcatProperties, ElementOfSeq DEF OrderInv, SeqInv, RowsOut
    <3>2. \A j \in 1..Len(RowsOut) : RowsOut[j].line \in Nat /\ RowsOut[j].line < taken + 1
      BY <3>1, ItemFacts DEF OrderInv, OutInv, Behind
    <3>3. Behind(taken + 1 + 1)
      BY <2>4, <3>2 DEF Behind
    <3> QED
      BY <2>1, <2>3, <3>3 DEF OrderInv, OutInv, ParentOrder, Behind
  <2>6. HeldInv' /\ RowsInv' /\ BatchInv'
    BY <2>1, <2>2, ItemFacts DEF HeldInv, RowsInv, BatchInv
  <2>7. ChunkInv'
    <3>1. /\ Len(chunk') = Len(chunk) + 1 /\ chunk'[Len(chunk) + 1] = taken + 1
          /\ \A k \in 1..Len(chunk) : chunk'[k] = chunk[k]
      BY <2>1 DEF OrderInv, SeqInv
    <3> SUFFICES ASSUME NEW k \in 1..(Len(chunk) + 1)
                 PROVE  /\ chunk'[k] <= taken + 1 /\ Behind(chunk'[k])
                        /\ \A j \in 1..k - 1 : chunk'[j] < chunk'[k]
      BY <2>1, <2>3, <3>1 DEF ChunkInv
    <3>2. CASE k \in 1..Len(chunk)
      <4>1. /\ chunk[k] <= taken /\ Behind(chunk[k])
            /\ \A j \in 1..k - 1 : chunk[j] < chunk[k]
        BY <3>2 DEF OrderInv, ChunkInv
      <4>2. \A j \in 1..k - 1 : chunk'[j] = chunk[j]
        BY <2>4, <3>1, <3>2
      <4> QED
        BY <2>4, <3>1, <3>2, <4>1, <4>2
    <3>3. CASE k = Len(chunk) + 1
      BY <2>4, <3>1, <3>3 DEF OrderInv, OutInv
    <3> QED
      BY <2>4, <3>2, <3>3
  <2> QED
    BY <2>5, <2>6, <2>7 DEF OrderInv
<1> QED
  BY <1>1, <1>2, <1>3

(* The reads of a batch: what is not a parent fails at once, and the rows   *)
(* kept take the place of their lines, in the chunk's order.                *)
LEMMA OrderRead ==
    ASSUME OrderInv, SeqInv', StartBatch \/ JoinAll \/ \E p \in Line : Answer(p)
    PROVE  OrderInv'
<1>0. /\ held = NoItem /\ UNCHANGED <<taken, held, delivered, buf>>
      /\ RowsOut' = RowsOut /\ \A n : Behind(n)' = Behind(n)
  BY DEF StartBatch, JoinAll, Answer, Polling, sinkVars, RowsOut, Behind
<1>1. OutInv' /\ HeldInv'
  BY <1>0, ItemFacts DEF OrderInv, OutInv, ParentOrder, Behind, HeldInv
<1>2. CASE \E p \in Line : Answer(p)
  <2>1. UNCHANGED <<phase, chunk, rows>> /\ failures \subseteq failures'
    BY <1>2 DEF Answer
  <2> QED
    BY <1>0, <2>1, OrderFrame
<1>3. CASE StartBatch
  <2>1. phase' = "read" /\ chunk' = chunk
    BY <1>3 DEF StartBatch
  <2>2. PICK at \in Listings :
             /\ InOrder(at, {k \in DOMAIN chunk : ~IsRecord(chunk[k])}) /\ rows' = RowsAt(at)
             /\ failures' = failures \cup {TheItem(chunk[k], 1) : k \in {k \in DOMAIN chunk : ~IsRecord(chunk[k])}}
    BY <1>3 DEF StartBatch
  <2>3. ASSUME NEW i \in 1..Len(rows')
        PROVE  rows'[i] \in failures' /\ rows'[i].line <= taken
    <3>1. /\ i \in DOMAIN at /\ at[i] \in 1..Len(chunk)
          /\ rows'[i] = TheItem(chunk[at[i]], 1) /\ rows'[i].line = chunk[at[i]]
      BY <2>2, <2>3, ListingFacts DEF OrderInv
    <3>2. at[i] \in {k \in DOMAIN chunk : ~IsRecord(chunk[k])}
      BY <2>2, <3>1 DEF InOrder
    <3> QED
      BY <2>2, <3>1, <3>2 DEF OrderInv, ChunkInv
  <2>4. RowsInv' /\ BatchInv'
    BY <1>0, <2>1, <2>3 DEF RowsInv, BatchInv
  <2>5. ChunkInv'
    BY <1>0, <2>1 DEF OrderInv, ChunkInv
  <2> QED
    BY <1>1, <2>4, <2>5 DEF OrderInv
<1>4. CASE JoinAll
  <2>1. phase = "read" /\ phase' = "yield" /\ chunk' = << >> /\ failures' = failures
    BY <1>4 DEF JoinAll
  <2>2. PICK at \in Listings : InOrder(at, Kept) /\ rows' = rows \o RowsAt(at)
    BY <1>4 DEF JoinAll
  <2> DEFINE new == RowsAt(at)
             n == Len(rows)
  <2>3. /\ rows \in Seq(Item) /\ new \in Seq(Item) /\ n \in Nat /\ Len(new) \in Nat
        /\ \A i \in 1..n : rows[i] \in failures /\ rows[i].line <= taken
    BY <2>1, ListingFacts, LenProperties DEF OrderInv, SeqInv, BatchInv, RowsInv
  <2>4. /\ Len(rows') = n + Len(new)
        /\ \A i \in 1..n : rows'[i] = rows[i]
        /\ \A i \in 1..Len(new) : rows'[n + i] = new[i]
    <3> HIDE DEF new
    <3> QED
      BY <2>2, <2>3, ConcatProperties DEF new
  <2>5. \A i \in 1..Len(new) : /\ i \in DOMAIN at /\ at[i] \in 1..Len(chunk)
                               /\ chunk[at[i]] \in Nat /\ new[i].line = chunk[at[i]]
    BY ListingFacts, ItemFacts DEF OrderInv
  <2>6. ASSUME NEW i \in 1..Len(new)
        PROVE  /\ new[i].line <= taken /\ Behind(new[i].line)
               /\ \A j \in 1..i - 1 : new[j].line < new[i].line
    <3>1. new[i].line <= taken /\ Behind(new[i].line)
      BY <2>5 DEF OrderInv, ChunkInv
    <3>2. ASSUME NEW j \in 1..i - 1 PROVE new[j].line < new[i].line
      <4>1. j \in 1..Len(new) /\ j < i
        BY <2>3
      <4>2. at[j] < at[i] /\ at[j] \in 1..Len(chunk) /\ at[i] \in 1..Len(chunk)
        BY <2>2, <2>5, <4>1 DEF InOrder
      <4>3. at[j] \in 1..at[i] - 1
        <5>1. Len(chunk) \in Nat
          BY LenProperties DEF OrderInv, SeqInv
        <5> QED
          BY <4>2, <5>1
      <4>4. chunk[at[j]] < chunk[at[i]]
        BY <4>2, <4>3 DEF OrderInv, ChunkInv
      <4> QED
        BY <2>5, <4>1, <4>4
    <3> QED
      BY <3>1, <3>2
  <2>7. RowsInv'
    <3> SUFFICES ASSUME NEW k \in 1..Len(rows')
                 PROVE  /\ rows'[k].line <= taken
                        /\ rows'[k] \notin failures =>
                             /\ Behind(rows'[k].line)
                             /\ \A j \in 1..k - 1 : rows'[j] \notin failures => rows'[j].line < rows'[k].line
      BY <1>0, <2>1, ItemFacts DEF RowsInv
    <3>1. CASE k \in 1..n
      BY <2>3, <2>4, <3>1
    <3>2. CASE k \notin 1..n
      <4>1. k - n \in 1..Len(new) /\ n + (k - n) = k
        BY <2>3, <2>4, <3>2
      <4>2. rows'[k] = new[k - n]
        BY <2>4, <4>1
      <4>3. ASSUME NEW j \in 1..k - 1, rows'[j] \notin failures PROVE rows'[j].line < rows'[k].line
        <5>1. j \notin 1..n
          BY <2>3, <2>4, <4>3
        <5>2. j - n \in 1..(k - n) - 1 /\ j - n \in 1..Len(new) /\ n + (j - n) = j
          BY <2>3, <4>1, <5>1
        <5>3. rows'[j] = new[j - n]
          BY <2>4, <5>2
        <5> QED
          BY <2>6, <4>1, <4>2, <5>2, <5>3
      <4> QED
        BY <2>6, <4>1, <4>2, <4>3
    <3> QED
      BY <3>1, <3>2
  <2>8. ChunkInv' /\ BatchInv'
    BY <2>1 DEF ChunkInv, BatchInv
  <2> QED
    BY <1>1, <2>7, <2>8 DEF OrderInv
<1> QED
  BY <1>2, <1>3, <1>4

(* The rows of a batch are handed over first to last, and the next chunk is *)
(* gathered when none is left.                                             *)
LEMMA OrderYield ==
    ASSUME OrderInv, SeqInv', YieldRow \/ BatchYielded
    PROVE  OrderInv'
<1>0. /\ held = NoItem /\ phase = "yield" /\ chunk = << >> /\ UNCHANGED <<taken, chunk, failures>>
      /\ RowsOut' = RowsOut /\ \A n : Behind(n)' = Behind(n)
  BY DEF YieldRow, BatchYielded, Polling, ioVars, sinkVars, RowsOut, Behind, OrderInv, BatchInv
<1>1. OutInv' /\ ChunkInv'
  BY <1>0 DEF OrderInv, OutInv, ParentOrder, Behind, ChunkInv
<1>2. CASE BatchYielded
  <2>1. held' = held /\ rows = << >> /\ rows' = rows /\ phase' = "gather"
    BY <1>2 DEF BatchYielded, ioVars
  <2>2. HeldInv' /\ RowsInv' /\ BatchInv'
    BY <1>0, <2>1, ItemFacts DEF HeldInv, RowsInv, BatchInv
  <2> QED
    BY <1>1, <2>2 DEF OrderInv
<1>3. CASE YieldRow
  <2>1. held' = Head(rows) /\ rows' = Tail(rows) /\ rows # << >> /\ phase' = phase
    BY <1>3 DEF YieldRow
  <2>2. /\ rows \in Seq(Item) /\ Len(rows) \in Nat \ {0} /\ Head(rows) = rows[1]
        /\ Len(rows') = Len(rows) - 1 /\ \A k \in 1..Len(rows') : rows'[k] = rows[k + 1]
    BY <2>1, HeadTailProperties, EmptySeq DEF OrderInv, SeqInv
  <2>3. HeldInv'
    BY <1>0, <2>1, <2>2 DEF OrderInv, RowsInv, HeldInv
  <2>4. RowsInv'
    <3> SUFFICES ASSUME NEW k \in 1..Len(rows')
                 PROVE  /\ rows'[k].line <= taken
                        /\ rows'[k] \notin failures =>
                             /\ Behind(rows'[k].line)
                             /\ held' \in Item \ failures => held'.line < rows'[k].line
                             /\ \A j \in 1..k - 1 : rows'[j] \notin failures => rows'[j].line < rows'[k].line
      BY <1>0 DEF RowsInv
    <3>1. k + 1 \in 1..Len(rows) /\ 1 \in 1..(k + 1) - 1 /\ rows'[k] = rows[k + 1]
      BY <2>2
    <3>2. \A j \in 1..k - 1 : j + 1 \in 1..(k + 1) - 1 /\ rows'[j] = rows[j + 1]
      BY <2>2
    <3>3. /\ rows[k + 1].line <= taken
          /\ rows[k + 1] \notin failures =>
               /\ Behind(rows[k + 1].line)
               /\ \A j \in 1..(k + 1) - 1 : rows[j] \notin failures => rows[j].line < rows[k + 1].line
      BY <3>1 DEF OrderInv, RowsInv
    <3> QED
      BY <2>1, <2>2, <3>1, <3>2, <3>3
  <2>5. BatchInv'
    BY <1>0, <2>1 DEF BatchInv
  <2> QED
    BY <1>1, <2>3, <2>4, <2>5 DEF OrderInv
<1> QED
  BY <1>2, <1>3

LEMMA OrderStep ==
    ASSUME OrderInv, PhaseInv, [Next]_vars
    PROVE  OrderInv'
<1>1. SeqInv'
  BY SeqStep DEF OrderInv
<1>2. CASE Upstream \/ Consumer \/ Sink
  BY <1>1, <1>2, OrderEnds
<1>3. CASE Poll \/ \E p \in Line : Answer(p)
  BY <1>1, <1>3, OrderGather, OrderRead, OrderYield DEF Poll
<1>4. CASE UNCHANGED vars
  BY <1>1, <1>4, OrderFrame DEF vars, ioVars, sinkVars, batchVars, RowsOut
<1> QED
  BY <1>2, <1>3, <1>4 DEF Next, Exited

(* Rows leave in the order of their parents, across batches too, in         *)
(* whatever order the reads are answered (join_all), for any fan-out.       *)
THEOREM ParentOrderHolds == Spec => []ParentOrder
<1>1. OrderInv /\ PhaseInv /\ [Next]_vars => (OrderInv /\ PhaseInv)'
  BY OrderStep, PhaseStep
<1>2. OrderInv => ParentOrder
  BY DEF OrderInv, OutInv
<1> QED
  BY OrderInit, PhaseInit, <1>1, <1>2, PTL DEF Spec

-----------------------------------------------------------------------------
(***************************************************************************)
(* BatchLevel implements LevelSpec, for every fan-out, buffer size and     *)
(* number of lines: its initial states are initial states of the promise,  *)
(* and each of its steps is a step of the promise or changes nothing the   *)
(* promise speaks of.                                                      *)
(***************************************************************************)

-----------------------------------------------------------------------------
(* The inductive invariant: where each line that was consumed is.          *)

(* A line that was not consumed gave rise to nothing.                      *)
CountInv ==
    /\ produced \in [Line -> 0..1] /\ settled \in [Line -> 0..1]
    /\ read \in [Line -> {"none", "flight", "answered"}]
    /\ \A p \in Line : p > taken => produced[p] = 0 /\ settled[p] = 0 /\ read[p] = "none"

(* The row in hand and the rows of the batch are of different lines, and    *)
(* not settled.  Until the reads of a batch are joined its rows are those   *)
(* of the lines that are no parents.                                       *)
RowPlace ==
    /\ held \in Item => produced[held.line] = 1 /\ settled[held.line] = 0
    /\ \A k \in 1..Len(rows) :
          /\ produced[rows[k].line] = 1 /\ settled[rows[k].line] = 0
          /\ held \in Item => rows[k].line # held.line
          /\ \A j \in 1..k - 1 : rows[j].line # rows[k].line
          /\ phase = "read" => ~IsRecord(rows[k].line)

(* A line of the chunk waits for its read, or has its row.                  *)
ChunkPlace ==
    \A k \in 1..Len(chunk) :
        /\ lines[chunk[k]] # "blank" /\ settled[chunk[k]] = 0
        /\ phase = "gather" => produced[chunk[k]] = 0 /\ read[chunk[k]] = "none"
        /\ phase = "read" /\ IsRecord(chunk[k]) =>
              read[chunk[k]] = "answered" \/ (read[chunk[k]] = "flight" /\ produced[chunk[k]] = 0)
        /\ phase = "read" /\ ~IsRecord(chunk[k]) =>
              \E j \in 1..Len(rows) : rows[j].line = chunk[k]

FlightPlace ==
    \A p \in Line : read[p] = "flight" => /\ phase = "read" /\ IsRecord(p)
                                          /\ \E k \in 1..Len(chunk) : chunk[k] = p

(* Nothing is lost: a line that was consumed is complete or still there.    *)
IsComplete(p) ==
    /\ settled[p] = produced[p]
    /\ lines[p] = "blank" \/ produced[p] = 1 \/ read[p] = "answered"
IsThere(p) ==
    \/ \E k \in 1..Len(chunk) : chunk[k] = p
    \/ \E k \in 1..Len(rows) : rows[k].line = p
    \/ held \in Item /\ held.line = p
CoverInv == \A p \in 1..taken : IsComplete(p) \/ IsThere(p)

EndInv ==
    /\ closed => reader = "gone"
    /\ pc = "finish" => InputOver /\ chunk = << >>

Places == CountInv /\ RowPlace /\ ChunkPlace /\ FlightPlace /\ CoverInv
IInv == OrderInv /\ PhaseInv /\ Places /\ EndInv

LEMMA PlacesInit == Init => Places /\ EndInv
<1> SUFFICES ASSUME Init PROVE Places /\ EndInv
  OBVIOUS
<1>1. /\ rows = << >> /\ chunk = << >> /\ taken = 0 /\ held = NoItem /\ pc = "peek" /\ closed = FALSE
      /\ produced = [p \in Line |-> 0] /\ settled = [p \in Line |-> 0]
      /\ read = [p \in Line |-> "none"]
  BY DEF Init, IOInit
<1>2. CountInv
  BY <1>1 DEF CountInv
<1>3. RowPlace /\ ChunkPlace /\ CoverInv /\ EndInv
  BY <1>1, ItemFacts DEF RowPlace, ChunkPlace, CoverInv, EndInv
<1>4. FlightPlace
  BY <1>1 DEF FlightPlace
<1> QED
  BY <1>2, <1>3, <1>4 DEF Places

-----------------------------------------------------------------------------
(* What is where.                                                          *)

LEMMA PlaceFacts ==
    ASSUME OrderInv
    PROVE  /\ taken \in Nat /\ 1..taken \subseteq Line
           /\ Len(chunk) \in Nat /\ Len(rows) \in Nat /\ Len(lines) \in Nat /\ taken <= Len(lines)
           /\ \A k \in 1..Len(chunk) : chunk[k] \in Line /\ chunk[k] \in 1..taken
           /\ \A k \in 1..Len(rows) : rows[k] \in Item /\ rows[k].line \in 1..taken
           /\ held \in Item => held.line \in 1..taken
<1>1. taken \in Nat /\ Len(lines) \in Nat /\ taken <= Len(lines) /\ Len(lines) <= MaxLines
  BY LenProperties DEF OrderInv, SeqInv
<1>2. 1..taken \subseteq Line
  BY <1>1, LevelIOAssumption DEF Line
<1>3. Len(chunk) \in Nat /\ Len(rows) \in Nat
  BY LenProperties DEF OrderInv, SeqInv
<1>4. \A k \in 1..Len(chunk) : chunk[k] \in Line /\ chunk[k] \in 1..taken
  <2>1. \A k \in 1..Len(chunk) : chunk[k] \in Line /\ chunk[k] <= taken
    BY ElementOfSeq DEF OrderInv, SeqInv, ChunkInv
  <2> QED
    BY <1>1, <2>1, LevelIOAssumption DEF Line
<1>5. \A x \in Item : x.line \in Line
  BY DEF Item
<1>6. \A k \in 1..Len(rows) : rows[k] \in Item /\ rows[k].line \in 1..taken
  <2>1. \A k \in 1..Len(rows) : rows[k] \in Item /\ rows[k].line <= taken
    BY ElementOfSeq DEF OrderInv, SeqInv, RowsInv
  <2> QED
    BY <1>1, <1>5, <2>1, LevelIOAssumption DEF Line
<1>7. held \in Item => held.line \in 1..taken
  BY <1>1, <1>5, LevelIOAssumption DEF OrderInv, HeldInv, Line
<1> QED
  BY <1>1, <1>2, <1>3, <1>4, <1>6, <1>7

(* Steps that move no line: new lines come after those consumed.            *)
LEMMA PlacesFrame ==
    ASSUME OrderInv, Places,
           UNCHANGED <<taken, produced, settled, read, rows, chunk, held, phase>>,
           \A p \in 1..taken : lines'[p] = lines[p]
    PROVE  Places'
<1>1. \A p \in 1..taken : IsRecord(p)' = IsRecord(p)
  BY DEF IsRecord
<1>2. CountInv'
  BY DEF Places, CountInv
<1>3. RowPlace'
  BY <1>1, PlaceFacts DEF Places, RowPlace
<1>4. ChunkPlace'
  BY <1>1, PlaceFacts DEF Places, ChunkPlace
<1>5. FlightPlace'
  BY <1>1, PlaceFacts DEF Places, FlightPlace
<1>6. CoverInv'
  BY DEF Places, CoverInv, IsComplete, IsThere
<1> QED
  BY <1>2, <1>3, <1>4, <1>5, <1>6 DEF Places

LEMMA AppendKeeps ==
    ASSUME OrderInv, lines' = lines \/ \E k \in LineKinds : lines' = Append(lines, k)
    PROVE  \A p \in 1..taken : lines'[p] = lines[p]
<1>1. CASE \E k \in LineKinds : lines' = Append(lines, k)
  <2>1. PICK k \in {"record", "misfit", "blank", "garbled"} : lines' = Append(lines, k)
    BY <1>1, LevelIOAssumption
  <2>2. \A p \in 1..Len(lines) : lines'[p] = lines[p]
    BY <2>1 DEF OrderInv, SeqInv
  <2> QED
    BY <2>2, PlaceFacts
<1> QED
  BY <1>1

(* A line is consumed: a blank one is complete, another is in the chunk.    *)
LEMMA PlacesTake ==
    ASSUME OrderInv, Places, LineReady, taken' = NextLine,
           UNCHANGED <<lines, produced, settled, read, rows, held, phase>>,
           \/ lines[NextLine] = "blank" /\ chunk' = chunk
           \/ lines[NextLine] # "blank" /\ phase = "gather" /\ chunk' = Append(chunk, NextLine)
    PROVE  Places'
<1>0. PICK n : n = taken + 1
  OBVIOUS
<1>1. /\ taken' = n /\ n \in Line /\ n > taken /\ taken \in Nat /\ 1..taken' = 1..taken \cup {n}
      /\ NextLine = n
  <2>1. taken < Len(lines) /\ taken \in Nat /\ Len(lines) \in Nat /\ Len(lines) <= MaxLines
    BY PlaceFacts DEF LineReady, OrderInv, SeqInv
  <2> QED
    BY <1>0, <2>1, LevelIOAssumption DEF Line, NextLine
<1>2. produced[n] = 0 /\ settled[n] = 0 /\ read[n] = "none"
  BY <1>1 DEF Places, CountInv
<1>3. CountInv'
  <2>1. \A p \in Line : p > n => p > taken
    BY <1>1 DEF Line
  <2> QED
    BY <1>1, <2>1 DEF Places, CountInv
<1>4. RowPlace'
  BY DEF Places, RowPlace, IsRecord
<1>5. CASE chunk' = chunk /\ lines[n] = "blank"
  <2>1. ChunkPlace' /\ FlightPlace'
    BY <1>5 DEF Places, ChunkPlace, FlightPlace, IsRecord
  <2>2. IsComplete(n)'
    BY <1>2, <1>5 DEF IsComplete
  <2>3. CoverInv'
    BY <1>1, <1>5, <2>2 DEF Places, CoverInv, IsComplete, IsThere
  <2> QED
    BY <1>3, <1>4, <2>1, <2>3 DEF Places
<1>6. CASE chunk' = Append(chunk, n) /\ lines[n] # "blank" /\ phase = "gather"
  <2>1. /\ Len(chunk') = Len(chunk) + 1 /\ chunk'[Len(chunk) + 1] = n /\ Len(chunk) \in Nat
        /\ \A k \in 1..Len(chunk) : chunk'[k] = chunk[k]
    BY <1>1, <1>6, PlaceFacts DEF OrderInv, SeqInv
  <2>2. \A k \in 1..Len(chunk') : k \in 1..Len(chunk) \/ k = Len(chunk) + 1
    BY <2>1
  <2>3. ChunkPlace'
    BY <1>2, <1>6, <2>1, <2>2 DEF Places, ChunkPlace, IsRecord
  <2>4. FlightPlace'
    BY <1>6 DEF Places, FlightPlace
  <2>5. \A p : IsThere(p) => IsThere(p)'
    BY <2>1 DEF IsThere
  <2>6. IsThere(n)'
    BY <2>1 DEF IsThere
  <2>7. CoverInv'
    BY <1>1, <2>5, <2>6 DEF Places, CoverInv, IsComplete
  <2> QED
    BY <1>3, <1>4, <2>3, <2>4, <2>7 DEF Places
<1> QED
  BY <1>1, <1>5, <1>6

(* A batch starts: the rows are those of the lines that are no parents.     *)
LEMMA PlacesStart ==
    ASSUME OrderInv, PhaseInv, Places, StartBatch
    PROVE  /\ Places'
           /\ \A p \in 1..taken : IsComplete(p)' = IsComplete(p)
<1> DEFINE Bad == {k \in DOMAIN chunk : ~IsRecord(chunk[k])}
<1>1. /\ phase = "gather" /\ phase' = "read" /\ held = NoItem
      /\ UNCHANGED <<lines, taken, settled, held, chunk>>
  BY DEF StartBatch, Polling, sinkVars
<1>2. PICK at \in Listings : InOrder(at, Bad) /\ rows' = RowsAt(at)
  BY DEF StartBatch
<1>3. /\ DOMAIN chunk = 1..Len(chunk) /\ Len(chunk) \in Nat
      /\ \A k \in 1..Len(chunk) : chunk[k] \in Line /\ chunk[k] \in 1..taken
      /\ 1..taken \subseteq Line
  BY PlaceFacts, LenProperties DEF OrderInv, SeqInv
<1>4. /\ produced' = [p \in Line |-> IF \E k \in Bad : chunk[k] = p THEN 1 ELSE produced[p]]
      /\ read' = [p \in Line |-> IF \E k \in DOMAIN chunk : chunk[k] = p /\ IsRecord(p)
                                THEN "flight" ELSE read[p]]
  BY DEF StartBatch
<1>5. \A i \in 1..Len(rows') : /\ i \in DOMAIN at /\ at[i] \in Bad /\ at[i] \in 1..Len(chunk)
                               /\ rows'[i].line = chunk[at[i]]
  BY <1>2, ListingFacts DEF OrderInv, InOrder
<1>6. \A k \in Bad : \E i \in 1..Len(rows') : rows'[i].line = chunk[k]
  <2>1. DOMAIN at = 1..Len(rows')
    <3>1. PICK n \in 0..Len(chunk) : at \in [1..n -> DOMAIN chunk]
      BY DEF Listings
    <3>2. DOMAIN RowsAt(at) = DOMAIN at
      BY <3>1 DEF RowsAt
    <3>3. RowsAt(at) \in Seq(Item)
      BY ListingFacts DEF OrderInv
    <3>4. DOMAIN RowsAt(at) = 1..Len(RowsAt(at))
      BY <3>3, LenProperties
    <3> QED
      BY <1>2, <3>2, <3>4
  <2> QED
    BY <1>2, <1>5, <2>1 DEF InOrder
<1>7. \A p \in Line : IsRecord(p)' = IsRecord(p)
  BY <1>1 DEF IsRecord
<1>8. /\ \A k \in Bad : produced'[chunk[k]] = 1
      /\ \A k \in 1..Len(chunk) : k \notin Bad => produced'[chunk[k]] = 0 /\ read'[chunk[k]] = "flight"
  <2>1. \A k \in Bad : produced'[chunk[k]] = 1
    BY <1>3, <1>4
  <2>2. ASSUME NEW k \in 1..Len(chunk), k \notin Bad
        PROVE  produced'[chunk[k]] = 0 /\ read'[chunk[k]] = "flight"
    <3>1. IsRecord(chunk[k]) /\ ~\E l \in Bad : chunk[l] = chunk[k]
      BY <1>3, <2>2
    <3>2. produced[chunk[k]] = 0
      BY <1>1 DEF Places, ChunkPlace
    <3> QED
      BY <1>3, <1>4, <3>1, <3>2
  <2> QED
    BY <2>1, <2>2
<1>9. \A p \in Line : (\A k \in 1..Len(chunk) : chunk[k] # p) => produced'[p] = produced[p] /\ read'[p] = read[p]
  BY <1>3, <1>4
<1> HIDE DEF Bad
<1>10. \A k \in 1..Len(chunk) : k \in Bad <=> ~IsRecord(chunk[k])
  BY <1>3 DEF Bad
<1>11. CountInv'
  <2>1. produced' \in [Line -> 0..1] /\ read' \in [Line -> {"none", "flight", "answered"}]
    BY <1>4 DEF Places, CountInv
  <2>2. \A p \in Line : p > taken => \A k \in 1..Len(chunk) : chunk[k] # p
    BY <1>3, PlaceFacts DEF Line
  <2> QED
    BY <1>1, <1>9, <2>1, <2>2 DEF Places, CountInv
<1>12. RowPlace'
  <2>1. held' \notin Item
    BY <1>1, ItemFacts
  <2>2. ASSUME NEW i \in 1..Len(rows')
        PROVE  /\ produced'[rows'[i].line] = 1 /\ settled[rows'[i].line] = 0
               /\ lines[rows'[i].line] # "record" /\ \A j \in 1..i - 1 : rows'[j].line # rows'[i].line
    <3>1. at[i] \in Bad /\ at[i] \in 1..Len(chunk) /\ rows'[i].line = chunk[at[i]] /\ i \in DOMAIN at
      BY <1>5
    <3>2. settled[chunk[at[i]]] = 0 /\ ~IsRecord(chunk[at[i]])
      BY <1>10, <3>1 DEF Places, ChunkPlace
    <3>3. ASSUME NEW j \in 1..i - 1 PROVE rows'[j].line # rows'[i].line
      <4>0. Len(rows') \in Nat
        <5>1. rows' \in Seq(Item)
          BY <1>2, ListingFacts DEF OrderInv
        <5> QED
          BY <5>1, LenProperties
      <4>1. j \in 1..Len(rows') /\ j < i
        BY <4>0
      <4>2. at[j] \in 1..Len(chunk) /\ j \in DOMAIN at /\ rows'[j].line = chunk[at[j]] /\ at[j] < at[i]
        BY <1>2, <1>5, <3>1, <4>1 DEF InOrder
      <4>3. at[j] \in 1..at[i] - 1
        BY <1>3, <3>1, <4>2
      <4>4. chunk[at[j]] < chunk[at[i]]
        BY <3>1, <4>3 DEF OrderInv, ChunkInv
      <4> QED
        BY <1>3, <3>1, <4>2, <4>4, ItemFacts
    <3> QED
      BY <1>3, <1>8, <3>1, <3>2, <3>3 DEF IsRecord
  <2> QED
    BY <1>1, <2>1, <2>2 DEF RowPlace, IsRecord
<1>13. ChunkPlace'
  <2> SUFFICES ASSUME NEW k \in 1..Len(chunk)
               PROVE  /\ lines[chunk[k]] # "blank" /\ settled[chunk[k]] = 0
                      /\ IsRecord(chunk[k]) => read'[chunk[k]] = "flight" /\ produced'[chunk[k]] = 0
                      /\ ~IsRecord(chunk[k]) => \E j \in 1..Len(rows') : rows'[j].line = chunk[k]
    BY <1>1, <1>3, <1>7 DEF ChunkPlace
  <2> QED
    BY <1>6, <1>8, <1>10 DEF Places, ChunkPlace
<1>14. FlightPlace'
  <2>1. InFlight = {}
    BY <1>1 DEF PhaseInv
  <2>2. ASSUME NEW p \in Line, read'[p] = "flight"
        PROVE  IsRecord(p) /\ \E k \in 1..Len(chunk) : chunk[k] = p
    BY <1>3, <1>4, <2>1, <2>2 DEF InFlight
  <2> QED
    BY <1>1, <1>7, <2>2 DEF FlightPlace
<1>15. \A p \in 1..taken : IsComplete(p)' = IsComplete(p)
  <2> SUFFICES ASSUME NEW p \in 1..taken PROVE IsComplete(p)' = IsComplete(p)
    OBVIOUS
  <2>1. p \in Line
    BY <1>3
  <2>2. CASE \A k \in 1..Len(chunk) : chunk[k] # p
    BY <1>1, <1>9, <2>1, <2>2 DEF IsComplete
  <2>3. CASE \E k \in 1..Len(chunk) : chunk[k] = p
    <3>1. PICK k \in 1..Len(chunk) : chunk[k] = p
      BY <2>3
    <3>2. /\ lines[p] # "blank" /\ settled[p] = 0 /\ produced[p] = 0 /\ read[p] = "none"
      BY <1>1, <3>1 DEF Places, ChunkPlace
    <3>3. produced'[p] = 1 \/ (produced'[p] = 0 /\ read'[p] = "flight")
      BY <1>8, <3>1
    <3> QED
      BY <1>1, <3>2, <3>3 DEF IsComplete
  <2> QED
    BY <2>2, <2>3
<1>16. CoverInv'
  <2> SUFFICES ASSUME NEW p \in 1..taken, ~IsComplete(p) PROVE IsThere(p)'
    BY <1>1, <1>15 DEF CoverInv
  <2>1. IsThere(p) /\ rows = << >> /\ held \notin Item
    BY <1>1, ItemFacts DEF Places, CoverInv, OrderInv, BatchInv
  <2>2. \E k \in 1..Len(chunk) : chunk[k] = p
    BY <2>1 DEF IsThere
  <2> QED
    BY <1>1, <2>2 DEF IsThere
<1> QED
  BY <1>11, <1>12, <1>13, <1>14, <1>15, <1>16 DEF Places

(* A read is answered: with no row its line is complete.                    *)
LEMMA PlacesAnswer ==
    ASSUME OrderInv, PhaseInv, Places, NEW p \in Line, Answer(p)
    PROVE  /\ Places'
           /\ p \in 1..taken /\ ~IsComplete(p)
           /\ \A q \in 1..taken : q # p => IsComplete(q)' = IsComplete(q)
<1>1. /\ phase = "read" /\ read[p] = "flight" /\ read' = [read EXCEPT ![p] = "answered"]
      /\ produced' = [produced EXCEPT ![p] = 1] \/ produced' = produced
      /\ UNCHANGED <<lines, taken, settled, held, rows, chunk, phase>> /\ held = NoItem
  BY DEF Answer, Polling, sinkVars
<1>2. PICK k \in 1..Len(chunk) : chunk[k] = p
  BY <1>1 DEF Places, FlightPlace
<1>3. /\ IsRecord(p) /\ produced[p] = 0 /\ settled[p] = 0 /\ lines[p] # "blank" /\ p \in 1..taken
      /\ 1..taken \subseteq Line
  BY <1>1, <1>2, PlaceFacts DEF Places, FlightPlace, ChunkPlace
<1>4. \A q \in Line : q # p => produced'[q] = produced[q] /\ read'[q] = read[q]
  BY <1>1 DEF Places, CountInv
<1>5. read'[p] = "answered"
  BY <1>1 DEF Places, CountInv
<1>6. \A q : IsRecord(q)' = IsRecord(q)
  BY <1>1 DEF IsRecord
<1>7. CountInv'
  <2>1. ~(p > taken)
    BY <1>3, PlaceFacts
  <2> QED
    BY <1>1, <1>4, <2>1 DEF Places, CountInv
<1>8. RowPlace'
  <2>1. held' \notin Item
    BY <1>1, ItemFacts
  <2>2. \A i \in 1..Len(rows) : rows[i].line # p /\ rows[i].line \in Line
    BY <1>1, <1>3, PlaceFacts DEF Places, RowPlace
  <2> QED
    BY <1>1, <1>4, <1>6, <2>1, <2>2 DEF Places, RowPlace
<1>9. ChunkPlace'
  <2> SUFFICES ASSUME NEW i \in 1..Len(chunk)
               PROVE  /\ lines[chunk[i]] # "blank" /\ settled[chunk[i]] = 0
                      /\ IsRecord(chunk[i]) =>
                            read'[chunk[i]] = "answered" \/ (read'[chunk[i]] = "flight" /\ produced'[chunk[i]] = 0)
                      /\ ~IsRecord(chunk[i]) => \E j \in 1..Len(rows) : rows[j].line = chunk[i]
    BY <1>1 DEF ChunkPlace, IsRecord
  <2>1. chunk[i] \in Line
    BY PlaceFacts
  <2>2. /\ lines[chunk[i]] # "blank" /\ settled[chunk[i]] = 0
        /\ IsRecord(chunk[i]) =>
              read[chunk[i]] = "answered" \/ (read[chunk[i]] = "flight" /\ produced[chunk[i]] = 0)
        /\ ~IsRecord(chunk[i]) => \E j \in 1..Len(rows) : rows[j].line = chunk[i]
    BY <1>1 DEF Places, ChunkPlace
  <2>3. CASE chunk[i] = p
    BY <1>3, <1>5, <2>2, <2>3
  <2>4. CASE chunk[i] # p
    BY <1>4, <2>1, <2>2, <2>4
  <2> QED
    BY <2>3, <2>4
<1>10. FlightPlace'
  BY <1>1, <1>4, <1>5, <1>6 DEF Places, FlightPlace
<1>11. \A q \in 1..taken : q # p => IsComplete(q)' = IsComplete(q)
  BY <1>1, <1>3, <1>4 DEF IsComplete
<1>12. CoverInv'
  BY <1>1, <1>2, <1>11 DEF Places, CoverInv, IsThere
<1>13. ~IsComplete(p)
  BY <1>1, <1>3 DEF IsComplete
<1> QED
  BY <1>3, <1>7, <1>8, <1>9, <1>10, <1>11, <1>12, <1>13 DEF Places

(* The reads are joined: each row kept takes the place of its line.         *)
LEMMA PlacesJoin ==
    ASSUME OrderInv, PhaseInv, Places, JoinAll
    PROVE  Places'
<1>1. /\ phase = "read" /\ phase' = "yield" /\ held = NoItem /\ chunk' = << >> /\ InFlight = {}
      /\ UNCHANGED <<lines, taken, produced, settled, held, read>>
  BY DEF JoinAll, Polling, sinkVars
<1>2. PICK at \in Listings : InOrder(at, Kept) /\ rows' = rows \o RowsAt(at)
  BY DEF JoinAll
<1>3. /\ DOMAIN chunk = 1..Len(chunk) /\ Len(chunk) \in Nat
      /\ \A k \in 1..Len(chunk) : chunk[k] \in Line
  BY PlaceFacts, LenProperties DEF OrderInv, SeqInv
<1> DEFINE new == RowsAt(at)
<1>4. PICK n \in Nat : n = Len(rows)
  BY PlaceFacts
<1>5. /\ rows \in Seq(Item) /\ new \in Seq(Item) /\ Len(new) \in Nat
  BY ListingFacts DEF OrderInv, SeqInv
<1>6. /\ Len(rows') = n + Len(new)
      /\ \A i \in 1..n : rows'[i] = rows[i]
      /\ \A i \in 1..Len(new) : rows'[n + i] = new[i]
  <2> HIDE DEF new
  <2> QED
    BY <1>2, <1>4, <1>5, ConcatProperties DEF new
<1>7. \A i \in 1..Len(new) : /\ i \in DOMAIN at /\ at[i] \in 1..Len(chunk) /\ at[i] \in Kept
                             /\ new[i].line = chunk[at[i]]
  BY <1>2, ListingFacts DEF OrderInv, InOrder
<1>8. \A k \in Kept : \E i \in 1..Len(new) : new[i].line = chunk[k]
  <2>1. PICK m \in 0..Len(chunk) : at \in [1..m -> DOMAIN chunk]
    BY DEF Listings
  <2>2. DOMAIN new = DOMAIN at
    BY <2>1 DEF RowsAt
  <2>3. DOMAIN new = 1..Len(new)
    BY <1>5, LenProperties
  <2>4. \A k \in Kept : \E i \in DOMAIN at : at[i] = k
    BY <1>2 DEF InOrder
  <2> HIDE DEF new
  <2> QED
    BY <1>7, <2>2, <2>3, <2>4
<1>9. \A i \in 1..Len(new) : /\ produced[new[i].line] = 1 /\ settled[new[i].line] = 0
                             /\ lines[new[i].line] = "record"
                             /\ \A j \in 1..i - 1 : new[j].line # new[i].line
  <2> SUFFICES ASSUME NEW i \in 1..Len(new)
               PROVE  /\ produced[new[i].line] = 1 /\ settled[new[i].line] = 0
                      /\ lines[new[i].line] = "record"
                      /\ \A j \in 1..i - 1 : new[j].line # new[i].line
    OBVIOUS
  <2>1. /\ produced[new[i].line] = 1 /\ settled[new[i].line] = 0
        /\ lines[new[i].line] = "record"
    BY <1>3, <1>7 DEF Places, ChunkPlace, Kept, IsRecord
  <2>2. ASSUME NEW j \in 1..i - 1 PROVE new[j].line # new[i].line
    <3>1. j \in 1..Len(new) /\ j < i
      BY <1>5
    <3>2. at[j] < at[i] /\ at[j] \in 1..Len(chunk) /\ at[i] \in 1..Len(chunk)
      BY <1>2, <1>7, <3>1 DEF InOrder
    <3>3. at[j] \in 1..at[i] - 1
      BY <1>3, <3>2
    <3>4. chunk[at[j]] < chunk[at[i]]
      BY <3>2, <3>3 DEF OrderInv, ChunkInv
    <3>5. chunk[at[j]] \in Nat /\ chunk[at[i]] \in Nat
      BY <1>3, <3>2, ItemFacts
    <3>6. chunk[at[j]] # chunk[at[i]]
      BY <3>4, <3>5
    <3>7. new[j].line = chunk[at[j]] /\ new[i].line = chunk[at[i]]
      BY <1>7, <3>1
    <3> QED
      BY <3>6, <3>7
  <2> QED
    BY <2>1, <2>2
<1> HIDE DEF new
<1>10. \A i \in 1..n : /\ produced[rows[i].line] = 1 /\ settled[rows[i].line] = 0
                       /\ lines[rows[i].line] # "record"
                       /\ \A j \in 1..i - 1 : rows[j].line # rows[i].line
  BY <1>1, <1>4 DEF Places, RowPlace, IsRecord
<1>11. RowPlace'
  <2> SUFFICES ASSUME NEW k \in 1..Len(rows')
               PROVE  /\ produced[rows'[k].line] = 1 /\ settled[rows'[k].line] = 0
                      /\ \A j \in 1..k - 1 : rows'[j].line # rows'[k].line
    BY <1>1, ItemFacts DEF RowPlace
  <2>1. CASE k \in 1..n
    <3>1. \A j \in 1..k - 1 : rows'[j] = rows[j]
      BY <1>6, <2>1
    <3> QED
      BY <1>6, <1>10, <2>1, <3>1
  <2>2. CASE k \notin 1..n
    <3>1. k - n \in 1..Len(new) /\ n + (k - n) = k
      BY <1>5, <1>6, <2>2
    <3>2. rows'[k] = new[k - n]
      BY <1>6, <3>1
    <3>3. ASSUME NEW j \in 1..k - 1 PROVE rows'[j].line # rows'[k].line
      <4>1. CASE j \in 1..n
        <5>1. lines[rows'[j].line] # "record"
          BY <1>6, <1>10, <4>1
        <5>2. lines[rows'[k].line] = "record"
          BY <1>9, <3>1, <3>2
        <5> QED
          BY <5>1, <5>2
      <4>2. CASE j \notin 1..n
        <5>1. j - n \in 1..(k - n) - 1 /\ j - n \in 1..Len(new) /\ n + (j - n) = j
          BY <1>5, <3>1, <4>2
        <5>2. rows'[j] = new[j - n]
          BY <1>6, <5>1
        <5> QED
          BY <1>9, <3>1, <3>2, <5>1, <5>2
      <4> QED
        BY <4>1, <4>2
    <3> QED
      BY <1>9, <3>1, <3>2, <3>3
  <2> QED
    BY <2>1, <2>2
<1>12. ChunkPlace'
  BY <1>1 DEF ChunkPlace
<1>13. FlightPlace'
  BY <1>1 DEF FlightPlace, InFlight
<1>14. CountInv'
  BY <1>1 DEF Places, CountInv
<1>15. CoverInv'
  <2> SUFFICES ASSUME NEW p \in 1..taken, ~IsComplete(p) PROVE \E k \in 1..Len(rows') : rows'[k].line = p
    BY <1>1 DEF CoverInv, IsComplete, IsThere
  <2>1. p \in Line
    BY PlaceFacts
  <2>2. ASSUME NEW i \in 1..n PROVE \E k \in 1..Len(rows') : rows'[k].line = rows[i].line
    BY <1>5, <1>6
  <2>3. ASSUME NEW i \in 1..Len(new) PROVE \E k \in 1..Len(rows') : rows'[k].line = new[i].line
    <3>1. n + i \in 1..Len(rows')
      BY <1>5, <1>6
    <3> QED
      BY <1>6, <3>1
  <2>4. CASE \E k \in 1..Len(chunk) : chunk[k] = p
    <3>1. PICK k \in 1..Len(chunk) : chunk[k] = p
      BY <2>4
    <3>2. CASE IsRecord(p)
      <4>1. read[p] = "answered" /\ settled[p] = 0
        BY <1>1, <2>1, <3>1, <3>2 DEF Places, ChunkPlace, InFlight
      <4>2. produced[p] = 1
        BY <2>1, <4>1 DEF Places, CountInv, IsComplete
      <4>3. k \in Kept
        BY <1>3, <3>1, <3>2, <4>2 DEF Kept
      <4> QED
        BY <1>8, <2>3, <3>1, <4>3
    <3>3. CASE ~IsRecord(p)
      <4>1. PICK j \in 1..Len(rows) : rows[j].line = p
        BY <1>1, <3>1, <3>3 DEF Places, ChunkPlace
      <4> QED
        BY <1>4, <2>2, <4>1
    <3> QED
      BY <3>2, <3>3
  <2>5. CASE \E k \in 1..Len(rows) : rows[k].line = p
    BY <1>4, <2>2, <2>5
  <2> QED
    BY <1>1, <2>4, <2>5, ItemFacts DEF Places, CoverInv, IsThere
<1> QED
  BY <1>11, <1>12, <1>13, <1>14, <1>15 DEF Places

(* The rows of a batch are handed over.                                     *)
LEMMA PlacesYield ==
    ASSUME OrderInv, PhaseInv, Places, YieldRow \/ BatchYielded
    PROVE  Places'
<1>1. /\ phase = "yield" /\ held = NoItem /\ chunk = << >> /\ InFlight = {}
      /\ UNCHANGED <<lines, taken, produced, settled, chunk, read>>
  BY DEF YieldRow, BatchYielded, Polling, ioVars, sinkVars, OrderInv, BatchInv, PhaseInv
<1>2. CountInv' /\ ChunkPlace' /\ FlightPlace'
  BY <1>1 DEF Places, CountInv, ChunkPlace, FlightPlace, InFlight
<1>3. CASE BatchYielded
  <2>1. rows = << >> /\ rows' = rows /\ held' = held
    BY <1>3 DEF BatchYielded, ioVars
  <2>2. RowPlace' /\ CoverInv'
    BY <1>1, <2>1, ItemFacts DEF Places, RowPlace, CoverInv, IsComplete, IsThere
  <2> QED
    BY <1>2, <2>2 DEF Places
<1>4. CASE YieldRow
  <2>1. held' = Head(rows) /\ rows' = Tail(rows) /\ rows # << >> /\ phase' = phase
    BY <1>4 DEF YieldRow
  <2>2. /\ rows \in Seq(Item) /\ Len(rows) \in Nat \ {0} /\ Head(rows) = rows[1]
        /\ Len(rows') = Len(rows) - 1 /\ \A k \in 1..Len(rows') : rows'[k] = rows[k + 1]
    BY <2>1, HeadTailProperties, EmptySeq DEF OrderInv, SeqInv
  <2>3. held' = rows[1] /\ held' \in Item /\ 1 \in 1..Len(rows)
    BY <2>1, <2>2, PlaceFacts
  <2>4. RowPlace'
    <3>1. produced[rows[1].line] = 1 /\ settled[rows[1].line] = 0
      BY <2>3 DEF Places, RowPlace
    <3>2. ASSUME NEW k \in 1..Len(rows')
          PROVE  /\ produced[rows'[k].line] = 1 /\ settled[rows'[k].line] = 0
                 /\ rows'[k].line # rows[1].line
                 /\ \A j \in 1..k - 1 : rows'[j].line # rows'[k].line
      <4>1. k + 1 \in 1..Len(rows) /\ 1 \in 1..(k + 1) - 1 /\ rows'[k] = rows[k + 1]
        BY <2>2
      <4>2. \A j \in 1..k - 1 : j + 1 \in 1..(k + 1) - 1 /\ rows'[j] = rows[j + 1]
        BY <2>2
      <4> QED
        BY <4>1, <4>2 DEF Places, RowPlace
    <3> QED
      BY <1>1, <2>1, <2>3, <3>1, <3>2 DEF RowPlace
  <2>5. ASSUME NEW p, IsThere(p) PROVE IsThere(p)'
    <3>1. PICK k \in 1..Len(rows) : rows[k].line = p
      BY <1>1, <2>5, ItemFacts DEF IsThere
    <3>2. CASE k = 1
      BY <2>3, <3>1, <3>2 DEF IsThere
    <3>3. CASE k # 1
      <4>1. k - 1 \in 1..Len(rows') /\ rows'[k - 1] = rows[k]
        BY <2>2, <3>3
      <4> QED
        BY <3>1, <4>1 DEF IsThere
    <3> QED
      BY <3>2, <3>3
  <2>6. CoverInv'
    BY <1>1, <2>5 DEF Places, CoverInv, IsComplete
  <2> QED
    BY <1>2, <2>4, <2>6 DEF Places
<1> QED
  BY <1>3, <1>4

(* The row in hand is settled, which completes its line.                    *)
LEMMA HeldFacts ==
    ASSUME OrderInv, PhaseInv, Places, Report \/ Write \/ FlushThenWrite \/ Discard
    PROVE  /\ held \in Item /\ held.line \in Line /\ held.line \in 1..taken
           /\ held = [line |-> held.line, item |-> 1]
           /\ produced[held.line] = 1 /\ settled[held.line] = 0
           /\ settled' = [settled EXCEPT ![held.line] = 1] /\ held' = NoItem
           /\ phase = "yield" /\ chunk = << >> /\ InFlight = {}
           /\ UNCHANGED <<lines, eof, reader, exit, pc, taken, produced, failures>>
           /\ Running
<1>1. held # NoItem /\ settled' = [settled EXCEPT ![held.line] = held.item] /\ held' = NoItem /\ Running
      /\ UNCHANGED <<lines, eof, reader, exit, pc, taken, produced, failures>>
  BY DEF Report, Write, FlushThenWrite, Discard, Driving, Settled
<1>2. held \in Item
  BY <1>1 DEF OrderInv, SeqInv
<1>3. held.line \in Line /\ held = [line |-> held.line, item |-> 1] /\ held.item = 1
  <2>1. 1..MaxItems = {1}
    BY BatchLevelAssumption
  <2> QED
    BY <1>2, <2>1 DEF Item
<1>4. held.line \in 1..taken
  BY <1>2, PlaceFacts
<1>5. phase = "yield" /\ chunk = << >> /\ InFlight = {}
  BY <1>1 DEF OrderInv, BatchInv, PhaseInv
<1> QED
  BY <1>1, <1>2, <1>3, <1>4, <1>5 DEF Places, RowPlace

LEMMA PlacesSettles ==
    ASSUME OrderInv, PhaseInv, Places, Report \/ Write \/ FlushThenWrite \/ Discard,
           UNCHANGED batchVars
    PROVE  Places'
<1> DEFINE p == held.line
<1>1. /\ p \in Line /\ p \in 1..taken /\ held \in Item /\ held' = NoItem
      /\ produced[p] = 1 /\ settled[p] = 0 /\ settled' = [settled EXCEPT ![p] = 1]
      /\ phase = "yield" /\ chunk = << >> /\ InFlight = {}
      /\ UNCHANGED <<lines, taken, produced, phase, chunk, read, rows>>
  BY HeldFacts DEF batchVars
<1>2. /\ settled \in [Line -> 0..1] /\ settled'[p] = 1
      /\ \A q \in Line : q # p => settled'[q] = settled[q]
  BY <1>1 DEF Places, CountInv
<1>3. \A k \in 1..Len(rows) : rows[k].line \in Line /\ rows[k].line # p
  BY <1>1, PlaceFacts DEF Places, RowPlace
<1> HIDE DEF p
<1>4. CountInv'
  <2>1. ~(p > taken) /\ settled' \in [Line -> 0..1]
    BY <1>1, <1>2, PlaceFacts
  <2> QED
    BY <1>1, <1>2, <2>1 DEF Places, CountInv
<1>5. RowPlace'
  BY <1>1, <1>2, <1>3, ItemFacts DEF Places, RowPlace, IsRecord
<1>6. ChunkPlace' /\ FlightPlace'
  BY <1>1 DEF ChunkPlace, FlightPlace, InFlight
<1>7. settled'[p] = produced'[p] /\ produced'[p] = 1
  BY <1>1, <1>2
<1>8. ASSUME NEW q \in 1..taken, q # p PROVE (IsComplete(q) \/ IsThere(q))'
  <2>1. q \in Line
    BY PlaceFacts
  <2>2. CASE IsComplete(q)
    BY <1>1, <1>2, <1>8, <2>1, <2>2 DEF IsComplete
  <2>3. CASE IsThere(q)
    BY <1>1, <1>8, <2>3 DEF IsThere, p
  <2> QED
    BY <2>2, <2>3 DEF Places, CoverInv
<1>9. CoverInv'
  <2> SUFFICES ASSUME NEW q \in 1..taken PROVE (IsComplete(q) \/ IsThere(q))'
    BY <1>1 DEF CoverInv
  <2>1. CASE q = p
    BY <1>7, <2>1 DEF IsComplete
  <2> QED
    BY <1>8, <2>1
<1> QED
  BY <1>4, <1>5, <1>6, <1>9 DEF Places

-----------------------------------------------------------------------------
(* The invariant holds.                                                    *)

LEMMA PlacesStep ==
    ASSUME OrderInv, PhaseInv, Places, [Next]_vars
    PROVE  Places'
<1>1. CASE \/ Upstream \/ Consumer \/ NoMoreChunks \/ UNCHANGED vars
           \/ (PeekGarbled \/ PeekRecord \/ OutputFails \/ Finish) /\ UNCHANGED batchVars
  <2>1. UNCHANGED <<taken, produced, settled, read, rows, chunk, held, phase>>
    BY <1>1 DEF Upstream, Arrive, CloseInput, Consumer, ReaderLeaves, PeekGarbled, PeekRecord,
       OutputFails, Finish, NoMoreChunks, sinkVars, batchVars, vars, ioVars
  <2>2. lines' = lines \/ \E k \in LineKinds : lines' = Append(lines, k)
    BY <1>1 DEF Upstream, Arrive, CloseInput, Consumer, ReaderLeaves, PeekGarbled, PeekRecord,
       OutputFails, Finish, NoMoreChunks, sinkVars, batchVars, vars, ioVars
  <2> QED
    BY <2>1, <2>2, AppendKeeps, PlacesFrame
<1>2. CASE (PeekBlank /\ UNCHANGED batchVars) \/ TakeBlank
  <2>1. /\ LineReady /\ taken' = NextLine /\ lines[NextLine] = "blank" /\ chunk' = chunk
        /\ UNCHANGED <<lines, produced, settled, read, rows, held, phase>>
    BY <1>2 DEF PeekBlank, TakeBlank, sinkVars, batchVars
  <2> QED
    BY <2>1, PlacesTake
<1>3. CASE TakeLine
  <2>1. /\ LineReady /\ taken' = NextLine /\ lines[NextLine] # "blank"
        /\ phase = "gather" /\ chunk' = Append(chunk, NextLine)
        /\ UNCHANGED <<lines, produced, settled, read, rows, held, phase>>
    BY <1>3 DEF TakeLine, Gathering, sinkVars
  <2> QED
    BY <2>1, PlacesTake
<1>4. CASE (Report \/ Write \/ FlushThenWrite \/ Discard) /\ UNCHANGED batchVars
  BY <1>4, PlacesSettles
<1>5. CASE StartBatch \/ JoinAll \/ YieldRow \/ BatchYielded \/ \E p \in Line : Answer(p)
  BY <1>5, PlacesStart, PlacesJoin, PlacesYield, PlacesAnswer
<1> QED
  <2>1. CASE Sink
    BY <1>1, <1>2, <1>4, <2>1 DEF Sink, Peek, Drive
  <2>2. CASE Poll
    BY <1>1, <1>2, <1>3, <1>5, <2>2 DEF Poll
  <2>3. CASE Upstream \/ Consumer \/ UNCHANGED vars
    BY <1>1, <2>3
  <2>4. CASE \E p \in Line : Answer(p)
    BY <1>5, <2>4
  <2> QED
    BY <2>1, <2>2, <2>3, <2>4 DEF Next, Exited

LEMMA EndStep ==
    ASSUME OrderInv, EndInv, [Next]_vars
    PROVE  EndInv'
<1>1. closed' => reader' = "gone"
  BY DEF EndInv, Next, Upstream, Arrive, CloseInput, Consumer, ReaderLeaves, Sink, OutputFails,
         Peek, PeekBlank, PeekGarbled, PeekRecord, Drive, Report, Write, FlushThenWrite, Discard,
         Finish, Poll, TakeBlank, TakeLine, StartBatch, NoMoreChunks, JoinAll, YieldRow,
         BatchYielded, Answer, Exited, vars, ioVars, sinkVars
<1>2. CASE pc # "finish"
  <2>1. pc' = "finish" => NoMoreChunks
    BY <1>2 DEF Next, Upstream, Arrive, CloseInput, Consumer, ReaderLeaves, Sink, OutputFails,
         Peek, PeekBlank, PeekGarbled, PeekRecord, Drive, Report, Write, FlushThenWrite, Discard,
         Finish, Poll, TakeBlank, TakeLine, StartBatch, JoinAll, YieldRow,
         BatchYielded, Answer, Exited, vars, ioVars
  <2>2. NoMoreChunks => InputOver' /\ chunk' = << >>
    BY DEF NoMoreChunks, InputOver, Garbled, batchVars
  <2> QED
    BY <1>1, <2>1, <2>2 DEF EndInv
<1>3. CASE pc = "finish"
  <2>1. taken' = taken /\ chunk' = chunk /\ (eof => eof' /\ lines' = lines)
        /\ (lines' = lines \/ \E k \in LineKinds : lines' = Append(lines, k))
    BY <1>3 DEF Next, Upstream, Arrive, CloseInput, Consumer, ReaderLeaves, Sink, OutputFails,
         Peek, PeekBlank, PeekGarbled, PeekRecord, Drive, Report, Write, FlushThenWrite, Discard,
         Finish, Poll, TakeBlank, TakeLine, StartBatch, NoMoreChunks, JoinAll, YieldRow,
         BatchYielded, Answer, Exited, vars, ioVars, batchVars, Polling, Gathering
  <2>2. \A p \in 1..taken : lines'[p] = lines[p]
    BY <2>1, AppendKeeps
  <2>3. InputOver' /\ chunk' = << >>
    BY <1>3, <2>1, <2>2 DEF EndInv, InputOver, Garbled
  <2> QED
    BY <1>1, <2>3 DEF EndInv
<1> QED
  BY <1>2, <1>3

(* Each line the level consumed is complete, or is still in the chunk, the  *)
(* rows or in hand; and nothing is settled twice.                          *)
THEOREM Invariant == Spec => []IInv
<1>1. Init => IInv
  BY OrderInit, PhaseInit, PlacesInit DEF IInv
<1>2. IInv /\ [Next]_vars => IInv'
  BY OrderStep, PhaseStep, PlacesStep, EndStep DEF IInv
<1> QED
  BY <1>1, <1>2, PTL DEF Spec

-----------------------------------------------------------------------------
(* Each step is a step of the promise, or invisible to it.                 *)

LEMMA PromiseVars ==
    Promise!vars = <<lines, eof, reader, taken, settled, CompleteLines, RowsOut, dropped, exit>>
  BY DEF Promise!vars

LEMMA CompleteFacts ==
    /\ CompleteLines = {p \in 1..taken : IsComplete(p)}
    /\ CompleteLines' = {p \in 1..taken' : IsComplete(p)'}
  BY DEF CompleteLines, IsComplete

LEMMA PromiseInit == Init => Promise!Init
<1> SUFFICES ASSUME Init PROVE Promise!Init
  OBVIOUS
<1>1. RowsOut = << >> /\ CompleteLines = {}
  BY DEF Init, IOInit, RowsOut, CompleteLines
<1>2. settled = [p \in Promise!Line |-> 0]
  BY DEF Init, IOInit, Line, Promise!Line
<1> QED
  BY <1>1, <1>2 DEF Promise!Init, Init, IOInit

(* The parent and the consumer are the promise's environment.              *)
LEMMA PromiseEnvironment ==
    ASSUME IInv, Upstream \/ Consumer
    PROVE  Promise!Next
<1>1. /\ UNCHANGED <<taken, settled, produced, read, buf, delivered, dropped, exit>>
      /\ lines' = lines \/ \E k \in LineKinds : lines' = Append(lines, k)
  BY DEF Upstream, Arrive, CloseInput, Consumer, ReaderLeaves, batchVars, sinkVars
<1>2. \A p \in 1..taken : lines'[p] = lines[p]
  BY <1>1, AppendKeeps DEF IInv
<1>3. CompleteLines' = CompleteLines /\ RowsOut' = RowsOut
  BY <1>1, <1>2 DEF CompleteLines, RowsOut
<1>4. CASE Arrive
  BY <1>1, <1>3, <1>4 DEF Arrive, Promise!Next, Promise!Environment
<1>5. CASE CloseInput
  BY <1>1, <1>3, <1>5 DEF CloseInput, Promise!Next, Promise!Environment
<1>6. CASE ReaderLeaves
  BY <1>1, <1>3, <1>6 DEF ReaderLeaves, Promise!Next, Promise!Environment
<1> QED
  BY <1>4, <1>5, <1>6 DEF Upstream, Consumer

(* Consuming a line is Take.                                               *)
LEMMA PromiseTakes ==
    ASSUME IInv, TakeBlank \/ TakeLine \/ (PeekBlank /\ UNCHANGED batchVars)
    PROVE  Promise!Next
<1>0. PICK n : n = taken + 1
  OBVIOUS
<1>1. /\ Running /\ LineReady /\ taken' = n
      /\ UNCHANGED <<lines, eof, reader, settled, produced, read, dropped, exit, buf, delivered>>
  BY <1>0 DEF TakeBlank, TakeLine, PeekBlank, Gathering, Polling, NextLine, sinkVars, batchVars
<1>2. n \in Line /\ n > taken /\ 1..n = (1..taken) \cup {n} /\ n \notin 1..taken
  <2>1. taken < Len(lines) /\ taken \in Nat /\ Len(lines) \in Nat /\ Len(lines) <= MaxLines
    BY <1>1, PlaceFacts DEF IInv, LineReady, OrderInv, SeqInv
  <2> QED
    BY <1>0, <2>1, LevelIOAssumption DEF Line
<1>3. produced[n] = 0 /\ settled[n] = 0 /\ read[n] = "none"
  BY <1>2 DEF IInv, Places, CountInv
<1>4. \A p : IsComplete(p)' = IsComplete(p)
  BY <1>1 DEF IsComplete
<1>5. IsComplete(n) <=> lines[n] = "blank"
  BY <1>3 DEF IsComplete
<1>6. CompleteLines' = IF lines[taken + 1] = "blank" THEN CompleteLines \cup {taken + 1} ELSE CompleteLines
  BY <1>0, <1>1, <1>2, <1>4, <1>5, CompleteFacts
<1>7. RowsOut' = RowsOut
  BY <1>1 DEF RowsOut
<1> QED
  BY <1>0, <1>1, <1>6, <1>7 DEF Promise!Next, Promise!Take, Promise!InputOver, Promise!Garbled,
     LineReady, InputOver, Garbled, Running

(* Reporting, writing or discarding the row in hand is Settle.             *)
LEMMA PromiseSettles ==
    ASSUME IInv, Report \/ Write \/ FlushThenWrite \/ Discard, UNCHANGED batchVars
    PROVE  Promise!Next
<1> DEFINE p == held.line
<1>1. /\ held \in Item /\ p \in Line /\ p \in 1..taken /\ held = [line |-> p, item |-> 1]
      /\ produced[p] = 1 /\ settled[p] = 0 /\ settled' = [settled EXCEPT ![p] = 1] /\ Running
      /\ UNCHANGED <<lines, eof, reader, exit, taken, produced, read>>
  BY HeldFacts DEF IInv, batchVars
<1>2. held = [line |-> p, item |-> settled[p] + 1] /\ settled' = [settled EXCEPT ![p] = @ + 1]
  BY <1>1
<1>3. /\ p \notin CompleteLines
      /\ \A q \in Line : q # p => settled'[q] = settled[q]
  BY <1>1 DEF CompleteLines, IInv, Places, CountInv
<1>4. CompleteLines' \in {CompleteLines, CompleteLines \cup {p}}
  BY <1>1, <1>3, PlaceFacts DEF CompleteLines, IInv
<1>5. \/ RowsOut' = Append(RowsOut, held) /\ dropped' = dropped
      \/ dropped' = dropped \cup {held} /\ RowsOut' = RowsOut
      \/ reader = "gone" /\ RowsOut' = RowsOut /\ dropped' = dropped
  <2>1. delivered \in Seq(Item) /\ buf \in Seq(Item) /\ held \in Item
    BY <1>1 DEF IInv, OrderInv, SeqInv
  <2>2. CASE Report
    BY <2>2 DEF Report, RowsOut
  <2>3. CASE Write
    <3>1. delivered' = delivered /\ buf' = Append(buf, held) /\ dropped' = dropped
      BY <2>3 DEF Write
    <3> QED
      BY <2>1, <3>1 DEF RowsOut
  <2>4. CASE FlushThenWrite
    <3>1. delivered' = delivered \o buf /\ buf' = <<held>> /\ dropped' = dropped
      BY <2>4 DEF FlushThenWrite
    <3>2. (delivered \o buf) \in Seq(Item)
      BY <2>1, ConcatProperties
    <3> QED
      BY <2>1, <3>1, <3>2, AppendIsConcat DEF RowsOut
  <2>5. CASE Discard
    BY <2>5 DEF Discard, RowsOut, IInv, EndInv
  <2> QED
    BY <2>2, <2>3, <2>4, <2>5
<1> HIDE DEF p
<1>6. Promise!Settle(p)
  BY <1>1, <1>2, <1>3, <1>4, <1>5 DEF Promise!Settle, Running
<1> QED
  BY <1>1, <1>6 DEF Promise!Next, Promise!Line, Line

(* The level finishes when every line is complete, and gives up as allowed. *)
LEMMA PromiseEnds ==
    ASSUME IInv, Finish \/ OutputFails \/ PeekGarbled, UNCHANGED batchVars
    PROVE  Promise!Next
<1>1. /\ UNCHANGED <<lines, eof, reader, taken, settled, produced, dropped, read>> /\ Running
  BY DEF Finish, OutputFails, PeekGarbled, sinkVars, batchVars
<1>2. CompleteLines' = CompleteLines
  BY <1>1 DEF CompleteLines
<1>3. CASE Finish
  <2>1. RowsOut' = RowsOut
    <3>1. (delivered \o buf) \in Seq(Item)
      BY ConcatProperties DEF IInv, OrderInv, SeqInv
    <3> QED
      BY <1>3, <3>1, ConcatEmptySeq DEF Finish, RowsOut
  <2>2. InputOver /\ chunk = << >> /\ rows = << >> /\ held = NoItem
    BY <1>3 DEF Finish, IInv, EndInv, PhaseInv, OrderInv, BatchInv
  <2>3. CompleteLines = 1..taken
    BY <2>2, ItemFacts, CompleteFacts DEF IInv, Places, CoverInv, IsThere
  <2>4. exit' = IF dropped = {} THEN "ok" ELSE "partial"
    BY <1>3 DEF Finish, FailWhenDropped
  <2> QED
    BY <1>1, <1>2, <2>1, <2>2, <2>3, <2>4 DEF Promise!Next, Promise!Finish, Promise!InputOver,
       Promise!Garbled, InputOver, Garbled, Running
<1>4. CASE OutputFails \/ PeekGarbled
  <2>1. exit' = "failed" /\ RowsOut' = RowsOut
    BY <1>4 DEF OutputFails, PeekGarbled, sinkVars, RowsOut
  <2> QED
    BY <1>1, <1>2, <2>1 DEF Promise!Next, Promise!GiveUp, Running
<1> QED
  BY <1>3, <1>4

(* A read that kept no row completes its line.                             *)
LEMMA PromiseAnswers ==
    ASSUME IInv, NEW p \in Line, Answer(p)
    PROVE  Promise!Next \/ UNCHANGED Promise!vars
<1>1. /\ Running /\ UNCHANGED <<lines, eof, reader, taken, settled, dropped, exit, buf, delivered>>
  BY DEF Answer, Polling, sinkVars
<1>2. /\ p \in 1..taken /\ ~IsComplete(p)
      /\ \A q \in 1..taken : q # p => IsComplete(q)' = IsComplete(q)
  BY PlacesAnswer DEF IInv
<1>3. p \notin CompleteLines /\ CompleteLines' \in {CompleteLines, CompleteLines \cup {p}}
  BY <1>1, <1>2, CompleteFacts
<1>4. RowsOut' = RowsOut
  BY <1>1 DEF RowsOut
<1>5. CASE CompleteLines' = CompleteLines
  BY <1>1, <1>4, <1>5, PromiseVars DEF Promise!vars
<1>6. CASE CompleteLines' = CompleteLines \cup {p}
  <2>1. Promise!Complete(p)
    BY <1>1, <1>2, <1>3, <1>4, <1>6 DEF Promise!Complete, Running
  <2> QED
    BY <2>1 DEF Promise!Next, Promise!Line, Line
<1> QED
  BY <1>3, <1>5, <1>6

(* Everything else is invisible.                                           *)
LEMMA PromiseStutters ==
    ASSUME IInv, \/ StartBatch \/ JoinAll \/ YieldRow \/ BatchYielded \/ NoMoreChunks
                 \/ PeekRecord /\ UNCHANGED batchVars
                 \/ UNCHANGED vars
    PROVE  UNCHANGED Promise!vars
<1>1. UNCHANGED <<lines, eof, reader, taken, settled, dropped, exit, buf, delivered>>
  BY DEF StartBatch, JoinAll, YieldRow, BatchYielded, NoMoreChunks, PeekRecord, vars, ioVars, sinkVars
<1>2. \A p \in 1..taken : IsComplete(p)' = IsComplete(p)
  <2>1. CASE StartBatch
    BY <2>1, PlacesStart DEF IInv
  <2>2. CASE UNCHANGED <<produced, read>>
    BY <1>1, <2>2 DEF IsComplete
  <2> QED
    BY <2>1, <2>2 DEF JoinAll, YieldRow, BatchYielded, NoMoreChunks, PeekRecord, vars, ioVars, batchVars
<1>3. CompleteLines' = CompleteLines
  BY <1>1, <1>2, CompleteFacts
<1> QED
  BY <1>1, <1>3 DEF Promise!vars, RowsOut

LEMMA PromiseStep ==
    ASSUME IInv, [Next]_vars
    PROVE  Promise!Next \/ UNCHANGED Promise!vars
  BY PromiseEnvironment, PromiseTakes, PromiseSettles, PromiseEnds, PromiseAnswers, PromiseStutters
     DEF Next, Sink, Drive, Peek, Poll, Exited

(* The one-record level keeps the promise of LevelSpec too: it reads its    *)
(* lines in order, settles each line's row once, leaves none behind in a    *)
(* chunk or a batch when it finishes (filter_map, drive), and exits with a  *)
(* status that says whether it dropped any, for every fan-out and buffer.   *)
THEOREM ImplementsPromise == Spec => PromiseSpec
<1>1. IInv /\ [Next]_vars => [Promise!Next]_(Promise!vars)
  BY PromiseStep
<1> QED
  BY PromiseInit, Invariant, <1>1, PTL DEF Spec, PromiseSpec, Promise!Spec
=============================================================================
