----------------------------- MODULE BatchLevel ------------------------------
(***************************************************************************)
(* A one-record level (get catalog, get schema, get table, credentials     *)
(* check, credentials get): filter_map of source.rs, and map, which keeps  *)
(* every record.  Parents are gathered into chunks of fan_out; a chunk's   *)
(* reads run together inside the driver's own poll, to completion; only    *)
(* then are its rows driven.                                               *)
(***************************************************************************)
EXTENDS LevelIO

CONSTANT FanOut   \* --fan-out

ASSUME BatchLevelAssumption ==
    /\ FanOut \in Nat
    /\ MaxItems = 1

Width == IF FanOut = 0 THEN 1 ELSE FanOut

VARIABLES phase,  \* "gather" a chunk, "read" it, "yield" its rows
          chunk,  \* the lines of the chunk, in order
          read,   \* each line's read: "none", "flight", "answered"
          rows    \* the rows of the batch still to be driven

batchVars == <<phase, chunk, read, rows>>
vars == <<ioVars, batchVars>>

TypeOK ==
    /\ IOTypeOK
    /\ phase \in {"gather", "read", "yield"}
    /\ chunk \in Seq(Line) /\ Len(chunk) <= Width
    /\ read \in [Line -> {"none", "flight", "answered"}]
    /\ rows \in Seq(Item) /\ Len(rows) <= Width

Init ==
    /\ IOInit
    /\ phase = "gather" /\ chunk = << >> /\ rows = << >>
    /\ read = [p \in Line |-> "none"]

Polling == Running /\ pc = "poll" /\ held = NoItem
InFlight == {p \in Line : read[p] = "flight"}
IsRecord(p) == lines[p] = "record"

-----------------------------------------------------------------------------
(* chunks(fan_out): gather until the chunk is full or the parents are over. *)

Gathering == Polling /\ phase = "gather" /\ Len(chunk) < Width

TakeBlank ==
    /\ Gathering /\ LineReady /\ lines[NextLine] = "blank"
    /\ taken' = NextLine
    /\ UNCHANGED <<lines, eof, pc, produced, failures, held, sinkVars, reader, exit, batchVars>>

TakeLine ==
    /\ Gathering /\ LineReady /\ lines[NextLine] # "blank"
    /\ taken' = NextLine
    /\ chunk' = Append(chunk, NextLine)
    /\ UNCHANGED <<lines, eof, pc, produced, failures, held, sinkVars, reader, exit,
                   phase, read, rows>>

(* Some of the chunk's lines, in the chunk's order, and their rows.         *)
Listings == UNION {[1..n -> DOMAIN chunk] : n \in 0..Len(chunk)}
InOrder(at, places) ==
    /\ {at[i] : i \in DOMAIN at} = places
    /\ \A i, j \in DOMAIN at : i < j => at[i] < at[j]
RowsAt(at) == [i \in DOMAIN at |-> TheItem(chunk[at[i]], 1)]

(* The records of the chunk whose read kept a row.                          *)
Kept == {k \in DOMAIN chunk : IsRecord(chunk[k]) /\ produced[chunk[k]] = 1}

(* read_batch: a line that is not a parent becomes a failure at once, ahead *)
(* of the batch's rows; the others' reads start together.                   *)
StartBatch ==
    /\ Polling /\ phase = "gather" /\ chunk # << >>
    /\ Len(chunk) = Width \/ InputOver
    /\ LET Bad == {k \in DOMAIN chunk : ~IsRecord(chunk[k])}
       IN  /\ \E at \in Listings : InOrder(at, Bad) /\ rows' = RowsAt(at)
           /\ failures' = failures \cup {TheItem(chunk[k], 1) : k \in Bad}
           /\ produced' = [p \in Line |-> IF \E k \in Bad : chunk[k] = p THEN 1 ELSE produced[p]]
    /\ read' = [p \in Line |-> IF \E k \in DOMAIN chunk : chunk[k] = p /\ IsRecord(p)
                               THEN "flight" ELSE read[p]]
    /\ phase' = "read"
    /\ UNCHANGED <<lines, eof, taken, pc, held, sinkVars, reader, exit, chunk>>

(* Mutant of NoMoreChunks: the last, short chunk is forgotten.              *)
ForgetShortChunk ==
    /\ Polling /\ phase = "gather" /\ InputOver
    /\ pc' = "finish"
    /\ UNCHANGED <<lines, eof, taken, produced, failures, held, sinkVars, reader, exit, batchVars>>

NoMoreChunks ==
    /\ Polling /\ phase = "gather" /\ chunk = << >> /\ InputOver
    /\ pc' = "finish"
    /\ UNCHANGED <<lines, eof, taken, produced, failures, held, sinkVars, reader, exit, batchVars>>

(* A request is answered, in any order: a record, a failure, or none kept.  *)
Answer(p) ==
    /\ Polling /\ phase = "read" /\ read[p] = "flight"
    /\ read' = [read EXCEPT ![p] = "answered"]
    /\ \/ /\ produced' = [produced EXCEPT ![p] = 1]
          /\ failures' \in {failures, failures \cup {TheItem(p, 1)}}
       \/ UNCHANGED <<produced, failures>>
    /\ UNCHANGED <<lines, eof, taken, pc, held, sinkVars, reader, exit, phase, chunk, rows>>

(* Mutant of JoinAll: the rows of the answered reads go first, while the    *)
(* others are still in flight.                                              *)
JoinFirst ==
    /\ Polling /\ phase = "read" /\ \E p \in Line : read[p] = "answered"
    /\ \E at \in Listings : /\ InOrder(at, {k \in Kept : read[chunk[k]] = "answered"})
                             /\ rows' = rows \o RowsAt(at)
    /\ phase' = "yield" /\ chunk' = << >>
    /\ UNCHANGED <<lines, eof, taken, pc, produced, failures, held, sinkVars, reader, exit, read>>

(* Mutant of JoinAll: the rows are gathered last parent first.              *)
JoinReversed ==
    /\ Polling /\ phase = "read" /\ InFlight = {}
    /\ \E at \in Listings : InOrder(at, Kept) /\ rows' = rows \o [i \in DOMAIN at |-> TheItem(chunk[at[Len(at) + 1 - i]], 1)]
    /\ phase' = "yield" /\ chunk' = << >>
    /\ UNCHANGED <<lines, eof, taken, pc, produced, failures, held, sinkVars, reader, exit, read>>

(* join_all returns when every read has, and in the order they were made.   *)
JoinAll ==
    /\ Polling /\ phase = "read" /\ InFlight = {}
    /\ \E at \in Listings : InOrder(at, Kept) /\ rows' = rows \o RowsAt(at)
    /\ phase' = "yield" /\ chunk' = << >>
    /\ UNCHANGED <<lines, eof, taken, pc, produced, failures, held, sinkVars, reader, exit, read>>

YieldRow ==
    /\ Polling /\ phase = "yield" /\ rows # << >>
    /\ held' = Head(rows) /\ rows' = Tail(rows)
    /\ UNCHANGED <<lines, eof, taken, pc, produced, failures, sinkVars, reader, exit,
                   phase, chunk, read>>

(* Mutant of BatchYielded: the next chunk is never gathered.                *)
BatchNeverEnds == Polling /\ phase = "yield" /\ rows = << >> /\ UNCHANGED vars

BatchYielded ==
    /\ Polling /\ phase = "yield" /\ rows = << >>
    /\ phase' = "gather"
    /\ UNCHANGED <<ioVars, chunk, read, rows>>

-----------------------------------------------------------------------------
Upstream == (Arrive \/ CloseInput) /\ UNCHANGED batchVars
Consumer == ReaderLeaves /\ UNCHANGED batchVars
Sink == (Peek \/ Drive \/ OutputFails) /\ UNCHANGED batchVars
Poll == \/ TakeBlank \/ TakeLine \/ StartBatch \/ NoMoreChunks
        \/ JoinAll \/ YieldRow \/ BatchYielded
Exited == ~Running /\ UNCHANGED vars

Next == Upstream \/ Consumer \/ Sink \/ Poll \/ (\E p \in Line : Answer(p)) \/ Exited

Spec == Init /\ [][Next]_vars

(* The driver is polled, requests are answered, the consumer reads or goes  *)
(* away; nothing is assumed of the parent.                                  *)
Fairness ==
    /\ WF_vars(Peek /\ UNCHANGED batchVars)
    /\ WF_vars(Drive /\ UNCHANGED batchVars)
    /\ WF_vars(Poll)
    /\ \A p \in Line : WF_vars(Answer(p))

LiveSpec == Spec /\ Fairness

-----------------------------------------------------------------------------
(* Properties.                                                             *)

(* The reads of a batch are polled by the same future that writes its rows, *)
(* so a write the consumer stalls would stall them too.  There is none:     *)
(* "a stalled consumer leaves no read in flight" (source.rs:117).           *)
NoStalledRead == held # NoItem \/ pc = "finish" => InFlight = {}

(* Rows leave in the order of their parents, across batches too, although   *)
(* the reads answer in any order (join_all).                                *)
ParentOrder ==
    \A j, k \in DOMAIN RowsOut : j < k => RowsOut[j].line < RowsOut[k].line

(* The level implements the promise of LevelSpec.                           *)
CompleteLines == {p \in 1..taken : /\ settled[p] = produced[p]
                                   /\ \/ lines[p] = "blank"
                                      \/ produced[p] = 1
                                      \/ read[p] = "answered"}
Promise == INSTANCE LevelSpec WITH complete <- CompleteLines, written <- RowsOut
PromiseSpec == Promise!Spec

(* The level is never stuck: once the parent closes its end it exits, and   *)
(* before that the records of a chunk wait for nothing but a silent parent  *)
(* that has not filled it.                                                  *)
ParentSilent == Gathering /\ ~LineReady /\ ~InputOver
Progress ==
    /\ eof ~> exit # "running"
    /\ chunk # << >> ~> (phase = "read" \/ ~Running \/ ParentSilent)
=============================================================================
