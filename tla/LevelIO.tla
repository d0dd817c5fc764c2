------------------------------- MODULE LevelIO -------------------------------
(***************************************************************************)
(* The two ends every level shares: the parent's lines on standard input   *)
(* (source.rs, read_input and records) and the sink that writes rows and   *)
(* counts failures (source.rs, drive; emit.rs, Emitter; error.rs,          *)
(* fail_when_dropped).  StreamLevel and BatchLevel add what lies between.  *)
(*                                                                         *)
(* A record is abstracted to the item it is: the i-th thing its line gave  *)
(* rise to.  Standard output is a buffer of BufCap rows that is handed to  *)
(* the consumer whole; a consumer that is not reading is a flush that does *)
(* not happen.                                                             *)
(***************************************************************************)
EXTENDS Naturals, Sequences, FiniteSets

CONSTANTS MaxLines,   \* bound: lines the parent may write
          MaxItems,   \* bound: items one line may give rise to
          LineKinds,  \* the kinds of line the parent may write
          BufCap,     \* rows the output buffer holds before it must be flushed
          NoItem      \* no item is being driven

Line == 1..MaxLines
Item == [line: Line, item: 1..MaxItems]
TheItem(p, i) == [line |-> p, item |-> i]

ASSUME LevelIOAssumption ==
    /\ MaxLines \in Nat
    /\ MaxItems \in Nat \ {0}
    /\ LineKinds \subseteq {"record", "misfit", "blank", "garbled"}
    /\ BufCap \in Nat \ {0}
    /\ NoItem \notin Item

VARIABLES lines,      \* the lines on standard input so far: a "record" decodes,
                      \* a "misfit" is JSON but not the level's resource, a
                      \* "garbled" line is not JSON
          eof,        \* the parent has closed standard input
          taken,      \* lines consumed by the level
          pc,         \* "peek" (read_input), "poll" (rows.next), "finish" (emit.finish)
          produced,   \* items each line has given rise to
          failures,   \* those of them that are failures
          held,       \* the item drive is handling, or NoItem
          settled,    \* items of each line drive has finished with
          buf,        \* rows in the BufWriter
          delivered,  \* rows the consumer has been handed
          dropped,    \* items reported on standard error
          closed,     \* the Emitter saw a broken pipe
          reader,     \* "open" or "gone"
          exit        \* "running", "ok", "partial" or "failed"

inputVars == <<lines, eof>>
sinkVars == <<settled, buf, delivered, dropped, closed>>
ioVars == <<lines, eof, taken, pc, produced, failures, held, sinkVars, reader, exit>>

IOTypeOK ==
    /\ lines \in Seq({"record", "misfit", "blank", "garbled"}) /\ Len(lines) <= MaxLines
    /\ eof \in BOOLEAN
    /\ taken \in 0..Len(lines)
    /\ pc \in {"peek", "poll", "finish"}
    /\ produced \in [Line -> 0..MaxItems]
    /\ failures \subseteq Item
    /\ held \in Item \cup {NoItem}
    /\ settled \in [Line -> 0..MaxItems]
    /\ buf \in Seq(Item) /\ Len(buf) <= BufCap
    /\ delivered \in Seq(Item)
    /\ dropped \subseteq Item
    /\ closed \in BOOLEAN
    /\ reader \in {"open", "gone"}
    /\ exit \in {"running", "ok", "partial", "failed"}

IOInit ==
    /\ lines = << >> /\ eof = FALSE /\ taken = 0 /\ pc = "peek"
    /\ produced = [p \in Line |-> 0] /\ failures = {}
    /\ held = NoItem /\ settled = [p \in Line |-> 0]
    /\ buf = << >> /\ delivered = << >> /\ dropped = {} /\ closed = FALSE
    /\ reader = "open" /\ exit = "running"

Running == exit = "running"

-----------------------------------------------------------------------------
(* Standard input.                                                         *)

(* The parent writes one line, or closes its end. *)
Arrive ==
    /\ Running /\ ~eof /\ Len(lines) < MaxLines
    /\ \E k \in LineKinds : lines' = Append(lines, k)
    /\ UNCHANGED <<eof, taken, pc, produced, failures, held, sinkVars, reader, exit>>

CloseInput ==
    /\ Running /\ ~eof
    /\ eof' = TRUE
    /\ UNCHANGED <<lines, taken, pc, produced, failures, held, sinkVars, reader, exit>>

(* records is a try_unfold: once it has yielded an error it yields nothing. *)
Garbled(p) == lines[p] = "garbled"
InputOver == \/ eof /\ taken = Len(lines)
             \/ \E p \in 1..taken : Garbled(p)
LineReady == taken < Len(lines) /\ ~InputOver
NextLine == taken + 1

(* read_input waits for the first record before the level starts. *)
PeekBlank ==
    /\ Running /\ pc = "peek" /\ LineReady /\ lines[NextLine] = "blank"
    /\ taken' = NextLine
    /\ UNCHANGED <<lines, eof, pc, produced, failures, held, sinkVars, reader, exit>>

PeekGarbled ==
    /\ Running /\ pc = "peek" /\ LineReady /\ Garbled(NextLine)
    /\ exit' = "failed"
    /\ UNCHANGED <<lines, eof, taken, pc, produced, failures, held, sinkVars, reader>>

PeekRecord ==
    /\ Running /\ pc = "peek"
    /\ \/ LineReady /\ lines[NextLine] \in {"record", "misfit"}
       \/ InputOver
    /\ pc' = "poll"
    /\ UNCHANGED <<lines, eof, taken, produced, failures, held, sinkVars, reader, exit>>

-----------------------------------------------------------------------------
(* The sink: drive over the Emitter.                                       *)

Settled == settled' = [settled EXCEPT ![held.line] = held.item]

Driving == Running /\ held # NoItem

(* Mutant of Report: the failure is named but not counted.                 *)
ReportUncounted ==
    /\ Driving /\ held \in failures
    /\ held' = NoItem /\ Settled
    /\ UNCHANGED <<lines, eof, taken, pc, produced, failures, buf, delivered, dropped, closed,
                   reader, exit>>

(* A failure is named on standard error and counted. *)
Report ==
    /\ Driving /\ held \in failures
    /\ dropped' = dropped \cup {held}
    /\ held' = NoItem /\ Settled
    /\ UNCHANGED <<lines, eof, taken, pc, produced, failures, buf, delivered, closed,
                   reader, exit>>

(* Emitter::write copies the row into the buffer while it has room. *)
Write ==
    /\ Driving /\ held \notin failures /\ ~closed
    /\ Len(buf) < BufCap
    /\ buf' = Append(buf, held)
    /\ held' = NoItem /\ Settled
    /\ UNCHANGED <<lines, eof, taken, pc, produced, failures, delivered, dropped, closed,
                   reader, exit>>

(* A full buffer goes to the consumer first, whenever the consumer reads. *)
FlushThenWrite ==
    /\ Driving /\ held \notin failures /\ ~closed
    /\ Len(buf) = BufCap /\ reader = "open"
    /\ delivered' = delivered \o buf
    /\ buf' = <<held>>
    /\ held' = NoItem /\ Settled
    /\ UNCHANGED <<lines, eof, taken, pc, produced, failures, dropped, closed, reader, exit>>

(* A broken pipe closes the Emitter: this row and the later ones go nowhere *)
(* and the level carries on.                                                *)
Discard ==
    /\ Driving /\ held \notin failures
    /\ closed \/ (Len(buf) = BufCap /\ reader = "gone")
    /\ closed' = TRUE
    /\ held' = NoItem /\ Settled
    /\ UNCHANGED <<lines, eof, taken, pc, produced, failures, buf, delivered, dropped,
                   reader, exit>>

(* Any other output error ends the level there and then. *)
OutputFails ==
    /\ Running /\ ~closed
    /\ \/ Driving /\ held \notin failures /\ Len(buf) = BufCap
       \/ pc = "finish" /\ buf # << >>
    /\ exit' = "failed"
    /\ UNCHANGED <<lines, eof, taken, pc, produced, failures, held, sinkVars, reader>>

(* emit.finish flushes what is left, then the count decides the status. *)
FailWhenDropped == IF dropped = {} THEN "ok" ELSE "partial"

Finish ==
    /\ Running /\ pc = "finish"
    /\ IF reader = "open"
       THEN delivered' = delivered \o buf /\ buf' = << >>
       ELSE UNCHANGED <<delivered, buf>>
    /\ exit' = FailWhenDropped
    /\ UNCHANGED <<lines, eof, taken, pc, produced, failures, held, settled, dropped,
                   closed, reader>>

(* The consumer may close its end of the pipe at any time. *)
ReaderLeaves ==
    /\ Running /\ reader = "open"
    /\ reader' = "gone"
    /\ UNCHANGED <<lines, eof, taken, pc, produced, failures, held, sinkVars, exit>>

Peek == PeekBlank \/ PeekGarbled \/ PeekRecord
Drive == Report \/ Write \/ FlushThenWrite \/ Discard \/ Finish

-----------------------------------------------------------------------------
(* What the two levels' properties are stated with.                        *)

(* The items of the first k of every line: an item is written, reported or *)
(* discarded before the next one of its line.                              *)
Unsettled == {x \in Item : settled[x.line] < x.item /\ x.item <= produced[x.line]}
RowsOut == delivered \o buf
=============================================================================
