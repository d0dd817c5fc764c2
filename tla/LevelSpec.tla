------------------------------ MODULE LevelSpec ------------------------------
(***************************************************************************)
(* What one level of the walk promises, whatever machinery runs it: it     *)
(* reads the lines of its parent in order, settles every item a line gives *)
(* rise to exactly once and in order (a row is written, a failure is       *)
(* reported), and its exit status says whether anything was dropped.       *)
(* StreamLevel (flat_map) and BatchLevel (map, filter_map) implement it.   *)
(***************************************************************************)
EXTENDS Naturals, Sequences

CONSTANTS MaxLines,   \* lines the parent may write
          MaxItems,   \* items one line may give rise to
          LineKinds   \* the kinds of line the parent may write

Line == 1..MaxLines
Item == [line: Line, item: 1..MaxItems]

VARIABLES lines,     \* the lines on standard input, by kind
          eof,       \* the parent has closed standard input
          reader,    \* "open", or "gone" once the consumer closed the pipe
          taken,     \* lines the level has consumed
          settled,   \* items of each line that are written, reported or discarded
          complete,  \* lines that will give rise to no further item
          written,   \* the rows handed to standard output, in order
          dropped,   \* the items reported as failures
          exit       \* "running", then "ok", "partial" or "failed"

vars == <<lines, eof, reader, taken, settled, complete, written, dropped, exit>>

Garbled(p) == lines[p] = "garbled"
InputOver == \/ eof /\ taken = Len(lines)
             \/ \E p \in 1..taken : Garbled(p)

Init ==
    /\ lines = << >> /\ eof = FALSE /\ reader = "open"
    /\ taken = 0 /\ complete = {}
    /\ settled = [p \in Line |-> 0]
    /\ written = << >> /\ dropped = {} /\ exit = "running"

(* The parent writes a line or closes its end; the consumer goes away. *)
Environment ==
    /\ \/ \E k \in LineKinds : /\ ~eof /\ Len(lines) < MaxLines
                               /\ lines' = Append(lines, k)
                               /\ UNCHANGED <<eof, reader>>
       \/ eof' = TRUE /\ UNCHANGED <<lines, reader>>
       \/ reader' = "gone" /\ UNCHANGED <<lines, eof>>
    /\ UNCHANGED <<taken, settled, complete, written, dropped, exit>>

(* The next line is consumed; a blank one gives rise to nothing. *)
Take ==
    /\ exit = "running" /\ ~InputOver /\ taken < Len(lines)
    /\ taken' = taken + 1
    /\ complete' = IF lines[taken + 1] = "blank" THEN complete \cup {taken + 1}
                                                 ELSE complete
    /\ UNCHANGED <<lines, eof, reader, settled, written, dropped, exit>>

(* The next item of a line is written, reported, or, once the consumer has *)
(* gone, discarded; it may be the line's last.                             *)
Settle(p) ==
    /\ exit = "running" /\ p \in (1..taken) \ complete
    /\ LET x == [line |-> p, item |-> settled[p] + 1]
       IN  \/ written' = Append(written, x) /\ UNCHANGED dropped
           \/ dropped' = dropped \cup {x} /\ UNCHANGED written
           \/ reader = "gone" /\ UNCHANGED <<written, dropped>>
    /\ settled' = [settled EXCEPT ![p] = @ + 1]
    /\ complete' \in {complete, complete \cup {p}}
    /\ UNCHANGED <<lines, eof, reader, taken, exit>>

(* A line turns out to have no further item. *)
Complete(p) ==
    /\ exit = "running" /\ p \in (1..taken) \ complete
    /\ complete' = complete \cup {p}
    /\ UNCHANGED <<lines, eof, reader, taken, settled, written, dropped, exit>>

(* The level ends once its input is over and every line is complete. *)
Finish ==
    /\ exit = "running" /\ InputOver /\ complete = 1..taken
    /\ exit' = IF dropped = {} THEN "ok" ELSE "partial"
    /\ UNCHANGED <<lines, eof, reader, taken, settled, complete, written, dropped>>

(* The level gives up: an unreadable first line, or an output failure. *)
GiveUp ==
    /\ exit = "running"
    /\ exit' = "failed"
    /\ UNCHANGED <<lines, eof, reader, taken, settled, complete, written, dropped>>

Next == \/ Environment
        \/ Take
        \/ \E p \in Line : Settle(p) \/ Complete(p)
        \/ Finish
        \/ GiveUp

Spec == Init /\ [][Next]_vars
=============================================================================
