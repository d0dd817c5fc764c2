----------------------------- MODULE StreamLevel -----------------------------
(***************************************************************************)
(* A streaming level (list tables, list files, list columns): flat_map of  *)
(* source.rs.  Each parent's core stream runs in its own task; the tasks   *)
(* send their items into one bounded channel; the driver polls the parents *)
(* while a task slot is free, and otherwise selects between an item and a  *)
(* finished task.  Everything runs on one thread, so a step is what runs   *)
(* between two awaits.                                                     *)
(***************************************************************************)
EXTENDS LevelIO

CONSTANTS FanOut,     \* --fan-out
          MaxBatch,   \* bound: items a core stream yields between two reads
          CanPanic    \* whether a core stream may panic

ASSUME StreamLevelAssumption ==
    /\ FanOut \in Nat
    /\ MaxBatch \in Nat \ {0}
    /\ CanPanic \in BOOLEAN

(* fan_out.max(1): the task slots, and the channel's capacity. *)
Width == IF FanOut = 0 THEN 1 ELSE FanOut

VARIABLES task,   \* what each line's task is at
          sent,   \* items of each line that left its task
          chan,   \* the channel
          done,   \* the parents are over and the driver's own sender is dropped
          lost    \* lines whose task panicked

vars == <<ioVars, task, sent, chan, done, lost>>

(* "opening" awaits read(parent), "reading" the stream's next batch; both   *)
(* have a request in flight.  "sending" holds items of a batch, "failing"   *)
(* the error of a stream that did not open: both are at sender.send.        *)
Slots == {"opening", "reading", "sending", "failing"}
TaskStates == Slots \cup {"none", "finished", "joined"}

(* Mutant of Tasks: a joined task keeps its slot.                           *)
TasksEver == {p \in Line : task[p] # "none"}

(* The JoinSet: a task stays in it until it is joined. *)
Tasks == {p \in Line : task[p] \in Slots \cup {"finished"}}

TypeOK ==
    /\ IOTypeOK
    /\ task \in [Line -> TaskStates]
    /\ sent \in [Line -> 0..MaxItems]
    /\ chan \in Seq(Item)
    /\ done \in BOOLEAN
    /\ lost \subseteq Line

Init ==
    /\ IOInit
    /\ task = [p \in Line |-> "none"]
    /\ sent = [p \in Line |-> 0]
    /\ chan = << >> /\ done = FALSE /\ lost = {}

streamVars == <<task, sent, chan, done, lost>>

-----------------------------------------------------------------------------
(* The driver: one turn of the unfold's loop.                              *)

Polling == Running /\ pc = "poll" /\ held = NoItem
HasRoom == Cardinality(Tasks) < Width /\ ~done

TakeBlank ==
    /\ Polling /\ HasRoom /\ LineReady /\ lines[NextLine] = "blank"
    /\ taken' = NextLine
    /\ UNCHANGED <<lines, eof, pc, produced, failures, held, sinkVars, reader, exit, streamVars>>

(* A parent becomes its stream, driven by a task of its own. *)
Spawn ==
    /\ Polling /\ HasRoom /\ LineReady /\ lines[NextLine] = "record"
    /\ taken' = NextLine
    /\ task' = [task EXCEPT ![NextLine] = "opening"]
    /\ UNCHANGED <<lines, eof, pc, produced, failures, held, sinkVars, reader, exit,
                   sent, chan, done, lost>>

(* A line that is not a parent is handed to drive as a failure. *)
TakeFailure ==
    /\ Polling /\ HasRoom /\ LineReady /\ lines[NextLine] \in {"misfit", "garbled"}
    /\ LET x == TheItem(NextLine, 1)
       IN  held' = x /\ failures' = failures \cup {x}
    /\ taken' = NextLine
    /\ produced' = [produced EXCEPT ![NextLine] = 1]
    /\ sent' = [sent EXCEPT ![NextLine] = 1]
    /\ UNCHANGED <<lines, eof, pc, sinkVars, reader, exit, task, chan, done, lost>>

InputEnds ==
    /\ Polling /\ HasRoom /\ InputOver
    /\ done' = TRUE
    /\ UNCHANGED <<ioVars, task, sent, chan, lost>>

(* Mutant of Receive: the newest item of the channel goes first.           *)
ReceiveNewest ==
    /\ Polling /\ ~HasRoom /\ chan # << >>
    /\ held' = chan[Len(chan)] /\ chan' = SubSeq(chan, 1, Len(chan) - 1)
    /\ UNCHANGED <<lines, eof, taken, pc, produced, failures, sinkVars, reader, exit,
                   task, sent, done, lost>>

(* select!, or the last receive: an item of the channel goes to drive. *)
Receive ==
    /\ Polling /\ ~HasRoom /\ chan # << >>
    /\ held' = Head(chan) /\ chan' = Tail(chan)
    /\ UNCHANGED <<lines, eof, taken, pc, produced, failures, sinkVars, reader, exit,
                   task, sent, done, lost>>

(* The channel is empty and every sender is dropped: the rows are over. *)
ReceiveNone ==
    /\ Polling /\ done /\ chan = << >>
    /\ \A p \in Line : task[p] \notin Slots
    /\ pc' = "finish"
    /\ UNCHANGED <<lines, eof, taken, produced, failures, held, sinkVars, reader, exit,
                   streamVars>>

(* select!: a finished task leaves the set; how it finished is not looked at. *)
JoinNext(p) ==
    /\ Polling /\ ~HasRoom /\ task[p] = "finished"
    /\ task' = [task EXCEPT ![p] = "joined"]
    /\ UNCHANGED <<ioVars, sent, chan, done, lost>>

-----------------------------------------------------------------------------
(* A line's task.                                                          *)

Opens(p) ==
    /\ Running /\ task[p] = "opening"
    /\ task' = [task EXCEPT ![p] = "reading"]
    /\ UNCHANGED <<ioVars, sent, chan, done, lost>>

(* Mutant of OpenFails: the task returns without sending its error.         *)
OpenFailsSilently(p) ==
    /\ Running /\ task[p] = "opening"
    /\ task' = [task EXCEPT ![p] = "finished"]
    /\ produced' = [produced EXCEPT ![p] = 1]
    /\ failures' = failures \cup {TheItem(p, 1)}
    /\ UNCHANGED <<lines, eof, taken, pc, held, sinkVars, reader, exit, sent, chan, done, lost>>

OpenFails(p) ==
    /\ Running /\ task[p] = "opening"
    /\ task' = [task EXCEPT ![p] = "failing"]
    /\ produced' = [produced EXCEPT ![p] = 1]
    /\ failures' = failures \cup {TheItem(p, 1)}
    /\ UNCHANGED <<lines, eof, taken, pc, held, sinkVars, reader, exit, sent, chan, done, lost>>

(* A batch arrives: n items, some of them failures. *)
ReadsBatch(p) ==
    /\ Running /\ task[p] = "reading"
    /\ \E n \in 1..MaxBatch :
         /\ produced[p] + n <= MaxItems
         /\ produced' = [produced EXCEPT ![p] = @ + n]
         /\ \E bad \in SUBSET ((produced[p] + 1)..(produced[p] + n)) :
              failures' = failures \cup {TheItem(p, i) : i \in bad}
    /\ task' = [task EXCEPT ![p] = "sending"]
    /\ UNCHANGED <<lines, eof, taken, pc, held, sinkVars, reader, exit, sent, chan, done, lost>>

StreamEnds(p) ==
    /\ Running /\ task[p] = "reading"
    /\ task' = [task EXCEPT ![p] = "finished"]
    /\ UNCHANGED <<ioVars, sent, chan, done, lost>>

(* sender.send waits for room in the channel; after the batch's last item  *)
(* the stream is read again, after an open failure the task returns.       *)
AfterSend(p) == IF sent[p] + 1 < produced[p] THEN task[p]
                ELSE IF task[p] = "sending" THEN "reading" ELSE "finished"

(* Mutant of Send: the channel is unbounded.                                *)
SendUnbounded(p) ==
    /\ Running /\ task[p] \in {"sending", "failing"}
    /\ chan' = Append(chan, TheItem(p, sent[p] + 1))
    /\ sent' = [sent EXCEPT ![p] = @ + 1]
    /\ task' = [task EXCEPT ![p] = AfterSend(p)]
    /\ UNCHANGED <<ioVars, done, lost>>

Send(p) ==
    /\ Running /\ task[p] \in {"sending", "failing"} /\ Len(chan) < Width
    /\ chan' = Append(chan, TheItem(p, sent[p] + 1))
    /\ sent' = [sent EXCEPT ![p] = @ + 1]
    /\ task' = [task EXCEPT ![p] = AfterSend(p)]
    /\ UNCHANGED <<ioVars, done, lost>>

(* A core stream panics: the task is over, and JoinNext ignores how. *)
Panics(p) ==
    /\ Running /\ CanPanic /\ task[p] \in {"opening", "reading"}
    /\ task' = [task EXCEPT ![p] = "finished"]
    /\ lost' = lost \cup {p}
    /\ UNCHANGED <<ioVars, sent, chan, done>>

-----------------------------------------------------------------------------
Upstream == (Arrive \/ CloseInput) /\ UNCHANGED streamVars
Consumer == ReaderLeaves /\ UNCHANGED streamVars
Sink == (Peek \/ Drive \/ OutputFails) /\ UNCHANGED streamVars
Poll == \/ TakeBlank \/ Spawn \/ TakeFailure \/ InputEnds
        \/ Receive \/ ReceiveNone \/ \E p \in Line : JoinNext(p)
RunTask(p) == Opens(p) \/ OpenFails(p) \/ ReadsBatch(p) \/ StreamEnds(p) \/ Send(p) \/ Panics(p)
Exited == ~Running /\ UNCHANGED vars

Next == Upstream \/ Consumer \/ Sink \/ Poll \/ (\E p \in Line : RunTask(p)) \/ Exited

Spec == Init /\ [][Next]_vars

(* The runtime polls whatever can run, requests are answered (or time out), *)
(* and the consumer reads or goes away.                                     *)
Fairness ==
    /\ WF_vars(Peek /\ UNCHANGED streamVars)
    /\ WF_vars(Drive /\ UNCHANGED streamVars)
    /\ WF_vars(Poll)
    /\ \A p \in Line : WF_vars(RunTask(p))

(* Nothing is assumed of the parent, which may stay silent for ever.       *)
LiveSpec == Spec /\ Fairness

-----------------------------------------------------------------------------
(* Properties.                                                             *)

(* A green exit, with a consumer that stayed, means the walk was written    *)
(* whole: every line was consumed, nothing any stream yielded was a failure *)
(* and all of it was delivered, however tasks, channel and driver           *)
(* interleave (error.rs, fail_when_dropped).  A task that panics yields no  *)
(* more, and this does not see it; GreenMeansNothingLost does.              *)
GreenIsComplete ==
    exit = "ok" /\ reader = "open" =>
        /\ taken = Len(lines) /\ eof /\ failures = {}
        /\ \A x \in Item : x.item <= produced[x.line]
                               => \E k \in DOMAIN delivered : delivered[k] = x

(* However the level ends, short of giving up, each item it read was        *)
(* settled: a failure was reported and a row reached the consumer, unless   *)
(* the consumer had gone.  No channel, task or buffer still holds one when  *)
(* the exit status is decided (emit.rs: "Writes complete before the exit    *)
(* status is decided").                                                     *)
EveryItemSettled ==
    exit \in {"ok", "partial"} =>
        /\ Unsettled = {}
        /\ dropped = failures
        /\ reader = "open" =>
               \A x \in Item \ failures : x.item <= produced[x.line]
                                           => \E k \in DOMAIN delivered : delivered[k] = x

(* The rows of one parent are written once each, in its stream's order,     *)
(* although tasks, channel and driver interleave (flat_map and drive).      *)
StreamOrder ==
    \A j, k \in DOMAIN RowsOut :
        j < k /\ RowsOut[j].line = RowsOut[k].line => RowsOut[j].item < RowsOut[k].item

(* A consumer that stops reading stops the reads: what the level holds and  *)
(* has not settled is the batches its tasks are at sending, one channel and *)
(* one item.  (The rows in the output buffer are settled.)                  *)
Backpressure ==
    Cardinality(Unsettled)
        <= MaxBatch * Cardinality({p \in Line : task[p] \in {"sending", "failing"}}) + Width + 1

(* The level implements the promise of LevelSpec.                           *)
NotStreaming == {"none", "finished", "joined"}
CompleteLines == {p \in 1..taken : task[p] \in NotStreaming /\ settled[p] = produced[p]}
Promise == INSTANCE LevelSpec WITH complete <- CompleteLines, written <- RowsOut
PromiseSpec == Promise!Spec

(* No task, channel or select is ever stuck, whether the consumer reads or  *)
(* leaves: once the parent closes its end the level exits, and before that  *)
(* an item that was read waits for nothing but a parent that is silent      *)
(* while a slot is free (the driver awaits it outside the select).          *)
ParentSilent == Polling /\ HasRoom /\ ~LineReady /\ ~InputOver
Progress ==
    /\ eof ~> exit # "running"
    /\ Unsettled # {} ~> (held # NoItem \/ ~Running \/ ParentSilent)

(* error.rs:56, "the run is green when nothing was lost".                   *)
GreenMeansNothingLost == exit = "ok" => lost = {}
=============================================================================
