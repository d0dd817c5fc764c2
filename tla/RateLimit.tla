------------------------------ MODULE RateLimit ------------------------------
(***************************************************************************)
(* The pacing filter `ratelimit`: the slots of pqbench's RateLimit (delay) *)
(* and the command's loop around it (run), which reads a line, reserves    *)
(* the next slot of the line's kind, sleeps until it and writes the line.  *)
(*                                                                         *)
(* Time is in ticks; Interval is Duration::from_secs_f64(1 / rate), and 0  *)
(* for a rate of 0.  A record leaves at its slot or up to MaxLate ticks     *)
(* after it: the sleep overshoots, or the consumer's pipe is full.         *)
(***************************************************************************)
EXTENDS Naturals, Sequences

CONSTANTS Kinds,      \* record kinds: the pacing buckets record_type tells apart
          Interval,   \* ticks between two slots of a kind
          MaxLate,    \* ticks a record may leave after its slot
          MaxLines,   \* bound: records the parent may write
          MaxIdle,    \* bound: the time up to which the filter may wait for input
          Unset       \* next_times has no entry for a kind

ASSUME RateLimitAssumption ==
    /\ Interval \in Nat /\ MaxLate \in Nat
    /\ MaxLines \in Nat /\ MaxIdle \in Nat
    /\ Unset \notin Nat

VARIABLES now,         \* Instant::now()
          next_times,  \* the next slot of each kind
          input,       \* kinds of the lines that have arrived and are not read
          arrived,     \* lines that have arrived in all
          eof,         \* the parent has closed standard input
          pc,          \* "read", "sleep", "write" or "exited"
          current,     \* the kind of the record in hand
          slot,        \* the slot reserved for it
          out          \* the records written: [kind, slot, time]

vars == <<now, next_times, input, arrived, eof, pc, current, slot, out>>

TypeOK ==
    /\ now \in Nat
    /\ next_times \in [Kinds -> Nat \cup {Unset}]
    /\ input \in Seq(Kinds)
    /\ arrived \in 0..MaxLines
    /\ eof \in BOOLEAN
    /\ pc \in {"read", "sleep", "write", "exited"}
    /\ current \in Kinds
    /\ slot \in Nat
    /\ out \in Seq([kind : Kinds, slot : Nat, time : Nat])

Init ==
    /\ now = 0 /\ next_times = [k \in Kinds |-> Unset]
    /\ input = << >> /\ arrived = 0 /\ eof = FALSE
    /\ pc = "read" /\ current \in Kinds /\ slot = 0 /\ out = << >>

Arrive ==
    /\ ~eof /\ arrived < MaxLines /\ pc # "exited"
    /\ \E k \in Kinds : input' = Append(input, k)
    /\ arrived' = arrived + 1
    /\ UNCHANGED <<now, next_times, eof, pc, current, slot, out>>

CloseInput ==
    /\ ~eof /\ pc # "exited"
    /\ eof' = TRUE
    /\ UNCHANGED <<now, next_times, input, arrived, pc, current, slot, out>>

(* RateLimit::delay.  The first record of a kind finds its slot at now.     *)
NextTime(k) == IF next_times[k] = Unset THEN now ELSE next_times[k]

Start(k) == IF now < NextTime(k) THEN NextTime(k) ELSE now

(* Mutant of After: the slot after next is counted from now.                *)
AfterNow(k) == now + Interval

After(k) == Start(k) + Interval

(* Mutant of ReadLine: one bucket paces all kinds.                          *)
ReadLineOneBucket ==
    /\ pc = "read" /\ input # << >>
    /\ LET k == Head(input)
       IN  /\ current' = k
           /\ slot' = Start(k)
           /\ next_times' = [c \in Kinds |-> After(k)]
           /\ pc' = IF Start(k) > now THEN "sleep" ELSE "write"
    /\ input' = Tail(input)
    /\ UNCHANGED <<now, arrived, eof, out>>

(* A line is read, its slot reserved, and the wait decided.                 *)
ReadLine ==
    /\ pc = "read" /\ input # << >>
    /\ LET k == Head(input)
       IN  /\ current' = k
           /\ slot' = Start(k)
           /\ next_times' = [next_times EXCEPT ![k] = After(k)]
           /\ pc' = IF Start(k) > now THEN "sleep" ELSE "write"
    /\ input' = Tail(input)
    /\ UNCHANGED <<now, arrived, eof, out>>

EndOfInput ==
    /\ pc = "read" /\ input = << >> /\ eof
    /\ pc' = "exited"
    /\ UNCHANGED <<now, next_times, input, arrived, eof, current, slot, out>>

(* A line that is not JSON ends the command.                                *)
Garbled ==
    /\ pc = "read" /\ arrived < MaxLines /\ ~eof /\ input = << >>
    /\ pc' = "exited"
    /\ UNCHANGED <<now, next_times, input, arrived, eof, current, slot, out>>

Wake ==
    /\ pc = "sleep" /\ now >= slot
    /\ pc' = "write"
    /\ UNCHANGED <<now, next_times, input, arrived, eof, current, slot, out>>

(* The record is written and flushed; a broken pipe ends the command well.  *)
WriteRecord ==
    /\ pc = "write"
    /\ out' = Append(out, [kind |-> current, slot |-> slot, time |-> now])
    /\ pc' = "read"
    /\ UNCHANGED <<now, next_times, input, arrived, eof, current, slot>>

BrokenPipe ==
    /\ pc = "write"
    /\ pc' = "exited"
    /\ UNCHANGED <<now, next_times, input, arrived, eof, current, slot, out>>

(* Mutant of Tick: the sleep hangs short of its slot.                       *)
TickStalls ==
    /\ \/ pc = "read" /\ input = << >> /\ now < MaxIdle
       \/ pc = "sleep" /\ now + 1 < slot
    /\ now' = now + 1
    /\ UNCHANGED <<next_times, input, arrived, eof, pc, current, slot, out>>

(* Time passes: while the filter waits for a line, sleeps, or waits for the *)
(* consumer's pipe.  Reading and reserving take no time.                    *)
Tick ==
    /\ \/ pc = "read" /\ input = << >> /\ now < MaxIdle
       \/ pc \in {"sleep", "write"} /\ now < slot + MaxLate
    /\ now' = now + 1
    /\ UNCHANGED <<next_times, input, arrived, eof, pc, current, slot, out>>

Exited == pc = "exited" /\ UNCHANGED vars

Filter == ReadLine \/ EndOfInput \/ Wake \/ WriteRecord
Next == \/ Arrive \/ CloseInput \/ Filter \/ Garbled \/ BrokenPipe \/ Tick \/ Exited

Spec == Init /\ [][Next]_vars
LiveSpec == Spec /\ WF_vars(Filter) /\ WF_vars(pc = "sleep" /\ Tick)

-----------------------------------------------------------------------------
(* Properties.                                                             *)

(* Slots of one kind are at least Interval apart and no record leaves       *)
(* before its slot, whatever other kinds pass between and however late a    *)
(* sleep ends (RateLimit::delay inside the loop of run).                    *)
Paced ==
    /\ \A i \in DOMAIN out : out[i].time >= out[i].slot
    /\ \A i, j \in DOMAIN out :
         i < j /\ out[i].kind = out[j].kind => out[j].slot >= out[i].slot + Interval

(* The first record of a kind is never slept on, and no sleep is longer     *)
(* than one interval, however late the records before it were: lateness     *)
(* does not accumulate into the slots.                                      *)
WaitBounded ==
    pc = "sleep" => /\ slot <= now + Interval
                    /\ \E i \in DOMAIN out : out[i].kind = current

(* Every line is written unless the command ends first: no kind is starved  *)
(* by the others' sleeps.                                                   *)
EveryLineWritten ==
    \A n \in 1..MaxLines : arrived >= n ~> (Len(out) >= n \/ pc = "exited")
=============================================================================
