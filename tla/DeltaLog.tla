------------------------------ MODULE DeltaLog -------------------------------
(***************************************************************************)
(* The walks over a Delta table's log (third_party/delta/impl/load.rs):    *)
(* stream_commits, newest first, stream_files and read_log, oldest first.  *)
(* Each lists _delta_log, unless the caller names the commits, and then    *)
(* reads the commits a batch at a time.  Writers append commits and        *)
(* retention removes the oldest ones while the walk goes on.               *)
(*                                                                         *)
(* A commit is what its file says to a reader that sees a prefix of it:    *)
(* its size, where the line of its commitInfo ends (0: it has none),       *)
(* whether that is dated, how many files it adds, and whether every line   *)
(* parses.  An item of a walk is <<version, index in the commit>>; with 0  *)
(* for index, it is the Err a stream gives in place of a whole batch.      *)
(***************************************************************************)
EXTENDS Integers, Sequences, FiniteSets, SequencesExt

CONSTANTS MaxVersion,   \* bound: the last version a writer may commit
          Histories,    \* what the commits of a log can be
          Losses,       \* which commits a log can have lost
          Requests,     \* the walks a caller asks for
          Stages,       \* COMMIT_HEADER_STAGES
          Width,        \* commit_read_width
          PageSize,     \* names in one answer of a listing
          MaxFaults,    \* bound: requests that fail on their own account
          None          \* no snapshot version

Versions == 0..MaxVersion
Commit == [size: Nat \ {0}, info: Nat, dated: BOOLEAN, adds: Nat, sound: BOOLEAN]
Request == [walk: {"commits", "files", "log"}, all: BOOLEAN,
            named: SUBSET Versions, head: Versions \cup {None}]

ASSUME DeltaLogAssumption ==
    /\ MaxVersion \in Nat /\ None \notin Nat
    /\ Histories \subseteq [Versions -> Commit]
    /\ \A h \in Histories, v \in Versions : h[v].info <= h[v].size
    /\ Losses \subseteq SUBSET Versions
    /\ Requests \subseteq Request
    /\ \A r \in Requests : r.walk = "commits" => r.all
    /\ Stages \in Seq(Nat \ {0}) /\ Width \in Nat \ {0}
    /\ PageSize \in Nat \ {0} /\ MaxFaults \in Nat

VARIABLES history,  \* what each version's commit is, or will be
          others,   \* _delta_log holds a file that is not a commit
          lost,     \* versions below next that were lost before the walk
          log,      \* versions whose commit file is there
          next,     \* the version the next writer takes
          before,   \* history: log when the walk began
          request,  \* [walk, all, named, head]
          phase,    \* "list", "walk", "batch", "ended", "failed"
          cursor,   \* the listing goes on from this name
          listed,   \* the versions the listing has shown
          order,    \* the versions to read, in walk order
          pos,      \* how many of them are read
          stage,    \* per version the read in flight, 0 for none
          answer,   \* per version of the batch the items it gave
          ready,    \* items read and not yet asked for
          asked,    \* the consumer awaits the next item
          out,      \* items the consumer has
          faults,   \* requests that failed
          error     \* why the walk failed

env == <<history, others, lost, log, next, before, request>>
listing == <<cursor, listed>>
reads == <<order, pos, stage, answer>>
vars == <<env, phase, listing, reads, ready, asked, out, faults, error>>

Whole == Len(Stages) + 1    \* the stage that reads the file whole
InFlight == {v \in Versions : stage[v] # 0}
Item == Versions \X Nat

TypeOK ==
    /\ history \in Histories /\ others \in BOOLEAN /\ lost \in Losses
    /\ next \in 0..MaxVersion + 1
    /\ log \subseteq 0..next - 1 /\ before \subseteq 0..next - 1
    /\ request \in Requests
    /\ phase \in {"list", "walk", "batch", "ended", "failed"}
    /\ cursor \in 0..MaxVersion + 1 /\ listed \subseteq Versions
    /\ order \in Seq(Versions) /\ pos \in 0..Len(order)
    /\ stage \in [Versions -> 0..Whole]
    /\ answer \in [Versions -> Seq(Item)]
    /\ ready \in Seq(Item) /\ out \in Seq(Item)
    /\ asked \in BOOLEAN /\ faults \in 0..MaxFaults
    /\ error \in {"none", "nolog", "gap", "storage", "parse"}

NoRead == [v \in Versions |-> 0]
NoAnswer == [v \in Versions |-> << >>]

(* A BTreeSet names the commits oldest first; stream_commits reverses.     *)
OldestFirst(vs) ==
    CHOOSE s \in [1..Cardinality(vs) -> vs] : \A i, j \in DOMAIN s : i < j => s[i] < s[j]
Arranged(vs) == IF request.walk = "commits" THEN Reverse(OldestFirst(vs)) ELSE OldestFirst(vs)

Init ==
    /\ history \in Histories /\ others \in BOOLEAN
    /\ next \in 0..MaxVersion + 1
    /\ lost \in {l \in Losses : l \subseteq 0..next - 1}
    /\ \E expired \in 0..next : log = expired..next - 1 \ lost
    /\ before = log
    /\ request \in {r \in Requests : r.walk = "log" /\ r.all => r.head \in 0..next - 1}
    /\ phase = IF request.all THEN "list" ELSE "walk"
    /\ cursor = 0 /\ listed = {}
    /\ order = IF request.all THEN << >> ELSE Arranged(request.named)
    /\ pos = 0 /\ stage = NoRead /\ answer = NoAnswer
    /\ ready = << >> /\ out = << >>
    /\ asked = (request.walk = "log")
    /\ faults = 0 /\ error = "none"

-----------------------------------------------------------------------------
(* The table's other users: a writer commits the next version, retention   *)
(* removes a prefix of the log and never its newest commit.                *)

CommitNext ==
    /\ next <= MaxVersion
    /\ log' = log \cup {next} /\ next' = next + 1
    /\ UNCHANGED <<history, others, lost, before, request, phase, listing, reads, ready,
                   asked, out, faults, error>>

Expire ==
    /\ Cardinality(log) > 1
    /\ log' = log \ {Min(log)}
    /\ UNCHANGED <<history, others, lost, next, before, request, phase, listing, reads,
                   ready, asked, out, faults, error>>

Fail(why) ==
    /\ phase' = "failed" /\ error' = why
    /\ stage' = NoRead /\ answer' = NoAnswer /\ asked' = FALSE
    /\ UNCHANGED <<env, listing, order, pos, ready, out>>

-----------------------------------------------------------------------------
(* commit_versions: one listing, folded page by page; versions beyond the  *)
(* snapshot are dropped, and a gap is an error.                            *)

Shown == {v \in log : v >= cursor}
Page == {v \in Shown : Cardinality({w \in Shown : w < v}) < PageSize}

Retained(vs) == {v \in vs : request.head = None \/ v <= request.head}

(* Mutant of HasGap: no one looks for one.                                 *)
HasGapNever(vs) == FALSE
HasGap(vs) == \E v, w \in vs : v + 1 < w /\ \A u \in vs : u <= v \/ u >= w

ListPage ==
    /\ phase = "list" /\ Page # Shown
    /\ listed' = listed \cup Page /\ cursor' = Max(Page) + 1
    /\ UNCHANGED <<env, phase, reads, ready, asked, out, faults, error>>

ListNothing ==
    /\ phase = "list" /\ Page = Shown
    /\ listed \cup Page = {} /\ ~others
    /\ Fail("nolog") /\ UNCHANGED faults

ListGap ==
    /\ phase = "list" /\ Page = Shown
    /\ HasGap(Retained(listed \cup Page))
    /\ Fail("gap") /\ UNCHANGED faults

ListLast ==
    /\ phase = "list" /\ Page = Shown
    /\ listed \cup Page # {} \/ others
    /\ ~HasGap(Retained(listed \cup Page))
    /\ order' = Arranged(Retained(listed \cup Page))
    /\ listed' = listed \cup Page /\ phase' = "walk"
    /\ UNCHANGED <<env, cursor, pos, stage, answer, ready, asked, out, faults, error>>

ListFails ==
    /\ phase = "list" /\ faults < MaxFaults
    /\ faults' = faults + 1 /\ Fail("storage")

-----------------------------------------------------------------------------
(* The batches: a consumer that asks gets an item read before, or starts   *)
(* the next batch.  read_log reads all its commits as one.                 *)

ChunkEnd == IF request.walk = "log" THEN Len(order) ELSE Min({pos + Width, Len(order)})
Chunk == {order[i] : i \in pos + 1..ChunkEnd}

Ask ==
    /\ phase = "walk" /\ ~asked
    /\ asked' = TRUE
    /\ UNCHANGED <<env, phase, listing, reads, ready, out, faults, error>>

MayStart == asked /\ ready = << >>

(* commit_head begins with the first prefix; commit_files and read_log     *)
(* read the file whole.                                                    *)
StartBatch ==
    /\ phase = "walk" /\ MayStart /\ pos < Len(order)
    /\ LET first == IF request.walk = "commits" THEN 1 ELSE Whole
       IN  stage' = [v \in Versions |-> IF v \in Chunk THEN first ELSE 0]
    /\ phase' = "batch"
    /\ UNCHANGED <<env, listing, order, pos, answer, ready, asked, out, faults, error>>

Deliver ==
    /\ phase = "walk" /\ asked /\ ready # << >>
    /\ out' = Append(out, Head(ready)) /\ ready' = Tail(ready) /\ asked' = FALSE
    /\ UNCHANGED <<env, phase, listing, reads, faults, error>>

Exhausted == pos = Len(order)

End ==
    /\ phase = "walk" /\ asked /\ ready = << >> /\ Exhausted
    /\ phase' = "ended" /\ asked' = FALSE
    /\ UNCHANGED <<env, listing, reads, ready, out, faults, error>>

-----------------------------------------------------------------------------
(* commit_head, commit_files, parse_commit and the body of read_log: the   *)
(* reads of a batch go on side by side, each at its own pace.              *)

Items(v) ==
    LET c == history[v]
    IN  CASE request.walk = "commits" -> IF c.info # 0 /\ c.dated THEN << <<v, 1>> >> ELSE << >>
          [] request.walk = "files"   -> [i \in 1..c.adds |-> <<v, i>>]
          [] request.walk = "log"     -> << <<v, 1>> >>

Prefix(v) == phase = "batch" /\ stage[v] \in 1..Len(Stages) /\ v \in log
WholeFile(v) == phase = "batch" /\ stage[v] = Whole /\ v \in log

(* A read's answer is in; the items wait for the rest of the batch.        *)
Answered(v, items) ==
    /\ stage' = [stage EXCEPT ![v] = 0] /\ answer' = [answer EXCEPT ![v] = items]
    /\ UNCHANGED <<env, phase, listing, order, pos, ready, asked, out, faults, error>>

ReadOn(v, next_stage) ==
    /\ stage' = [stage EXCEPT ![v] = next_stage]
    /\ UNCHANGED <<env, phase, listing, order, pos, answer, ready, asked, out, error>>

(* NotFound, or read_commit_entry's None: retention took it.               *)
ReadMissing(v) ==
    /\ phase = "batch" /\ stage[v] # 0 /\ v \notin log
    /\ Answered(v, << >>)

InPrefix(v) == history[v].info \in 1..Stages[stage[v]]

(* Mutant of IsWhole: the last prefix is taken for the whole file.         *)
IsWholeAtLast(v) == stage[v] = Len(Stages) \/ history[v].size < Stages[stage[v]]
IsWhole(v) == history[v].size < Stages[stage[v]]

PrefixTells(v) ==
    /\ Prefix(v) /\ (InPrefix(v) \/ IsWhole(v))
    /\ Answered(v, IF InPrefix(v) THEN Items(v) ELSE << >>)

(* Mutant: the last prefix is read again, never the whole file.            *)
PrefixAgain(v) ==
    /\ Prefix(v) /\ ~InPrefix(v) /\ ~IsWhole(v)
    /\ ReadOn(v, Min({stage[v] + 1, Len(Stages)})) /\ UNCHANGED faults
PrefixSilent(v) ==
    /\ Prefix(v) /\ ~InPrefix(v) /\ ~IsWhole(v)
    /\ ReadOn(v, stage[v] + 1) /\ UNCHANGED faults

(* Any error but NotFound is the whole read's to report.                   *)
PrefixFails(v) ==
    /\ Prefix(v) /\ faults < MaxFaults
    /\ faults' = faults + 1 /\ ReadOn(v, Whole)

(* parse_commit_info skips a line that does not parse, parse_commit fails. *)
WholeTells(v) ==
    /\ WholeFile(v) /\ (history[v].sound \/ request.walk = "commits")
    /\ Answered(v, Items(v))

(* then, try_flatten: in a stream a batch whose read fails gives that Err  *)
(* and nothing else, and the next poll starts the next batch; the consumer *)
(* goes on polling (source.rs:234).  read_log is a single call, and fails. *)
GiveUp(v) ==
    /\ request.walk # "log"
    /\ ready' = << <<v, 0>> >> /\ pos' = ChunkEnd /\ phase' = "walk"
    /\ stage' = NoRead /\ answer' = NoAnswer
    /\ UNCHANGED <<env, listing, order, asked, out, error>>

GaveUp(v, why) == GiveUp(v) \/ (request.walk = "log" /\ Fail(why))

WholeGarbled(v) ==
    /\ WholeFile(v) /\ ~history[v].sound /\ request.walk # "commits"
    /\ GaveUp(v, "parse") /\ UNCHANGED faults

WholeFails(v) ==
    /\ WholeFile(v) /\ faults < MaxFaults
    /\ faults' = faults + 1 /\ GaveUp(v, "storage")

(* try_join_all: answers in the order of the batch, whatever order they    *)
(* came in.  Mutant: in reverse.                                           *)
JoinedReversed == FlattenSeq([i \in 1..ChunkEnd - pos |-> answer[order[ChunkEnd + 1 - i]]])
Joined == FlattenSeq([i \in 1..ChunkEnd - pos |-> answer[order[pos + i]]])

Landed == phase = "batch" /\ InFlight = {}

LandBatch ==
    /\ Landed /\ request.walk # "log"
    /\ ready' = Joined /\ pos' = ChunkEnd /\ answer' = NoAnswer /\ phase' = "walk"
    /\ UNCHANGED <<env, listing, order, stage, asked, out, faults, error>>

(* read_log returns its commits at once, or none of them.                  *)
LandLog ==
    /\ Landed /\ request.walk = "log"
    /\ out' = Joined /\ pos' = ChunkEnd /\ answer' = NoAnswer
    /\ phase' = "ended" /\ asked' = FALSE
    /\ UNCHANGED <<env, listing, order, stage, ready, faults, error>>

Listing == ListPage \/ ListNothing \/ ListGap \/ ListLast
Read(v) == ReadMissing(v) \/ PrefixTells(v) \/ PrefixSilent(v) \/ WholeTells(v) \/ WholeGarbled(v)
Walk == Ask \/ StartBatch \/ Deliver \/ End \/ LandBatch \/ LandLog
Fault == ListFails \/ \E v \in Versions : PrefixFails(v) \/ WholeFails(v)
Progress == Listing \/ Walk \/ \E v \in Versions : Read(v)

Next == CommitNext \/ Expire \/ Progress \/ Fault

Spec == Init /\ [][Next]_vars

(* The store answers every request and the consumer keeps asking.          *)
FairSpec == Spec /\ WF_vars(Progress)

-----------------------------------------------------------------------------
(* Properties.                                                             *)

Later(a, b) ==
    IF request.walk = "commits" THEN a[1] > b[1]
    ELSE a[1] < b[1] \/ (a[1] = b[1] /\ a[2] < b[2])

(* Commits come newest first, files in log order, and none twice, in       *)
(* whatever order the reads of a batch are answered ("newest first", "in   *)
(* version order", load.rs:217, 276).                                      *)
InLogOrder == \A i, j \in 1..Len(out) : i < j => Later(out[i], out[j])

(* A commit that was in the log when the walk began and still is cannot be *)
(* passed over in silence: before an item that comes after it, and at the  *)
(* latest when the walk ends, all it has to give is out, or the consumer   *)
(* has been told of a read that failed in the commit's own batch.  One     *)
(* failure costs that batch, and no other.                                 *)
Owed == IF request.all THEN Retained(before \cap log) ELSE request.named \cap before \cap log
Batch(b) == {order[i] : i \in {j \in 1..Len(order) : b * Width < j /\ j <= b * Width + Width}}
Told(v) == \E b \in 0..Len(order) : v \in Batch(b) /\ \E w \in Batch(b) : <<w, 0>> \in ToSet(out)
NothingSkipped ==
    \A v \in Owed :
        phase = "ended" \/ (\E i \in 1..Len(out) : out[i][1] # v /\ Later(<<v, 1>>, out[i]))
            => ToSet(Items(v)) \subseteq ToSet(out) \/ Told(v)

(* A walk that was not told its commits reports one stretch of the log, up *)
(* to the snapshot: no commit on either side of a lost one (load.rs:359:   *)
(* "a read either side of it would report a table that never existed").    *)
OneStretch ==
    request.all =>
        \A i, j \in 1..Len(out) :
            /\ out[i][1] \in Retained(Versions)
            /\ ~\E v \in lost : out[i][1] < v /\ v < out[j][1]

(* A walk comes to its end though writers keep committing.                 *)
Ends == <>(phase \in {"ended", "failed"})

=============================================================================
