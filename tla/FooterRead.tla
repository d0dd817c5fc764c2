----------------------------- MODULE FooterRead ------------------------------
(***************************************************************************)
(* list columns reads the footer of one Parquet object: a HEAD, one range  *)
(* read of the object's tail and, when the footer does not fit the tail, a *)
(* second range read (bytemass/remote.rs, read_remote and footer_layout,   *)
(* over the ObjectReader of third_party/object_store).  Whoever owns the   *)
(* object may replace it between any two of these requests.                *)
(*                                                                         *)
(* A body is where its bytes come from: a revision, a start and a length.  *)
(* Bytes from inside a file are taken not to end with the Parquet magic.   *)
(***************************************************************************)
EXTENDS Integers, Sequences

CONSTANTS Window,     \* FOOTER_WINDOW
          Contents,   \* what a revision can be
          Backends,   \* "tagged" and "untagged" stores (HEAD reports an ETag or not), "local"
          MaxRevs     \* bound: revisions of the object

Trailer == 8          \* PARQUET_FOOTER_SIZE: metadata length and magic
HeadMagic == 4        \* the magic a Parquet file starts with

(* size in bytes; metadata length the trailer names; whether it ends in PAR1. *)
Content == [size: Nat, meta: Nat, magic: BOOLEAN]

ASSUME FooterReadAssumption ==
    /\ Window \in Nat /\ Window >= Trailer
    /\ Contents \subseteq Content
    /\ \A c \in Contents : c.magic => c.size >= Trailer
    /\ Backends \subseteq {"tagged", "untagged", "local"}
    /\ MaxRevs \in Nat

VARIABLES revs,     \* the object's revisions; the last one is current
          backend,  \* where the object is
          pc,       \* "stat", "restat", "tail", "layout", "footer", "parse", "ok", "failed"
          stat,     \* [size, identity]: identity is a revision, or 0 for None
          tail,     \* the body of the tail read
          footer,   \* the metadata's bytes
          reads,    \* range reads answered
          broke     \* a request failed on its own account

vars == <<revs, backend, pc, stat, tail, footer, reads, broke>>

Body == [rev: Nat, start: Nat, len: Nat]
Empty == [rev |-> 0, start |-> 0, len |-> 0]
Now == Len(revs)
Current == revs[Now]

TypeOK ==
    /\ revs \in Seq(Contents) /\ revs # << >>
    /\ backend \in Backends
    /\ pc \in {"stat", "restat", "tail", "layout", "footer", "parse", "ok", "failed"}
    /\ stat \in [size: Nat, identity: 0..Now]
    /\ tail \in Body /\ tail.rev <= Now
    /\ footer \in Body /\ footer.rev <= Now
    /\ reads \in 0..2
    /\ broke \in BOOLEAN

Init ==
    /\ revs \in {<<c>> : c \in Contents} /\ backend \in Backends
    /\ pc = "stat" /\ stat = [size |-> 0, identity |-> 0]
    /\ tail = Empty /\ footer = Empty /\ reads = 0 /\ broke = FALSE

(* The owner replaces the object. *)
Overwrite ==
    /\ Now < MaxRevs
    /\ \E c \in Contents : revs' = Append(revs, c)
    /\ UNCHANGED <<backend, pc, stat, tail, footer, reads, broke>>

-----------------------------------------------------------------------------
(* stat: a signed HEAD, then, if that fails for any reason, get_opts.      *)

(* Mutant of Identity: the revision is not remembered.                     *)
IdentityDropped == 0
Identity == IF backend = "tagged" THEN Now ELSE 0

Stat ==
    /\ pc \in {"stat", "restat"}
    /\ stat' = [size |-> Current.size, identity |-> Identity]
    /\ pc' = IF Current.size < Trailer THEN "failed" ELSE "tail"
    /\ UNCHANGED <<revs, backend, tail, footer, reads, broke>>

HeadFails ==
    /\ pc = "stat" /\ backend # "local"
    /\ pc' = "restat"
    /\ UNCHANGED <<revs, backend, stat, tail, footer, reads, broke>>

RequestFails ==
    /\ \/ pc \in {"restat", "tail", "footer"}
       \/ pc = "stat" /\ backend = "local"
    /\ pc' = "failed" /\ broke' = TRUE
    /\ UNCHANGED <<revs, backend, stat, tail, footer, reads>>

-----------------------------------------------------------------------------
(* read_range: pinned by If-Match; a store cuts the range at the end of    *)
(* the object, a local file fails to fill it.                              *)

Matches == stat.identity = 0 \/ stat.identity = Now
Readable(from, to) ==
    /\ Matches
    /\ IF backend = "local" THEN to <= Current.size ELSE from < Current.size
Bytes(from, to) ==
    LET end == IF to <= Current.size THEN to ELSE Current.size
    IN  [rev |-> Now, start |-> from, len |-> IF from <= end THEN end - from ELSE 0]

TailStart == IF stat.size > Window THEN stat.size - Window ELSE 0

ReadTail ==
    /\ pc = "tail" /\ Readable(TailStart, stat.size)
    /\ tail' = Bytes(TailStart, stat.size) /\ reads' = 1
    /\ pc' = "layout"
    /\ UNCHANGED <<revs, backend, stat, footer, broke>>

TailRefused ==
    /\ pc = "tail" /\ ~Readable(TailStart, stat.size)
    /\ pc' = "failed"
    /\ UNCHANGED <<revs, backend, stat, tail, footer, reads, broke>>

(* footer_layout: the trailer at the end of the tail says how long the     *)
(* metadata is.                                                            *)

HasMagic == /\ revs[tail.rev].magic
            /\ tail.start + tail.len = revs[tail.rev].size
MetaLen == revs[tail.rev].meta
MetaStart == stat.size - (Trailer + MetaLen)

(* Mutant of WellFormed: the smallest place for metadata is refused.        *)
WellFormedStrict == tail.len >= Trailer /\ tail.len <= stat.size /\ HasMagic
                    /\ MetaStart > HeadMagic
WellFormed == tail.len >= Trailer /\ tail.len <= stat.size /\ HasMagic /\ MetaStart >= HeadMagic

FitsTail == MetaStart >= stat.size - tail.len

(* tail[index..], trailer included. *)
LayoutInTail ==
    /\ pc = "layout" /\ WellFormed /\ FitsTail
    /\ LET index == MetaStart - (stat.size - tail.len)
       IN  footer' = [rev |-> tail.rev, start |-> tail.start + index,
                      len |-> tail.len - index - Trailer]
    /\ pc' = "parse"
    /\ UNCHANGED <<revs, backend, stat, tail, reads, broke>>

LayoutBeyondTail ==
    /\ pc = "layout" /\ WellFormed /\ ~FitsTail
    /\ pc' = "footer"
    /\ UNCHANGED <<revs, backend, stat, tail, footer, reads, broke>>

LayoutInvalid ==
    /\ pc = "layout" /\ ~WellFormed
    /\ pc' = "failed"
    /\ UNCHANGED <<revs, backend, stat, tail, footer, reads, broke>>

(* The second read brings the metadata; the trailer is the first read's.   *)
ReadFooter ==
    /\ pc = "footer" /\ Readable(MetaStart, stat.size - Trailer)
    /\ footer' = Bytes(MetaStart, stat.size - Trailer) /\ reads' = 2
    /\ pc' = "parse"
    /\ UNCHANGED <<revs, backend, stat, tail, broke>>

FooterRefused ==
    /\ pc = "footer" /\ ~Readable(MetaStart, stat.size - Trailer)
    /\ pc' = "failed"
    /\ UNCHANGED <<revs, backend, stat, tail, footer, reads, broke>>

(* read_footer_masses decodes the metadata's bytes, whatever they are: it  *)
(* may accept bytes that are not a footer, and does accept a footer.       *)
TrueFooter(b) ==
    LET c == revs[b.rev]
    IN  c.magic /\ b.len = c.meta /\ b.start = c.size - Trailer - c.meta

Complete == footer.len = MetaLen

ParseOk ==
    /\ pc = "parse" /\ Complete
    /\ pc' = "ok"
    /\ UNCHANGED <<revs, backend, stat, tail, footer, reads, broke>>

ParseFails ==
    /\ pc = "parse" /\ (~Complete \/ ~TrueFooter(footer))
    /\ pc' = "failed"
    /\ UNCHANGED <<revs, backend, stat, tail, footer, reads, broke>>

Read == \/ Stat \/ HeadFails \/ RequestFails \/ ReadTail \/ TailRefused
        \/ LayoutInTail \/ LayoutBeyondTail \/ LayoutInvalid
        \/ ReadFooter \/ FooterRefused \/ ParseOk \/ ParseFails
Next == Overwrite \/ Read

Spec == Init /\ [][Next]_vars

-----------------------------------------------------------------------------
(* Properties.                                                             *)

(* With an ETag the answer is of one revision: its size, its trailer and   *)
(* its metadata, whatever is written between the requests.                 *)
PinnedIsOneRevision ==
    pc = "ok" /\ backend = "tagged" =>
        /\ TrueFooter(footer) /\ tail.rev = footer.rev
        /\ stat.size = revs[footer.rev].size

(* Without one (a local file, a store that reports no ETag) an answer that *)
(* took a single range read is still the footer of one revision, and of a  *)
(* local file it has that revision's size: only a second read can tear.    *)
SingleReadIsOneRevision ==
    pc = "ok" /\ reads = 1 =>
        /\ TrueFooter(footer)
        /\ backend # "untagged" => stat.size = revs[footer.rev].size

(* A Parquet object that nobody replaces is read, wherever the boundaries  *)
(* of the window and of the file fall, unless a request fails.             *)
FailsForAReason ==
    pc = "failed" =>
        \/ broke \/ Now > 1
        \/ ~revs[1].magic \/ revs[1].size < HeadMagic + revs[1].meta + Trailer

(* A footer the window covers is never asked for twice (remote.rs:16, "for *)
(* the read to stay one request"), unless an untagged object shrank.       *)
OneRequest == pc = "footer" /\ backend # "untagged" => MetaLen + Trailer > Window
=============================================================================
