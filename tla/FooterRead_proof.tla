--------------------------- MODULE FooterRead_proof --------------------------
(***************************************************************************)
(* The footer read of FooterRead: what an answer is of, for every window,  *)
(* every content and any number of overwrites.                             *)
(***************************************************************************)
EXTENDS FooterRead, TLAPS

(* After the HEAD: the size is that of the revision an ETag names.         *)
StatInv ==
    pc \in {"tail", "layout", "footer", "parse", "ok"} =>
        /\ stat.size >= Trailer
        /\ backend = "tagged" => /\ stat.identity \in 1..Now
                                 /\ revs[stat.identity].size = stat.size
        /\ backend # "tagged" => stat.identity = 0
        /\ Now = 1 => stat.size = revs[1].size

(* After the first range read: where the tail's bytes are from.            *)
TailInv ==
    pc \in {"layout", "footer", "parse", "ok"} =>
        /\ tail.rev \in 1..Now
        /\ backend = "tagged" => tail.rev = stat.identity
        /\ tail.start = TailStart
        /\ backend # "untagged" \/ stat.size <= revs[tail.rev].size
               => tail.len = stat.size - TailStart

(* After footer_layout: the trailer was accepted, and fits or does not.    *)
LayoutInv ==
    /\ pc \in {"footer", "parse", "ok"} => WellFormed
    /\ pc = "footer" => ~FitsTail
    /\ pc \in {"layout", "footer"} => reads = 1

(* With the metadata in hand: where its bytes are from.                    *)
FooterInv ==
    pc \in {"parse", "ok"} =>
        /\ footer.rev \in 1..Now /\ reads \in 1..2
        /\ reads = 1 => /\ footer.rev = tail.rev
                        /\ footer.start = tail.start + (MetaStart - (stat.size - tail.len))
                        /\ footer.len = MetaLen
        /\ reads = 2 => footer.start = MetaStart
        /\ reads = 2 /\ backend = "tagged" => footer.rev = stat.identity
        /\ reads = 2 /\ Now = 1 => footer.len = MetaLen
        /\ pc = "ok" => Complete

Inv == TypeOK /\ StatInv /\ TailInv /\ LayoutInv /\ FooterInv

-----------------------------------------------------------------------------
(* What a revision is.                                                     *)
LEMMA ContentFacts ==
    ASSUME TypeOK, NEW i \in 1..Now
    PROVE  /\ revs[i] \in Contents /\ revs[i].size \in Nat /\ revs[i].meta \in Nat
           /\ revs[i].magic \in BOOLEAN /\ (revs[i].magic => revs[i].size >= Trailer)
           /\ Now \in Nat /\ Now >= 1
<1>1. revs \in Seq(Contents) /\ revs # << >>
    BY DEF TypeOK
<1>2. revs[i] \in Contents /\ Now \in Nat /\ Now >= 1
    BY <1>1 DEF Now
<1>3. revs[i] \in Content
    BY <1>2, FooterReadAssumption
<1> QED
    BY <1>2, <1>3, FooterReadAssumption DEF Content

(* The last revision is one of them.                                       *)
LEMMA CurrentFacts ==
    ASSUME TypeOK
    PROVE  /\ Now \in Nat /\ Now >= 1 /\ Current = revs[Now] /\ Current \in Contents
           /\ Current.size \in Nat
<1>1. revs \in Seq(Contents) /\ revs # << >>
    BY DEF TypeOK
<1>2. Now \in Nat /\ Now >= 1 /\ Now \in 1..Now
    BY <1>1 DEF Now
<1> QED
    BY <1>2, ContentFacts DEF Current

(* The tail never starts before the object or behind its end.              *)
LEMMA TailStartFacts ==
    ASSUME TypeOK
    PROVE  /\ TailStart \in Nat /\ stat.size \in Nat /\ TailStart <= stat.size
           /\ stat.size >= Trailer => TailStart < stat.size
<1>1. stat.size \in Nat /\ Window \in Nat /\ Window >= 8
    BY FooterReadAssumption DEF TypeOK, Trailer
<1> QED
    BY <1>1 DEF TailStart, Trailer

(* What a range read brings.                                               *)
LEMMA BytesFacts ==
    ASSUME TypeOK, NEW from \in Nat, NEW to \in Nat
    PROVE  /\ Bytes(from, to) \in Body
           /\ Bytes(from, to).rev = Now /\ Bytes(from, to).start = from
           /\ to <= Current.size /\ from <= to => Bytes(from, to).len = to - from
<1>1. Current.size \in Nat /\ Now \in Nat
    BY CurrentFacts
<1> DEFINE end == IF to <= Current.size THEN to ELSE Current.size
           len == IF from <= end THEN end - from ELSE 0
<1>2. len \in Nat /\ (to <= Current.size /\ from <= to => len = to - from)
    BY <1>1
<1>3. Bytes(from, to) = [rev |-> Now, start |-> from, len |-> len]
    BY DEF Bytes
<1> QED
    BY <1>1, <1>2, <1>3 DEF Body

(* An overwrite adds a revision and leaves those there were.               *)
LEMMA OverwriteStep == ASSUME Inv, Overwrite PROVE Inv'
<1>1. PICK c \in Contents : revs' = Append(revs, c)
    BY DEF Overwrite
<1>2. revs \in Seq(Contents) /\ revs # << >>
    BY DEF Inv, TypeOK
<1>3. /\ Now \in Nat /\ Now >= 1 /\ Now' = Now + 1
      /\ revs' \in Seq(Contents) /\ revs' # << >>
      /\ \A i \in 1..Now : revs'[i] = revs[i]
    BY <1>1, <1>2 DEF Now
<1>4. UNCHANGED <<backend, pc, stat, tail, footer, reads, broke>>
    BY DEF Overwrite
<1>5. TypeOK'
  <2>1. stat \in [size: Nat, identity: 0..Now'] /\ tail.rev <= Now' /\ footer.rev <= Now'
    BY <1>3 DEF Inv, TypeOK, Body
  <2> QED
    BY <1>3, <1>4, <2>1 DEF Inv, TypeOK
<1>6. StatInv'
    BY <1>3, <1>4 DEF Inv, StatInv
<1>7. TailStart' = TailStart
    BY <1>4 DEF TailStart
<1>8. TailInv'
    BY <1>3, <1>4, <1>7 DEF Inv, TailInv
<1>9. pc \in {"layout", "footer", "parse", "ok"} =>
        /\ MetaLen' = MetaLen /\ MetaStart' = MetaStart
        /\ HasMagic' = HasMagic /\ WellFormed' = WellFormed /\ FitsTail' = FitsTail
        /\ Complete' = Complete
  <2> SUFFICES ASSUME pc \in {"layout", "footer", "parse", "ok"}
               PROVE  /\ MetaLen' = MetaLen /\ MetaStart' = MetaStart
                      /\ HasMagic' = HasMagic /\ WellFormed' = WellFormed
                      /\ FitsTail' = FitsTail /\ Complete' = Complete
    OBVIOUS
  <2>1. revs'[tail'.rev] = revs[tail.rev]
    BY <1>3, <1>4 DEF Inv, TailInv
  <2>2. MetaLen' = MetaLen /\ MetaStart' = MetaStart
    BY <2>1, <1>4 DEF MetaLen, MetaStart
  <2>3. HasMagic' = HasMagic
    BY <2>1, <1>4 DEF HasMagic
  <2> QED
    BY <2>2, <2>3, <1>4 DEF WellFormed, FitsTail, Complete
<1>10. LayoutInv'
    BY <1>4, <1>9 DEF Inv, LayoutInv
<1>11. FooterInv'
    BY <1>3, <1>4, <1>9 DEF Inv, FooterInv
<1> QED
    BY <1>5, <1>6, <1>8, <1>10, <1>11 DEF Inv

(* The answer to a HEAD.                                                   *)
LEMMA StatStep == ASSUME Inv, Stat PROVE Inv'
<1>1. /\ stat' = [size |-> Current.size, identity |-> Identity]
      /\ pc' = IF Current.size < Trailer THEN "failed" ELSE "tail"
      /\ UNCHANGED <<revs, backend, tail, footer, reads, broke>>
    BY DEF Stat
<1>2. /\ Now \in Nat /\ Now >= 1 /\ Current = revs[Now] /\ Current.size \in Nat
    BY CurrentFacts DEF Inv
<1>3. Now' = Now
    BY <1>1 DEF Now
<1>4. stat'.size = Current.size /\ stat'.identity = IF backend = "tagged" THEN Now ELSE 0
    BY <1>1 DEF Identity
<1>5. stat' \in [size: Nat, identity: 0..Now']
    BY <1>1, <1>2, <1>3 DEF Identity
<1>6. TypeOK'
    BY <1>1, <1>3, <1>5 DEF Inv, TypeOK
<1>7. StatInv'
  <2> SUFFICES ASSUME pc' = "tail" PROVE StatInv'
    BY <1>1 DEF StatInv
  <2>1. Current.size >= Trailer
    BY <1>1, <1>2 DEF Trailer
  <2> QED
    BY <1>1, <1>2, <1>3, <1>4, <2>1 DEF StatInv
<1>8. pc' \in {"failed", "tail"}
    BY <1>1
<1> QED
    BY <1>6, <1>7, <1>8 DEF Inv, TailInv, LayoutInv, FooterInv

(* A step to a phase of which the invariant says nothing.                  *)
LEMMA QuietStep ==
    ASSUME Inv, pc' \in {"stat", "restat", "failed"}, broke' \in BOOLEAN,
           UNCHANGED <<revs, backend, stat, tail, footer, reads>>
    PROVE  Inv'
<1>1. TypeOK'
    BY DEF Inv, TypeOK, Now
<1> QED
    BY <1>1 DEF Inv, StatInv, TailInv, LayoutInv, FooterInv

(* The tail arrives.                                                       *)
LEMMA ReadTailStep == ASSUME Inv, ReadTail PROVE Inv'
<1>1. /\ pc = "tail" /\ Matches /\ Readable(TailStart, stat.size)
      /\ tail' = Bytes(TailStart, stat.size) /\ reads' = 1 /\ pc' = "layout"
      /\ UNCHANGED <<revs, backend, stat, footer, broke>>
    BY DEF ReadTail, Readable
<1>2. Now \in Nat /\ Now >= 1 /\ Current = revs[Now] /\ Now' = Now
    BY <1>1, CurrentFacts DEF Inv, Now
<1>3. TailStart \in Nat /\ stat.size \in Nat /\ TailStart <= stat.size /\ TailStart' = TailStart
    BY <1>1, TailStartFacts DEF Inv, TailStart
<1>4. /\ tail' \in Body /\ tail'.rev = Now /\ tail'.start = TailStart
      /\ stat.size <= Current.size => tail'.len = stat.size - TailStart
    BY <1>1, <1>3, BytesFacts DEF Inv
<1>5. TypeOK'
  <2>1. tail'.rev <= Now
    BY <1>2, <1>4
  <2> QED
    BY <1>1, <1>2, <1>4, <2>1 DEF Inv, TypeOK
<1>6. StatInv'
    BY <1>1, <1>2 DEF Inv, StatInv
<1>7. backend = "tagged" => stat.identity = Now /\ stat.size = Current.size
    BY <1>1, <1>2 DEF Inv, StatInv, Matches
<1>8. backend = "local" => stat.size <= Current.size
    BY <1>1 DEF Readable
<1>9. backend \in {"tagged", "untagged", "local"}
    BY FooterReadAssumption DEF Inv, TypeOK
<1>10. backend # "untagged" \/ stat.size <= revs'[tail'.rev].size
           => tail'.len = stat.size - TailStart
    BY <1>1, <1>2, <1>3, <1>4, <1>7, <1>8, <1>9, CurrentFacts DEF Inv
<1>11. TailInv'
    BY <1>1, <1>2, <1>3, <1>4, <1>7, <1>10 DEF TailInv
<1> QED
    BY <1>1, <1>5, <1>6, <1>11 DEF Inv, LayoutInv, FooterInv

(* What is kept by a step that changes neither stat nor tail nor revs.     *)
LEMMA KeepLayout ==
    ASSUME Inv, UNCHANGED <<revs, backend, stat, tail>>,
           pc \in {"layout", "footer", "parse"}, pc' \in {"footer", "parse", "ok"}
    PROVE  StatInv' /\ TailInv'
BY DEF Inv, StatInv, TailInv, Now, TailStart

(* The metadata is in the tail.                                            *)
LEMMA LayoutInTailStep == ASSUME Inv, LayoutInTail PROVE Inv'
<1> DEFINE index == MetaStart - (stat.size - tail.len)
<1>1. /\ pc = "layout" /\ WellFormed /\ FitsTail
      /\ footer' = [rev |-> tail.rev, start |-> tail.start + index,
                    len |-> tail.len - index - Trailer]
      /\ pc' = "parse" /\ UNCHANGED <<revs, backend, stat, tail, reads, broke>>
    BY DEF LayoutInTail
<1>2. StatInv' /\ TailInv'
    BY <1>1, KeepLayout
<1>3. tail.rev \in 1..Now /\ reads = 1
    BY <1>1 DEF Inv, TailInv, LayoutInv
<1>4. MetaLen \in Nat
    BY <1>3, ContentFacts DEF Inv, MetaLen
<1>5. tail \in Body /\ stat.size \in Nat
    BY DEF Inv, TypeOK
<1>6. tail.rev \in Nat /\ tail.start \in Nat /\ tail.len \in Nat
    BY <1>5 DEF Body
<1>7. index \in Nat /\ tail.len - index - Trailer = MetaLen
  <2>1. MetaStart >= stat.size - tail.len /\ MetaStart = stat.size - (8 + MetaLen)
    BY <1>1 DEF FitsTail, MetaStart, Trailer
  <2> QED
    BY <2>1, <1>4, <1>5, <1>6 DEF Trailer
<1>8. /\ footer'.rev = tail.rev /\ footer'.start = tail.start + index
      /\ footer'.len = MetaLen /\ footer' \in Body
  <2>1. footer' = [rev |-> tail.rev, start |-> tail.start + index, len |-> MetaLen]
    BY <1>1, <1>7
  <2>2. tail.start + index \in Nat
    BY <1>6, <1>7
  <2> QED
    BY <2>1, <2>2, <1>4, <1>6 DEF Body
<1>9. Now' = Now /\ MetaLen' = MetaLen /\ MetaStart' = MetaStart /\ WellFormed' = WellFormed
    BY <1>1 DEF Now, MetaLen, MetaStart, WellFormed, HasMagic
<1>10. TypeOK'
  <2>1. tail.rev <= Now
    BY DEF Inv, TypeOK
  <2> QED
    BY <1>1, <1>8, <1>9, <2>1 DEF Inv, TypeOK
<1>11. LayoutInv'
    BY <1>1, <1>9 DEF LayoutInv
<1>12. FooterInv'
    BY <1>1, <1>3, <1>8, <1>9 DEF FooterInv
<1> QED
    BY <1>2, <1>10, <1>11, <1>12 DEF Inv

LEMMA LayoutBeyondTailStep == ASSUME Inv, LayoutBeyondTail PROVE Inv'
<1>1. /\ pc = "layout" /\ WellFormed /\ ~FitsTail /\ pc' = "footer"
      /\ UNCHANGED <<revs, backend, stat, tail, footer, reads, broke>>
    BY DEF LayoutBeyondTail
<1>2. StatInv' /\ TailInv'
    BY <1>1, KeepLayout
<1>3. TypeOK'
    BY <1>1 DEF Inv, TypeOK, Now
<1>4. WellFormed' = WellFormed /\ FitsTail' = FitsTail
    BY <1>1 DEF WellFormed, HasMagic, FitsTail, MetaStart, MetaLen
<1>5. LayoutInv'
    BY <1>1, <1>4 DEF Inv, LayoutInv
<1> QED
    BY <1>1, <1>2, <1>3, <1>5 DEF Inv, FooterInv

(* The second read brings the metadata.                                    *)
LEMMA ReadFooterStep == ASSUME Inv, ReadFooter PROVE Inv'
<1>1. /\ pc = "footer" /\ Matches
      /\ footer' = Bytes(MetaStart, stat.size - Trailer) /\ reads' = 2
      /\ pc' = "parse" /\ UNCHANGED <<revs, backend, stat, tail, broke>>
    BY DEF ReadFooter, Readable
<1>2. StatInv' /\ TailInv'
    BY <1>1, KeepLayout
<1>3. tail.rev \in 1..Now /\ WellFormed
    BY <1>1 DEF Inv, TailInv, LayoutInv
<1>4. MetaLen \in Nat /\ stat.size \in Nat
    BY <1>3, ContentFacts DEF Inv, MetaLen, TypeOK
<1>5. /\ MetaStart \in Nat /\ stat.size - Trailer \in Nat
      /\ MetaStart <= stat.size - Trailer
      /\ (stat.size - Trailer) - MetaStart = MetaLen
  <2>1. MetaStart >= 4 /\ MetaStart = stat.size - (8 + MetaLen)
    BY <1>3 DEF WellFormed, HeadMagic, MetaStart, Trailer
  <2> QED
    BY <2>1, <1>4 DEF Trailer
<1>6. Now \in Nat /\ Now >= 1 /\ Current = revs[Now] /\ Current.size \in Nat
    BY CurrentFacts DEF Inv
<1>7. /\ footer' \in Body /\ footer'.rev = Now /\ footer'.start = MetaStart
      /\ stat.size - Trailer <= Current.size => footer'.len = MetaLen
    BY <1>1, <1>5, BytesFacts DEF Inv
<1>8. Now = 1 => footer'.len = MetaLen
  <2>1. Now = 1 => stat.size = Current.size
    BY <1>1, <1>6 DEF Inv, StatInv
  <2>2. stat.size - Trailer <= stat.size
    BY <1>4 DEF Trailer
  <2> QED
    BY <2>1, <2>2, <1>7
<1>9. backend = "tagged" => stat.identity = Now
    BY <1>1, <1>6 DEF Inv, StatInv, Matches
<1>10. Now' = Now /\ MetaLen' = MetaLen /\ MetaStart' = MetaStart /\ WellFormed' = WellFormed
    BY <1>1 DEF Now, MetaLen, MetaStart, WellFormed, HasMagic
<1>11. TypeOK'
  <2>1. footer'.rev <= Now /\ reads' \in 0..2
    BY <1>1, <1>6, <1>7
  <2> QED
    BY <1>1, <1>7, <1>10, <2>1 DEF Inv, TypeOK
<1>12. LayoutInv'
    BY <1>1, <1>3, <1>10 DEF LayoutInv
<1>13. FooterInv'
    BY <1>1, <1>6, <1>7, <1>8, <1>9, <1>10 DEF FooterInv
<1> QED
    BY <1>2, <1>11, <1>12, <1>13 DEF Inv

LEMMA ParseOkStep == ASSUME Inv, ParseOk PROVE Inv'
<1>1. /\ pc = "parse" /\ Complete /\ pc' = "ok"
      /\ UNCHANGED <<revs, backend, stat, tail, footer, reads, broke>>
    BY DEF ParseOk
<1>2. StatInv' /\ TailInv'
    BY <1>1, KeepLayout
<1>3. TypeOK'
    BY <1>1 DEF Inv, TypeOK, Now
<1>4. /\ WellFormed' = WellFormed /\ Complete' = Complete
      /\ MetaLen' = MetaLen /\ MetaStart' = MetaStart /\ Now' = Now
    BY <1>1 DEF WellFormed, HasMagic, MetaStart, MetaLen, Complete, Now
<1>5. LayoutInv'
    BY <1>1, <1>4 DEF Inv, LayoutInv
<1>6. FooterInv'
    BY <1>1, <1>4 DEF Inv, FooterInv
<1> QED
    BY <1>2, <1>3, <1>5, <1>6 DEF Inv

LEMMA InitInv == Init => Inv
<1> SUFFICES ASSUME Init PROVE Inv
    OBVIOUS
<1>1. PICK c \in Contents : revs = <<c>>
    BY DEF Init
<1>2. revs \in Seq(Contents) /\ revs # << >> /\ Now = 1
    BY <1>1 DEF Now
<1>3. TypeOK
  <2>1. tail \in Body /\ tail.rev = 0 /\ footer \in Body /\ footer.rev = 0
    BY DEF Init, Empty, Body
  <2>2. stat \in [size: Nat, identity: 0..Now]
    BY <1>2 DEF Init
  <2>3. /\ backend \in Backends /\ pc = "stat" /\ reads = 0
    BY DEF Init
  <2>4. broke \in BOOLEAN
    BY DEF Init
  <2> QED
    BY <1>2, <2>1, <2>2, <2>3, <2>4 DEF TypeOK
<1> QED
    BY <1>3 DEF Init, Inv, StatInv, TailInv, LayoutInv, FooterInv

LEMMA StepInv == Inv /\ [Next]_vars => Inv'
<1> SUFFICES ASSUME Inv, [Next]_vars PROVE Inv'
    OBVIOUS
<1>1. CASE HeadFails
  <2>1. /\ pc' = "restat" /\ broke' = broke
        /\ UNCHANGED <<revs, backend, stat, tail, footer, reads>>
    BY <1>1 DEF HeadFails
  <2> QED
    BY <2>1, QuietStep DEF Inv, TypeOK
<1>2. CASE RequestFails
  <2>1. /\ pc' = "failed" /\ broke' = TRUE
        /\ UNCHANGED <<revs, backend, stat, tail, footer, reads>>
    BY <1>2 DEF RequestFails
  <2> QED
    BY <2>1, QuietStep
<1>3. CASE TailRefused \/ LayoutInvalid \/ FooterRefused \/ ParseFails
  <2>1. /\ pc' = "failed" /\ broke' = broke
        /\ UNCHANGED <<revs, backend, stat, tail, footer, reads>>
    BY <1>3 DEF TailRefused, LayoutInvalid, FooterRefused, ParseFails
  <2> QED
    BY <2>1, QuietStep DEF Inv, TypeOK
<1>4. CASE UNCHANGED vars
  <2>1. UNCHANGED <<revs, backend, pc, stat, tail, footer, reads, broke>>
    BY <1>4 DEF vars
  <2> QED
    BY <2>1 DEF Inv, TypeOK, StatInv, TailInv, LayoutInv, FooterInv, Now, TailStart, WellFormed,
                HasMagic, FitsTail, MetaStart, MetaLen, Complete
<1> QED
    BY <1>1, <1>2, <1>3, <1>4, OverwriteStep, StatStep, ReadTailStep, LayoutInTailStep,
       LayoutBeyondTailStep, ReadFooterStep, ParseOkStep DEF Next, Read

THEOREM Invariance == Spec => []Inv
<1> QED
    BY InitInv, StepInv, PTL DEF Spec

-----------------------------------------------------------------------------
(* FooterRead keeps its types: no length and no offset goes below zero,    *)
(* whatever the trailer claims (bytemass/remote.rs, footer_layout).        *)
THEOREM TypeCorrect == Spec => []TypeOK
<1>1. Inv => TypeOK
    BY DEF Inv
<1> QED
    BY <1>1, Invariance, PTL

(* The tail ends where its revision does, and the trailer in it is sound.  *)
LEMMA TailFacts ==
    ASSUME Inv, pc \in {"footer", "parse", "ok"}
    PROVE  /\ tail.rev \in 1..Now /\ revs[tail.rev].magic
           /\ tail.start + tail.len = revs[tail.rev].size
           /\ MetaLen = revs[tail.rev].meta /\ MetaLen \in Nat
           /\ revs[tail.rev].size \in Nat /\ stat.size \in Nat
           /\ tail.start \in Nat /\ tail.len \in Nat
           /\ MetaStart = stat.size - (8 + MetaLen) /\ MetaStart >= 4
<1>1. tail.rev \in 1..Now /\ WellFormed
    BY DEF Inv, TailInv, LayoutInv
<1>2. tail \in Body /\ stat.size \in Nat
    BY DEF Inv, TypeOK
<1>3. tail.start \in Nat /\ tail.len \in Nat
    BY <1>2 DEF Body
<1> QED
    BY <1>1, <1>2, <1>3, ContentFacts DEF Inv, WellFormed, HasMagic, MetaLen, MetaStart,
       HeadMagic, Trailer

(* An answer of a single read is the footer of the tail's revision.        *)
LEMMA SingleRead ==
    ASSUME Inv, pc \in {"parse", "ok"}, reads = 1
    PROVE  TrueFooter(footer) /\ footer.rev = tail.rev
<1>1. /\ footer.rev = tail.rev /\ footer.len = MetaLen
      /\ footer.start = tail.start + (MetaStart - (stat.size - tail.len))
    BY DEF Inv, FooterInv
<1>2. footer.start = revs[tail.rev].size - 8 - MetaLen
    BY <1>1, TailFacts
<1> QED
    BY <1>1, <1>2, TailFacts DEF TrueFooter, Trailer

(* With an ETag the answer of a footer read is of one revision, whatever   *)
(* is written between its requests (the If-Match of ObjectReader).         *)
THEOREM PinnedIsOneRevisionHolds == Spec => []PinnedIsOneRevision
<1>1. Inv => PinnedIsOneRevision
  <2> SUFFICES ASSUME Inv, pc = "ok", backend = "tagged"
               PROVE  /\ TrueFooter(footer) /\ tail.rev = footer.rev
                      /\ stat.size = revs[footer.rev].size
    BY DEF PinnedIsOneRevision
  <2>1. stat.size = revs[stat.identity].size /\ tail.rev = stat.identity
    BY DEF Inv, StatInv, TailInv
  <2>2. CASE reads = 1
    BY <2>1, <2>2, SingleRead
  <2>3. CASE reads = 2
    <3>1. footer.rev = stat.identity /\ footer.start = MetaStart /\ footer.len = MetaLen
      BY <2>3 DEF Inv, FooterInv, Complete
    <3>2. footer.start = revs[tail.rev].size - 8 - MetaLen
      BY <3>1, <2>1, TailFacts
    <3> QED
      BY <2>1, <3>1, <3>2, TailFacts DEF TrueFooter, Trailer
  <2>4. reads \in 1..2
    BY DEF Inv, FooterInv
  <2> QED
    BY <2>2, <2>3, <2>4
<1> QED
    BY <1>1, Invariance, PTL

(* Without an ETag an answer of a single range read is still the footer of *)
(* one revision, and of a local file it has that revision's size.          *)
THEOREM SingleReadIsOneRevisionHolds == Spec => []SingleReadIsOneRevision
<1>1. Inv => SingleReadIsOneRevision
  <2> SUFFICES ASSUME Inv, pc = "ok", reads = 1
               PROVE  /\ TrueFooter(footer)
                      /\ backend # "untagged" => stat.size = revs[footer.rev].size
    BY DEF SingleReadIsOneRevision
  <2>1. TrueFooter(footer) /\ footer.rev = tail.rev
    BY SingleRead
  <2>2. ASSUME backend # "untagged" PROVE stat.size = revs[tail.rev].size
    <3>1. tail.start = TailStart /\ tail.len = stat.size - TailStart
      BY <2>2 DEF Inv, TailInv
    <3> QED
      BY <3>1, TailFacts, TailStartFacts DEF Inv
  <2> QED
    BY <2>1, <2>2
<1> QED
    BY <1>1, Invariance, PTL

(* A footer the window covers is never asked for twice (FOOTER_WINDOW,     *)
(* bytemass/remote.rs), unless an untagged object shrank.                  *)
THEOREM OneRequestHolds == Spec => []OneRequest
<1>1. Inv => OneRequest
  <2> SUFFICES ASSUME Inv, pc = "footer", backend # "untagged"
               PROVE  MetaLen + Trailer > Window
    BY DEF OneRequest
  <2>1. tail.start = TailStart /\ tail.len = stat.size - TailStart /\ ~FitsTail
    BY DEF Inv, TailInv, LayoutInv
  <2>2. MetaStart < stat.size - tail.len /\ Window \in Nat
    BY <2>1, TailFacts, FooterReadAssumption DEF FitsTail
  <2> QED
    BY <2>1, <2>2, TailFacts, TailStartFacts DEF TailStart, Trailer, Inv
<1> QED
    BY <1>1, Invariance, PTL

-----------------------------------------------------------------------------
(* A failure has a cause in the request or in the object.                  *)
Cause == broke \/ Now > 1 \/ ~revs[1].magic \/ revs[1].size < HeadMagic + revs[1].meta + Trailer

(* With one revision and no failed request, nothing is refused.            *)
LEMMA NothingRefused ==
    ASSUME Inv, ~Cause
    PROVE  ~(TailRefused \/ LayoutInvalid \/ FooterRefused \/ ParseFails)
<1>1. /\ Now = 1 /\ Current = revs[1] /\ revs[1].magic
      /\ revs[1].size \in Nat /\ revs[1].meta \in Nat
      /\ revs[1].size >= 4 + revs[1].meta + 8
  <2>1. Now \in Nat /\ Now >= 1 /\ Current = revs[Now]
    BY CurrentFacts DEF Inv
  <2>2. Now = 1
    BY <2>1 DEF Cause
  <2>3. 1 \in 1..Now
    BY <2>2
  <2>4. revs[1].size \in Nat /\ revs[1].meta \in Nat
    BY <2>3, ContentFacts DEF Inv
  <2>5. revs[1].magic /\ ~(revs[1].size < HeadMagic + revs[1].meta + Trailer)
    BY DEF Cause
  <2>6. revs[1].size >= 4 + revs[1].meta + 8
    BY <2>4, <2>5 DEF HeadMagic, Trailer
  <2> QED
    BY <2>1, <2>2, <2>4, <2>5, <2>6
<1>2. pc \in {"tail", "layout", "footer", "parse", "ok"} =>
        /\ stat.size = revs[1].size /\ Matches
        /\ TailStart \in Nat /\ TailStart < stat.size
  <2> SUFFICES ASSUME pc \in {"tail", "layout", "footer", "parse", "ok"}
               PROVE  /\ stat.size = revs[1].size /\ Matches
                      /\ TailStart \in Nat /\ TailStart < stat.size
    OBVIOUS
  <2>1. /\ stat.size = revs[1].size /\ stat.size >= Trailer
        /\ backend = "tagged" => stat.identity \in 1..Now
        /\ backend # "tagged" => stat.identity = 0
    BY <1>1 DEF Inv, StatInv
  <2>2. Matches
    BY <1>1, <2>1 DEF Matches
  <2> QED
    BY <2>1, <2>2, TailStartFacts DEF Inv
<1>3. ~TailRefused
  <2> SUFFICES ASSUME pc = "tail" PROVE Readable(TailStart, stat.size)
    BY DEF TailRefused
  <2> QED
    BY <1>1, <1>2 DEF Readable
<1>4. pc \in {"layout", "footer", "parse", "ok"} =>
        /\ tail.rev = 1 /\ tail.start = TailStart /\ tail.len = stat.size - TailStart
        /\ MetaLen = revs[1].meta
    BY <1>1, <1>2 DEF Inv, TailInv, MetaLen
<1>5. ~LayoutInvalid
  <2> SUFFICES ASSUME pc = "layout" PROVE WellFormed
    BY DEF LayoutInvalid
  <2>1. HasMagic
    BY <1>1, <1>2, <1>4 DEF HasMagic
  <2>2. tail.len >= 8 /\ tail.len <= stat.size
    BY <1>1, <1>2, <1>4, FooterReadAssumption DEF TailStart, Trailer
  <2>3. MetaStart >= 4
    BY <1>1, <1>2, <1>4 DEF MetaStart, Trailer
  <2> QED
    BY <2>1, <2>2, <2>3 DEF WellFormed, HeadMagic, Trailer
<1>6. ~FooterRefused
  <2> SUFFICES ASSUME pc = "footer" PROVE Readable(MetaStart, stat.size - Trailer)
    BY DEF FooterRefused
  <2>1. MetaStart < stat.size /\ stat.size - Trailer <= stat.size
    BY <1>1, <1>2, <1>4 DEF MetaStart, Trailer
  <2> QED
    BY <1>1, <1>2, <2>1 DEF Readable
<1>7. ~ParseFails
  <2> SUFFICES ASSUME pc = "parse" PROVE Complete /\ TrueFooter(footer)
    BY DEF ParseFails
  <2>1. footer.rev \in 1..Now /\ reads \in 1..2
    BY DEF Inv, FooterInv
  <2>2. CASE reads = 1
    BY <2>2, SingleRead DEF Inv, FooterInv, Complete
  <2>3. CASE reads = 2
    <3>1. footer.rev = 1 /\ footer.start = MetaStart /\ footer.len = MetaLen
      BY <1>1, <2>1, <2>3 DEF Inv, FooterInv
    <3>2. MetaStart = revs[1].size - 8 - revs[1].meta
      BY <1>1, <1>2, <1>4 DEF MetaStart, Trailer
    <3> QED
      BY <1>1, <1>4, <3>1, <3>2 DEF Complete, TrueFooter, Trailer
  <2> QED
    BY <2>1, <2>2, <2>3
<1> QED
    BY <1>3, <1>5, <1>6, <1>7

LEMMA CauseStep ==
    ASSUME Inv, pc = "failed" => Cause, [Next]_vars
    PROVE  pc' = "failed" => Cause'
<1> SUFFICES ASSUME pc' = "failed" PROVE Cause'
    OBVIOUS
<1>1. CASE Overwrite
  <2>1. PICK c \in Contents : revs' = Append(revs, c)
    BY <1>1 DEF Overwrite
  <2>2. revs \in Seq(Contents) /\ revs # << >>
    BY DEF Inv, TypeOK
  <2>3. Now' > 1
    BY <2>1, <2>2 DEF Now
  <2> QED
    BY <2>3 DEF Cause
<1>2. CASE RequestFails
  <2>1. broke' = TRUE
    BY <1>2 DEF RequestFails
  <2> QED
    BY <2>1 DEF Cause
<1>3. CASE Stat
  <2>1. revs' = revs /\ Current.size < Trailer
    BY <1>3 DEF Stat
  <2>2. Now \in Nat /\ Now >= 1 /\ Current = revs[Now] /\ Now' = Now
    BY <2>1, CurrentFacts DEF Inv, Now
  <2>3. CASE Now > 1
    BY <2>2, <2>3 DEF Cause
  <2>4. CASE Now = 1
    <3>1. 1 \in 1..Now
      BY <2>4
    <3>2. revs[1].size \in Nat /\ revs[1].meta \in Nat /\ revs[1].size < 8
      BY <2>1, <2>2, <2>4, <3>1, ContentFacts DEF Inv, Trailer
    <3>3. revs'[1].size < HeadMagic + revs'[1].meta + Trailer
      BY <2>1, <3>2 DEF HeadMagic, Trailer
    <3> QED
      BY <3>3 DEF Cause
  <2> QED
    BY <2>2, <2>3, <2>4
<1>4. CASE TailRefused \/ LayoutInvalid \/ FooterRefused \/ ParseFails
  <2>1. revs' = revs /\ broke' = broke
    BY <1>4 DEF TailRefused, LayoutInvalid, FooterRefused, ParseFails
  <2>2. Cause
    BY <1>4, NothingRefused
  <2> QED
    BY <2>1, <2>2 DEF Cause, Now
<1>5. CASE HeadFails \/ ReadTail \/ LayoutInTail \/ LayoutBeyondTail \/ ReadFooter \/ ParseOk
    BY <1>5 DEF HeadFails, ReadTail, LayoutInTail, LayoutBeyondTail, ReadFooter, ParseOk
<1>6. CASE UNCHANGED vars
    BY <1>6 DEF vars, Cause, Now
<1> QED
    BY <1>1, <1>2, <1>3, <1>4, <1>5, <1>6 DEF Next, Read

(* A Parquet object that nobody replaces is read, for every window and     *)
(* every size of the file and of its metadata, unless a request fails.     *)
THEOREM FailsForAReasonHolds == Spec => []FailsForAReason
<1> DEFINE Caused == pc = "failed" => Cause
<1>1. Init => Caused
    BY DEF Init
<1>2. Inv /\ Caused /\ [Next]_vars => Caused'
    BY CauseStep
<1>3. Caused => FailsForAReason
    BY DEF Cause, FailsForAReason
<1> HIDE DEF Caused
<1> QED
    BY <1>1, <1>2, <1>3, Invariance, PTL DEF Spec
=============================================================================
