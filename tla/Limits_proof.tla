---------------------------- MODULE Limits_proof ----------------------------
(***************************************************************************)
(* Theorems about the two limits the tool keeps to: the stores a lake holds*)
(* (StoreRegistry, for any openers, leases, buckets and limit) and the pace*)
(* records leave at (RateLimit, for any interval, kinds and lateness).     *)
(***************************************************************************)
EXTENDS StoreRegistry, RateLimit, FiniteSetTheorems, TLAPS

-----------------------------------------------------------------------------
(* The registry of stores.                                                 *)


Size == Cardinality(DOMAIN registry)

(* Inside the critical section is who holds the lock, and no one else.     *)
LockInv == \A c \in Opener : at[c] # "out" <=> lock = c

(* What the registry holds under a key was built for it since the last     *)
(* emptying; every emptying was of stores that had been built.             *)
RegistryInv ==
    /\ IsFiniteSet(DOMAIN registry)
    /\ Size <= Limit /\ Size + epoch <= builds
    /\ \A k \in DOMAIN registry : /\ registry[k].bucket = k[1] /\ registry[k].lease = k[2]
                                  /\ registry[k].epoch = epoch

(* What the lookup found still holds when the emptying and the build run.  *)
SectionInv ==
    \A c \in Opener : /\ at[c] = "full" => Size >= Limit
                      /\ at[c] = "build" => Size < Limit /\ want[c] \notin DOMAIN registry

(* A reader's store is of what it asked for; one built since the last      *)
(* emptying is the registered one.                                         *)
ReaderInv ==
    \A c \in Opener : reading[c] # NoStore =>
        /\ reading[c].bucket = want[c][1] /\ reading[c].lease = want[c][2]
        /\ reading[c].epoch <= epoch
        /\ reading[c].epoch = epoch =>
               want[c] \in DOMAIN registry /\ registry[want[c]] = reading[c]

Inv == RegistryTypeOK /\ LockInv /\ RegistryInv /\ SectionInv /\ ReaderInv /\ BuiltOnce

-----------------------------------------------------------------------------
LEMMA KeyFacts ==
    ASSUME RegistryTypeOK, NEW c \in Opener
    PROVE  KeyOf(c) = want[c] /\ want[c] \in Key
<1>1. want[c] \in Key
    BY DEF RegistryTypeOK
<1> QED
    BY <1>1 DEF Key, KeyOf, StoreKey

LEMMA SizeFacts ==
    ASSUME Inv
    PROVE  /\ Size \in Nat /\ Limit \in Nat /\ Limit >= 1 /\ MaxBuilds \in Nat
           /\ builds \in Nat /\ epoch \in Nat /\ epoch <= builds /\ builds <= MaxBuilds
<1>1. Size \in Nat
    BY FS_CardinalityType DEF Inv, RegistryInv, Size
<1> QED
    BY <1>1, StoreRegistryAssumption DEF Inv, RegistryTypeOK

LEMMA StoreFacts ==
    ASSUME NEW s \in Store
    PROVE  s.epoch \in Nat
BY StoreRegistryAssumption DEF Store

LEMMA InitInv == RegistryInit => Inv
<1> SUFFICES ASSUME RegistryInit PROVE Inv
    OBVIOUS
<1>1. DOMAIN registry = {}
    BY DEF RegistryInit
<1>2. IsFiniteSet(DOMAIN registry) /\ Size = 0
    BY <1>1, FS_EmptySet DEF Size
<1>3. RegistryTypeOK
    BY <1>1, StoreRegistryAssumption DEF RegistryInit, RegistryTypeOK
<1>4. LockInv
    BY StoreRegistryAssumption DEF RegistryInit, LockInv
<1>5. RegistryInv
    BY <1>1, <1>2, StoreRegistryAssumption DEF RegistryInit, RegistryInv
<1>6. SectionInv /\ ReaderInv /\ BuiltOnce
    BY DEF RegistryInit, SectionInv, ReaderInv, BuiltOnce
<1> QED
    BY <1>3, <1>4, <1>5, <1>6 DEF Inv

(* An opener enters: it holds the lock, and gives up its reader.           *)
LEMMA OpenStep == ASSUME Inv, NEW c \in Opener, Open(c) PROVE Inv'
<1>1. PICK k \in Key : want' = [want EXCEPT ![c] = k]
    BY DEF Open
<1>2. /\ at[c] = "out" /\ lock = Nobody /\ lock' = c
      /\ at' = [at EXCEPT ![c] = "lookup"] /\ reading' = [reading EXCEPT ![c] = NoStore]
      /\ UNCHANGED <<registry, builds, epoch>>
    BY DEF Open, Free
<1>3. RegistryTypeOK'
  <2>1. at' \in [Opener -> {"out", "lookup", "full", "build"}] /\ want' \in [Opener -> Key]
        /\ reading' \in [Opener -> Store \cup {NoStore}]
    BY <1>1, <1>2 DEF Inv, RegistryTypeOK
  <2> QED
    BY <1>2, <2>1 DEF Inv, RegistryTypeOK
<1>4. LockInv'
    BY <1>2, StoreRegistryAssumption DEF Inv, RegistryTypeOK, LockInv
<1>5. Size' = Size
    BY <1>2 DEF Size
<1>6. RegistryInv'
    BY <1>2, <1>5 DEF Inv, RegistryInv
<1>7. SectionInv'
    BY <1>1, <1>2, <1>5 DEF Inv, RegistryTypeOK, SectionInv
<1>8. ReaderInv'
    BY <1>1, <1>2 DEF Inv, RegistryTypeOK, ReaderInv
<1>9. BuiltOnce'
    BY <1>1, <1>2 DEF Inv, RegistryTypeOK, BuiltOnce
<1> QED
    BY <1>3, <1>4, <1>6, <1>7, <1>8, <1>9 DEF Inv

(* An opener leaves the critical section with the registered store.        *)
LEMMA ReuseStep == ASSUME Inv, NEW c \in Opener, Reuse(c) PROVE Inv'
<1>1. /\ at[c] = "lookup" /\ want[c] \in DOMAIN registry
      /\ reading' = [reading EXCEPT ![c] = registry[want[c]]]
      /\ at' = [at EXCEPT ![c] = "out"] /\ lock' = Nobody
      /\ UNCHANGED <<registry, want, builds, epoch>>
    BY KeyFacts DEF Reuse, Hit, Inv
<1>2. registry[want[c]] \in Store
    BY <1>1 DEF Inv, RegistryTypeOK
<1>3. RegistryTypeOK'
  <2>1. at' \in [Opener -> {"out", "lookup", "full", "build"}]
        /\ reading' \in [Opener -> Store \cup {NoStore}]
    BY <1>1, <1>2 DEF Inv, RegistryTypeOK
  <2> QED
    BY <1>1, <2>1 DEF Inv, RegistryTypeOK
<1>4. LockInv'
    BY <1>1, StoreRegistryAssumption DEF Inv, RegistryTypeOK, LockInv
<1>5. Size' = Size
    BY <1>1 DEF Size
<1>6. RegistryInv'
    BY <1>1, <1>5 DEF Inv, RegistryInv
<1>7. SectionInv'
    BY <1>1, <1>5 DEF Inv, RegistryTypeOK, SectionInv
<1>8. /\ registry[want[c]].bucket = want[c][1] /\ registry[want[c]].lease = want[c][2]
      /\ registry[want[c]].epoch = epoch /\ epoch \in Nat
    BY <1>1, SizeFacts DEF Inv, RegistryInv
<1>9. ReaderInv'
  <2> SUFFICES ASSUME NEW d \in Opener, reading'[d] # NoStore
               PROVE  /\ reading'[d].bucket = want'[d][1] /\ reading'[d].lease = want'[d][2]
                      /\ reading'[d].epoch <= epoch'
                      /\ reading'[d].epoch = epoch' =>
                          want'[d] \in DOMAIN registry' /\ registry'[want'[d]] = reading'[d]
    BY DEF ReaderInv
  <2>1. CASE d = c
    BY <1>1, <1>8, <2>1 DEF Inv, RegistryTypeOK
  <2>2. CASE d # c
    BY <1>1, <2>2 DEF Inv, RegistryTypeOK, ReaderInv
  <2> QED
    BY <2>1, <2>2
<1>10. BuiltOnce'
  <2>1. \A d \in Opener : d # c => reading'[d] = reading[d]
    BY <1>1 DEF Inv, RegistryTypeOK
  <2>2. reading'[c] = registry[want[c]]
    BY <1>1 DEF Inv, RegistryTypeOK
  <2>3. ASSUME NEW d \in Opener, d # c, reading[d] # NoStore, want[d] = want[c],
               reading[d].epoch = epoch
        PROVE  reading[d] = registry[want[c]]
    BY <2>3 DEF Inv, ReaderInv
  <2> QED
    BY <1>1, <1>8, <2>1, <2>2, <2>3 DEF Inv, BuiltOnce
<1> QED
    BY <1>3, <1>4, <1>6, <1>7, <1>9, <1>10 DEF Inv

LEMMA MissStep == ASSUME Inv, NEW c \in Opener, Miss(c) PROVE Inv'
<1>1. /\ at[c] = "lookup" /\ want[c] \notin DOMAIN registry
      /\ at' = [at EXCEPT ![c] = IF Size >= Limit THEN "full" ELSE "build"]
      /\ UNCHANGED <<registry, lock, want, reading, builds, epoch>>
    BY KeyFacts DEF Miss, Hit, Inv, IsFull, Size
<1>2. Size' = Size
    BY <1>1 DEF Size
<1>3. RegistryTypeOK'
  <2>1. at' \in [Opener -> {"out", "lookup", "full", "build"}]
    BY <1>1 DEF Inv, RegistryTypeOK
  <2> QED
    BY <1>1, <2>1 DEF Inv, RegistryTypeOK
<1>4. LockInv'
    BY <1>1 DEF Inv, RegistryTypeOK, LockInv
<1>5. RegistryInv' /\ ReaderInv' /\ BuiltOnce'
    BY <1>1, <1>2 DEF Inv, RegistryInv, ReaderInv, BuiltOnce
<1>6. SectionInv'
  <2>1. at' \in [Opener -> {"out", "lookup", "full", "build"}]
    BY <1>3 DEF RegistryTypeOK
  <2>2. at'[c] = IF Size >= Limit THEN "full" ELSE "build"
    BY <1>1 DEF Inv, RegistryTypeOK
  <2>3. \A d \in Opener : d # c => at'[d] = at[d]
    BY <1>1 DEF Inv, RegistryTypeOK
  <2> QED
    BY <1>1, <1>2, <2>2, <2>3, SizeFacts DEF Inv, SectionInv
<1> QED
    BY <1>3, <1>4, <1>5, <1>6 DEF Inv

(* The registry is emptied: no one else is in the section to have seen it. *)
LEMMA ClearStep == ASSUME Inv, NEW c \in Opener, Clear(c) PROVE Inv'
<1>1. /\ at[c] = "full" /\ registry' = << >> /\ epoch' = epoch + 1
      /\ at' = [at EXCEPT ![c] = "build"]
      /\ UNCHANGED <<lock, want, reading, builds>>
    BY DEF Clear
<1>2. DOMAIN registry' = {}
    BY <1>1
<1>3. IsFiniteSet(DOMAIN registry') /\ Size' = 0
    BY <1>2, FS_EmptySet DEF Size
<1>4. epoch + 1 <= builds
    BY <1>1, SizeFacts DEF Inv, RegistryInv, SectionInv
<1>5. RegistryTypeOK'
  <2>1. at' \in [Opener -> {"out", "lookup", "full", "build"}]
    BY <1>1 DEF Inv, RegistryTypeOK
  <2>2. epoch' \in 0..builds'
    BY <1>1, <1>4, SizeFacts
  <2> QED
    BY <1>1, <1>2, <2>1, <2>2 DEF Inv, RegistryTypeOK
<1>6. LockInv'
    BY <1>1 DEF Inv, RegistryTypeOK, LockInv
<1>7. RegistryInv'
  <2>1. Size' <= Limit /\ Size' + epoch' <= builds'
    BY <1>1, <1>3, <1>4, SizeFacts
  <2> QED
    BY <1>2, <1>3, <2>1 DEF RegistryInv
<1>8. SectionInv'
  <2>1. \A d \in Opener : d # c => at[d] = "out"
    BY <1>1 DEF Inv, LockInv
  <2>2. \A d \in Opener : at'[d] = IF d = c THEN "build" ELSE at[d]
    BY <1>1 DEF Inv, RegistryTypeOK
  <2>3. Size' < Limit
    BY <1>3, SizeFacts
  <2> QED
    BY <1>2, <2>1, <2>2, <2>3 DEF SectionInv
<1>9. ReaderInv'
  <2> SUFFICES ASSUME NEW d \in Opener, reading[d] # NoStore
               PROVE  /\ reading[d].bucket = want[d][1] /\ reading[d].lease = want[d][2]
                      /\ reading[d].epoch <= epoch + 1 /\ reading[d].epoch # epoch + 1
    BY <1>1 DEF ReaderInv
  <2>1. reading[d] \in Store
    BY DEF Inv, RegistryTypeOK
  <2>2. reading[d].epoch \in Nat /\ reading[d].epoch <= epoch /\ epoch \in Nat
    BY <2>1, StoreFacts, SizeFacts DEF Inv, ReaderInv
  <2>3. reading[d].epoch <= epoch + 1 /\ reading[d].epoch # epoch + 1
    BY <2>2
  <2> QED
    BY <2>3 DEF Inv, ReaderInv
<1>10. BuiltOnce'
    BY <1>1 DEF Inv, BuiltOnce
<1> QED
    BY <1>5, <1>6, <1>7, <1>8, <1>9, <1>10 DEF Inv

LEMMA BuildFailsStep == ASSUME Inv, NEW c \in Opener, BuildFails(c) PROVE Inv'
<1>1. /\ at[c] = "build" /\ at' = [at EXCEPT ![c] = "out"] /\ lock' = Nobody
      /\ UNCHANGED <<registry, want, reading, builds, epoch>>
    BY DEF BuildFails
<1>2. Size' = Size
    BY <1>1 DEF Size
<1>3. RegistryTypeOK'
  <2>1. at' \in [Opener -> {"out", "lookup", "full", "build"}]
    BY <1>1 DEF Inv, RegistryTypeOK
  <2> QED
    BY <1>1, <2>1 DEF Inv, RegistryTypeOK
<1>4. LockInv'
    BY <1>1, StoreRegistryAssumption DEF Inv, RegistryTypeOK, LockInv
<1>5. RegistryInv' /\ ReaderInv' /\ BuiltOnce'
    BY <1>1, <1>2 DEF Inv, RegistryInv, ReaderInv, BuiltOnce
<1>6. SectionInv'
    BY <1>1, <1>2 DEF Inv, RegistryTypeOK, SectionInv
<1> QED
    BY <1>3, <1>4, <1>5, <1>6 DEF Inv

(* A store is built, registered and handed out.                            *)
LEMMA BuildStep == ASSUME Inv, NEW c \in Opener, Build(c) PROVE Inv'
<1> DEFINE s == [bucket |-> want[c][1], lease |-> want[c][2],
                 build |-> builds + 1, epoch |-> epoch]
<1>1. /\ at[c] = "build" /\ builds < MaxBuilds
      /\ registry' = [k \in DOMAIN registry \cup {want[c]} |->
                          IF k = want[c] THEN s ELSE registry[k]]
      /\ reading' = [reading EXCEPT ![c] = s]
      /\ builds' = builds + 1 /\ at' = [at EXCEPT ![c] = "out"] /\ lock' = Nobody
      /\ UNCHANGED <<want, epoch>>
    BY KeyFacts DEF Build, Inv
<1>2. want[c] \in Key /\ want[c] \notin DOMAIN registry /\ Size < Limit
    BY <1>1, KeyFacts DEF Inv, SectionInv
<1>3. s \in Store
  <2>1. want[c][1] \in Bucket /\ want[c][2] \in Lease
    BY <1>2 DEF Key
  <2>2. builds + 1 \in 1..MaxBuilds /\ epoch \in 0..MaxBuilds
    BY <1>1, SizeFacts
  <2> QED
    BY <2>1, <2>2 DEF Store
<1>4. s.bucket = want[c][1] /\ s.lease = want[c][2] /\ s.epoch = epoch
    OBVIOUS
<1> HIDE DEF s
<1>5. DOMAIN registry' = DOMAIN registry \cup {want[c]} /\ registry'[want[c]] = s
      /\ \A k \in DOMAIN registry : registry'[k] = registry[k]
    BY <1>1, <1>2
<1>6. IsFiniteSet(DOMAIN registry') /\ Size' = Size + 1
    BY <1>2, <1>5, FS_AddElement DEF Inv, RegistryInv, Size
<1>7. reading'[c] = s /\ \A d \in Opener : d # c => reading'[d] = reading[d]
    BY <1>1 DEF Inv, RegistryTypeOK
<1>8. RegistryTypeOK'
  <2>1. DOMAIN registry' \subseteq Key /\ \A k \in DOMAIN registry' : registry'[k] \in Store
    BY <1>2, <1>3, <1>5 DEF Inv, RegistryTypeOK
  <2>2. at' \in [Opener -> {"out", "lookup", "full", "build"}]
        /\ reading' \in [Opener -> Store \cup {NoStore}]
    BY <1>1, <1>3 DEF Inv, RegistryTypeOK
  <2>3. builds' \in 0..MaxBuilds /\ epoch' \in 0..builds'
    BY <1>1, SizeFacts
  <2> QED
    BY <1>1, <2>1, <2>2, <2>3 DEF Inv, RegistryTypeOK
<1>9. LockInv'
    BY <1>1, StoreRegistryAssumption DEF Inv, RegistryTypeOK, LockInv
<1>10. RegistryInv'
  <2>1. Size' <= Limit /\ Size' + epoch' <= builds'
    BY <1>1, <1>2, <1>6, SizeFacts DEF Inv, RegistryInv
  <2>2. \A k \in DOMAIN registry' : /\ registry'[k].bucket = k[1] /\ registry'[k].lease = k[2]
                                    /\ registry'[k].epoch = epoch'
    BY <1>1, <1>4, <1>5 DEF Inv, RegistryInv
  <2> QED
    BY <1>6, <2>1, <2>2 DEF RegistryInv
<1>11. SectionInv'
  <2>1. \A d \in Opener : at'[d] = "out"
    BY <1>1 DEF Inv, LockInv, RegistryTypeOK
  <2> QED
    BY <2>1 DEF SectionInv
<1>12. ReaderInv'
  <2> SUFFICES ASSUME NEW d \in Opener, reading'[d] # NoStore
               PROVE  /\ reading'[d].bucket = want[d][1] /\ reading'[d].lease = want[d][2]
                      /\ reading'[d].epoch <= epoch
                      /\ reading'[d].epoch = epoch =>
                          want[d] \in DOMAIN registry' /\ registry'[want[d]] = reading'[d]
    BY <1>1 DEF ReaderInv
  <2>1. CASE d = c
    BY <1>4, <1>5, <1>7, <2>1, SizeFacts
  <2>2. CASE d # c
    BY <1>5, <1>7, <2>2 DEF Inv, ReaderInv
  <2> QED
    BY <2>1, <2>2
<1>13. BuiltOnce'
  <2>1. ASSUME NEW d \in Opener, d # c, reading[d] # NoStore, want[d] = want[c]
        PROVE  reading[d].epoch # epoch
    BY <1>2, <2>1 DEF Inv, ReaderInv
  <2> QED
    BY <1>1, <1>4, <1>7, <2>1 DEF Inv, BuiltOnce
<1> QED
    BY <1>8, <1>9, <1>10, <1>11, <1>12, <1>13 DEF Inv

LEMMA StepInv == Inv /\ [RegistryNext]_registryVars => Inv'
<1> SUFFICES ASSUME Inv, [RegistryNext]_registryVars PROVE Inv'
    OBVIOUS
<1>1. CASE RegistryNext
    BY <1>1, OpenStep, ReuseStep, MissStep, ClearStep, BuildFailsStep, BuildStep DEF RegistryNext
<1>2. CASE UNCHANGED registryVars
    BY <1>2 DEF registryVars, Inv, RegistryTypeOK, LockInv, RegistryInv, SectionInv, ReaderInv,
                BuiltOnce, Size
<1> QED
    BY <1>1, <1>2

THEOREM Invariance == RegistrySpec => []Inv
<1> QED
    BY InitInv, StepInv, PTL DEF RegistrySpec

-----------------------------------------------------------------------------
(* The registry keeps its types; it is emptied no more often than stores   *)
(* were built (shared_store).                                              *)
THEOREM TypeCorrect == RegistrySpec => []RegistryTypeOK
<1>1. Inv => RegistryTypeOK
    BY DEF Inv
<1> QED
    BY <1>1, Invariance, PTL

(* The registry never grows past STORE_LIMIT, whoever queues for it.       *)
THEOREM RegistryBoundedHolds == RegistrySpec => []RegistryBounded
<1>1. Inv => RegistryBounded
    BY DEF Inv, RegistryInv, RegistryBounded, Size
<1> QED
    BY <1>1, Invariance, PTL

(* Every reader has the bucket and the lease it asked with, whoever built  *)
(* its store and whatever was emptied since (with_lease, shared_store).    *)
THEOREM OwnLeaseHolds == RegistrySpec => []OwnLease
<1>1. Inv => OwnLease
    BY DEF Inv, ReaderInv, OwnLease
<1> QED
    BY <1>1, Invariance, PTL

(* Between two emptyings a key is built once and its readers share it.     *)
THEOREM BuiltOnceHolds == RegistrySpec => []BuiltOnce
<1>1. Inv => BuiltOnce
    BY DEF Inv
<1> QED
    BY <1>1, Invariance, PTL

-----------------------------------------------------------------------------
(* The pacing filter.                                                      *)


Record == [kind : Kinds, slot : Nat, time : Nat]
InHand == pc \in {"sleep", "write"}

(* The next slot of a kind lies an interval after each slot given to it,   *)
(* written or in hand.                                                     *)
SlotInv ==
    /\ InHand => next_times[current] = slot + Interval
    /\ pc = "write" => now >= slot
    /\ \A i \in 1..Len(out) : /\ out[i].time >= out[i].slot
                              /\ next_times[out[i].kind] # Unset
                              /\ next_times[out[i].kind] >= out[i].slot + Interval
                              /\ InHand /\ out[i].kind = current
                                     => slot >= out[i].slot + Interval
    /\ \A i, j \in 1..Len(out) :
         i < j /\ out[i].kind = out[j].kind => out[j].slot >= out[i].slot + Interval

(* No slot is given out more than an interval ahead, and a kind that has a *)
(* slot had a record.                                                      *)
WaitInv ==
    /\ \A k \in Kinds :
         next_times[k] # Unset /\ ~(pc = "sleep" /\ k = current) => next_times[k] <= now + Interval
    /\ pc = "sleep" => slot <= now + Interval
    /\ pc # "exited" =>
         \A k \in Kinds :
           next_times[k] # Unset => \/ \E i \in 1..Len(out) : out[i].kind = k
                                    \/ pc = "write" /\ k = current
    /\ pc = "sleep" => \E i \in 1..Len(out) : out[i].kind = current

PacingInv == TypeOK /\ SlotInv /\ WaitInv

LEMMA PacingTypes ==
    ASSUME TypeOK, Next
    PROVE  TypeOK'
<1>1. CASE Arrive
  <2>1. PICK k \in Kinds : input' = Append(input, k)
    BY <1>1 DEF Arrive
  <2>2. input' \in Seq(Kinds)
    BY <2>1 DEF TypeOK
  <2>3. arrived' \in 0..MaxLines
    BY <1>1, RateLimitAssumption DEF Arrive, TypeOK
  <2>4. UNCHANGED <<now, next_times, eof, pc, current, slot, out>>
    BY <1>1 DEF Arrive
  <2> QED
    BY <2>2, <2>3, <2>4 DEF TypeOK
<1>2. CASE CloseInput
  <2>1. eof' \in BOOLEAN /\ UNCHANGED <<now, next_times, input, arrived, pc, current, slot, out>>
    BY <1>2 DEF CloseInput
  <2> QED
    BY <2>1 DEF TypeOK
<1>3. CASE ReadLine
  <2>1. UNCHANGED <<now, arrived, eof, out>>
    BY <1>3 DEF ReadLine
  <2> DEFINE k == Head(input)
  <2>2. k \in Kinds /\ input' \in Seq(Kinds)
    BY <1>3 DEF ReadLine, TypeOK
  <2>3. next_times[k] \in Nat \cup {Unset} /\ now \in Nat
    BY <2>2 DEF TypeOK
  <2>4. Start(k) \in Nat /\ After(k) \in Nat
    BY <2>3, RateLimitAssumption DEF Start, NextTime, After
  <2>5. current' = k /\ slot' = Start(k) /\ next_times' = [next_times EXCEPT ![k] = After(k)]
        /\ pc' \in {"sleep", "write"}
    BY <1>3 DEF ReadLine
  <2> HIDE DEF k
  <2> QED
    BY <2>1, <2>2, <2>4, <2>5 DEF TypeOK
<1>4. CASE EndOfInput \/ Garbled \/ Wake \/ BrokenPipe
  BY <1>4 DEF EndOfInput, Garbled, Wake, BrokenPipe, TypeOK
<1>5. CASE WriteRecord
  <2>1. UNCHANGED <<now, next_times, input, arrived, eof, current, slot>> /\ pc' = "read"
        /\ out' = Append(out, [kind |-> current, slot |-> slot, time |-> now])
    BY <1>5 DEF WriteRecord
  <2>2. out' \in Seq(Record)
    BY <2>1 DEF TypeOK, Record
  <2> QED
    BY <2>1, <2>2 DEF TypeOK, Record
<1>6. CASE Tick
  BY <1>6 DEF Tick, TypeOK
<1>7. CASE Exited
  BY <1>7 DEF Exited, vars, TypeOK
<1> QED
  BY <1>1, <1>2, <1>3, <1>4, <1>5, <1>6, <1>7 DEF Next, Filter

(* A slot is not before now, and not more than an interval ahead. *)
LEMMA StartOf ==
    ASSUME TypeOK, WaitInv, pc = "read", NEW k \in Kinds
    PROVE  /\ Start(k) \in Nat /\ Start(k) >= now /\ Start(k) <= now + Interval
           /\ After(k) = Start(k) + Interval /\ After(k) # Unset
           /\ next_times[k] # Unset => Start(k) >= next_times[k]
           /\ Start(k) > now => next_times[k] # Unset
<1>1. next_times[k] \in Nat \cup {Unset} /\ now \in Nat /\ Interval \in Nat /\ Unset \notin Nat
  BY RateLimitAssumption DEF TypeOK
<1>2. next_times[k] # Unset => next_times[k] <= now + Interval
  BY DEF WaitInv
<1>3. CASE next_times[k] = Unset
  <2>1. Start(k) = now
    BY <1>1, <1>3 DEF Start, NextTime
  <2> QED
    BY <1>1, <1>3, <2>1 DEF After
<1>4. CASE next_times[k] # Unset
  <2>1. next_times[k] \in Nat /\ next_times[k] <= now + Interval
    BY <1>1, <1>2, <1>4
  <2>2. Start(k) = IF now < next_times[k] THEN next_times[k] ELSE now
    BY <1>4 DEF Start, NextTime
  <2>3. Start(k) \in Nat /\ Start(k) >= now /\ Start(k) <= now + Interval
        /\ Start(k) >= next_times[k]
    BY <1>1, <2>1, <2>2
  <2>4. After(k) = Start(k) + Interval /\ Start(k) + Interval \in Nat
    BY <1>1, <2>3 DEF After
  <2>5. After(k) # Unset
    BY <1>1, <2>4
  <2> QED
    BY <1>4, <2>3, <2>4, <2>5
<1> QED
  BY <1>3, <1>4

LEMMA OutRecords ==
    ASSUME TypeOK
    PROVE  /\ out \in Seq(Record) /\ Len(out) \in Nat
           /\ \A i \in 1..Len(out) : /\ out[i].kind \in Kinds /\ out[i].slot \in Nat
                                     /\ out[i].time \in Nat
           /\ now \in Nat /\ slot \in Nat /\ current \in Kinds
           /\ \A k \in Kinds : next_times[k] \in Nat \cup {Unset}
           /\ Interval \in Nat /\ Unset \notin Nat
<1>1. out \in Seq(Record)
  BY DEF TypeOK, Record
<1>2. Len(out) \in Nat /\ \A i \in 1..Len(out) : out[i] \in Record
  BY <1>1
<1>3. \A i \in 1..Len(out) : out[i].kind \in Kinds /\ out[i].slot \in Nat /\ out[i].time \in Nat
  BY <1>2 DEF Record
<1>4. now \in Nat /\ slot \in Nat /\ current \in Kinds /\ Interval \in Nat /\ Unset \notin Nat
  BY RateLimitAssumption DEF TypeOK
<1>5. \A k \in Kinds : next_times[k] \in Nat \cup {Unset}
  BY DEF TypeOK
<1> QED
  BY <1>1, <1>2, <1>3, <1>4, <1>5

LEMMA ReadLineStep ==
    ASSUME PacingInv, ReadLine
    PROVE  SlotInv' /\ WaitInv'
<1> DEFINE k == Head(input)
<1>1. /\ UNCHANGED <<now, out>> /\ pc = "read" /\ current' = k /\ slot' = Start(k)
      /\ next_times' = [next_times EXCEPT ![k] = After(k)]
      /\ pc' = IF Start(k) > now THEN "sleep" ELSE "write"
  BY DEF ReadLine
<1>2. k \in Kinds
  BY DEF ReadLine, PacingInv, TypeOK
<1> HIDE DEF k
<1>3. /\ Start(k) \in Nat /\ Start(k) >= now /\ Start(k) <= now + Interval
      /\ After(k) = Start(k) + Interval /\ After(k) # Unset
      /\ next_times[k] # Unset => Start(k) >= next_times[k]
      /\ Start(k) > now => next_times[k] # Unset
  BY <1>1, <1>2, StartOf DEF PacingInv
<1>4. \A c \in Kinds : next_times'[c] = IF c = k THEN After(k) ELSE next_times[c]
  BY <1>1, <1>2 DEF PacingInv, TypeOK
<1>5. SlotInv'
  <2>1. ASSUME NEW i \in 1..Len(out)
        PROVE  /\ next_times'[out[i].kind] # Unset
               /\ next_times'[out[i].kind] >= out[i].slot + Interval
               /\ out[i].kind = k => Start(k) >= out[i].slot + Interval
    BY <1>2, <1>3, <1>4, OutRecords DEF PacingInv, SlotInv
  <2>2. next_times'[k] = Start(k) + Interval /\ (pc' = "write" => now >= Start(k))
    BY <1>1, <1>2, <1>3, <1>4, OutRecords DEF PacingInv
  <2> QED
    BY <1>1, <2>1, <2>2 DEF PacingInv, SlotInv
<1>6. WaitInv'
  <2>1. \A c \in Kinds : next_times'[c] # Unset /\ ~(pc' = "sleep" /\ c = k)
                             => next_times'[c] <= now + Interval
    BY <1>1, <1>2, <1>3, <1>4, OutRecords DEF PacingInv, WaitInv
  <2>2. \A c \in Kinds : next_times[c] # Unset => \E i \in 1..Len(out) : out[i].kind = c
    BY <1>1 DEF PacingInv, WaitInv
  <2>3. pc' = "sleep" => \E i \in 1..Len(out) : out[i].kind = k
    BY <1>1, <1>2, <1>3, <2>2
  <2> QED
    BY <1>1, <1>2, <1>3, <1>4, <2>1, <2>2, <2>3 DEF WaitInv
<1> QED
  BY <1>5, <1>6

LEMMA WriteRecordStep ==
    ASSUME PacingInv, WriteRecord
    PROVE  SlotInv' /\ WaitInv'
<1> DEFINE r == [kind |-> current, slot |-> slot, time |-> now]
<1>1. /\ pc = "write" /\ pc' = "read" /\ out' = Append(out, r)
      /\ UNCHANGED <<now, next_times, current, slot>>
  BY DEF WriteRecord
<1>2. r \in Record /\ r.kind = current /\ r.slot = slot /\ r.time = now
  BY OutRecords DEF PacingInv, Record
<1> HIDE DEF r
<1>3. /\ Len(out') = Len(out) + 1 /\ out'[Len(out) + 1] = r
      /\ \A i \in 1..Len(out) : out'[i] = out[i]
      /\ \A i \in 1..Len(out') : i \in 1..Len(out) \/ i = Len(out) + 1
  BY <1>1, <1>2, OutRecords DEF PacingInv
<1>4. next_times[current] = slot + Interval /\ now >= slot /\ next_times[current] # Unset
  BY <1>1, OutRecords DEF PacingInv, SlotInv, InHand
<1>5. SlotInv'
  <2>1. ASSUME NEW i \in 1..Len(out')
        PROVE  /\ out'[i].time >= out'[i].slot
               /\ next_times[out'[i].kind] # Unset
               /\ next_times[out'[i].kind] >= out'[i].slot + Interval
    BY <1>2, <1>3, <1>4, OutRecords DEF PacingInv, SlotInv
  <2>2. ASSUME NEW i \in 1..Len(out'), NEW j \in 1..Len(out'),
               i < j, out'[i].kind = out'[j].kind
        PROVE  out'[j].slot >= out'[i].slot + Interval
    <3>1. i \in 1..Len(out)
      BY <1>3, <2>2, OutRecords DEF PacingInv
    <3>2. CASE j \in 1..Len(out)
      BY <1>3, <2>2, <3>1, <3>2 DEF PacingInv, SlotInv
    <3>3. CASE j = Len(out) + 1
      BY <1>1, <1>2, <1>3, <2>2, <3>1, <3>3 DEF PacingInv, SlotInv, InHand
    <3> QED
      BY <1>3, <3>2, <3>3
  <2> QED
    BY <1>1, <2>1, <2>2 DEF SlotInv, InHand
<1>6. WaitInv'
  <2>1. \A k \in Kinds : next_times[k] # Unset => \E i \in 1..Len(out') : out'[i].kind = k
    BY <1>1, <1>2, <1>3, OutRecords DEF PacingInv, WaitInv
  <2> QED
    BY <1>1, <2>1 DEF PacingInv, WaitInv
<1> QED
  BY <1>5, <1>6

LEMMA PacingStep == PacingInv /\ [Next]_vars => PacingInv'
<1> SUFFICES ASSUME PacingInv, [Next]_vars
             PROVE  PacingInv'
  OBVIOUS
<1>1. CASE Next
  <2>1. TypeOK'
    BY <1>1, PacingTypes DEF PacingInv
  <2>2. CASE Arrive \/ CloseInput \/ Exited
    <3>1. UNCHANGED <<now, next_times, pc, current, slot, out>>
      BY <2>2 DEF Arrive, CloseInput, Exited, vars
    <3> QED
      BY <2>1, <3>1 DEF PacingInv, SlotInv, WaitInv, InHand
  <2>3. CASE EndOfInput \/ Garbled \/ Wake \/ BrokenPipe
    <3>1. UNCHANGED <<now, next_times, current, slot, out>>
      BY <2>3 DEF EndOfInput, Garbled, Wake, BrokenPipe
    <3>2. CASE Wake
      <4>1. pc = "sleep" /\ pc' = "write" /\ now >= slot
        BY <3>2 DEF Wake
      <4>2. SlotInv'
        BY <3>1, <4>1 DEF PacingInv, SlotInv, InHand
      <4>3. next_times[current] <= now + Interval
        BY <4>1, OutRecords DEF PacingInv, SlotInv, InHand
      <4>4. WaitInv'
        BY <3>1, <4>1, <4>3 DEF PacingInv, WaitInv
      <4> QED
        BY <2>1, <4>2, <4>4 DEF PacingInv
    <3>3. CASE pc' = "exited" /\ pc # "sleep"
      BY <2>1, <3>1, <3>3 DEF PacingInv, SlotInv, WaitInv, InHand
    <3> QED
      BY <2>3, <3>2, <3>3 DEF EndOfInput, Garbled, BrokenPipe
  <2>4. CASE Tick
    <3>1. UNCHANGED <<next_times, pc, current, slot, out>> /\ now' = now + 1
      BY <2>4 DEF Tick
    <3>2. SlotInv'
      <4>1. pc' = "write" => now' >= slot'
        BY <3>1, OutRecords DEF PacingInv, SlotInv
      <4> QED
        BY <3>1, <4>1 DEF PacingInv, SlotInv, InHand
    <3>3. \A k \in Kinds : next_times[k] # Unset /\ ~(pc = "sleep" /\ k = current)
                              => next_times[k] <= now' + Interval
      <4> SUFFICES ASSUME NEW k \in Kinds, next_times[k] # Unset,
                          ~(pc = "sleep" /\ k = current)
                   PROVE  next_times[k] <= now' + Interval
        OBVIOUS
      <4>1. next_times[k] <= now + Interval
        BY DEF PacingInv, WaitInv
      <4>2. next_times[k] \in Nat /\ now \in Nat /\ Interval \in Nat
        BY OutRecords DEF PacingInv
      <4> QED
        BY <3>1, <4>1, <4>2
    <3>4. pc = "sleep" => slot <= now' + Interval
      BY <3>1, OutRecords DEF PacingInv, WaitInv
    <3>5. WaitInv'
      BY <3>1, <3>3, <3>4 DEF PacingInv, WaitInv
    <3> QED
      BY <2>1, <3>2, <3>5 DEF PacingInv
  <2> QED
    BY <1>1, <2>1, <2>2, <2>3, <2>4, ReadLineStep, WriteRecordStep DEF Next, Filter, PacingInv
<1>2. CASE UNCHANGED vars
  BY <1>2 DEF vars, PacingInv, TypeOK, SlotInv, WaitInv, InHand
<1> QED
  BY <1>1, <1>2

LEMMA PacingInit == Init => PacingInv
<1> SUFFICES ASSUME Init PROVE PacingInv
  OBVIOUS
<1>1. eof \in BOOLEAN
  BY DEF Init
<1>2. /\ now = 0 /\ next_times = [k \in Kinds |-> Unset] /\ input = << >> /\ arrived = 0
      /\ pc = "read" /\ current \in Kinds /\ slot = 0 /\ out = << >>
  BY DEF Init
<1>3. TypeOK
  BY <1>1, <1>2, RateLimitAssumption DEF TypeOK
<1>4. SlotInv /\ WaitInv
  BY <1>2 DEF SlotInv, WaitInv, InHand
<1> QED
  BY <1>3, <1>4 DEF PacingInv

THEOREM Pacing == Spec => []PacingInv
  BY PacingInit, PacingStep, PTL DEF Spec

(* Two records of a kind get slots at least an interval apart, and neither *)
(* leaves before its slot, whatever other kinds pass between them and      *)
(* however late a record leaves.                                           *)
THEOREM PacedHolds == Spec => []Paced
<1>1. PacingInv => Paced
  <2> SUFFICES ASSUME PacingInv PROVE Paced
    OBVIOUS
  <2>1. DOMAIN out = 1..Len(out)
    BY OutRecords DEF PacingInv
  <2> QED
    BY <2>1 DEF PacingInv, SlotInv, Paced
<1> QED
  BY Pacing, <1>1, PTL

(* No sleep is longer than an interval, and the first record of a kind is  *)
(* never slept on.                                                         *)
THEOREM WaitBoundedHolds == Spec => []WaitBounded
<1>1. PacingInv => WaitBounded
  <2> SUFFICES ASSUME PacingInv PROVE WaitBounded
    OBVIOUS
  <2>1. DOMAIN out = 1..Len(out)
    BY OutRecords DEF PacingInv
  <2> QED
    BY <2>1 DEF PacingInv, WaitInv, WaitBounded
<1> QED
  BY Pacing, <1>1, PTL
=============================================================================
