--------------------------- MODULE IcebergRead_proof --------------------------
(***************************************************************************)
(* What the reads of IcebergRead are of: the snapshot of the record, a     *)
(* metadata not older than the root named, and the files of one snapshot,  *)
(* for every table, whatever its engine does meanwhile.                    *)
(***************************************************************************)
EXTENDS IcebergRead, WellFoundedInduction, FiniteSetTheorems, SequenceTheorems, TLAPS

(* The engine only adds metadata at one end and reclaims it at the other.   *)
TableInv ==
    /\ tableName \in DOMAIN Tables /\ newest \in Versions
    /\ \E oldest \in 1..newest : metas = oldest..newest
    /\ hint \in 0..newest /\ moved \in BOOLEAN
    /\ request \in Requests /\ store \in Stores

-----------------------------------------------------------------------------
(* LastVersion is the length of a sequence of texts.                       *)
LEMMA VersionFacts ==
    ASSUME TableInv
    PROVE  /\ newest \in Int /\ newest >= 1 /\ hint \in Int /\ metas \subseteq Versions
           /\ table.docs[newest] \in Doc
           /\ \A v \in Versions : table.docs[v] \in Doc
<1>1. newest \in Versions /\ Versions \subseteq Int /\ \A v \in Versions : v >= 1
    BY IcebergReadAssumption DEF TableInv, Versions
<1>2. metas \subseteq Versions
    BY <1>1, IcebergReadAssumption DEF TableInv, Versions, LastVersion
<1>3. table.docs \in [Versions -> Doc]
    BY IcebergReadAssumption DEF TableInv, table
<1> QED
    BY <1>1, <1>2, <1>3 DEF TableInv

(* What the read does leaves the table alone.                              *)
LEMMA ReadersFrame ==
    ASSUME Progress \/ RequestFails
    PROVE  UNCHANGED env
BY DEF Progress, RequestFails, Resolve, ReadDoc, ReadEntries, Detect, Unrecognized, StatHint,
       ReadHint, HintStale, FoundName, NextName, Unresolved, OpenDir, ReadDir, ReadMetadata,
       MetadataMissing, BadFormat, CatalogAnswers, GetAnswers, MakeRecord, BadId,
       SnapshotMissing, SelectNone, StreamCommits, Select, ReadList, ListMissing, ReadManifest,
       ManifestMissing, PassOver, DataFile, BadEntry, EndEntries, Fail

(* What the engine does leaves the read alone.                             *)
LEMMA EngineFrame ==
    ASSUME Engine
    PROVE  UNCHANGED <<reader, tableName, store, style, request>>
BY DEF Engine, CommitMetadata, WriteHint, ReclaimMetadata, ReclaimObject

(* The oldest metadata is the lower end of what is there.                  *)
LEMMA OldestFacts ==
    ASSUME NEW low \in Int, NEW high \in Int, low <= high
    PROVE  Min(low..high) = low
<1>1. low \in low..high /\ \A y \in low..high : low <= y
    OBVIOUS
<1>2. \A x \in low..high : (\A y \in low..high : x <= y) => x = low
    <2> TAKE x \in low..high
    <2> HAVE \A y \in low..high : x <= y
    <2>1. x <= low /\ low <= x
        BY <1>1
    <2> QED
        BY <2>1
<1> QED
    BY <1>1, <1>2 DEF Min

LEMMA EngineKeepsTable ==
    ASSUME TableInv, Engine
    PROVE  TableInv' /\ newest' >= newest /\ hint' >= hint /\ (hint = 0 => hint' = 0)
           /\ (moved => moved') /\ (hint' # hint => moved')
           /\ \A v \in Int : v <= newest /\ v \notin metas => v \notin metas'
<1> PICK oldest \in 1..newest : metas = oldest..newest
    BY DEF TableInv
<1> USE VersionFacts
<1>0. UNCHANGED <<tableName, store, request>>
    BY EngineFrame
<1>1. CASE CommitMetadata
    <2>1. newest' = newest + 1 /\ newest + 1 \in Versions
        BY <1>1, IcebergReadAssumption DEF CommitMetadata, TableInv, Versions, LastVersion
    <2>2. metas' = oldest..(newest + 1) /\ oldest \in 1..(newest + 1)
        BY <1>1 DEF CommitMetadata
    <2> QED
        BY <1>0, <1>1, <2>1, <2>2 DEF CommitMetadata, TableInv, Versions
<1>2. CASE WriteHint
    BY <1>0, <1>2 DEF WriteHint, TableInv, Versions
<1>3. CASE ReclaimMetadata
    <2>1. Min(metas) = oldest
        BY OldestFacts
    <2>2. metas' = (oldest + 1)..newest /\ oldest + 1 \in 1..newest
        BY <1>3, <2>1 DEF ReclaimMetadata
    <2> QED
        BY <1>0, <1>3, <2>2 DEF ReclaimMetadata, TableInv, Versions
<1>4. CASE ReclaimObject
    BY <1>0, <1>4 DEF ReclaimObject, TableInv, Versions
<1> QED
    BY <1>1, <1>2, <1>3, <1>4 DEF Engine

LEMMA InitTable ==
    ASSUME Init
    PROVE  TableInv
<1>1. newest \in Int
    BY IcebergReadAssumption DEF Init, Versions, LastVersion
<1>2. PICK oldest \in 1..newest : metas = oldest..newest
    BY DEF Init
<1>3. hint \in 0..newest
    BY <1>1, <1>2 DEF Init
<1> QED
    BY <1>2, <1>3 DEF Init, TableInv

LEMMA TableStep ==
    ASSUME TableInv, [Next]_vars
    PROVE  TableInv'
<1>1. CASE Engine
    BY <1>1, EngineKeepsTable
<1>2. CASE Progress \/ RequestFails
    BY <1>2, ReadersFrame DEF TableInv, env
<1>3. CASE UNCHANGED vars
    BY <1>3 DEF TableInv, vars, env
<1> QED
    BY <1>1, <1>2, <1>3 DEF Next

-----------------------------------------------------------------------------
(* The record of get, and the snapshot list files reads.                   *)
RecordInv ==
    /\ stage \in {"get", "walk"} /\ got \in Int \cup {None}
    /\ stage = "get" => got = None /\ phase \notin {"manifests", "entries", "ended"}
    /\ got # None => stage = "walk" /\ requested = got
    /\ requested # None /\ phase \in {"manifests", "entries", "ended"} => selected = requested
    /\ phase = "select" => version \in Versions

(* Every snapshot has an id of its own that is not negative.               *)
NoNegativeCurrent ==
    \A name \in DOMAIN Tables : \A v \in Versions : Tables[name].docs[v].current >= NoId

LEMMA InitRecord ==
    ASSUME Init
    PROVE  RecordInv
BY IcebergReadAssumption DEF Init, RecordInv

LEMMA ResolveKeepsRecord ==
    ASSUME RecordInv, Resolve
    PROVE  RecordInv'
BY DEF RecordInv, plan, Resolve, Detect, Unrecognized, StatHint, ReadHint, HintStale, FoundName,
       NextName, Unresolved, OpenDir, ReadDir, Fail

(* get's answer is the snapshot its record names, unless there is none.    *)
LEMMA MakeRecordKeepsRecord ==
    ASSUME RecordInv, NEW s \in Int, s >= NoId, MakeRecord(s)
    PROVE  RecordInv'
BY IcebergReadAssumption DEF RecordInv, MakeRecord, Recorded, NoId

LEMMA ReadDocKeepsRecord ==
    ASSUME NoNegativeCurrent, TableInv, RecordInv, ReadDoc
    PROVE  RecordInv'
<1>1. CASE CatalogAnswers
    <2>1. table.docs[newest].current \in Int /\ table.docs[newest].current >= NoId
        BY VersionFacts DEF NoNegativeCurrent, TableInv, Doc, table
    <2> QED
        BY <1>1, <2>1, MakeRecordKeepsRecord DEF CatalogAnswers
<1>2. CASE GetAnswers
    <2>1. doc \in Doc
        BY <1>2, VersionFacts DEF GetAnswers, RecordInv, doc
    <2> QED
        BY <1>2, <2>1, MakeRecordKeepsRecord DEF GetAnswers, NoId, Doc
<1>3. CASE ReadMetadata \/ MetadataMissing \/ BadFormat \/ BadId \/ SnapshotMissing
    BY <1>3, VersionFacts DEF RecordInv, plan, ReadMetadata, MetadataMissing, BadFormat, BadId,
                SnapshotMissing, Fail
<1>4. CASE SelectNone
    BY <1>4 DEF RecordInv, plan, SelectNone, NoTarget
<1>5. CASE StreamCommits
    BY <1>5 DEF RecordInv, StreamCommits, Target
<1>6. CASE Select
    BY <1>6 DEF RecordInv, Select, Target
<1> QED
    BY <1>1, <1>2, <1>3, <1>4, <1>5, <1>6 DEF ReadDoc

LEMMA ReadEntriesKeepsRecord ==
    ASSUME RecordInv, ReadEntries
    PROVE  RecordInv'
BY DEF RecordInv, plan, ReadEntries, ReadList, ListMissing, ReadManifest, ManifestMissing,
       PassOver, DataFile, BadEntry, EndEntries, Fail, NextManifest, AtEntry

LEMMA EngineKeepsRecord ==
    ASSUME RecordInv, Engine
    PROVE  RecordInv'
BY EngineFrame DEF RecordInv, reader, plan

LEMMA RecordStep ==
    ASSUME NoNegativeCurrent, TableInv, RecordInv, [Next]_vars
    PROVE  RecordInv'
<1>1. CASE Engine
    BY <1>1, EngineKeepsRecord
<1>2. CASE Resolve
    BY <1>2, ResolveKeepsRecord
<1>3. CASE ReadDoc
    BY <1>3, ReadDocKeepsRecord
<1>4. CASE ReadEntries
    BY <1>4, ReadEntriesKeepsRecord
<1>5. CASE RequestFails
    BY <1>5 DEF RecordInv, RequestFails, Fail, plan
<1>6. CASE UNCHANGED vars
    BY <1>6 DEF RecordInv, vars, plan
<1> QED
    BY <1>1, <1>2, <1>3, <1>4, <1>5, <1>6 DEF Next, Progress

(* list files reads the snapshot that was current when get made the record, *)
(* or fails, whatever the engine commits, moves or reclaims in between      *)
(* (get table, list files).                                                *)
THEOREM PinnedToRecordHolds ==
    ASSUME NoNegativeCurrent
    PROVE  Spec => []PinnedToRecord
<1>1. Init => TableInv /\ RecordInv
    BY InitTable, InitRecord
<1>2. TableInv /\ RecordInv /\ [Next]_vars => (TableInv /\ RecordInv)'
    BY TableStep, RecordStep
<1>3. RecordInv => PinnedToRecord
    BY IcebergReadAssumption DEF RecordInv, PinnedToRecord
<1> QED
    BY <1>1, <1>2, <1>3, PTL DEF Spec

-----------------------------------------------------------------------------
(* What a root is resolved to.                                             *)

(* A hint that is cut short: it grew between its HEAD and its read, and the *)
(* store does not pin a read to what its HEAD saw.                         *)
CutShort == store = "untagged" /\ hint # 0 /\ moved

RootInv ==
    ~AtJson =>
        /\ phase \in {"stathint", "opendir"} =>
             floor \in Nat /\ floor <= newest /\ (hint # 0 => floor <= hint)
        /\ phase = "readhint" =>
             \E h \in 1..hint : seen = {h} /\ floor <= h /\ (h = hint \/ moved)
        /\ phase = "readdir" =>
             \E first \in 1..newest : \E last \in first..newest : seen = first..last /\ floor <= last
        /\ phase \in {"try", "metadata"} =>
             version \in Int /\ (version >= floor \/ CutShort \/ (version <= newest /\ version \notin metas))
        /\ phase = "select" => version >= floor \/ CutShort
        /\ floor \in Nat

(* The hint reads as the version its HEAD saw when the store pins the read  *)
(* or the hint has not moved.                                              *)
LEMMA HintFacts ==
    ASSUME TableInv, NEW h \in 1..hint, seen = {h}, Pinned, h = hint \/ moved
    PROVE  Parsed(HintBytes) \in Int /\ (Parsed(HintBytes) = hint \/ CutShort)
<1>1. hint \in Versions /\ hint # 0 /\ Texts[hint] \in Seq(0..9) /\ LastVersion + 1 \in Int
    BY VersionFacts, IcebergReadAssumption DEF TableInv, Versions, LastVersion
<1>2. \A bytes : Parsed(bytes) \in Int
    BY <1>1 DEF Parsed, Versions
<1>3. CASE store = "untagged" /\ h # hint
    BY <1>1, <1>2, <1>3 DEF CutShort
<1>4. CASE store # "untagged" \/ h = hint
    <2>1. HintBytes = Texts[hint]
        <3>1. CASE ~Remote
            BY <3>1 DEF HintBytes
        <3>2. CASE Remote
            <4>1. h = hint
                BY <1>4, <3>2, IcebergReadAssumption DEF Remote, Pinned, TableInv
            <4>2. Max(seen) = hint
                BY <1>1, <4>1 DEF Max
            <4>3. Min({Len(Texts[hint]), Len(Texts[hint])}) = Len(Texts[hint])
                BY <1>1 DEF Min
            <4>4. SubSeq(Texts[hint], 1, Len(Texts[hint])) = Texts[hint]
                BY <1>1, SubSeqFull
            <4> QED
                BY <3>2, <4>2, <4>3, <4>4 DEF HintBytes
        <3> QED
            BY <3>1, <3>2
    <2>2. Parsed(Texts[hint]) = hint
        BY <1>1, IcebergReadAssumption DEF Parsed
    <2> QED
        BY <1>2, <2>1, <2>2
<1> QED
    BY <1>3, <1>4

(* A listing that began with the last metadata there was gives one as new,  *)
(* or one that is gone by now.                                             *)
LEMMA ListingFacts ==
    ASSUME TableInv, NEW first \in 1..newest, NEW last \in first..newest, seen = first..last,
           NEW extra \in SUBSET ((seen \ metas) \cup (Max(seen) + 1..newest)),
           NEW v \in (seen \cap metas) \cup extra,
           \A w \in (seen \cap metas) \cup extra : w <= v
    PROVE  v \in Int /\ v <= newest /\ (v >= last \/ v \notin metas)
<1> PICK oldest \in 1..newest : metas = oldest..newest
    BY DEF TableInv
<1>1. last \in seen /\ \A x \in seen : x <= last
    BY VersionFacts
<1>2. \A x \in seen : (\A y \in seen : x >= y) => x = last
    BY <1>1, VersionFacts
<1>3. Max(seen) = last
    BY <1>1, <1>2, VersionFacts DEF Max
<1>4. v \in seen \/ v \in last + 1..newest
    BY <1>3
<1>5. v \in Int /\ v <= newest
    BY <1>4, VersionFacts
<1>6. CASE last \in metas
    BY <1>1, <1>5, <1>6, VersionFacts
<1>7. CASE last \notin metas
    <2>1. \A x \in seen : x \notin metas
        BY <1>1, <1>7, VersionFacts
    <2> QED
        BY <1>4, <1>5, <2>1, VersionFacts
<1> QED
    BY <1>5, <1>6, <1>7

LEMMA InitRoot ==
    ASSUME Init
    PROVE  RootInv
BY DEF Init, RootInv, AtJson

LEMMA EngineKeepsRoot ==
    ASSUME TableInv, RootInv, Engine
    PROVE  RootInv'
<1> SUFFICES ASSUME ~AtJson'
             PROVE  RootInv'
    BY DEF RootInv
<1> USE VersionFacts
<1>1. UNCHANGED <<stage, phase, seen, floor, version, store, request>>
    BY EngineFrame DEF reader, resolution
<1>2. ~AtJson
    BY <1>1 DEF AtJson
<1>3. /\ newest' \in Int /\ newest' >= newest /\ hint' \in Int /\ hint' >= hint
      /\ (hint = 0 => hint' = 0) /\ (moved => moved') /\ (hint' # hint => moved')
      /\ \A v \in Int : v <= newest /\ v \notin metas => v \notin metas'
    <2>1. TableInv'
        BY EngineKeepsTable
    <2>2. newest' \in Int /\ hint' \in Int
        BY <2>1, IcebergReadAssumption DEF TableInv, Versions, LastVersion
    <2> QED
        BY <2>2, EngineKeepsTable
<1>4. CutShort => CutShort'
    BY <1>1, <1>3 DEF CutShort, TableInv
<1>5. CASE phase \in {"stathint", "opendir", "readhint"}
    BY <1>1, <1>2, <1>3, <1>5 DEF RootInv
<1>6. CASE phase = "readdir"
    BY <1>1, <1>2, <1>3, <1>6 DEF RootInv
<1>7. CASE phase \in {"try", "metadata", "select"}
    BY <1>1, <1>2, <1>3, <1>4, <1>7 DEF RootInv
<1>8. CASE phase \notin {"stathint", "opendir", "readhint", "readdir", "try", "metadata", "select"}
    BY <1>1, <1>2, <1>8 DEF RootInv
<1> QED
    BY <1>5, <1>6, <1>7, <1>8

LEMMA ResolveKeepsRoot ==
    ASSUME TableInv, RootInv, Resolve
    PROVE  RootInv'
<1> SUFFICES ASSUME ~AtJson'
             PROVE  RootInv'
    BY DEF RootInv
<1> USE VersionFacts DEF Fail, resolution
<1>1. UNCHANGED env /\ UNCHANGED stage
    BY ReadersFrame DEF Progress, Resolve, Detect, Unrecognized, StatHint, ReadHint, HintStale,
       FoundName, NextName, Unresolved, OpenDir, ReadDir
<1>2. ~AtJson /\ floor \in Nat
    BY <1>1 DEF AtJson, env, RootInv
<1>3. CutShort <=> CutShort'
    BY <1>1 DEF CutShort, env
<1>4. CASE Detect
    BY <1>1, <1>2, <1>4 DEF Detect, RootInv, env, TableInv
<1>5. CASE StatHint
    BY <1>1, <1>2, <1>5 DEF StatHint, RootInv, env, TableInv
<1>6. CASE ReadHint
    <2>1. PICK h \in 1..hint : seen = {h} /\ floor <= h /\ (h = hint \/ moved)
        BY <1>2, <1>6 DEF ReadHint, RootInv
    <2>2. version' \in Int /\ (version' = hint \/ CutShort)
        BY <1>6, <2>1, HintFacts DEF ReadHint
    <2> QED
        BY <1>1, <1>2, <1>3, <1>6, <2>1, <2>2 DEF ReadHint, RootInv
<1>7. CASE FoundName \/ NextName
    BY <1>1, <1>2, <1>3, <1>7 DEF FoundName, NextName, RootInv, env
<1>8. CASE OpenDir
    <2>1. PICK oldest \in 1..newest : metas = oldest..newest
        BY DEF TableInv
    <2> QED
        BY <1>1, <1>2, <1>8, <2>1 DEF OpenDir, RootInv, env
<1>9. CASE ReadDir
    <2>1. PICK first \in 1..newest : \E last \in first..newest : seen = first..last /\ floor <= last
        BY <1>2, <1>9 DEF ReadDir, RootInv
    <2>2. PICK last \in first..newest : seen = first..last /\ floor <= last
        BY <2>1
    <2>3. CASE phase' = "failed"
        BY <1>2, <1>9, <2>3 DEF ReadDir, RootInv
    <2>4. CASE phase' # "failed"
        <3>1. PICK extra \in SUBSET ((seen \ metas) \cup (Max(seen) + 1..newest)) :
                 \E v \in (seen \cap metas) \cup extra :
                    (\A w \in (seen \cap metas) \cup extra : w <= v) /\ version' = v
            BY <1>9, <2>4 DEF ReadDir
        <3>2. PICK v \in (seen \cap metas) \cup extra :
                 (\A w \in (seen \cap metas) \cup extra : w <= v) /\ version' = v
            BY <3>1
        <3>3. v \in Int /\ v <= newest /\ (v >= last \/ v \notin metas)
            BY <2>2, <3>2, ListingFacts
        <3>4. phase' = "metadata" /\ floor' = floor
            BY <1>9, <2>4 DEF ReadDir
        <3> QED
            BY <1>1, <1>2, <2>2, <3>2, <3>3, <3>4, VersionFacts DEF RootInv, env
    <2> QED
        BY <2>3, <2>4
<1>10. CASE Unrecognized \/ HintStale \/ Unresolved
    BY <1>2, <1>10 DEF Unrecognized, HintStale, Unresolved, RootInv
<1> QED
    BY <1>4, <1>5, <1>6, <1>7, <1>8, <1>9, <1>10 DEF Resolve

LEMMA ReadDocKeepsRoot ==
    ASSUME TableInv, RootInv, ReadDoc
    PROVE  RootInv'
<1> SUFFICES ASSUME ~AtJson'
             PROVE  RootInv'
    BY DEF RootInv
<1> USE DEF Fail, resolution
<1>0. UNCHANGED env
    BY ReadersFrame DEF Progress
<1>1. CASE CatalogAnswers \/ GetAnswers
    <2>1. phase' = "detect" /\ floor' = floor
        BY <1>1 DEF CatalogAnswers, GetAnswers, MakeRecord
    <2>2. floor \in Nat
        BY <1>0, <1>1 DEF CatalogAnswers, GetAnswers, MakeRecord, RootInv, AtJson, env
    <2> QED
        BY <2>1, <2>2 DEF RootInv
<1>2. CASE ReadMetadata
    BY <1>0, <1>2 DEF ReadMetadata, RootInv, AtJson, env, CutShort
<1>3. CASE MetadataMissing \/ BadFormat \/ BadId \/ SnapshotMissing \/ SelectNone
    BY <1>0, <1>3 DEF MetadataMissing, BadFormat, BadId, SnapshotMissing, SelectNone, RootInv,
                      AtJson, env
<1>4. CASE StreamCommits \/ Select
    BY <1>0, <1>4 DEF StreamCommits, Select, RootInv, AtJson, env
<1> QED
    BY <1>1, <1>2, <1>3, <1>4 DEF ReadDoc

LEMMA ReadEntriesKeepsRoot ==
    ASSUME RootInv, ReadEntries
    PROVE  RootInv'
BY DEF RootInv, AtJson, env, resolution, ReadEntries, ReadList, ListMissing, ReadManifest,
       ManifestMissing, PassOver, DataFile, BadEntry, EndEntries, Fail, NextManifest, AtEntry

LEMMA RootStep ==
    ASSUME TableInv, RootInv, [Next]_vars
    PROVE  RootInv'
<1>1. CASE Engine
    BY <1>1, EngineKeepsRoot
<1>2. CASE Resolve
    BY <1>2, ResolveKeepsRoot
<1>3. CASE ReadDoc
    BY <1>3, ReadDocKeepsRoot
<1>4. CASE ReadEntries
    BY <1>4, ReadEntriesKeepsRoot
<1>5. CASE RequestFails
    BY <1>5 DEF RootInv, AtJson, RequestFails, Fail, env, resolution
<1>6. CASE UNCHANGED vars
    BY <1>6 DEF RootInv, AtJson, CutShort, vars, env, resolution
<1> QED
    BY <1>1, <1>2, <1>3, <1>4, <1>5, <1>6 DEF Next, Progress

(* A root is never resolved to a metadata older than the newest it named    *)
(* when the read began, though the hint moves and files come and go during  *)
(* the listing; but a hint may be cut short on a store that pins no read    *)
(* (resolve_metadata_location, newest_metadata).                           *)
THEOREM NotOlderHolds == Spec => []NotOlder
<1>1. Init => TableInv /\ RootInv
    BY InitTable, InitRoot
<1>2. TableInv /\ RootInv /\ [Next]_vars => (TableInv /\ RootInv)'
    BY TableStep, RootStep
<1>3. RootInv => NotOlder
    BY DEF RootInv, NotOlder, CutShort
<1> QED
    BY <1>1, <1>2, <1>3, PTL DEF Spec

-----------------------------------------------------------------------------
(* The files of the snapshot that is read.                                 *)

(* A manifest names a data file once, and no two of a snapshot name one.    *)
DistinctFiles ==
    /\ \A m \in DOMAIN Manifests : \A i, j \in 1..Len(Manifests[m].entries) :
         /\ IsData(Manifests[m].entries[i]) /\ IsData(Manifests[m].entries[j])
         /\ Manifests[m].entries[i].file = Manifests[m].entries[j].file
         => i = j
    /\ \A name \in DOMAIN Tables : \A s \in DOMAIN Tables[name].manifests :
         LET list == Tables[name].manifests[s]
         IN  \A i, j \in 1..Len(list) : i # j => FilesOf(list[i]) \cap FilesOf(list[j]) = {}

Waiting == {pending[i].file : i \in {i \in 1..Len(pending) : IsData(pending[i])}}
Unread == UNION {FilesOf(queue[i]) : i \in 1..Len(queue)}

(* What was found and what is left make up what the snapshot holds, and    *)
(* share nothing.                                                          *)
Parted ==
    /\ ToSet(found) \cup Waiting \cup Unread = Holds(selected)
    /\ ToSet(found) \cap Waiting = {} /\ ToSet(found) \cap Unread = {} /\ Waiting \cap Unread = {}
    /\ \A i, j \in 1..Len(pending) :
         IsData(pending[i]) /\ IsData(pending[j]) /\ pending[i].file = pending[j].file => i = j
    /\ \A i, j \in 1..Len(queue) : i # j => FilesOf(queue[i]) \cap FilesOf(queue[j]) = {}

WalkInv ==
    /\ phase = "select" => version \in Versions
    /\ found \in Seq(STRING) /\ pending \in Seq(Entry) /\ queue \in Seq(DOMAIN Manifests)
    /\ phase \notin {"entries", "ended", "failed"} => found = << >> /\ pending = << >> /\ queue = << >>
    /\ phase \in {"manifests", "entries"} => selected # None /\ request.walk # "commits"
    /\ phase \notin {"manifests", "entries", "ended", "failed"} => selected = None
    /\ selected = None => found = << >>
    /\ selected # None => /\ selected \in DOMAIN table.manifests
                          /\ ToSet(found) \subseteq Holds(selected) /\ IsInjective(found)
    /\ phase = "entries" => Parted
    /\ phase = "ended" /\ selected # None /\ request.walk # "commits" => ToSet(found) = Holds(selected)
    /\ request.walk = "commits" => found = << >>

(* What is left of a sequence once its head is taken.                      *)
LEMMA TailFacts ==
    ASSUME NEW S, NEW q \in Seq(S), q # << >>
    PROVE  /\ Len(q) \in Nat /\ Len(q) >= 1 /\ Head(q) = q[1] /\ Head(q) \in S
           /\ Tail(q) \in Seq(S) /\ Len(Tail(q)) = Len(q) - 1
           /\ \A i \in 1..Len(Tail(q)) : i + 1 \in 1..Len(q) /\ Tail(q)[i] = q[i + 1]
           /\ \A i \in 1..Len(q) : i = 1 \/ (i - 1 \in 1..Len(Tail(q)) /\ Tail(q)[i - 1] = q[i])
<1>1. Len(q) \in Nat /\ Len(q) >= 1 /\ Head(q) = q[1] /\ Head(q) \in S /\ Tail(q) \in Seq(S)
      /\ Len(Tail(q)) = Len(q) - 1
    BY HeadTailProperties, LenProperties, EmptySeq
<1>2. \A i \in 1..Len(Tail(q)) : Tail(q)[i] = q[i + 1]
    BY HeadTailProperties
<1>3. \A i \in 1..Len(Tail(q)) : i + 1 \in 1..Len(q)
    BY <1>1
<1>4. ASSUME NEW i \in 1..Len(q), i # 1
      PROVE  i - 1 \in 1..Len(Tail(q)) /\ Tail(q)[i - 1] = q[i]
    <2>1. i - 1 \in 1..Len(Tail(q))
        BY <1>1, <1>4
    <2>2. Tail(q)[i - 1] = q[(i - 1) + 1]
        BY <1>2, <2>1
    <2> QED
        BY <1>1, <2>1, <2>2
<1> QED
    BY <1>1, <1>2, <1>3, <1>4

(* The manifests of a snapshot are not shared between the queue's head and  *)
(* the rest of it.                                                         *)
LEMMA QueueFacts ==
    ASSUME queue \in Seq(DOMAIN Manifests), queue # << >>, queue' = Tail(queue),
           \A i, j \in 1..Len(queue) : i # j => FilesOf(queue[i]) \cap FilesOf(queue[j]) = {}
    PROVE  /\ Unread = FilesOf(Head(queue)) \cup Unread'
           /\ FilesOf(Head(queue)) \cap Unread' = {}
           /\ \A i, j \in 1..Len(queue') : i # j => FilesOf(queue'[i]) \cap FilesOf(queue'[j]) = {}
<1> DEFINE q == queue
           t == Tail(queue)
<1>1. /\ Len(q) \in Nat /\ Len(q) >= 1 /\ Head(q) = q[1] /\ Len(t) \in Nat
      /\ \A i \in 1..Len(t) : i + 1 \in 1..Len(q) /\ t[i] = q[i + 1]
      /\ \A i \in 1..Len(q) : i = 1 \/ (i - 1 \in 1..Len(t) /\ t[i - 1] = q[i])
    BY TailFacts, LenProperties
<1>2. Unread' = UNION {FilesOf(t[i]) : i \in 1..Len(t)}
    BY DEF Unread, FilesOf, IsData
<1> HIDE DEF t
<1>3. Unread \subseteq FilesOf(q[1]) \cup Unread'
    BY <1>1, <1>2 DEF Unread
<1>4. FilesOf(q[1]) \subseteq Unread /\ Unread' \subseteq Unread
    <2>1. Unread = UNION {FilesOf(q[i]) : i \in 1..Len(q)}
        BY DEF Unread
    <2>2. 1 \in 1..Len(q)
        BY <1>1
    <2>3. \A i \in 1..Len(t) : \E j \in 1..Len(q) : FilesOf(t[i]) = FilesOf(q[j])
        BY <1>1
    <2> QED
        BY <1>2, <2>1, <2>2, <2>3
<1>5. FilesOf(q[1]) \cap Unread' = {}
    <2>1. \A i \in 1..Len(t) : FilesOf(q[1]) \cap FilesOf(t[i]) = {}
        <3> TAKE i \in 1..Len(t)
        <3>1. 1 \in 1..Len(q) /\ i + 1 \in 1..Len(q) /\ i + 1 # 1 /\ t[i] = q[i + 1]
            BY <1>1
        <3> QED
            BY <3>1
    <2> QED
        BY <1>2, <2>1
<1>6. \A i, j \in 1..Len(t) : i # j => FilesOf(t[i]) \cap FilesOf(t[j]) = {}
    <2> TAKE i, j \in 1..Len(t)
    <2> HAVE i # j
    <2>1. i + 1 \in 1..Len(q) /\ j + 1 \in 1..Len(q) /\ i + 1 # j + 1
          /\ t[i] = q[i + 1] /\ t[j] = q[j + 1]
        BY <1>1
    <2> QED
        BY <2>1
<1> QED
    BY <1>1, <1>3, <1>4, <1>5, <1>6 DEF t

(* A manifest that is read has waiting what it holds.                       *)
LEMMA ReadManifestFacts ==
    ASSUME DistinctFiles, WalkInv, ReadManifest
    PROVE  /\ pending' \in Seq(Entry) /\ Waiting' = FilesOf(Head(queue))
           /\ \A i, j \in 1..Len(pending') :
                IsData(pending'[i]) /\ IsData(pending'[j]) /\ pending'[i].file = pending'[j].file => i = j
<1> DEFINE m == Head(queue)
           es == Manifests[m].entries
<1>1. queue \in Seq(DOMAIN Manifests) /\ queue # << >> /\ m \in DOMAIN Manifests
    BY TailFacts DEF ReadManifest, NextManifest, WalkInv
<1>2. es \in Seq(Entry) /\ Manifests[m].deletes \in BOOLEAN
    BY <1>1, IcebergReadAssumption
<1>3. pending' = [i \in 1..Len(es) |-> [es[i] EXCEPT !.content = Content(m, es[i])]]
    BY DEF ReadManifest
<1> HIDE DEF es, m
<1>4. Len(es) \in Nat /\ \A i \in 1..Len(es) : es[i] \in Entry
    BY <1>2, ElementOfSeq, LenProperties
<1>5. \A i \in 1..Len(es) :
        /\ pending'[i] \in Entry /\ pending'[i].file = es[i].file
        /\ IsData(pending'[i]) <=> IsData(es[i]) /\ ~Manifests[m].deletes
    BY <1>2, <1>3, <1>4 DEF Entry, IsData, Content
<1>6. pending' \in Seq(Entry) /\ Len(pending') = Len(es)
    BY <1>3, <1>4, <1>5, IsASeq
<1>7. Waiting' = {pending'[i].file : i \in {i \in 1..Len(pending') : IsData(pending'[i])}}
    BY DEF Waiting, IsData
<1>8. ToSet(es) = {es[i] : i \in 1..Len(es)}
    BY <1>2, LenProperties DEF ToSet
<1>9. FilesOf(m) = {es[i].file : i \in {i \in 1..Len(es) : IsData(es[i]) /\ ~Manifests[m].deletes}}
    BY <1>8 DEF FilesOf, es
<1>10. Waiting' = FilesOf(m)
    BY <1>5, <1>6, <1>7, <1>9
<1>11. \A i, j \in 1..Len(es) : IsData(es[i]) /\ IsData(es[j]) /\ es[i].file = es[j].file => i = j
    BY <1>1 DEF DistinctFiles, es
<1> QED
    BY <1>5, <1>6, <1>10, <1>11 DEF m

(* A file that is waiting is found once, and then waits no more.            *)
LEMMA PendingFacts ==
    ASSUME pending \in Seq(Entry), pending # << >>, pending' = Tail(pending),
           \A i, j \in 1..Len(pending) :
             IsData(pending[i]) /\ IsData(pending[j]) /\ pending[i].file = pending[j].file => i = j
    PROVE  /\ pending' \in Seq(Entry) /\ Head(pending) \in Entry
           /\ ~IsData(Head(pending)) => Waiting' = Waiting
           /\ IsData(Head(pending)) => /\ Waiting = Waiting' \cup {Head(pending).file}
                                       /\ Head(pending).file \notin Waiting'
           /\ \A i, j \in 1..Len(pending') :
                IsData(pending'[i]) /\ IsData(pending'[j]) /\ pending'[i].file = pending'[j].file => i = j
<1> DEFINE p == pending
           t == Tail(pending)
<1>1. /\ Len(p) \in Nat /\ Len(p) >= 1 /\ Head(p) = p[1] /\ p[1] \in Entry
      /\ t \in Seq(Entry) /\ Len(t) \in Nat
      /\ \A i \in 1..Len(t) : i + 1 \in 1..Len(p) /\ t[i] = p[i + 1]
      /\ \A i \in 1..Len(p) : i = 1 \/ (i - 1 \in 1..Len(t) /\ t[i - 1] = p[i])
    BY TailFacts, LenProperties
<1>2. Waiting' = {t[i].file : i \in {i \in 1..Len(t) : IsData(t[i])}}
    BY DEF Waiting, IsData
<1>3. Waiting = {p[i].file : i \in {i \in 1..Len(p) : IsData(p[i])}}
    BY DEF Waiting
<1> HIDE DEF t, p
<1>4. Waiting' \subseteq Waiting
    <2>1. \A i \in 1..Len(t) : IsData(t[i]) =>
            \E j \in 1..Len(p) : IsData(p[j]) /\ p[j].file = t[i].file
        BY <1>1
    <2> QED
        BY <1>2, <1>3, <2>1
<1>5. Waiting \subseteq Waiting' \cup {p[1].file}
    <2>1. \A i \in 1..Len(p) : IsData(p[i]) =>
            i = 1 \/ \E j \in 1..Len(t) : IsData(t[j]) /\ t[j].file = p[i].file
        BY <1>1
    <2> QED
        BY <1>2, <1>3, <2>1
<1>6. ~IsData(p[1]) => Waiting \subseteq Waiting'
    <2>1. ASSUME ~IsData(p[1])
          PROVE  \A i \in 1..Len(p) : IsData(p[i]) =>
                   \E j \in 1..Len(t) : IsData(t[j]) /\ t[j].file = p[i].file
        BY <1>1, <2>1
    <2> QED
        BY <1>2, <1>3, <2>1
<1>7. IsData(p[1]) => p[1].file \in Waiting
    <2>1. 1 \in 1..Len(p)
        BY <1>1
    <2> QED
        BY <1>3, <2>1
<1>8. IsData(p[1]) => p[1].file \notin Waiting'
    <2>1. ASSUME IsData(p[1]), NEW i \in 1..Len(t), IsData(t[i])
          PROVE  t[i].file # p[1].file
        <3>1. 1 \in 1..Len(p) /\ i + 1 \in 1..Len(p) /\ i + 1 # 1 /\ t[i] = p[i + 1]
            BY <1>1
        <3> QED
            BY <2>1, <3>1 DEF p
    <2> QED
        BY <1>2, <2>1
<1>9. \A i, j \in 1..Len(t) : IsData(t[i]) /\ IsData(t[j]) /\ t[i].file = t[j].file => i = j
    <2> TAKE i, j \in 1..Len(t)
    <2> HAVE IsData(t[i]) /\ IsData(t[j]) /\ t[i].file = t[j].file
    <2>1. i + 1 \in 1..Len(p) /\ j + 1 \in 1..Len(p) /\ t[i] = p[i + 1] /\ t[j] = p[j + 1]
        BY <1>1
    <2>2. i + 1 = j + 1
        BY <2>1 DEF p
    <2> QED
        BY <2>2
<1>10. ~IsData(p[1]) => Waiting' = Waiting
    BY <1>4, <1>6
<1>11. IsData(p[1]) => Waiting = Waiting' \cup {p[1].file}
    BY <1>4, <1>5, <1>7
<1>12. pending' = t /\ Head(pending) = p[1]
    BY <1>1 DEF p, t
<1> QED
    BY <1>1, <1>8, <1>9, <1>10, <1>11, <1>12

(* One more file, that was not there.                                      *)
LEMMA FoundFacts ==
    ASSUME NEW f \in STRING, found \in Seq(STRING), found' = Append(found, f)
    PROVE  /\ found' \in Seq(STRING) /\ ToSet(found') = ToSet(found) \cup {f}
           /\ IsInjective(found) /\ f \notin ToSet(found) => IsInjective(found')
<1>0. /\ found' \in Seq(STRING) /\ Len(found') = Len(found) + 1 /\ Len(found) \in Nat
    BY AppendProperties, LenProperties
<1>1. /\ found'[Len(found) + 1] = f /\ \A i \in 1..Len(found) : found'[i] = found[i]
      /\ DOMAIN found = 1..Len(found) /\ DOMAIN found' = 1..(Len(found) + 1)
    <2>1. DOMAIN found = 1..Len(found) /\ DOMAIN found' = 1..(Len(found) + 1)
        BY <1>0, LenProperties
    <2>2. Append(found, f)[Len(found) + 1] = f
        BY AppendProperties
    <2>3. \A i \in 1..Len(found) : Append(found, f)[i] = found[i]
        BY AppendProperties
    <2> QED
        BY <2>1, <2>2, <2>3
<1>2. ToSet(found) = {found[i] : i \in DOMAIN found} /\ ToSet(found') = {found'[i] : i \in DOMAIN found'}
    BY DEF ToSet
<1>3. ToSet(found') = ToSet(found) \cup {f}
    <2>1. \A i \in DOMAIN found' : i = Len(found) + 1 \/ i \in DOMAIN found
        BY <1>0, <1>1
    <2>2. DOMAIN found \subseteq DOMAIN found' /\ Len(found) + 1 \in DOMAIN found'
        BY <1>0, <1>1
    <2> QED
        BY <1>1, <1>2, <2>1, <2>2
<1>4. ASSUME IsInjective(found), f \notin ToSet(found)
      PROVE  IsInjective(found')
    <2>1. \A a, b \in DOMAIN found : found[a] = found[b] => a = b
        BY <1>4 DEF IsInjective
    <2>2. \A a \in DOMAIN found : found[a] # f
        BY <1>2, <1>4
    <2>3. ASSUME NEW a \in DOMAIN found', NEW b \in DOMAIN found', found'[a] = found'[b]
          PROVE  a = b
        <3>1. (a = Len(found) + 1 \/ a \in DOMAIN found) /\ (b = Len(found) + 1 \/ b \in DOMAIN found)
            BY <1>0, <1>1
        <3>2. found'[Len(found) + 1] = f /\ \A i \in DOMAIN found : found'[i] = found[i]
            BY <1>1
        <3>3. CASE a \in DOMAIN found /\ b \in DOMAIN found
            BY <2>1, <2>3, <3>2, <3>3
        <3>4. CASE a \notin DOMAIN found \/ b \notin DOMAIN found
            BY <2>2, <2>3, <3>1, <3>2, <3>4
        <3> QED
            BY <3>3, <3>4
    <2> QED
        BY <2>3 DEF IsInjective
<1> QED
    BY <1>0, <1>3, <1>4

(* The snapshot's id is one the metadata has, with a manifest list.         *)
LEMMA TargetFacts ==
    ASSUME TableInv, version \in Versions, Target \in doc.snaps
    PROVE  Target \in DOMAIN table.manifests /\ Target # None
<1>1. doc \in Doc /\ doc.snaps \subseteq DOMAIN table.manifests
    BY VersionFacts, IcebergReadAssumption DEF TableInv, table, doc
<1> QED
    BY <1>1, IcebergReadAssumption DEF Doc

LEMMA ListFacts ==
    ASSUME DistinctFiles, TableInv, selected \in DOMAIN table.manifests,
           queue' = table.manifests[selected]
    PROVE  /\ queue' \in Seq(DOMAIN Manifests) /\ Unread' = Holds(selected)
           /\ \A i, j \in 1..Len(queue') : i # j => FilesOf(queue'[i]) \cap FilesOf(queue'[j]) = {}
<1> DEFINE list == table.manifests[selected]
<1>1. list \in Seq(DOMAIN Manifests)
    BY IcebergReadAssumption DEF TableInv, table
<1>2. \A i, j \in 1..Len(list) : i # j => FilesOf(list[i]) \cap FilesOf(list[j]) = {}
    BY DEF DistinctFiles, TableInv, table
<1>3. Unread' = UNION {FilesOf(list[i]) : i \in 1..Len(list)}
    BY DEF Unread, FilesOf, IsData
<1>4. Holds(selected) = UNION {FilesOf(m) : m \in ToSet(list)}
    BY DEF Holds
<1> HIDE DEF list
<1>5. ToSet(list) = {list[i] : i \in 1..Len(list)}
    BY <1>1, LenProperties DEF ToSet
<1>6. Unread' = Holds(selected)
    BY <1>3, <1>4, <1>5
<1> QED
    BY <1>1, <1>2, <1>6 DEF list

LEMMA InitWalk ==
    ASSUME Init
    PROVE  WalkInv
<1>1. << >> \in Seq(STRING) /\ << >> \in Seq(Entry) /\ << >> \in Seq(DOMAIN Manifests)
    BY EmptySeq
<1> QED
    BY <1>1 DEF Init, WalkInv

(* The invariant looks at these only.                                      *)
LEMMA WalkFrame ==
    ASSUME WalkInv, UNCHANGED <<tableName, request, selected, queue, pending, found>>,
           phase' = "select" => version' \in Versions,
           phase' \notin {"manifests", "entries", "ended", "failed"}
             => phase \notin {"manifests", "entries", "ended", "failed"},
           phase' \in {"manifests", "entries"} => phase' = phase,
           phase' = "ended" => phase' = phase \/ selected = None
    PROVE  WalkInv'
<1>1. Holds(selected)' = Holds(selected) /\ UNCHANGED table
    BY DEF Holds, table, FilesOf, IsData
<1>2. ToSet(found)' = ToSet(found) /\ (IsInjective(found) => IsInjective(found'))
    OBVIOUS
<1>3. Waiting' = Waiting /\ Unread' = Unread
    BY DEF Waiting, Unread, FilesOf, IsData
<1>4. Parted => Parted'
    <2>1. queue' = queue /\ pending' = pending /\ found' = found
        OBVIOUS
    <2> QED
        BY <1>1, <1>3, <2>1 DEF Parted
<1> QED
    BY <1>1, <1>2, <1>4 DEF WalkInv

LEMMA EngineKeepsWalk ==
    ASSUME WalkInv, Engine
    PROVE  WalkInv'
BY EngineFrame, WalkFrame DEF reader, plan, reading, WalkInv

LEMMA ResolveKeepsWalk ==
    ASSUME WalkInv, Resolve
    PROVE  WalkInv'
<1>1. /\ UNCHANGED <<tableName, request, selected, queue, pending, found>>
      /\ phase \notin {"manifests", "entries", "ended", "failed"}
      /\ phase' \notin {"select", "manifests", "entries", "ended"}
    BY DEF Resolve, Detect, Unrecognized, StatHint, ReadHint, HintStale, FoundName, NextName,
           Unresolved, OpenDir, ReadDir, Fail, env, plan, reading
<1> QED
    BY <1>1, WalkFrame

LEMMA ReadDocKeepsWalk ==
    ASSUME TableInv, WalkInv, ReadDoc
    PROVE  WalkInv'
<1>1. CASE ReadMetadata
    <2>1. /\ UNCHANGED <<tableName, request, selected, queue, pending, found>>
          /\ phase = "metadata" /\ phase' = "select" /\ version' \in Versions
        BY <1>1, VersionFacts DEF ReadMetadata, env, plan, reading
    <2> QED
        BY <2>1, WalkFrame
<1>2. CASE CatalogAnswers \/ GetAnswers
    <2>1. /\ UNCHANGED <<tableName, request, selected, queue, pending, found>>
          /\ phase \in {"catalog", "select"} /\ phase' = "detect"
        BY <1>2 DEF CatalogAnswers, GetAnswers, MakeRecord, env, plan, reading
    <2> QED
        BY <2>1, WalkFrame
<1>3. CASE MetadataMissing \/ BadFormat \/ BadId \/ SnapshotMissing
    <2>1. /\ UNCHANGED <<tableName, request, selected, queue, pending, found>>
          /\ phase' = "failed"
        BY <1>3 DEF MetadataMissing, BadFormat, BadId, SnapshotMissing, Fail, env, plan, reading
    <2> QED
        BY <2>1, WalkFrame
<1>4. CASE SelectNone
    <2>1. /\ UNCHANGED <<tableName, request, selected, queue, pending, found>>
          /\ phase = "select" /\ phase' = "ended"
        BY <1>4 DEF SelectNone, env, plan, reading
    <2> QED
        BY <2>1, WalkFrame DEF WalkInv
<1>5. CASE StreamCommits
    <2>1. /\ UNCHANGED <<tableName, request, queue, pending, found>> /\ phase = "select"
          /\ selected' = Target /\ phase' \in {"ended", "failed"} /\ request.walk = "commits"
        BY <1>5 DEF StreamCommits, env
    <2>2. Target \in DOMAIN table.manifests /\ Target # None
        BY <1>5, <2>1, TargetFacts DEF StreamCommits, WalkInv
    <2>3. found = << >> /\ ToSet(found) = {} /\ IsInjective(found)
        BY <2>1 DEF WalkInv, ToSet, IsInjective
    <2> QED
        BY <2>1, <2>2, <2>3 DEF WalkInv, table
<1>6. CASE Select
    <2>1. /\ UNCHANGED <<tableName, request, queue, pending, found>> /\ phase = "select"
          /\ selected' = Target /\ phase' = "manifests" /\ request.walk # "commits"
        BY <1>6 DEF Select, env, reading
    <2>2. Target \in DOMAIN table.manifests /\ Target # None
        BY <1>6, <2>1, TargetFacts DEF Select, WalkInv
    <2>3. found = << >> /\ ToSet(found) = {} /\ IsInjective(found)
        BY <2>1 DEF WalkInv, ToSet, IsInjective
    <2> QED
        BY <2>1, <2>2, <2>3 DEF WalkInv, table
<1> QED
    BY <1>1, <1>2, <1>3, <1>4, <1>5, <1>6 DEF ReadDoc

LEMMA ReadListKeepsWalk ==
    ASSUME DistinctFiles, TableInv, WalkInv, ReadList
    PROVE  WalkInv'
<1>1. /\ UNCHANGED <<tableName, request, selected, pending, found>>
      /\ phase = "manifests" /\ phase' = "entries" /\ queue' = table.manifests[selected]
    BY DEF ReadList, env, plan
<1>2. found = << >> /\ pending = << >> /\ selected # None /\ selected \in DOMAIN table.manifests
      /\ request.walk # "commits"
    BY <1>1 DEF WalkInv
<1>3. /\ queue' \in Seq(DOMAIN Manifests) /\ Unread' = Holds(selected)
      /\ \A i, j \in 1..Len(queue') : i # j => FilesOf(queue'[i]) \cap FilesOf(queue'[j]) = {}
    BY <1>1, <1>2, ListFacts
<1>4. Holds(selected)' = Holds(selected) /\ UNCHANGED table
    BY <1>1 DEF Holds, table, FilesOf, IsData
<1>5. Waiting' = {} /\ ToSet(found') = {} /\ IsInjective(found') /\ Len(pending') = 0
    BY <1>1, <1>2 DEF Waiting, ToSet, IsInjective
<1>6. Parted'
    <2>1. \A i \in 1..Len(pending') : FALSE
        BY <1>5
    <2>2. ToSet(found)' = {} /\ ToSet(found') \cup Waiting' \cup Unread' = Holds(selected)'
        BY <1>3, <1>4, <1>5
    <2> QED
        BY <1>3, <1>5, <2>1, <2>2 DEF Parted
<1> QED
    BY <1>1, <1>2, <1>3, <1>4, <1>5, <1>6 DEF WalkInv

LEMMA ReadManifestKeepsWalk ==
    ASSUME DistinctFiles, TableInv, WalkInv, ReadManifest
    PROVE  WalkInv'
<1>1. /\ UNCHANGED <<tableName, request, selected, found, phase>>
      /\ phase = "entries" /\ pending = << >> /\ queue # << >> /\ queue' = Tail(queue)
    BY DEF ReadManifest, NextManifest, env, plan
<1>2. Parted /\ queue \in Seq(DOMAIN Manifests)
    BY <1>1 DEF WalkInv
<1>3. /\ pending' \in Seq(Entry) /\ Waiting' = FilesOf(Head(queue))
      /\ \A i, j \in 1..Len(pending') :
           IsData(pending'[i]) /\ IsData(pending'[j]) /\ pending'[i].file = pending'[j].file => i = j
    BY ReadManifestFacts
<1>4. /\ Unread = FilesOf(Head(queue)) \cup Unread'
      /\ FilesOf(Head(queue)) \cap Unread' = {}
      /\ \A i, j \in 1..Len(queue') : i # j => FilesOf(queue'[i]) \cap FilesOf(queue'[j]) = {}
    BY <1>1, <1>2, QueueFacts DEF Parted
<1>5. Waiting = {}
    BY <1>1 DEF Waiting
<1>6. Holds(selected)' = Holds(selected) /\ UNCHANGED table /\ ToSet(found)' = ToSet(found)
    BY <1>1 DEF Holds, table, FilesOf, IsData
<1>7. Parted'
    BY <1>2, <1>3, <1>4, <1>5, <1>6 DEF Parted
<1>8. queue' \in Seq(DOMAIN Manifests)
    BY <1>1, <1>2, TailFacts
<1>9. found' = found /\ selected' = selected
    BY <1>1
<1> QED
    BY <1>1, <1>3, <1>6, <1>7, <1>8, <1>9 DEF WalkInv

LEMMA PassOverKeepsWalk ==
    ASSUME WalkInv, PassOver
    PROVE  WalkInv'
<1>1. /\ UNCHANGED <<tableName, request, selected, found, queue, phase>>
      /\ phase = "entries" /\ pending # << >> /\ pending' = Tail(pending) /\ ~IsData(Head(pending))
    BY DEF PassOver, AtEntry, env, plan
<1>2. Parted /\ pending \in Seq(Entry)
    BY <1>1 DEF WalkInv
<1>3. /\ pending' \in Seq(Entry) /\ Waiting' = Waiting
      /\ \A i, j \in 1..Len(pending') :
           IsData(pending'[i]) /\ IsData(pending'[j]) /\ pending'[i].file = pending'[j].file => i = j
    BY <1>1, <1>2, PendingFacts DEF Parted
<1>4. Holds(selected)' = Holds(selected) /\ UNCHANGED table /\ Unread' = Unread
    BY <1>1 DEF Holds, table, FilesOf, IsData, Unread
<1>5. found' = found /\ selected' = selected /\ queue' = queue
    BY <1>1
<1>6. Parted'
    BY <1>2, <1>3, <1>4, <1>5 DEF Parted
<1> QED
    BY <1>1, <1>3, <1>4, <1>5, <1>6 DEF WalkInv

LEMMA DataFileKeepsWalk ==
    ASSUME WalkInv, DataFile
    PROVE  WalkInv'
<1> DEFINE f == Head(pending).file
<1>1. /\ UNCHANGED <<tableName, request, selected, queue, phase>>
      /\ phase = "entries" /\ pending # << >> /\ pending' = Tail(pending)
      /\ IsData(Head(pending)) /\ found' = Append(found, f)
    BY DEF DataFile, AtEntry, env, plan
<1>2. Parted /\ pending \in Seq(Entry) /\ found \in Seq(STRING) /\ IsInjective(found)
      /\ request.walk # "commits" /\ selected # None
    BY <1>1 DEF WalkInv
<1>3. /\ pending' \in Seq(Entry) /\ Head(pending) \in Entry
      /\ Waiting = Waiting' \cup {f} /\ f \notin Waiting'
      /\ \A i, j \in 1..Len(pending') :
           IsData(pending'[i]) /\ IsData(pending'[j]) /\ pending'[i].file = pending'[j].file => i = j
    BY <1>1, <1>2, PendingFacts DEF Parted
<1> HIDE DEF f
<1>4. f \in STRING /\ f \notin ToSet(found)
    BY <1>2, <1>3 DEF Entry, Parted, f
<1>5. found' \in Seq(STRING) /\ ToSet(found') = ToSet(found) \cup {f} /\ IsInjective(found')
    BY <1>1, <1>2, <1>4, FoundFacts
<1>6. Holds(selected)' = Holds(selected) /\ UNCHANGED table /\ Unread' = Unread
    BY <1>1 DEF Holds, table, FilesOf, IsData, Unread
<1>7. selected' = selected /\ queue' = queue
    BY <1>1
<1>8. Parted'
    BY <1>2, <1>3, <1>4, <1>5, <1>6, <1>7 DEF Parted
<1>9. ToSet(found') \subseteq Holds(selected)
    BY <1>2, <1>3, <1>5 DEF Parted
<1> QED
    BY <1>1, <1>2, <1>3, <1>5, <1>6, <1>7, <1>8, <1>9 DEF WalkInv

LEMMA EndEntriesKeepsWalk ==
    ASSUME WalkInv, EndEntries
    PROVE  WalkInv'
<1>1. /\ UNCHANGED <<tableName, request, selected, queue, pending, found>>
      /\ phase = "entries" /\ pending = << >> /\ queue = << >> /\ phase' \in {"ended", "failed"}
    BY DEF EndEntries, env, plan
<1>2. Waiting = {} /\ Unread = {}
    BY <1>1 DEF Waiting, Unread
<1>3. ToSet(found) = Holds(selected)
    BY <1>1, <1>2 DEF WalkInv, Parted
<1>4. Holds(selected)' = Holds(selected) /\ UNCHANGED table
    BY <1>1 DEF Holds, table, FilesOf, IsData
<1>5. found' = found /\ selected' = selected /\ queue' = queue /\ pending' = pending
    BY <1>1
<1> QED
    BY <1>1, <1>3, <1>4, <1>5 DEF WalkInv

LEMMA ReadEntriesKeepsWalk ==
    ASSUME DistinctFiles, TableInv, WalkInv, ReadEntries
    PROVE  WalkInv'
<1>1. CASE ListMissing \/ ManifestMissing \/ BadEntry
    <2>1. UNCHANGED <<tableName, request, selected, queue, pending, found>> /\ phase' = "failed"
        BY <1>1 DEF ListMissing, ManifestMissing, BadEntry, Fail, env, plan, reading
    <2> QED
        BY <2>1, WalkFrame
<1> QED
    BY <1>1, ReadListKeepsWalk, ReadManifestKeepsWalk, PassOverKeepsWalk, DataFileKeepsWalk,
       EndEntriesKeepsWalk DEF ReadEntries

LEMMA WalkStep ==
    ASSUME DistinctFiles, TableInv, WalkInv, [Next]_vars
    PROVE  WalkInv'
<1>1. CASE RequestFails
    <2>1. UNCHANGED <<tableName, request, selected, queue, pending, found>> /\ phase' = "failed"
        BY <1>1 DEF RequestFails, Fail, env, plan, reading
    <2> QED
        BY <2>1, WalkFrame
<1>2. CASE UNCHANGED vars
    <2>1. UNCHANGED <<tableName, request, selected, queue, pending, found, phase, version>>
        BY <1>2 DEF vars, env, plan, reading
    <2> QED
        BY <2>1, WalkFrame DEF WalkInv
<1> QED
    BY <1>1, <1>2, EngineKeepsWalk, ResolveKeepsWalk, ReadDocKeepsWalk, ReadEntriesKeepsWalk
       DEF Next, Progress

(* What the caller has is nothing, or what was found.                      *)
LEMMA OutFacts ==
    ASSUME TableInv
    PROVE  /\ Out = found \/ Out = << >>
           /\ phase = "ended" /\ request.walk # "commits" =>
                Out = IF request.walk = "files" /\ ~Named(IF selected = None THEN 0 ELSE selected)
                      THEN << >> ELSE found
<1>1. request.walk \in {"commits", "active", "files", "load"}
    BY IcebergReadAssumption DEF TableInv, Request
<1> QED
    BY <1>1 DEF Out

(* Whatever is committed, moved or reclaimed during a walk, its files are   *)
(* of one snapshot, each once, and all of them when it ends; of a walk      *)
(* that fails they are some of them (active_entries, stream_files, load).   *)
THEOREM OneSnapshotHolds ==
    ASSUME DistinctFiles
    PROVE  Spec => []OneSnapshot
<1>1. Init => TableInv /\ WalkInv
    BY InitTable, InitWalk
<1>2. TableInv /\ WalkInv /\ [Next]_vars => (TableInv /\ WalkInv)'
    BY TableStep, WalkStep
<1>3. ASSUME TableInv, WalkInv
      PROVE  OneSnapshot
    <2>1. ToSet(<< >>) = {} /\ IsInjective(<< >>)
        BY DEF ToSet, IsInjective
    <2>2. selected = None => Out = << >>
        BY <1>3, OutFacts DEF WalkInv
    <2>3. selected # None => ToSet(Out) \subseteq Holds(selected) /\ IsInjective(Out)
        BY <1>3, <2>1, OutFacts DEF WalkInv
    <2>4. phase = "ended" /\ selected # None /\ request.walk # "commits" =>
            ToSet(Out) = IF request.walk = "files" /\ ~Named(selected) THEN {} ELSE Holds(selected)
        BY <1>3, <2>1, OutFacts DEF WalkInv
    <2> QED
        BY <2>2, <2>3, <2>4 DEF OneSnapshot
<1> QED
    BY <1>1, <1>2, <1>3, PTL DEF Spec

-----------------------------------------------------------------------------
(* A table nobody touches.                                                 *)

StillInv ==
    /\ style \in 1..3
    /\ ~moved =>
        /\ hint = 0 \/ hint \in metas
        /\ gone = {}
        /\ AtJson /\ phase = "detect" => version \in metas
        /\ phase = "readhint" => hint # 0 /\ seen = {hint}
        /\ phase = "try" => version \in metas /\ try \in 1..style
        /\ phase = "readdir" => seen = metas
        /\ phase = "metadata" => version \in metas
        /\ error \notin {"missing", "unresolved", "stale"}

(* Only a table root is read to make a record.                              *)
GetInv == stage = "get" => request.via = "get" \/ (request.via = "catalog" /\ phase \in {"catalog", "failed"})

LEMMA GetStep ==
    ASSUME GetInv, [Next]_vars
    PROVE  GetInv'
<1>1. CASE Engine
    BY <1>1, EngineFrame DEF GetInv, reader
<1>2. CASE Resolve
    BY <1>2 DEF Resolve, Detect, Unrecognized, StatHint, ReadHint, HintStale, FoundName, NextName,
                Unresolved, OpenDir, ReadDir, Fail, GetInv, env
<1>3. CASE ReadDoc
    BY <1>3 DEF ReadDoc, ReadMetadata, MetadataMissing, BadFormat, CatalogAnswers, GetAnswers,
                MakeRecord, BadId, SnapshotMissing, SelectNone, StreamCommits, Select, Fail,
                GetInv, env
<1>4. CASE ReadEntries
    BY <1>4 DEF ReadEntries, ReadList, ListMissing, ReadManifest, ManifestMissing, PassOver,
                DataFile, BadEntry, EndEntries, NextManifest, AtEntry, Fail, GetInv, env
<1>5. CASE RequestFails
    BY <1>5 DEF RequestFails, Fail, GetInv, env
<1>6. CASE UNCHANGED vars
    BY <1>6 DEF vars, env, GetInv
<1> QED
    BY <1>1, <1>2, <1>3, <1>4, <1>5, <1>6 DEF Next, Progress

LEMMA InitStill ==
    ASSUME Init
    PROVE  StillInv /\ GetInv
BY IcebergReadAssumption DEF Init, StillInv, AtJson, GetInv

LEMMA ResolveKeepsStill ==
    ASSUME TableInv, StillInv, Resolve
    PROVE  StillInv'
<1>1. UNCHANGED env /\ UNCHANGED stage
    BY ReadersFrame DEF Progress, Resolve, Detect, Unrecognized, StatHint, ReadHint, HintStale,
       FoundName, NextName, Unresolved, OpenDir, ReadDir, Fail
<1> SUFFICES ASSUME ~moved
             PROVE  StillInv'
    BY <1>1 DEF StillInv, env
<1>2. CASE Detect
    BY <1>1, <1>2 DEF Detect, StillInv, AtJson, env
<1>3. CASE StatHint
    BY <1>1, <1>3 DEF StatHint, StillInv, env
<1>4. CASE ReadHint
    <2>1. hint # 0 /\ hint \in metas /\ seen = {hint} /\ hint \in 1..hint /\ Pinned
        BY <1>4, VersionFacts DEF ReadHint, StillInv, TableInv
    <2>2. version' = hint /\ try' = 1
        BY <1>4, <2>1, HintFacts DEF ReadHint, CutShort
    <2> QED
        BY <1>1, <1>4, <2>1, <2>2 DEF ReadHint, StillInv, env
<1>5. CASE FoundName
    BY <1>1, <1>5 DEF FoundName, StillInv, env
<1>6. CASE NextName
    <2>1. version \in metas /\ try \in 1..style /\ try # style
        BY <1>6 DEF NextName, Exists, StillInv
    <2>2. try + 1 \in 1..style
        BY <2>1 DEF StillInv
    <2> QED
        BY <1>1, <1>6, <2>1, <2>2 DEF NextName, NextTry, StillInv, env
<1>7. CASE Unresolved
    <2>1. try = style
        BY <1>7 DEF Unresolved, StillInv, Names
    <2> QED
        BY <1>7, <2>1 DEF Unresolved, Exists, StillInv
<1>8. CASE HintStale
    BY <1>8 DEF HintStale, Pinned, StillInv
<1>9. CASE Unrecognized
    BY <1>1, <1>9 DEF Unrecognized, Fail, StillInv, env
<1>10. CASE OpenDir
    BY <1>1, <1>10 DEF OpenDir, StillInv, env
<1>11. CASE ReadDir
    <2>1. seen = metas /\ newest \in metas
        BY <1>11, VersionFacts DEF ReadDir, StillInv, TableInv
    <2>2. PICK extra \in SUBSET ((seen \ metas) \cup (Max(seen) + 1..newest)) :
            \/ /\ \E v \in (seen \cap metas) \cup extra :
                    (\A w \in (seen \cap metas) \cup extra : w <= v) /\ version' = v
               /\ phase' = "metadata" /\ UNCHANGED error
            \/ (seen \cap metas) \cup extra = {}
        BY <1>11 DEF ReadDir
    <2>3. PICK v \in (seen \cap metas) \cup extra :
            (\A w \in (seen \cap metas) \cup extra : w <= v) /\ version' = v
        BY <2>1, <2>2
    <2>4. phase' = "metadata" /\ UNCHANGED error
        BY <2>1, <2>2
    <2>5. PICK first \in 1..newest : metas = first..newest
        BY DEF TableInv
    <2>6. v \in Int /\ v <= newest /\ (v >= newest \/ v \notin metas) /\ newest <= v
        BY <2>1, <2>3, <2>5, ListingFacts, VersionFacts
    <2>7. version' \in metas
        BY <2>1, <2>3, <2>6, VersionFacts
    <2> QED
        BY <1>1, <2>4, <2>7 DEF StillInv, env
<1> QED
    BY <1>2, <1>3, <1>4, <1>5, <1>6, <1>7, <1>8, <1>9, <1>10, <1>11 DEF Resolve

LEMMA ReadDocKeepsStill ==
    ASSUME TableInv, GetInv, StillInv, ReadDoc
    PROVE  StillInv'
<1>1. UNCHANGED env
    BY ReadersFrame DEF Progress
<1>2. CASE CatalogAnswers
    <2>1. newest \in metas
        BY VersionFacts DEF TableInv
    <2> QED
        BY <1>1, <1>2, <2>1 DEF CatalogAnswers, MakeRecord, StillInv, AtJson, env
<1>3. CASE GetAnswers
    <2>1. UNCHANGED <<env, error>> /\ phase' = "detect"
        BY <1>1, <1>3 DEF GetAnswers, MakeRecord
    <2>2. request.via = "get"
        BY <1>3 DEF GetAnswers, GetInv
    <2> QED
        BY <2>1, <2>2 DEF StillInv, AtJson, env
<1>4. CASE MetadataMissing
    BY <1>4 DEF MetadataMissing, StillInv, Fail, env
<1>5. CASE ReadMetadata \/ SelectNone \/ Select
    BY <1>1, <1>5 DEF ReadMetadata, SelectNone, Select, StillInv, env
<1>6. CASE BadFormat \/ BadId \/ SnapshotMissing
    BY <1>1, <1>6 DEF BadFormat, BadId, SnapshotMissing, Fail, StillInv, env
<1>7. CASE StreamCommits
    BY <1>1, <1>7 DEF StreamCommits, StillInv, env
<1> QED
    BY <1>2, <1>3, <1>4, <1>5, <1>6, <1>7 DEF ReadDoc

LEMMA ReadEntriesKeepsStill ==
    ASSUME StillInv, ReadEntries
    PROVE  StillInv'
<1>1. UNCHANGED env
    BY ReadersFrame DEF Progress
<1>2. CASE ListMissing \/ ManifestMissing
    BY <1>1, <1>2 DEF ListMissing, ManifestMissing, Fail, StillInv, env
<1>3. CASE ReadList \/ ReadManifest \/ PassOver \/ DataFile \/ BadEntry \/ EndEntries
    BY <1>1, <1>3 DEF ReadList, ReadManifest, PassOver, DataFile, BadEntry, EndEntries,
                      NextManifest, AtEntry, Fail, StillInv, env
<1> QED
    BY <1>2, <1>3 DEF ReadEntries

LEMMA StillStep ==
    ASSUME TableInv, GetInv, StillInv, [Next]_vars
    PROVE  StillInv'
<1>1. CASE Engine
    <2>1. moved' = TRUE
        BY <1>1 DEF Engine, CommitMetadata, WriteHint, ReclaimMetadata, ReclaimObject
    <2> QED
        BY <1>1, <2>1, EngineFrame DEF StillInv
<1>2. CASE RequestFails
    BY <1>2, ReadersFrame DEF RequestFails, Fail, StillInv, env
<1>3. CASE UNCHANGED vars
    BY <1>3 DEF vars, env, resolution, StillInv, AtJson
<1> QED
    BY <1>1, <1>2, <1>3, ResolveKeepsStill, ReadDocKeepsStill, ReadEntriesKeepsStill
       DEF Next, Progress

(* A table nobody touches while it is read is found, whatever its layout    *)
(* and wherever it is, unless a request fails of its own account: no read   *)
(* says a name is missing, unresolved or stale (resolve_metadata_location). *)
THEOREM UndisturbedResolvesHolds == Spec => []UndisturbedResolves
<1>1. Init => TableInv /\ GetInv /\ StillInv
    BY InitTable, InitStill
<1>2. TableInv /\ GetInv /\ StillInv /\ [Next]_vars => (TableInv /\ GetInv /\ StillInv)'
    BY TableStep, GetStep, StillStep
<1>3. StillInv => UndisturbedResolves
    BY DEF StillInv, UndisturbedResolves
<1> QED
    BY <1>1, <1>2, <1>3, PTL DEF Spec

-----------------------------------------------------------------------------
(* The commits: ancestry.                                                  *)

(* A non-empty set of natural numbers has a least element: the proofs by    *)
(* induction below take the least counterexample.                          *)
LEMMA LeastNat ==
    ASSUME NEW T, T \subseteq Nat, T # {}
    PROVE  \E n \in T : \A m \in T : n <= m
<1>1. IsWellFoundedOn(OpToRel(<, Nat), Nat)
    BY Zenon, NatLessThanWellFounded
<1>2. PICK n \in T : \A m \in T : ~(<<m, n>> \in OpToRel(<, Nat))
    BY Zenon, <1>1, WFMin
<1>3. \A m, k \in Nat : m < k => <<m, k>> \in OpToRel(<, Nat)
    BY Zenon DEF OpToRel
<1>4. \A m \in T : ~(m < n)
    BY Zenon, <1>2, <1>3
<1>5. n \in Nat
    OBVIOUS
<1> QED
    BY <1>4, <1>5

(* The sequence of no element, and of one.                                  *)
LEMMA SetToSeqFacts ==
    SetToSeq({}) = << >> /\ \A x : SetToSeq({x}) = <<x>>
<1>1. SetToSeq({}) = << >>
    <2>1. Cardinality({}) = 0
        BY FS_EmptySet
    <2>2. \A f : f \in [1..Cardinality({}) -> {}] => f = << >>
        BY <2>1
    <2>3. << >> \in [1..Cardinality({}) -> {}] /\ IsInjective(<< >>)
        BY <2>1 DEF IsInjective
    <2> QED
        BY <2>2, <2>3 DEF SetToSeq
<1>2. ASSUME NEW x PROVE SetToSeq({x}) = <<x>>
    <2>1. Cardinality({x}) = 1
        BY FS_Singleton
    <2>2. \A f : f \in [1..Cardinality({x}) -> {x}] => f = <<x>>
        <3> SUFFICES ASSUME NEW f \in [1..1 -> {x}] PROVE f = <<x>>
            BY <2>1
        <3>1. f \in Seq({x}) /\ Len(f) = 1 /\ f[1] = x
            OBVIOUS
        <3> QED
            BY <3>1
    <2>3. <<x>> \in [1..Cardinality({x}) -> {x}] /\ IsInjective(<<x>>)
        BY <2>1 DEF IsInjective
    <2> QED
        BY <2>2, <2>3 DEF SetToSeq
<1> QED
    BY <1>1, <1>2

(* One step back: to the parent, if the metadata has it and the chain has  *)
(* not been there.                                                         *)
Longer(t, snaps, chain) == chain \o SetToSeq(Parents(t, snaps, chain))

(* A chain is of snaps, begins with s, and goes from child to parent and   *)
(* nowhere twice.                                                          *)
IsChain(t, snaps, s, chain) ==
    /\ chain \in Seq(snaps) /\ Len(chain) >= 1 /\ chain[1] = s
    /\ \A i, j \in 1..Len(chain) : chain[i] = chain[j] => i = j
    /\ \A i \in 1..Len(chain) - 1 : t.parent[chain[i]] = chain[i + 1]

LEMMA LongerFacts ==
    ASSUME NEW t, NEW snaps, NEW s, NEW chain, IsChain(t, snaps, s, chain)
    PROVE  /\ IsChain(t, snaps, s, Longer(t, snaps, chain))
           /\ \/ Parents(t, snaps, chain) = {} /\ Longer(t, snaps, chain) = chain
              \/ Len(Longer(t, snaps, chain)) = Len(chain) + 1
<1> DEFINE p == t.parent[Last(chain)]
<1>1. /\ chain \in Seq(snaps) /\ Len(chain) \in Nat /\ Len(chain) >= 1
      /\ DOMAIN chain = 1..Len(chain)
    BY LenProperties DEF IsChain
<1>2. Last(chain) = chain[Len(chain)]
    BY DEF Last
<1>3. CASE p \in snaps \ ToSet(chain)
    <2>1. Parents(t, snaps, chain) = {p}
        BY <1>3 DEF Parents
    <2>2. Longer(t, snaps, chain) = chain \o <<p>>
        BY <2>1, SetToSeqFacts DEF Longer
    <2> DEFINE longer == chain \o <<p>>
    <2>3. /\ longer \in Seq(snaps) /\ Len(longer) = Len(chain) + 1
          /\ \A i \in 1..Len(chain) : longer[i] = chain[i]
          /\ longer[Len(chain) + 1] = p
        BY <1>1, <1>3
    <2>4. \A i \in 1..Len(chain) : chain[i] # p
        BY <1>1, <1>3 DEF ToSet
    <2> HIDE DEF longer, p
    <2>5. ASSUME NEW i \in 1..Len(longer), NEW j \in 1..Len(longer), longer[i] = longer[j]
          PROVE  i = j
        <3>1. /\ i \in 1..Len(chain) \/ i = Len(chain) + 1
              /\ j \in 1..Len(chain) \/ j = Len(chain) + 1
            BY <1>1, <2>3
        <3> QED
            BY <2>3, <2>4, <2>5, <3>1 DEF IsChain
    <2>6. ASSUME NEW i \in 1..Len(longer) - 1
          PROVE  t.parent[longer[i]] = longer[i + 1]
        <3>1. i \in 1..Len(chain)
            BY <1>1, <2>3
        <3>2. CASE i = Len(chain)
            BY <1>2, <2>3, <3>1, <3>2 DEF p
        <3>3. CASE i # Len(chain)
            <4>0. i \in Nat /\ 1 <= i /\ i <= Len(chain) /\ Len(chain) \in Nat
                BY <1>1, <3>1
            <4>1. i \in 1..Len(chain) - 1 /\ i + 1 \in 1..Len(chain)
                BY <3>3, <4>0
            <4> QED
                BY <2>3, <3>1, <4>1 DEF IsChain
        <3> QED
            BY <3>2, <3>3
    <2>7. longer[1] = s /\ Len(longer) >= 1
        BY <1>1, <2>3 DEF IsChain
    <2>8. IsChain(t, snaps, s, longer)
        BY <2>3, <2>5, <2>6, <2>7 DEF IsChain
    <2> QED
        BY <2>2, <2>3, <2>8 DEF longer
<1>4. CASE p \notin snaps \ ToSet(chain)
    <2>1. Parents(t, snaps, chain) = {}
        BY <1>4 DEF Parents
    <2>2. Longer(t, snaps, chain) = chain \o << >>
        BY <2>1, SetToSeqFacts DEF Longer
    <2>3. Longer(t, snaps, chain) = chain
        BY <1>1, <2>2
    <2> QED
        BY <2>1, <2>3
<1> QED
    BY <1>3, <1>4


(* The chains of Ancestry, as a function that is known to exist.            *)
Grows(t, snaps, s, f) ==
    /\ f \in [0..Cardinality(snaps) -> Seq(snaps)]
    /\ f[0] = <<s>>
    /\ \A n \in 1..Cardinality(snaps) : f[n] = Longer(t, snaps, f[n - 1])
    /\ Ancestry(t, snaps, s) = Reverse(f[Cardinality(snaps)])

LEMMA AncestryGrows ==
    ASSUME NEW t, NEW snaps, NEW s \in snaps, Cardinality(snaps) \in Nat
    PROVE  \E f : Grows(t, snaps, s, f)
<1> DEFINE N == Cardinality(snaps)
           Step(g, n) == IF n = 0 THEN <<s>> ELSE Longer(t, snaps, g[n - 1])
           Defined(k) == \E g \in [0..k -> Seq(snaps)] : \A n \in 0..k : g[n] = Step(g, n)
           Bad == {k \in Nat : ~Defined(k)}
<1>0. <<s>> \in Seq(snaps)
    OBVIOUS
<1>1. ASSUME NEW c \in Seq(snaps)
      PROVE  Longer(t, snaps, c) \in Seq(snaps)
    <2>1. CASE Parents(t, snaps, c) = {}
        <3>1. Longer(t, snaps, c) = c \o << >>
            BY <2>1, SetToSeqFacts DEF Longer
        <3> QED
            BY <3>1
    <2>2. CASE Parents(t, snaps, c) # {}
        <3>1. PICK p \in snaps : Parents(t, snaps, c) = {p}
            BY <2>2 DEF Parents
        <3>2. Longer(t, snaps, c) = c \o <<p>>
            BY <3>1, SetToSeqFacts DEF Longer
        <3> QED
            BY <3>2
    <2> QED
        BY <2>1, <2>2
<1>2. Bad = {}
    <2> SUFFICES ASSUME Bad # {} PROVE FALSE
        OBVIOUS
    <2>1. PICK k \in Bad : \A m \in Bad : k <= m
        <3>1. Bad \subseteq Nat
            OBVIOUS
        <3> HIDE DEF Bad
        <3> QED
            BY <3>1, LeastNat
    <2>2. k \in Nat /\ ~Defined(k)
        BY <2>1
    <2>3. k # 0
        <3> SUFFICES ASSUME k = 0 PROVE FALSE
            OBVIOUS
        <3>1. [n \in 0..0 |-> <<s>>] \in [0..0 -> Seq(snaps)]
            BY <1>0
        <3>2. \A n \in 0..0 : [m \in 0..0 |-> <<s>>][n] = Step([m \in 0..0 |-> <<s>>], n)
            OBVIOUS
        <3> QED
            BY <2>2, <3>1, <3>2
    <2>4. PICK g \in [0..k - 1 -> Seq(snaps)] : \A n \in 0..k - 1 : g[n] = Step(g, n)
        <3>1. k - 1 \in Nat /\ ~(k <= k - 1)
            BY <2>2, <2>3
        <3>2. k - 1 \notin Bad
            BY <2>1, <3>1
        <3> QED
            BY <3>1, <3>2
    <2> DEFINE h == [n \in 0..k |-> IF n = k THEN Longer(t, snaps, g[k - 1]) ELSE g[n]]
    <2>5. h \in [0..k -> Seq(snaps)]
        <3>1. g[k - 1] \in Seq(snaps)
            BY <2>2, <2>3, <2>4
        <3>2. Longer(t, snaps, g[k - 1]) \in Seq(snaps)
            BY <1>1, <3>1
        <3>3. ASSUME NEW n \in 0..k PROVE h[n] \in Seq(snaps)
            <4>1. n # k => n \in 0..k - 1
                BY <2>2
            <4> QED
                BY <2>4, <3>2, <4>1
        <3> QED
            BY <3>3
    <2>6. ASSUME NEW n \in 0..k PROVE h[n] = Step(h, n)
        <3>1. CASE n = k
            <4>1. k - 1 \in 0..k /\ k - 1 # k
                BY <2>2, <2>3
            <4>2. h[k - 1] = g[k - 1]
                BY <4>1
            <4>3. h[n] = Longer(t, snaps, g[k - 1])
                BY <3>1
            <4> QED
                BY <2>3, <3>1, <4>2, <4>3
        <3>2. CASE n # k
            <4>1. n \in 0..k - 1 /\ h[n] = g[n]
                BY <2>2, <3>2
            <4>2. n # 0 => n - 1 \in 0..k /\ n - 1 # k
                BY <2>2
            <4>3. n # 0 => h[n - 1] = g[n - 1]
                BY <4>2
            <4>4. g[n] = Step(g, n)
                BY <2>4, <4>1
            <4> QED
                BY <4>1, <4>3, <4>4
        <3> QED
            BY <3>1, <3>2
    <2> QED
        BY <2>2, <2>5, <2>6
<1>3. PICK f \in [0..N -> Seq(snaps)] : \A n \in 0..N : f[n] = Step(f, n)
    <2> HIDE DEF Defined
    <2>1. Defined(N)
        BY <1>2
    <2> QED
        BY <2>1 DEF Defined
<1> DEFINE chain == CHOOSE g : g = [n \in 0..N |->
                        IF n = 0 THEN <<s>>
                        ELSE g[n - 1] \o SetToSeq(Parents(t, snaps, g[n - 1]))]
<1>4. f = [n \in 0..N |-> IF n = 0 THEN <<s>>
                          ELSE f[n - 1] \o SetToSeq(Parents(t, snaps, f[n - 1]))]
    BY <1>3 DEF Longer
<1>5. chain = [n \in 0..N |-> IF n = 0 THEN <<s>>
                              ELSE chain[n - 1] \o SetToSeq(Parents(t, snaps, chain[n - 1]))]
    BY Zenon, <1>4
<1>6. Ancestry(t, snaps, s) = Reverse(chain[N])
    BY Zenon DEF Ancestry
<1> HIDE DEF chain
<1>7. ASSUME NEW n \in 0..N PROVE chain[n] = Step(chain, n)
    BY <1>5 DEF Longer
<1>8. \A n \in 0..N : chain[n] \in Seq(snaps)
    <2> DEFINE Odd == {k \in Nat : k \in 0..N /\ chain[k] \notin Seq(snaps)}
    <2>0. (\A n \in 0..N : n \in Nat) /\ (Odd = {} => \A n \in 0..N : chain[n] \in Seq(snaps))
        <3>1. \A n \in 0..N : n \in Nat
            OBVIOUS
        <3> QED
            BY Zenon, <3>1
    <2> SUFFICES ASSUME Odd # {} PROVE FALSE
        BY <2>0
    <2>1. PICK k \in Odd : \A m \in Odd : k <= m
        <3>1. Odd \subseteq Nat
            OBVIOUS
        <3> HIDE DEF Odd
        <3> QED
            BY <3>1, LeastNat
    <2>2. k \in Nat /\ k \in 0..N /\ chain[k] \notin Seq(snaps)
        BY <2>1
    <2>3. chain[k] = Step(chain, k)
        BY <1>7, <2>2
    <2>4. k # 0
        BY <1>0, <2>2, <2>3
    <2>5. k - 1 \in Nat /\ k - 1 \in 0..N /\ ~(k <= k - 1)
        BY <2>2, <2>4
    <2>6. chain[k - 1] \in Seq(snaps)
        BY <2>1, <2>5
    <2> QED
        BY <1>1, <2>2, <2>3, <2>4, <2>6
<1>9. chain \in [0..N -> Seq(snaps)]
    BY <1>5, <1>8
<1>10. chain[0] = <<s>>
    BY <1>7
<1>11. ASSUME NEW n \in 1..N PROVE chain[n] = Longer(t, snaps, chain[n - 1])
    <2>1. n \in 0..N /\ n # 0
        OBVIOUS
    <2> QED
        BY <1>7, <2>1
<1> QED
    BY <1>6, <1>9, <1>10, <1>11 DEF Grows


(* What ancestry promises: linked parent to child up to s, no snapshot      *)
(* twice, and none before the first that the metadata has and it left out.  *)
IsAncestry(t, snaps, s, ids) ==
    /\ ids \in Seq(snaps) /\ ids # << >> /\ Last(ids) = s
    /\ IsInjective(ids) /\ ToSet(ids) \subseteq snaps
    /\ \A i \in 1..Len(ids) - 1 : t.parent[ids[i + 1]] = ids[i]
    /\ t.parent[ids[1]] \notin snaps \ ToSet(ids)

(* The chain turned round.                                                  *)
LEMMA ReverseFacts ==
    ASSUME NEW t, NEW snaps, NEW s, NEW chain, IsChain(t, snaps, s, chain),
           Parents(t, snaps, chain) = {}
    PROVE  IsAncestry(t, snaps, s, Reverse(chain))
<1> DEFINE n == Len(chain)
           ids == Reverse(chain)
<1>1. /\ chain \in Seq(snaps) /\ n \in Nat /\ n >= 1
      /\ \A i \in 1..n : chain[i] \in snaps
    BY LenProperties, ElementOfSeq DEF IsChain
<1>2. ids = [i \in 1..n |-> chain[(n - i) + 1]]
    BY DEF Reverse
<1>3. \A i \in 1..n : (n - i) + 1 \in 1..n
    BY <1>1
<1>4. /\ ids \in Seq(snaps) /\ Len(ids) = n /\ DOMAIN ids = 1..n
      /\ \A i \in 1..n : ids[i] = chain[(n - i) + 1]
    <2>1. ids \in [1..n -> snaps]
        BY <1>1, <1>2, <1>3
    <2> HIDE DEF ids
    <2> QED
        BY <1>1, <1>2, <2>1
<1>5. ToSet(ids) = {ids[i] : i \in 1..n} /\ ToSet(chain) = {chain[i] : i \in 1..n}
    <2>1. DOMAIN chain = 1..n
        BY <1>1, LenProperties
    <2> QED
        BY <1>4, <2>1 DEF ToSet
<1> HIDE DEF ids
<1>6. ToSet(ids) = ToSet(chain) /\ ToSet(ids) \subseteq snaps
    <2>1. \A i \in 1..n : chain[i] = ids[(n - i) + 1]
        <3> TAKE i \in 1..n
        <3>1. (n - i) + 1 \in 1..n /\ (n - ((n - i) + 1)) + 1 = i
            BY <1>1
        <3> QED
            BY <1>4, <3>1
    <2>2. ToSet(chain) \subseteq ToSet(ids)
        BY <1>3, <1>5, <2>1
    <2>3. ToSet(ids) \subseteq ToSet(chain)
        BY <1>3, <1>4, <1>5
    <2> QED
        BY <1>1, <1>5, <2>2, <2>3
<1>7. IsInjective(ids)
    <2> SUFFICES ASSUME NEW i \in 1..n, NEW j \in 1..n, ids[i] = ids[j]
                 PROVE  i = j
        BY <1>4 DEF IsInjective
    <2>1. (n - i) + 1 \in 1..n /\ (n - j) + 1 \in 1..n
        BY <1>3
    <2>2. chain[(n - i) + 1] = chain[(n - j) + 1]
        BY <1>4
    <2>3. (n - i) + 1 = (n - j) + 1
        BY <2>1, <2>2 DEF IsChain
    <2> QED
        BY <1>1, <2>3
<1>8. ASSUME NEW i \in 1..n - 1
      PROVE  t.parent[ids[i + 1]] = ids[i]
    <2>1. /\ i \in 1..n /\ i + 1 \in 1..n /\ n - i \in 1..n - 1
          /\ (n - (i + 1)) + 1 = n - i
        BY <1>1
    <2>2. ids[i + 1] = chain[n - i] /\ ids[i] = chain[(n - i) + 1]
        BY <1>4, <2>1
    <2> QED
        BY <2>1, <2>2 DEF IsChain
<1>9. Last(ids) = s /\ ids[1] = Last(chain) /\ ids # << >>
    <2>1. 1 \in 1..n /\ n \in 1..n /\ (n - n) + 1 = 1 /\ (n - 1) + 1 = n
        BY <1>1
    <2>2. ids[n] = chain[1] /\ ids[1] = chain[n]
        BY <1>4, <2>1
    <2>3. Last(ids) = ids[n] /\ Last(chain) = chain[n] /\ ids # << >>
        BY <1>1, <1>4 DEF Last
    <2>4. chain[1] = s
        BY DEF IsChain
    <2> QED
        BY <2>2, <2>3, <2>4
<1>10. t.parent[Last(chain)] \notin snaps \ ToSet(chain)
    BY DEF Parents
<1> QED
    BY <1>4, <1>6, <1>7, <1>8, <1>9, <1>10 DEF IsAncestry, ids

(* A chain that grew at every step would be longer than snaps.              *)
LEMMA ChainIsShort ==
    ASSUME NEW t, NEW snaps, IsFiniteSet(snaps), NEW s, NEW chain, IsChain(t, snaps, s, chain)
    PROVE  Len(chain) <= Cardinality(snaps)
<1>1. /\ chain \in [1..Len(chain) -> snaps] /\ Len(chain) \in Nat
      /\ \A i, j \in 1..Len(chain) : chain[i] = chain[j] => i = j
    BY LenProperties DEF IsChain
<1>2. chain \in Injection(1..Len(chain), snaps)
    BY <1>1 DEF Injection, IsInjective
<1>3. Cardinality(1..Len(chain)) <= Cardinality(snaps)
    BY <1>2, FS_Injection
<1>4. Cardinality(1..Len(chain)) = Len(chain)
    <2>1. Cardinality(1..Len(chain)) = IF 1 > Len(chain) THEN 0 ELSE Len(chain) - 1 + 1
        BY <1>1, FS_Interval
    <2> QED
        BY <1>1, <2>1
<1> QED
    BY <1>3, <1>4

(* ancestry keeps its promise, for any parents, cycles too: a chain of as   *)
(* many steps as there are snapshots has stopped.                          *)
LEMMA AncestryFacts ==
    ASSUME NEW t, NEW snaps, IsFiniteSet(snaps), NEW s \in snaps
    PROVE  IsAncestry(t, snaps, s, Ancestry(t, snaps, s))
<1> DEFINE N == Cardinality(snaps)
<1>1. N \in Nat
    BY FS_CardinalityType
<1>0. PICK f : Grows(t, snaps, s, f)
    BY <1>1, AncestryGrows
<1>2. /\ f \in [0..N -> Seq(snaps)] /\ f[0] = <<s>>
      /\ \A n \in 1..N : f[n] = Longer(t, snaps, f[n - 1])
      /\ Ancestry(t, snaps, s) = Reverse(f[N])
    BY <1>0 DEF Grows
<1> HIDE DEF N
<1> DEFINE Good(n) == /\ IsChain(t, snaps, s, f[n])
                      /\ Len(f[n]) = n + 1 \/ Parents(t, snaps, f[n]) = {}
           Bad == {n \in Nat : n \in 0..N /\ ~Good(n)}
<1>3. Good(0)
    <2>1. <<s>> \in Seq(snaps) /\ Len(<<s>>) = 1 /\ <<s>>[1] = s
        OBVIOUS
    <2>2. IsChain(t, snaps, s, <<s>>)
        BY <2>1 DEF IsChain
    <2> QED
        BY <1>2, <2>1, <2>2
<1>4. ASSUME NEW n \in 1..N, Good(n - 1)
      PROVE  Good(n)
    <2>1. n \in Nat /\ (n - 1) + 1 = n
        BY <1>1
    <2>2. f[n] = Longer(t, snaps, f[n - 1])
        BY <1>2
    <2>3. IsChain(t, snaps, s, f[n - 1])
        BY <1>4
    <2>4. /\ IsChain(t, snaps, s, f[n])
          /\ \/ Parents(t, snaps, f[n - 1]) = {} /\ f[n] = f[n - 1]
             \/ Len(f[n]) = Len(f[n - 1]) + 1
        BY <2>2, <2>3, LongerFacts
    <2>5. Parents(t, snaps, f[n - 1]) = {} => f[n] = f[n - 1]
        <3>1. SetToSeq({}) = << >> /\ f[n - 1] \in Seq(snaps)
            BY <2>3, SetToSeqFacts DEF IsChain
        <3> QED
            BY <2>2, <3>1 DEF Longer
    <2>6. CASE Parents(t, snaps, f[n - 1]) = {}
        BY <2>4, <2>5, <2>6
    <2>7. CASE Parents(t, snaps, f[n - 1]) # {}
        <3>1. Len(f[n - 1]) = n
            BY <1>4, <2>1, <2>7
        <3>2. Len(f[n]) = n + 1
            BY <2>4, <2>7, <3>1
        <3> QED
            BY <2>4, <3>2
    <2> QED
        BY <2>6, <2>7
<1>5. Bad = {}
    <2> SUFFICES ASSUME Bad # {} PROVE FALSE
        OBVIOUS
    <2>1. PICK n \in Bad : \A m \in Bad : n <= m
        <3>1. Bad \subseteq Nat
            OBVIOUS
        <3> HIDE DEF Bad
        <3> QED
            BY <3>1, LeastNat
    <2>2. n \in Nat /\ n \in 0..N /\ ~Good(n)
        BY <2>1
    <2>3. n # 0
        BY <1>3, <2>2
    <2>4. n \in 1..N /\ n - 1 \in Nat /\ n - 1 \in 0..N /\ ~(n <= n - 1)
        BY <1>1, <2>2, <2>3
    <2>5. Good(n - 1)
        BY <2>1, <2>4
    <2> HIDE DEF Good
    <2> QED
        BY <1>4, <2>2, <2>4, <2>5
<1>6. Good(N)
    <2>1. N \in 0..N
        BY <1>1
    <2> QED
        BY <1>1, <1>5, <2>1
<1>7. Len(f[N]) <= N
    BY <1>6, ChainIsShort DEF N
<1>8. Parents(t, snaps, f[N]) = {}
    BY <1>1, <1>6, <1>7
<1> QED
    BY <1>2, <1>6, <1>8, ReverseFacts

-----------------------------------------------------------------------------
(* The commits a walk gives are the ancestry of what it selected.           *)

LogInv ==
    /\ phase \in {"select", "manifests", "entries"} => version \in Versions
    /\ phase \in {"manifests", "entries"} => selected \in doc.snaps
    /\ log # << >> => /\ phase = "ended" /\ version \in Versions /\ selected \in doc.snaps
                      /\ log = Ancestors(selected)

(* Ancestors looks the ancestry of a snapshot up.                           *)
LEMMA AncestorsFacts ==
    ASSUME TableInv, version \in Versions, NEW s \in doc.snaps
    PROVE  IsAncestry(table, doc.snaps, s, Ancestors(s))
<1>1. IsFiniteSet(doc.snaps)
    BY IcebergReadAssumption DEF TableInv, table, doc
<1>2. Ancestors(s) = Ancestry(table, doc.snaps, s)
    BY DEF Ancestors, Ancestries, TableInv, table, doc
<1> QED
    BY <1>1, <1>2, AncestryFacts

LEMMA InitLog ==
    ASSUME Init
    PROVE  LogInv
BY DEF Init, LogInv

(* No step but the last of a walk touches the commits.                      *)
LEMMA LogFrame ==
    ASSUME LogInv, UNCHANGED <<tableName, log>>, phase # "ended",
           phase' \in {"select", "manifests", "entries"} => version' \in Versions,
           phase' \in {"manifests", "entries"} => selected' \in doc'.snaps
    PROVE  LogInv'
<1>1. log = << >>
    BY DEF LogInv
<1> QED
    BY <1>1 DEF LogInv

LEMMA ResolveKeepsLog ==
    ASSUME LogInv, Resolve
    PROVE  LogInv'
<1>1. /\ UNCHANGED <<tableName, log>> /\ phase # "ended"
      /\ phase' \notin {"select", "manifests", "entries"}
    BY DEF Resolve, Detect, Unrecognized, StatHint, ReadHint, HintStale, FoundName, NextName,
           Unresolved, OpenDir, ReadDir, Fail, env, reading
<1> QED
    BY <1>1, LogFrame

LEMMA ReadDocKeepsLog ==
    ASSUME TableInv, LogInv, ReadDoc
    PROVE  LogInv'
<1>1. CASE ReadMetadata
    <2>1. /\ UNCHANGED <<tableName, log>> /\ phase # "ended"
          /\ phase' = "select" /\ version' \in Versions
        BY <1>1, VersionFacts DEF ReadMetadata, env, reading
    <2> QED
        BY <2>1, LogFrame
<1>2. CASE MetadataMissing \/ BadFormat \/ CatalogAnswers \/ GetAnswers \/ BadId
           \/ SnapshotMissing
    <2>1. /\ UNCHANGED <<tableName, log>> /\ phase # "ended"
          /\ phase' \notin {"select", "manifests", "entries"}
        BY <1>2 DEF MetadataMissing, BadFormat, CatalogAnswers, GetAnswers, MakeRecord, BadId,
                    SnapshotMissing, Fail, env, reading
    <2> QED
        BY <2>1, LogFrame
<1>3. CASE SelectNone
    <2>1. UNCHANGED <<tableName, log>> /\ phase # "ended" /\ phase' = "ended"
        BY <1>3 DEF SelectNone, env, reading
    <2> QED
        BY <2>1, LogFrame
<1>4. CASE StreamCommits
    <2>1. /\ phase = "select" /\ Target \in doc.snaps /\ selected' = Target
          /\ UNCHANGED <<tableName, version>>
          /\ phase' \in {"ended", "failed"}
          /\ log' = log \/ (log' = Ancestors(Target) /\ phase' = "ended")
        BY <1>4 DEF StreamCommits, env
    <2>2. log = << >> /\ version \in Versions
        BY <2>1 DEF LogInv
    <2>3. doc' = doc /\ (log' # << >> => log' = Ancestors(selected)')
        BY <2>1, <2>2 DEF doc, table, Ancestors
    <2> QED
        BY <2>1, <2>2, <2>3 DEF LogInv
<1>5. CASE Select
    <2>1. /\ UNCHANGED <<tableName, log, version>> /\ phase = "select" /\ phase' = "manifests"
          /\ selected' \in doc.snaps
        BY <1>5 DEF Select, env, reading
    <2>2. doc' = doc /\ version \in Versions
        BY <2>1 DEF doc, table, LogInv
    <2> QED
        BY <2>1, <2>2, LogFrame
<1> QED
    BY <1>1, <1>2, <1>3, <1>4, <1>5 DEF ReadDoc

LEMMA ReadEntriesKeepsLog ==
    ASSUME LogInv, ReadEntries
    PROVE  LogInv'
<1>1. UNCHANGED <<tableName, version, selected>> /\ phase \in {"manifests", "entries"}
    BY DEF ReadEntries, ReadList, ListMissing, ReadManifest, ManifestMissing, PassOver,
           DataFile, BadEntry, EndEntries, NextManifest, AtEntry, Fail, env, plan
<1>2. doc' = doc /\ version \in Versions /\ selected \in doc.snaps /\ log = << >>
    BY <1>1 DEF doc, table, LogInv
<1>3. CASE EndEntries
    <2>1. \/ log' = log /\ phase' \in {"ended", "failed"}
          \/ log' = Ancestors(selected) /\ phase' = "ended"
        BY <1>3 DEF EndEntries
    <2>2. Ancestors(selected)' = Ancestors(selected)
        BY <1>1 DEF Ancestors
    <2> QED
        BY <1>1, <1>2, <2>1, <2>2 DEF LogInv
<1>4. CASE ~EndEntries
    <2>1. log' = log
        BY <1>4 DEF ReadEntries, ReadList, ListMissing, ReadManifest, ManifestMissing, PassOver,
                    DataFile, BadEntry, Fail, reading
    <2> QED
        BY <1>1, <1>2, <2>1, LogFrame
<1> QED
    BY <1>3, <1>4

LEMMA LogStep ==
    ASSUME TableInv, LogInv, [Next]_vars
    PROVE  LogInv'
<1>1. CASE Engine \/ UNCHANGED vars
    <2>1. UNCHANGED <<tableName, phase, version, selected, log>>
        BY <1>1, EngineFrame DEF vars, env, reader, plan, reading
    <2> QED
        BY <2>1 DEF LogInv, doc, table, Ancestors
<1>2. CASE RequestFails
    <2>1. UNCHANGED <<tableName, log>> /\ phase # "ended" /\ phase' = "failed"
        BY <1>2 DEF RequestFails, NextManifest, Fail, env, reading
    <2> QED
        BY <2>1, LogFrame
<1> QED
    BY <1>1, <1>2, ResolveKeepsLog, ReadDocKeepsLog, ReadEntriesKeepsLog DEF Next, Progress

(* The commits of a walk are the selected snapshot's ancestors, whatever    *)
(* its parents are: linked parent to child, none twice, back to one whose   *)
(* parent the metadata no longer has, or that closes a cycle (ancestry).    *)
THEOREM WholeAncestryHolds == Spec => []WholeAncestry
<1>1. Init => TableInv /\ LogInv
    BY InitTable, InitLog
<1>2. TableInv /\ LogInv /\ [Next]_vars => (TableInv /\ LogInv)'
    BY TableStep, LogStep
<1>3. ASSUME TableInv, LogInv, log # << >>
      PROVE  IsAncestry(table, doc.snaps, selected, log)
    BY <1>3, AncestorsFacts DEF LogInv
<1>4. TableInv /\ LogInv => WholeAncestry
    BY <1>3 DEF IsAncestry, WholeAncestry
<1> QED
    BY <1>1, <1>2, <1>4, PTL DEF Spec
=============================================================================
