----------------------------- MODULE IcebergRead -----------------------------
(***************************************************************************)
(* The reads of an Iceberg table (third_party/iceberg/impl/load.rs):       *)
(* stream_commits, stream_active_files, stream_files and load, from a      *)
(* table root or a metadata JSON, and the two stages of a pipe: get table  *)
(* makes a record, list files reads what it names.  Meanwhile the table's  *)
(* engine commits metadata, moves version-hint.text after it, and reclaims *)
(* old metadata and what only expired snapshots need.                      *)
(*                                                                         *)
(* Metadata JSON, manifest lists and manifests are never overwritten, so   *)
(* the two requests of their read are one step.  The hint is overwritten:  *)
(* its HEAD and its range read are two.                                    *)
(***************************************************************************)
EXTENDS Integers, Sequences, FiniteSets, SequencesExt

CONSTANTS Tables,     \* what each of a few tables becomes
          Manifests,  \* what each manifest holds
          Texts,      \* what version-hint.text says for each version
          Requests,   \* the reads a caller asks for
          Styles,     \* the forms of a metadata file's name an engine writes
          Stores,     \* "tagged", "untagged" (object stores), "local"
          MaxId,      \* i64::MAX
          MaxFaults,  \* bound: requests that fail on their own account
          None        \* no snapshot named

LastVersion == Len(Texts)
Versions == 1..LastVersion
NoId == -1            \* an Iceberg id that is no snapshot's

Doc == [format: Nat, snaps: SUBSET Int, current: Int]
Request == [walk: {"commits", "active", "files", "load"},
            via: {"root", "json", "get", "catalog"},
            snapshot: Nat \cup {None}, all: BOOLEAN, named: SUBSET Nat]
Entry == [file: STRING, deleted: BOOLEAN, content: {"data", "delete"}, sound: BOOLEAN]

ASSUME IcebergReadAssumption ==
    /\ Texts \in Seq(Seq(0..9))
    /\ \A v, w \in Versions : Texts[v] = Texts[w] => v = w
    /\ \A m \in DOMAIN Manifests :
         Manifests[m].deletes \in BOOLEAN /\ Manifests[m].entries \in Seq(Entry)
    /\ \A name \in DOMAIN Tables : LET t == Tables[name] IN
         /\ t.docs \in [Versions -> Doc]
         /\ \A v \in Versions : /\ NoId \notin t.docs[v].snaps
                                /\ IsFiniteSet(t.docs[v].snaps)
                                /\ t.docs[v].snaps \subseteq DOMAIN t.parent
                                /\ t.docs[v].snaps \subseteq DOMAIN t.manifests
         /\ \A s \in DOMAIN t.manifests : t.manifests[s] \in Seq(DOMAIN Manifests)
    /\ Requests \subseteq Request
    /\ Stores \subseteq {"tagged", "untagged", "local"}
    /\ Styles \subseteq 1..3
    /\ MaxId \in Nat /\ MaxFaults \in Nat /\ None \notin Int

VARIABLES tableName,  \* which table is read
          newest,     \* the last metadata version committed
          metas,      \* metadata versions whose JSON is there
          hint,       \* the version version-hint.text says, 0: there is none
          gone,       \* manifest lists and manifests reclaimed
          moved,      \* history: the table changed since the read began
          store,      \* where the table is
          style,      \* which of hint_names the engine writes
          request,    \* [walk, via, snapshot, all, named]
          stage,      \* "get" while the record is made, then "walk"
          phase,      \* what the read does next, or "ended", "failed"
          seen,       \* the hint its HEAD saw, or the versions a listing began with
          floor,      \* history: the version the root named when it was asked
          try,        \* which of hint_names is looked for
          version,    \* the metadata version read
          requested,  \* snapshot asked for, or None
          got,        \* history: the snapshot that was current for get
          selected,   \* the snapshot read, or None
          queue,      \* its manifests not yet read
          pending,    \* entries of the manifest read last, not yet looked at
          found,      \* data files so far
          log,        \* the commits
          faults, error

env == <<tableName, newest, metas, hint, gone, moved, store, style, request>>
resolution == <<seen, floor, try>>
plan == <<requested, got, selected>>
reading == <<queue, pending, found, log>>
vars == <<env, stage, phase, resolution, version, plan, reading, faults, error>>

table == Tables[tableName]  \* [docs, parent, manifests]

Phases == {"catalog", "detect", "stathint", "readhint", "try", "opendir", "readdir",
           "metadata", "select", "manifests", "entries", "ended", "failed"}
Objects == {<<"list", s>> : s \in DOMAIN table.manifests} \cup
           {<<"manifest", m>> : m \in DOMAIN Manifests}

TypeOK ==
    /\ tableName \in DOMAIN Tables /\ newest \in Versions
    /\ metas \subseteq 1..newest /\ newest \in metas
    /\ hint \in 0..newest /\ gone \subseteq Objects
    /\ moved \in BOOLEAN /\ store \in Stores /\ style \in Styles
    /\ request \in Requests /\ stage \in {"get", "walk"} /\ phase \in Phases
    /\ seen \subseteq Versions /\ floor \in 0..newest /\ try \in 1..3
    /\ version \in 0..LastVersion + 1
    /\ requested \in Nat \cup {None} /\ got \in Int \cup {None}
    /\ selected \in Int \cup {None}
    /\ queue \in Seq(DOMAIN Manifests) /\ found \in Seq(STRING) /\ log \in Seq(Int)
    /\ \A i \in 1..Len(pending) : pending[i] \in Entry
    /\ faults \in 0..MaxFaults
    /\ error \in {"none", "storage", "missing", "unrecognized", "stale", "unresolved",
                  "format", "nosnapshot", "id", "entry"}

(* A metadata JSON a caller names was there when the read began.           *)
Init ==
    /\ tableName \in DOMAIN Tables /\ newest \in Versions
    /\ \E oldest \in 1..newest : metas = oldest..newest
    /\ hint \in {0} \cup metas /\ gone = {} /\ moved = FALSE
    /\ store \in Stores /\ style \in Styles /\ request \in Requests
    /\ stage = IF request.via \in {"get", "catalog"} THEN "get" ELSE "walk"
    /\ phase = IF request.via = "catalog" THEN "catalog" ELSE "detect"
    /\ version \in IF request.via = "json" THEN metas ELSE {0}
    /\ requested = IF request.via \in {"get", "catalog"} THEN None ELSE request.snapshot
    /\ seen = {} /\ floor = 0 /\ try = 1
    /\ got = None /\ selected = None
    /\ queue = << >> /\ pending = << >> /\ found = << >> /\ log = << >>
    /\ faults = 0 /\ error = "none"

-----------------------------------------------------------------------------
(* The table's engine.                                                     *)

reader == <<stage, phase, resolution, version, plan, reading, faults, error>>

Reachable(v) ==
    LET d == table.docs[v]
    IN  {<<"list", s>> : s \in d.snaps} \cup
        UNION {{<<"manifest", m>> : m \in ToSet(table.manifests[s])} : s \in d.snaps}

CommitMetadata ==
    /\ newest < LastVersion
    /\ newest' = newest + 1 /\ metas' = metas \cup {newest + 1} /\ moved' = TRUE
    /\ UNCHANGED <<tableName, hint, gone, store, style, request, reader>>

WriteHint ==
    /\ hint # 0 /\ hint < newest
    /\ hint' = newest /\ moved' = TRUE
    /\ UNCHANGED <<tableName, newest, metas, gone, store, style, request, reader>>

(* Metadata is reclaimed oldest first, and never the newest.               *)
ReclaimMetadata ==
    /\ Min(metas) < newest
    /\ metas' = metas \ {Min(metas)} /\ moved' = TRUE
    /\ UNCHANGED <<tableName, newest, hint, gone, store, style, request, reader>>

ReclaimObject ==
    /\ \E o \in UNION {Reachable(v) : v \in 1..newest} \ (gone \cup Reachable(newest)) :
         gone' = gone \cup {o}
    /\ moved' = TRUE
    /\ UNCHANGED <<tableName, newest, metas, hint, store, style, request, reader>>

-----------------------------------------------------------------------------
(* detect and resolve_metadata_location.                                   *)

Fail(why) ==
    /\ phase' = "failed" /\ error' = why
    /\ UNCHANGED <<env, stage, resolution, version, plan, reading>>

Remote == store # "local"
AtJson == request.via = "json" \/ (request.via = "catalog" /\ stage = "walk")

Detect ==
    /\ phase = "detect" /\ (AtJson \/ hint # 0 \/ ~Remote)
    /\ phase' = IF AtJson THEN "metadata" ELSE "stathint"
    /\ floor' = IF AtJson THEN 0 ELSE IF hint # 0 THEN hint ELSE newest
    /\ UNCHANGED <<env, stage, seen, try, version, plan, reading, faults, error>>

Unrecognized ==
    /\ phase = "detect" /\ ~AtJson /\ hint = 0 /\ Remote
    /\ Fail("unrecognized") /\ UNCHANGED faults

(* The hint's HEAD, or hint_metadata's is_file.                            *)
StatHint ==
    /\ phase = "stathint"
    /\ phase' = IF hint # 0 THEN "readhint" ELSE "opendir"
    /\ seen' = IF hint # 0 THEN {hint} ELSE {}
    /\ UNCHANGED <<env, stage, floor, try, version, plan, reading, faults, error>>

(* A range read gives as many bytes as the HEAD said, or fewer.            *)
HintBytes ==
    IF Remote
    THEN LET size == Min({Len(Texts[Max(seen)]), Len(Texts[hint])})
         IN  SubSeq(Texts[hint], 1, size)
    ELSE Texts[hint]

(* A number no version has is a version whose metadata does not exist.     *)
Parsed(bytes) ==
    IF \E v \in Versions : Texts[v] = bytes
    THEN CHOOSE v \in Versions : Texts[v] = bytes
    ELSE LastVersion + 1

(* Mutant of Pinned: the read is not pinned to the HEAD's identity.         *)
PinnedNever == TRUE
Pinned == store = "tagged" => seen = {hint}

ReadHint ==
    /\ phase = "readhint" /\ Pinned
    /\ version' = Parsed(HintBytes) /\ try' = 1 /\ phase' = "try"
    /\ UNCHANGED <<env, stage, seen, floor, plan, reading, faults, error>>

HintStale ==
    /\ phase = "readhint" /\ ~Pinned
    /\ Fail("stale") /\ UNCHANGED faults

(* Mutant of Names: the last form of the name is not tried.                *)
NamesShort == 2
Names == 3

(* Mutant of NextTry: the same name is looked for again.                   *)
NextTryStuck == try
NextTry == try + 1

Exists == try = style /\ version \in metas

FoundName ==
    /\ phase = "try" /\ Exists
    /\ phase' = "metadata"
    /\ UNCHANGED <<env, stage, resolution, version, plan, reading, faults, error>>

NextName ==
    /\ phase = "try" /\ ~Exists /\ try < Names
    /\ try' = NextTry
    /\ UNCHANGED <<env, stage, phase, seen, floor, version, plan, reading, faults, error>>

Unresolved ==
    /\ phase = "try" /\ ~Exists /\ try = Names
    /\ Fail("unresolved") /\ UNCHANGED faults

(* newest_metadata: a listing holds what is there all along, and may hold  *)
(* what comes or goes while it is read.                                    *)
OpenDir ==
    /\ phase = "opendir"
    /\ seen' = metas /\ phase' = "readdir"
    /\ UNCHANGED <<env, stage, floor, try, version, plan, reading, faults, error>>

ReadDir ==
    /\ phase = "readdir"
    /\ \E extra \in SUBSET ((seen \ metas) \cup (Max(seen) + 1..newest)) :
         LET names == (seen \cap metas) \cup extra
         IN  \/ /\ \E v \in names : (\A w \in names : w <= v) /\ version' = v
                /\ phase' = "metadata" /\ UNCHANGED error
             \/ names = {} /\ phase' = "failed" /\ error' = "unresolved" /\ UNCHANGED version
    /\ UNCHANGED <<env, stage, resolution, plan, reading, faults>>

-----------------------------------------------------------------------------
(* read_metadata and select_snapshot.                                      *)

doc == table.docs[version]

ReadMetadata ==
    /\ phase = "metadata" /\ version \in metas /\ doc.format \in {1, 2}
    /\ phase' = "select"
    /\ UNCHANGED <<env, stage, resolution, version, plan, reading, faults, error>>

MetadataMissing ==
    /\ phase = "metadata" /\ version \notin metas
    /\ Fail("missing") /\ UNCHANGED faults

BadFormat ==
    /\ phase = "metadata" /\ version \in metas /\ doc.format \notin {1, 2}
    /\ Fail("format") /\ UNCHANGED faults

Target == IF requested # None THEN requested ELSE doc.current
NoTarget == requested = None /\ doc.current = NoId
Named(s) == request.all \/ s \in request.named

(* Mutants of Recorded: the record names no snapshot, or keeps a -1.       *)
RecordedNot(s) == None
Recorded(s) == IF s >= 0 THEN s ELSE 0

(* get's answer; the list that follows begins with the record it made.     *)
MakeRecord(s) ==
    /\ requested' = Recorded(s) /\ got' = IF s = NoId THEN None ELSE s
    /\ stage' = "walk" /\ phase' = "detect"
    /\ UNCHANGED <<env, resolution, selected, reading, faults, error>>

(* iceberg_record: the catalog sends the newest metadata with its answer.  *)
CatalogAnswers ==
    /\ phase = "catalog"
    /\ version' = newest /\ MakeRecord(table.docs[newest].current)

(* load without files, then TableInfo::resource.                           *)
GetAnswers ==
    /\ phase = "select" /\ stage = "get"
    /\ doc.current = NoId \/ (doc.current \in doc.snaps /\ doc.current >= 0)
    /\ version' = 0 /\ MakeRecord(doc.current)

(* create_i64 of what is asked for and, in load, create_u64 of what is     *)
(* selected.                                                               *)
BadId ==
    /\ phase = "select"
    /\ \/ requested # None /\ requested > MaxId
       \/ /\ ~NoTarget /\ Target \in doc.snaps /\ Target < 0
          /\ stage = "get" \/ request.walk \in {"files", "load"}
    /\ Fail("id") /\ UNCHANGED faults

SnapshotMissing ==
    /\ phase = "select" /\ ~NoTarget
    /\ Target \notin doc.snaps /\ (requested = None \/ requested <= MaxId)
    /\ Fail("nosnapshot") /\ UNCHANGED faults

SelectNone ==
    /\ phase = "select" /\ stage = "walk" /\ NoTarget
    /\ phase' = "ended"
    /\ UNCHANGED <<env, stage, resolution, version, plan, reading, faults, error>>

(* ancestry: back through the parents while the metadata has them, and not *)
(* twice through one; then reversed.                                       *)

(* Mutant of Parents: a parent the metadata no longer has is followed.     *)
ParentsUnchecked(t, snaps, chain) == {t.parent[Last(chain)]} \ ({NoId} \cup ToSet(chain))
Parents(t, snaps, chain) == {t.parent[Last(chain)]} \cap (snaps \ ToSet(chain))

Ancestry(t, snaps, s) ==
    LET chain[n \in 0..Cardinality(snaps)] ==
            IF n = 0 THEN <<s>>
            ELSE LET before == chain[n - 1] IN before \o SetToSeq(Parents(t, snaps, before))
    IN  Reverse(chain[Cardinality(snaps)])

(* By table, version and snapshot.                                         *)
Ancestries ==
    [name \in DOMAIN Tables |->
       LET t == Tables[name]
       IN  [v \in Versions |->
              [s \in t.docs[v].snaps |-> Ancestry(t, t.docs[v].snaps, s)]]]
Ancestors(s) == Ancestries[tableName][version][s]
AllPositive(ids) == \A i \in 1..Len(ids) : ids[i] >= 0

StreamCommits ==
    /\ phase = "select" /\ stage = "walk" /\ request.walk = "commits"
    /\ ~NoTarget /\ Target \in doc.snaps
    /\ selected' = Target
    /\ \/ /\ AllPositive(Ancestors(Target))
          /\ log' = Ancestors(Target) /\ phase' = "ended" /\ UNCHANGED error
       \/ /\ ~AllPositive(Ancestors(Target))
          /\ phase' = "failed" /\ error' = "id" /\ UNCHANGED log
    /\ UNCHANGED <<env, stage, resolution, version, requested, got, queue, pending, found,
                   faults>>

Select ==
    /\ phase = "select" /\ stage = "walk" /\ request.walk # "commits"
    /\ ~NoTarget /\ Target \in doc.snaps
    /\ Target >= 0 \/ request.walk = "active"
    /\ selected' = Target /\ phase' = "manifests"
    /\ UNCHANGED <<env, stage, resolution, version, requested, got, reading, faults, error>>

-----------------------------------------------------------------------------
(* active_entries: the manifest list, then one manifest at a time.         *)

ReadList ==
    /\ phase = "manifests" /\ <<"list", selected>> \notin gone
    /\ queue' = table.manifests[selected] /\ phase' = "entries"
    /\ UNCHANGED <<env, stage, resolution, version, plan, pending, found, log, faults, error>>

ListMissing ==
    /\ phase = "manifests" /\ <<"list", selected>> \in gone
    /\ Fail("missing") /\ UNCHANGED faults

NextManifest == phase = "entries" /\ pending = << >> /\ queue # << >>

(* Mutant of Content: a delete manifest's entries are what they say.       *)
ContentUncorrected(m, e) == e.content
Content(m, e) == IF Manifests[m].deletes /\ e.content = "data" THEN "delete" ELSE e.content

ReadManifest ==
    /\ NextManifest /\ <<"manifest", Head(queue)>> \notin gone
    /\ LET m == Head(queue)
       IN  pending' = [i \in 1..Len(Manifests[m].entries) |->
                         [Manifests[m].entries[i] EXCEPT
                            !.content = Content(m, Manifests[m].entries[i])]]
    /\ queue' = Tail(queue)
    /\ UNCHANGED <<env, stage, phase, resolution, version, plan, found, log, faults, error>>

ManifestMissing ==
    /\ NextManifest /\ <<"manifest", Head(queue)>> \in gone
    /\ Fail("missing") /\ UNCHANGED faults

IsData(e) == ~e.deleted /\ e.content = "data"
AtEntry == phase = "entries" /\ pending # << >>

PassOver ==
    /\ AtEntry /\ ~IsData(Head(pending))
    /\ pending' = Tail(pending)
    /\ UNCHANGED <<env, stage, phase, resolution, version, plan, queue, found, log, faults,
                   error>>

DataFile ==
    /\ AtEntry /\ IsData(Head(pending)) /\ Head(pending).sound
    /\ found' = Append(found, Head(pending).file) /\ pending' = Tail(pending)
    /\ UNCHANGED <<env, stage, phase, resolution, version, plan, queue, log, faults, error>>

(* data_file: not Parquet, a negative size, or outside the table.          *)
BadEntry ==
    /\ AtEntry /\ IsData(Head(pending)) /\ ~Head(pending).sound
    /\ Fail("entry") /\ UNCHANGED faults

(* load adds the commits last, and fails if one has a negative id.         *)
EndEntries ==
    /\ phase = "entries" /\ pending = << >> /\ queue = << >>
    /\ IF request.walk = "active" THEN phase' = "ended" /\ UNCHANGED <<log, error>>
       ELSE \/ /\ AllPositive(Ancestors(selected))
               /\ log' = Ancestors(selected) /\ phase' = "ended" /\ UNCHANGED error
            \/ /\ ~AllPositive(Ancestors(selected))
               /\ phase' = "failed" /\ error' = "id" /\ UNCHANGED log
    /\ UNCHANGED <<env, stage, resolution, version, plan, queue, pending, found, faults>>

(* Any request may fail; a probe of one local file cannot.                 *)
RequestFails ==
    /\ faults < MaxFaults
    /\ \/ phase \in {"catalog", "readhint", "opendir", "readdir", "metadata", "manifests"}
       \/ NextManifest
       \/ phase = "detect" /\ ~AtJson /\ (Remote \/ hint = 0)
       \/ phase \in {"stathint", "try"} /\ Remote
    /\ faults' = faults + 1 /\ Fail("storage")

Resolve == \/ Detect \/ Unrecognized \/ StatHint \/ ReadHint \/ HintStale
           \/ FoundName \/ NextName \/ Unresolved \/ OpenDir \/ ReadDir
ReadDoc == \/ ReadMetadata \/ MetadataMissing \/ BadFormat \/ CatalogAnswers \/ GetAnswers
           \/ BadId \/ SnapshotMissing \/ SelectNone \/ StreamCommits \/ Select
ReadEntries == \/ ReadList \/ ListMissing \/ ReadManifest \/ ManifestMissing
               \/ PassOver \/ DataFile \/ BadEntry \/ EndEntries
Progress == Resolve \/ ReadDoc \/ ReadEntries
Engine == CommitMetadata \/ WriteHint \/ ReclaimMetadata \/ ReclaimObject

Next == Engine \/ Progress \/ RequestFails

Spec == Init /\ [][Next]_vars

(* The store answers every request and the consumer keeps asking.          *)
FairSpec == Spec /\ WF_vars(Progress)

-----------------------------------------------------------------------------
(* Properties.                                                             *)

(* What the caller has: an active walk's files as they come, what load and *)
(* stream_files collect at their end, filtered by the commits it named.    *)
Out ==
    CASE request.walk = "active" -> found
      [] request.walk = "load" /\ phase = "ended" -> found
      [] request.walk = "files" /\ phase = "ended" ->
           IF Named(IF selected = None THEN 0 ELSE selected) THEN found ELSE << >>
      [] OTHER -> << >>

(* The files a snapshot holds, its deletes and delete files left out.      *)
FilesOf(m) ==
    {e.file : e \in {e \in ToSet(Manifests[m].entries) : IsData(e) /\ ~Manifests[m].deletes}}
Holds(s) == UNION {FilesOf(m) : m \in ToSet(table.manifests[s])}

(* Whatever is committed, moved or reclaimed during the walk, the files    *)
(* are of one snapshot, each once, and all of them when the walk ends      *)
(* ("the files are the ones active at that version", list/api.rs:51).      *)
OneSnapshot ==
    /\ selected = None => Out = << >>
    /\ selected # None => ToSet(Out) \subseteq Holds(selected) /\ IsInjective(Out)
    /\ phase = "ended" /\ selected # None /\ request.walk # "commits" =>
         ToSet(Out) = IF request.walk = "files" /\ ~Named(selected) THEN {} ELSE Holds(selected)

(* list files reads the snapshot that was current when get made the        *)
(* record, whatever is current by then, or fails.                          *)
PinnedToRecord ==
    phase = "ended" /\ request.via \in {"get", "catalog"} /\ got # None => selected = got

(* A root is never resolved to metadata older than the newest it named     *)
(* when the read began: not by a hint that moves, nor by a listing during  *)
(* which files come and go.  Only a hint that grows between its HEAD and   *)
(* its read, on a store that pins no read, is cut short ("10" is "1").     *)
NotOlder ==
    phase = "select" /\ ~AtJson =>
        version >= floor \/ (store = "untagged" /\ hint # 0 /\ moved)

(* The commits are the selected snapshot's ancestors, linked parent to     *)
(* child, none twice, back to one whose parent the metadata no longer has  *)
(* or that closes a cycle: expiry cuts the history and a cycle ends it.    *)
WholeAncestry ==
    log # << >> =>
        /\ Last(log) = selected /\ IsInjective(log)
        /\ ToSet(log) \subseteq doc.snaps
        /\ \A i \in 1..Len(log) - 1 : table.parent[log[i + 1]] = log[i]
        /\ table.parent[log[1]] \notin doc.snaps \ ToSet(log)

(* A table nobody touches is found and read, whichever form of name its    *)
(* metadata has, as long as no request fails.                              *)
UndisturbedResolves ==
    error \in {"missing", "unresolved", "stale"} => moved

(* A read ends, though the table changes and its snapshots may be a cycle. *)
Ends == <>(phase \in {"ended", "failed"})

(* "Stream the table's commits, newest first" (iceberg/api.rs:27).         *)
NewestFirst ==
    request.walk = "commits" =>
        \A i \in 1..Len(log) - 1 : table.parent[log[i]] = log[i + 1]

(* "Snapshot version the record describes" (v1/table.rs:28): the record of *)
(* a table nobody touched names a snapshot list files can find.            *)
RecordCanBeListed ==
    stage = "walk" /\ request.via \in {"get", "catalog"} /\ error = "nosnapshot" => moved
=============================================================================
