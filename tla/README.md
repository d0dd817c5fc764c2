# pqbench in TLA+

pqbench measures where the bytes of Parquet tables are. It is a command line of
small filters over NDJSON: one command lists catalogs, the next reads their
names and lists schemas, and so on down to the footers of single Parquet files.

    list catalogs | rl | list schemas | rl | list tables | rl | credentials get
        | get table | list files | sample files | list columns | summarize columns

This directory models that walk: the machinery every level of it shares, the
reads of tables that change while they are read, the calls to the catalogs, and
the functions that turn the records of one command into those of the next.
Paths below are relative to the repository; `core` is `crates/pqbench/src`,
`cli` is `crates/pqbench-cli/src`. Section 1 lists the parts of the system,
section 2 the modules and how they correspond to the code, section 3 the runs of
TLC, section 4 the proofs, and section 5 what is left out. PROJECT.json holds the
same per definition: the source lines each one stands for, the hazards in the
code and the properties that speak of them, and for each property a mutation of
the model that breaks it.

## 1. Inventory

| Component | State | Operations | Interacts through | Hard because | Correct when |
| --- | --- | --- | --- | --- | --- |
| streaming level, `flat_map` (cli/source.rs) | parents, JoinSet, channel, senders, `done` | one turn of the unfold's loop; a task per parent | tasks send into the channel, the sink polls the driver | tasks, driver, select and sink interleave; a stalled or departed consumer | every item written or reported once, in its stream's order; bounded memory; the level ends |
| one-record level, `map`/`filter_map` (cli/source.rs) | chunk, reads in flight, rows | chunks, read_batch, join_all | the sink polls the batch's future | reads answer in any order inside the future that writes | parent order; no read in flight behind a stalled write |
| ends of a level (cli/source.rs, emit.rs, error.rs, parse.rs) | line reader, BufWriter, `closed`, `dropped` | read_input, records, drive, Emitter, fail_when_dropped | pipes | broken pipes, buffered rows, garbled lines, exit status | the status never claims more than was written |
| `ratelimit` (core/ratelimit.rs, cli/ratelimit) | next slot per kind | delay, the command's loop | pipes | time passes between any two steps; late sleeps | slots an interval apart, waits bounded, nothing lost |
| `Lake` and `Stores` (core/capability.rs, third_party/object_store/impl/remote.rs) | map from (bucket, options) to store, behind a Mutex | open, list, root_store, with_lease | `Arc`s shared by every clone of the lake | emptied whole under readers; credentials as keys | a table is read with its own lease; bounded; one pool per key |
| footer read (core/bytemass/remote.rs, object_store) | size, identity, tail | HEAD, tail GET, second GET | the object store | the object is replaced between requests; boundaries | an answer is of one revision |
| Delta log (core/third_party/delta) | listing, batches of commit reads | commit_versions, stream_commits, stream_files, read_log | the object store, delta-rs | retention and commits race the listing; a failed batch does not end the stream | every retained commit once, newest first, or an error in its batch's place; a hole is an error |
| Iceberg metadata (core/third_party/iceberg) | metadata JSON, manifests | resolve, select_snapshot, ancestry, active entries | the object store, an engine that commits and expires | a hint that moves under its read, reclaimed manifests, cyclic ancestry, a record made earlier | one snapshot's files, each once; the snapshot of the record; its ancestry |
| catalog client (core/catalog, schema, table/list, metastore, http.rs) | page token, rows so far | list pages, get | HTTP | pages that are empty and not the last; failures after pages; two dialects | each resource once and in order, or an error |
| get table (core/table/get) | record, metadata at the hint | try_join of the catalog's answer and the hinted read | HTTP, storage | two requests overlap, and may be of two tables | the table the catalog names, or the first failure |
| credentials (core/credentials, v1/credentials.rs) | leases | check, get | HTTP, storage | prefixes that cover each other; delegated loads; default storage | a lease that covers what it is used for |
| tables (core/table/mod.rs) | none | detect a format, load, partition totals | stores | a probe that fails is not a format that is absent; sums at the edge of u64 | one format or an error; totals that add up or are refused |
| file selection (core/table/selection.rs, file/sample.rs, time.rs, cli/time.rs, cli/sample) | window, samples | select_files, list files, sample files, parse dates | the two formats above | two-stage sampling; the calendar; rates at the edge | the same files whatever the listing order; the chance of both stages |
| summaries (core/bytemass, mass.rs, cli/summarize) | sums per column, document state | classify a value, fold, finish a document | pipes; measurements interleave | duplicates, refused documents, unknown sizes and prices | rows account for all bytes and all cost, or nothing is written |
| profiles (core/profile.rs) | none | facts of a decoded column | Parquet | texts that may be numbers; NaN | facts that do not contradict each other |
| sweeps: lz, compression (core/bench.rs, codecs.rs, stats.rs, report.rs, analytics.rs, raw.rs) | none | specifications, passes, reduction, report | codecs | 32-bit counts of passes; failing levels | each codec and level once, over all bytes |
| diff (core/diff.rs, cli/diff) | none | roll up, compare | files, stdin | depth folds before the comparison | every byte of both sides accounted for |
| reports: format, treemap (core/report.rs, viz, cli/format.rs, render.rs) | records in hand | classify, tabulate, page | pipes | records that do not fit; unknown sums | no record dropped, no sum too small |
| resource names (core/v1/name.rs, pqbench-derive) | none | spell, parse, derive | every command | bytes that are the pattern's own | names and ids are one to one |
| command line (cli/config.rs, setup, lib.rs, dispatch) | flags, environment, profile | resolve, setup, run | the shell | a configuration resolved twice, with a file that changed between | what setup pinned stays pinned |
| aipnaming, docscheck | none | lint names, generate docs | the repository's sources | tools of the build | not modelled |

## 2. The modules

| Module | Models | Role |
| --- | --- | --- |
| LevelSpec | what any level of the walk promises | abstract specification |
| LevelIO | standard input and the sink, shared by both levels | EXTENDed below |
| StreamLevel | `flat_map` with its tasks, channel and select | implements LevelSpec |
| BatchLevel | `filter_map` and `map` | implements LevelSpec |
| RateLimit | the pacing filter | |
| StoreRegistry | `Stores` under leases | |
| FooterRead | one footer read against an object that changes | |
| DeltaLog | one walk over a Delta log that is written and expired meanwhile | |
| IcebergRead | one read of an Iceberg table, or get table and then list files, while its engine works | |
| TableRecord | detection of a format, a table's record and resource, partition totals | functions, used by CatalogClient and MCRecords |
| CatalogClient | the ten commands that call a catalog | composes with TableRecord |
| ColumnMeasure, MassSummary | `list columns`'s measurements, and `summarize columns` over interleaved feeds of them | state machine over functions |
| Names, ResourceDerive | resource names, and the derive macro that writes their patterns | functions |
| Sorting | stable sorting and grouping | helpers |
| Profile, Sweep, SizeDiff, Selection, RecordTables, Treemap, CommandLine | one core file or command each | functions |
| MC... | constants for TLC, the inputs of the functions, and the properties of both | |
| MCRecords | the composition of the record commands: a document, or one input of one function | |
| StreamLevel_proof, BatchLevel_proof, Limits_proof (of RateLimit and StoreRegistry), FooterRead_proof, DeltaLog_proof, IcebergRead_proof, CatalogClient_proof, Records_proof (of MassSummary and CommandLine) | theorems, and the refinements of LevelSpec | TLAPS |

### How state and actions correspond to the code

**Levels.** The runtime is single-threaded, so a step is what runs between two
awaits. A record is abstracted to the item it is: `[line, item]` is the
`item`-th thing line `line` gave rise to, a row or (if in `failures`) an error.
`pc` is where `drive` stands: waiting for `read_input`, polling `rows.next`, or
in `emit.finish`; `held` is the item its loop body has in hand. `buf` is the
BufWriter, `delivered` what the pipe took. A consumer that does not read is a
flush that does not happen; one that leaves sets `reader` to "gone", and the
next flush sees the broken pipe (`closed`). In StreamLevel `task` is each
parent's task (opening: `read(parent)` is awaited; reading: `stream.next`;
sending and failing: `sender.send`), `chan` the mpsc channel, `done` the
driver's flag together with its dropped sender. `HasRoom` is the guard of the
inner while loop: while it holds the driver awaits the next parent and nothing
else, as the code does. In BatchLevel `phase` is where the stream of chunks
stands, and `Answer` one read of `join_all`.

**Input.** A line is a "record", a "misfit" (JSON that is not the level's
resource), "blank" or "garbled" (not JSON). `records` is a `try_unfold`, which
yields nothing after an error: hence `InputOver` after a garbled line.

**RateLimit.** Time is a tick counter, `next_times` the map of slots. Reading
and reserving take no time; time passes while the filter waits for a line,
sleeps, or writes into a full pipe (`Tick`). A record may leave up to `MaxLate`
ticks after its slot.

**StoreRegistry.** The critical section of `shared_store` is split into lookup,
emptying and build, each of which an opener could do while another waits for the
Mutex. As the runtime is single-threaded and the section has no await, no two
openers of today's commands meet there. A store carries the bucket and lease it
was built with, and the emptying it came after.

**FooterRead.** A body is where its bytes come from: revision, start, length.
`Overwrite` may happen between any two requests. A "tagged" store reports an
ETag and honours If-Match; an "untagged" one and a local file do not. A store
whose presigned HEAD is refused is asked again by a ranged GET.

**DeltaLog.** One walk is one request: `stream_commits` ("commits"),
`stream_files` ("files") or `read_log` ("log"), over the log's own listing or
over named commits. `ListPage` is one answer of the store's listing, since
`commit_versions` folds over pages; the checks after the fold are `ListNothing`,
`ListGap` and `ListLast`. `order` is the list of versions the batches are cut
from, `stage` the requests in flight inside `try_join_all`: stages 1 and 2 are
the prefixes of COMMIT_HEADER_STAGES and the last the whole file. A commit is
what a reader of a prefix can tell of it. `asked` is a consumer that awaits
`next`; a stalled one leaves no read in flight. A read that fails costs a stream
the whole of its batch: `then` and `try_flatten` yield the Err, an item with index
0, and when they are polled again, as source.rs:234 does, start the next batch
(`GiveUp`). A `read_log`, and a listing that fails, end the walk ("failed").
`CommitNext` and `Expire` are the table's other users, who may move between any
two steps.

**IcebergRead.** A metadata version is its JSON, one of `table.docs`; `metas` is
which of them are there. A snapshot is its id, a manifest the sequence of its
entries. `request.walk` is the function called (`stream_commits`,
`stream_active_files`, `stream_files`, `load`), `request.via` where it begins: a
table root, a metadata JSON, or a record that `get table` makes first from the
root ("get") or from the catalog ("catalog"); `stage` tells the two reads of such
a pipe apart. Metadata JSON, manifest lists and manifests are written once, so
the HEAD and the GET of `read_location` are one step for them; `version-hint.text`
is overwritten, so its two requests are `StatHint` and `ReadHint`, and
`HintBytes` is what a read bounded by the former size finds. A listing of a
directory is not atomic either: `ReadDir` sees all that was there throughout and
any part of what came or went. `Ancestries` tabulates `ancestry` over versions
and snapshots because its value depends on nothing else. `CommitMetadata`,
`WriteHint`, `ReclaimMetadata` and `ReclaimObject` are the engine: it commits
before it moves the hint, and reclaims only what the newest metadata no longer
needs. `got`, `floor` and `moved` are history that only properties read.

**CatalogClient.** A situation is one command with what the catalog, in one of
the two dialects, and the stores hold for it. `waiting` is the calls in flight:
one page after another for a listing, the catalog's answer and the hinted
metadata read at once for `get table` (`try_join`). Any call may be answered with
a failure instead of its document: lost, a 200 that does not parse, 400, 403,
404, 500, 501, and the two refusals whose text the commands look into. `heard` is
history. Names and locations are sequences of pieces, since only dots and
prefixes matter; what a page token or a name does when it is not
percent-encoded is a set of reserved ones that the catalog does not understand.

**TableRecord.** A place is what the code can find out about a location: whether
it is local, what is there, which markers, which probes of them fail, and what
the loader of its format returns.

**MassSummary.** The feeds are measurements in flight, each in its order and
interleaved by `next`; a document is the lines one run of `summarize columns`
reads. `at` is the line and the value of it that each feed writes next. A line
completes a value, several, none (a blank one, or the first of a value that goes
on: `KeepLine`, `open`) or is not JSON (`InvalidJson`). `ReadValue` classifies a
value as the code does (an error line, a measured column, a column without a
measurement, anything else) and folds it; the end of the input is `CutShort` in the
middle of a value, `Empty` without any, or `Summarize`. Money is counted in
hundred-thousandths of a dollar and a share is an exact fraction of its class's
bytes.

**Functions.** What keeps no state is an operator, with the source's early
returns in their order as alternatives that carry a reason. A text is a
sequence of the characters the code tells apart, and escaped bytes are written
out, because that is what Names is about. A float is an exact fraction where the
code divides once, a member of a small set where it only compares, and `NaN` and
`Tiny` (a rate that underflows) are values of their own. u64 and u32 wrap or
refuse at `Limit` and `U32`. What sorts uses Sorting's stable sort.

## 3. What the runs check

| Run | Instance | Shows |
| --- | --- | --- |
| stream_level | 2 lines of every kind, up to 2 items in batches of 2, 2 slots, a buffer of 1, panics | each parent's order, an honest green exit, bounded memory, LevelSpec; and that nothing waits but for the consumer or a silent parent |
| stream_level_panic | 1 record, panics | **violated**: a panicking task is not counted and the exit is green (source.rs:260 against error.rs:54) |
| batch_level | 3 lines of every kind, batches of 2 | parent order, no read behind a stalled write, LevelSpec, and that a chunk waits only for a parent that has not filled it |
| rate_limit | 2 kinds, 4 lines, interval 2, late by up to 1 | spacing of slots, bounded waits, no starvation |
| store_registry | 3 openers, 3 leases, limit 2, 4 builds | bounded registry, own lease, one pool per key |
| footer_read | 3 revisions of any shape around the boundaries, window 14 | pinned answers are of one revision; sound objects are read |
| delta_log | versions 0 to 4 in pages of 2 and batches of 2, 3 kinds of walk, a lost commit, one failed request, a commit that does not parse | order, nothing skipped that is still there without an error from its own batch, no report across a hole, the walk ends |
| iceberg_read | 3 tables of 3 metadata versions, 9 reads, 3 stores, one failed request | files of one snapshot only, the record's snapshot, metadata no older than what the root named, the ancestry cut where it should be, undisturbed tables are read, the read ends |
| iceberg_read_order | a sound table, `stream_commits` | **violated**: the commits are streamed oldest first (iceberg/impl/load.rs:364 against iceberg/api.rs:27 and load.rs:280) |
| iceberg_read_empty | a table without a snapshot, `get table` then `list files` | **violated**: the record names snapshot 0, which `list files` does not find (load.rs:38, get/impl.rs:278 against v1/table.rs:28) |
| catalog_client | every command in both dialects on small catalogs, any call answered or failing, the metadata read racing the request | listings are whole and ordered or fail for a reason, a record is of one table, a lease covers what it is used for |
| records | two files measured at once; hand-written documents of up to 3 lines; the enumerated inputs of every function | the ten properties below |

The run `records` is one state machine whose subject is either a document, which
MassSummary then reads line by line, or one input of one function, and each of
its invariants speaks of the result for the subjects it is about:

* AllOrNothing, RowsAreTheTable, CostsAddUp (MassSummary): a refused document
  writes no row, the rows depend on the set of measurements and not on their
  order, and the shares of a class add up to its cost;
* NamesRoundTrip (Names, ResourceDerive): ids, their spelling, blobs and aliases;
* ProfileFacts (Profile): the facts agree with each other. The bounds are those
  of the order the code compares in, numeric for a column of numbers, as
  docs/reference/profile.md:52 has it; the comments at profile.rs:6, :89 and :92
  call them lexical, which numbers contradict;
* ReportAddsUp (Sweep): each time is over the passes after the warmup, as many as
  asked for; and over none when samples and warmup together wrap, which is what
  the code does and not what its help says ("timed passes to collect per sweep
  (after warmup)", cli/bench.rs:16);
* DiffAddsUp (SizeDiff): every path has, on each side, the bytes and values of the
  columns that roll up to it and of no other, in the order of the paths' bytes;
  an input that is empty, cut short, garbled or of other resources is refused;
* FilesSelected (Selection, TableRecord): selections, the calendar, the chances of
  two samplings and the partition totals against what they are to be;
* NothingDropped (RecordTables, Treemap): every record is in its table once, in
  the order it came, or by its keys when it does not fit; every table, schema and
  catalog of a summary has its node, and every byte is counted or known to be
  unknown;
* SetupPins (CommandLine): a setting is that of the most specific layer that has
  it; what setup exports gives a later command the configuration that was
  resolved, whatever became of the environment and of the file. It excepts a file
  that then cannot be read or selects no profile, which stops the command, and a
  blank setting of the profile's, which is exported blank and read back as none.
  A command that reads a catalog needs an endpoint, setup an endpoint and a token,
  and a run that fails has said why.

**Bounds.** The channel, the buffer and the JoinSet are each exceeded by the
number of items an instance can produce, so every wait in the code happens: a
full channel, a full buffer, a full set of slots, a partly filled chunk. Two
lines suffice for a line behind another and for two tasks that race, three for a
second, partly filled chunk. Two stores and three leases empty the registry
under a reader. Three revisions put an overwrite between every pair of the at
most four requests. Five versions are three batches and three pages, so that
commits and retention fall before, between and after each, and the sizes of the
commits put a header on, before and behind the edge of each prefix. Two kinds
and four lines give each kind a second slot while the other sleeps. Three
metadata versions let the hint lag, move and be cut short ("10" read as "1"), and
let a version be committed between any two steps of a read and another be
reclaimed; the three tables between them have expired parents, a cycle, a
rollback, a negative id, an unknown format and no snapshot at all. A catalog has
up to three pages, one of them empty, so that a listing ends, goes on and fails
at each; its prefixes cover, do not cover and cover each other. The bound of u64
in `records` (22 in documents, 12 elsewhere) is reached and passed by two
measurements, so each sum wraps or is refused somewhere; U32 is 5, so that samples
(up to 4) and warmup (up to 2) stay below it, meet it and pass it. Two
measurements of two files meet in every order. The inputs of a function are the products of small sets chosen at its own boundaries: each early
return, each separator of a pattern, both sides of each comparison.

**Fairness.** Weak fairness of the driver, of `drive`, of each task and of each
read: tokio polls whatever was woken, requests are answered or time out
(core/http.rs sets timeouts), and the consumer reads or leaves. Nothing is
assumed of the parent: `Progress` says that a level exits once its input has
ended, and that until then an item that was read waits for nothing but the
consumer or a parent that stays silent at the two places where the code awaits
it (source.rs:217 and :133). RateLimit assumes that the loop runs, that a sleep
ends, and that the consumer takes a line or leaves. DeltaLog assumes that the
store answers and that the consumer goes on asking (its task is polled by the
level above); writers and retention are not fair, and a finite number of commits
is all they can add. IcebergRead assumes the same of the store and of the
consumer, and nothing of the engine. CatalogClient, FooterRead, StoreRegistry and
the records state safety only.

**Deadlock** is checked in the levels, RateLimit and CatalogClient, which have a
step for having exited. The others are one request or one document each, whose
end is the end of the behaviour, and their configurations say so.

**Other divergences met while modelling.** They have no run of their own.

*Levels and pacing.* A one-record level gathers a full chunk before its first
request and writes its rows in the order of their parents (source.rs:133, :178),
where docs/reference/authentication.md:67-72 says that each request starts as its
record is read and that rows are written as requests finish, not in ref order.
The streaming driver awaits a parent outside its select, so rows already in the
channel wait for a silent parent while a slot is free (source.rs:217). A line
that does not decode is a counted failure and not the end of the level
(source.rs:174, authentication.md:76). The rate limiter counts the next slot from
the slot and not from the departure (ratelimit.rs:44-45), so after a record that
left late two of a kind leave closer than an interval, where help.rs:331 promises
at most `--rate` a second; and it sleeps in the loop that reads every kind, so one
kind's wait delays another (ratelimit/mod.rs:72). A tiny positive rate makes
`Duration::from_secs_f64` panic (ratelimit.rs:26).

*Table reads.* `commit_versions` folds a listing that arrives in pages, so
retention between two pages looks like a gap and is reported as a lost commit
(delta/impl/load.rs:389 against :357-358). `stream_active_files` yields files
before it fails on a later manifest, where docs/guides/iceberg.md:100 says that no
partial document is returned (a level turns the error into its exit status). A
store that reports no ETag lets the two reads of one footer be of two revisions.
A lease without a session token is completed with the environment's
(remote.rs:277), where capability.rs:66 says to read as the vended identity.

*Catalogs.* A stale hint makes `get table` fail (`try_join`,
table/get/impl.rs:114), where the comment at :98-99 says that the ref is read
again from the catalog's location. The page token of `list catalogs` and the name
of `get catalog` are not percent-encoded. An Iceberg namespace part with a dot is
listed and cannot be addressed afterwards. A `loadCredentials` answer without
usable keys does not fall back to the table's own.

*Records.* `NaN` compares equal to every number and an i64 is compared as an f64,
so a column of several distinct values may be called constant (profile.rs:238-243,
:353-373). The bounds of an integer or number column are its numeric
minimum and maximum (profile.rs:238-261, docs/reference/profile.md:52), where the
comments at profile.rs:6, :89 and :92 say lexical: of 9 and 10 the minimum is 9.
`samples + warmup` wraps in a release build (bench.rs:34), so that a sweep asked
for samples keeps none, where cli/bench.rs:16 and compression/api.rs:22 say that
as many are collected after the warmup; ReportAddsUp holds the model to what the
code does. The count of a duration wraps too, and its parser panics on a
multi-byte last character (cli/time.rs); `+1` is taken for a two-digit month. A schema whose name is
`codecs` or `compression` and a table whose name is `profile` are misclassified
by `format`; a treemap row whose table is no table's name is passed over. A
compression level out of range is refused only once there is a page to compress.
A blob `file://s3://...` reads as S3.

*Configuration.* `--profile x` is ignored when the run-control file is missing or
has no profiles, where cli/config.rs:45-46 says that it fails; a quoted blank
value there counts as an endpoint; and after `eval "$(pqbench setup)"` another
`--profile` has no effect, since the exported variables win.

## 4. What is proved

All theorems hold for every value of the constants that the named assumptions
allow: LevelIOAssumption (bounds are natural numbers, line kinds are the four
known ones, `NoItem` is no item), StreamLevelAssumption and BatchLevelAssumption
(fan-out; a one-record level has one item per line), RateLimitAssumption,
StoreRegistryAssumption, FooterReadAssumption, of MassSummary DocumentsAssumption
(finitely many feeds, each a finite sequence of lines whose values are what their
Rust type deserializes to, and a value that spans lines only where one feed writes)
with ColumnMeasure's NoneAssumption and LimitAssumption, DeltaLogAssumption (a commit's
commitInfo ends within its size, a walk of commits is of the log's own listing, and
pages, stages and batches are not empty), IcebergReadAssumption (among others: a
metadata document names finitely many snapshots), and, of CatalogClient,
NoneAssumption and SituationsAssumption; of MCRecords, that None is no dialect
(ConfigurationsAssumption, with: a run-control file is a sequence of lines or
unreadable, and a dialect given as a flag is one of the two). SituationsAssumption says that a document is what its
Rust type deserializes to and that a loader fills a TableInfo in with the location
it was given; it says nothing of which leases, prefixes, columns or locations a
catalog has. Of a listing it says that its pages are those its tokens lead to
(`Collected`: a set of tokens that holds the first one and follows them is all of
them), that an entry has the fields of its Rust type, and that a name is a text.
Two theorems of IcebergRead_proof take besides as hypotheses what a table must be
like: NoNegativeCurrent and DistinctFiles.

* **StreamLevel_proof.** StreamOrder, GreenIsComplete and EveryItemSettled are
  not inductive: each speaks of the end of an item's way (delivered, or the
  exit) and the danger is in the middle. The inductive invariant follows the
  item: `LineInv` says what a line's state allows its counters and task to be,
  `TransitInv` that the items between `settled` and `sent` of a line are exactly
  those in the channel and in hand, in order, `FailuresInv` and `RowsInv` that
  what is settled is reported or in the output, and `EndInv` what the end of the
  input, the closed channel and the exit imply. Backpressure needs in addition
  that a task is ahead of what it sent by a batch at most (`BoundInv`); the
  bound then follows by counting, since `UnsettledBound` maps the unsettled
  items one to one into places: a task's batch, the channel and the hand.
  ImplementsPromise: every step of StreamLevel is a step of LevelSpec or a
  stutter. A line is complete when its task yields no more and its items
  are settled; the rows written are those delivered and buffered.
* **BatchLevel_proof.** `PhaseInv` ties the reads in flight, the row in hand and
  the end of the level to the phase the chunk is in, each of which the others
  rest on; it implies NoStalledRead. ParentOrder speaks of the rows written, so
  `OrderInv` says where everything that is not yet written stands: the row in
  hand behind what was written, each row of the batch behind the row in hand and
  the rows before it, each line of a chunk behind the lines before it and all
  that was written. Failures may stand anywhere, since they are not written.
  For ImplementsPromise, `Places` says where each consumed line is: in the
  chunk, in the rows or in hand, once, and complete when it is in none of them.
  With it each step is a step of LevelSpec or a stutter; the interesting ones are
  a read that keeps no row (Complete) and the end (Finish needs that no line is
  left in a chunk).
* **Limits_proof**, of the pacing filter and the registry of stores. Paced needs that the next slot of a kind lies an
  interval after every slot given (`SlotInv`); WaitBounded that no slot is given
  more than an interval ahead, and that a kind with a slot had a record
  (`WaitInv`). For the registry, `LockInv` says that whoever is in the critical
  section holds the lock, so that what a lookup found (`SectionInv`: the registry
  full, or with room and without the key) still holds when the emptying and the
  build run. `RegistryInv` bounds the registry and says what its stores were
  built for; `ReaderInv` ties each reader's store to its request and, until the
  next emptying, to the registered one.
* **FooterRead_proof.** One part of the invariant per phase: `StatInv` (the size
  is that of the revision the ETag names), `TailInv` (where the tail's bytes are
  from), `LayoutInv` (the trailer was accepted and fits or not), `FooterInv` (where
  the metadata's bytes are from). FailsForAReason needs besides that nothing is
  refused while there is one revision (`NothingRefused`).
* **DeltaLog_proof.** The stream is in order because each batch is of the plan,
  and the plan is whole because the listing was: `ListInv` says that the listing
  has shown all it passed, `PlanInv` that the plan has each version once, in walk
  order, every version that is owed, and one stretch of the log, `BatchInv` that a
  read in flight is for a version of the chunk and that an answer is all a commit
  gives, and nothing only of one that has gone, and `StreamInv` what that makes of
  the stream: a version behind the position has given all, or an Err of its own batch
  is there. That an Err is all its batch gives, and that batches begin at multiples
  of `Width`, is what tells one batch from the next. `LostInv` keeps what was lost
  lost, without which a hole could close between two pages. InLogOrder, NothingSkipped and OneStretch follow, for a log,
  window, page size and number of stages of any size.
* **IcebergRead_proof.** `TableInv` says what the engine keeps true of the table:
  its metadata versions grow at one end and are reclaimed at the other, so those
  there are without a gap, and the hint names none that is newer. PinnedToRecord
  rests on `RecordInv` (the record names a version and its current snapshot),
  NotOlder on `RootInv` (what the hint or the listing named is at least the floor
  noted when the read began), OneSnapshot on `WalkInv` (the manifests still to be
  read and the files found are together those of the snapshot selected), and
  UndisturbedResolves on `GetInv` and `StillInv` (while nobody else moves, each
  step finds what it needs). WholeAncestry rests on
  `LogInv` (the commits given are the ancestry of the snapshot selected) and on
  what the function `Ancestry` returns for any parents, cycles included
  (AncestryFacts): each step of the chain adds a snapshot, so a finite number of
  them bounds it.
* **CatalogClient_proof.** LeaseFits: the calls of `get credentials` are made one
  at a time (`OneRoute`), the mint last and never for default storage (`MintLast`,
  `NoDefault`), so that the answer that ends the command is the last one heard,
  and it vends the lease returned (`Told`). That the lease is then the right one of
  several is what CredentialOptionsFacts and MatchingConfigFacts say of `find_map`
  and `max_by_key`, for any number of prefixes in any order. OneTable: the calls of
  `get table` overlap, so the invariant says what may be known while each is
  still awaited: nothing while the inline metadata is (`Fresh`, `Alone`), the
  metadata at the hint and no other while the record is (`Known`, `Awaited`); a
  read in flight is at the hint or at the record's location (`Flight`). Whichever
  of the two overlapping calls ends last, `Returned` follows. LoadedFacts and
  MergeFacts say what a loader and `merge_catalog` keep.
  WholeListing is of a walk whose pages the catalog chooses. `Walked` says that the
  calls answered so far are linked by their tokens, `Gathered` that what is listed
  stands for the entries heard, one item for each (`Matched`), `Ended` and
  `Refusal` what each outcome leaves behind. When the walk ends it has read each
  page once, since two calls for one token would go on alike for ever and the last
  one did not (ReadOnce), and all of them, since the tokens it followed are closed
  (ReadAll): so the entries heard are renamed one to one to those of the collection
  (MatchedTo). That the sort neither drops nor repeats an item is SortedFacts: the
  ranks of a total order on n places are a permutation of 1..n (RankFacts), and
  names in order of their first difference, ties in order of arrival, are such
  an order (BeforeIsOrder).
* **Records_proof**, of MassSummary. Its three properties speak of the end of a document, so the
  invariant, `Reading`, says what is true in the middle of one, whatever order
  `next` reads the feeds in. `AtInv` places each feed, `OpenInv` says that a value is
  open exactly when the feed that wrote it wrote the start of one, `ReadInv` that
  every line passed was one that may be there, `Accepted` that nothing read so far
  would have been refused, and `Totals` that each table's columns, classes and files
  hold the weighted sums of the measurements folded so far. `Totals` names a *set* of
  measurements, and this is why the order does not matter: each fold adds one
  measurement to the set (ColumnSummary::add_column, AllAdd) and a refusal is of a
  pair of them, not of the later one (FoldErrorIs). AllOrNothing follows at the end
  of the input: the document is sound exactly when no refusal was met, no value is
  open and every total fits its integer (EndOfDocumentStep); a refusal on the way
  already shows it unsound (FoldErrorStops). RowsAreTheTable is `Totals` at the end
  with RowIs. For CostsAddUp, FilesKept says that the last size, class and rate kept
  of a file are those of any of its measurements when they agree (`FilesAgree`, the
  hypothesis of the property: measurements of one file are of one file), CostsAre
  that a class then costs the sum over its files, and SharesAre that the columns'
  bytes are parts of the class's (SumOfParts). RangeIs needs that a minimum and a
  maximum exist (Extremes). A sum over a set is a fold of the community modules,
  which recurs through CHOOSE; SumCounts shows that it is the number of cells under
  its graph, and the laws of sums follow from those of Cardinality.
* **Records_proof**, of CommandLine. SetupPins is a property of each subject, so the
  invariant, `SubjectInv`, only says that a subject about the configuration is of the
  files, environments and flags that the constants hold (`Files`, `RunFiles`,
  `LaterFiles`, `Envs`, `Flags`), which the theorem is for all values of; the work is
  in the functions, shown for a run-control file of any number of lines and any
  environment. The fold over the lines recurs through
  CHOOSE; ParsesExist shows by induction on their number that it has a value, and
  ProfilesRead that each profile read is a layer of three settings. ConfigIs then
  gives `resolve` as a table of settings, from which Layered (the most specific layer
  that has a setting decides it), PinnedLater (what is exported is more specific than
  anything a later command may find) and Ran follow. That the constants are files and
  flags is ConfigurationsAssumption (FilesAreFiles, FlagsAre, DialectIs).

**How the proofs do induction.** The library's induction theorems take an
operator as a parameter, which the installed provers cannot instantiate. The
facts about flattened batches, chosen minima and walks of any length are
proved from the well-foundedness of the natural numbers instead: the least
counterexample is shown not to be one (`LeastNat`). Facts about sums and extremes
are proved likewise from that of the strict subsets of a finite set.

**Only model-checked.** Liveness (Progress, EveryLineWritten, Ends) is beyond the
prover, as ENABLED is. Six properties of MCRecords compare functions over
enumerated inputs (NamesRoundTrip, ProfileFacts, ReportAddsUp, DiffAddsUp,
FilesSelected, NothingDropped) with reference definitions: their
statements are of those inputs, and they rest on folds over sequences whose
induction is over data. The three violated properties are TLC's too.

## 5. Not modelled

* **aipnaming and docscheck** are tools of the repository's build, sequential
  programs over its source text that no command of pqbench runs.
* **Decoders and compressors.** What JSON, Avro and Parquet decoding and the
  codecs do with bytes is an outcome: a document or an error, a length.
* **Texts and layouts.** Help, the skill, the terminal's layout and the treemap's
  HTML template; which of its keys each type of record shows, in which column. Which
  table a record stands in, in which place, by which keys when it fits no type, and
  how a range of costs is rounded, are modelled.
* **delta-rs.** The replay of a log into active files is the library's;
  TableRecord and DeltaLog have what pqbench asks of it.
* **Iceberg.** Schemas, partition columns and commit actions, a hint that is no
  number, the symlink checks of local roots, and two metadata files with the same
  leading version, between which `newest_metadata` chooses by the order of the
  directory (load.rs:442).
* **Time.** The range of `Duration`: an interval is a number of ticks.
* **Stores and Lake.** The credentials' sources and the signing of URLs: a key is
  its bucket and options.
* **A crash of pqbench.** No command keeps state across its end, so there is
  nothing to recover; a level that is killed is a consumer or a parent that went
  away.

PROJECT.json gives each component's status.

## 6. What could be added

1. The other functions of MCRecords over any input, as MassSummary's are: their properties
   in modules with the inputs as a CONSTANT, and the sums of Records_proof.
2. A composition of two levels, the rows of one the lines of the next. LevelSpec
   is stated so that its `written` and `lines` can be identified.
