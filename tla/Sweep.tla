-------------------------------- MODULE Sweep --------------------------------
(***************************************************************************)
(* lz and compression: a codec sweep (bench.rs, codecs.rs), its timings    *)
(* reduced (stats.rs), and the report (report.rs, analytics.rs, raw.rs).   *)
(* A page is what each codec makes of it: the bytes it has, and per codec  *)
(* an outcome with the compressed size.  A duration is a whole number, a   *)
(* float an exact fraction.                                                *)
(***************************************************************************)
EXTENDS Integers, Sorting, TLC

CONSTANTS None, U32      \* the first count of passes that wraps

Fail(why) == [error |-> why]
Failed(x) == "error" \in DOMAIN x
Add(seq) == FoldLeft(LAMBDA sum, n : sum + n, 0, seq)

-----------------------------------------------------------------------------
(* Codecs and the specs that choose them.                                  *)

LevelRange == [snappy |-> 1..1, zstd |-> 1..22, lz4 |-> 1..1, gzip |-> 1..9]
AllCodecs == <<"snappy", "zstd", "lz4", "gzip">>
DefaultLevel(codec) == CHOOSE first \in LevelRange[codec] : \A l \in LevelRange[codec] : first <= l

(* name[@level]; level is None when the spec has no @, and a level that is *)
(* no number is "bad".                                                     *)
ParseSpec(spec) ==
    IF spec.level = "bad" THEN Fail("bad level")
    ELSE IF spec.name \notin DOMAIN LevelRange THEN Fail("unknown codec")
    ELSE [codec |-> spec.name,
          level |-> IF spec.level = None THEN DefaultLevel(spec.name) ELSE spec.level[1]]
CodecConfigs(specs) ==
    LET parsed == [i \in 1..Len(specs) |-> ParseSpec(specs[i])]
    IN  IF specs = <<>> THEN [i \in 1..Len(AllCodecs) |-> ParseSpec([name |-> AllCodecs[i], level |-> None])]
        ELSE parsed

Passes(request) == (request.samples + request.warmup) % U32

-----------------------------------------------------------------------------
(* One codec over the pages of a chunk: every round trip is verified before *)
(* the first timed pass.  chunk.times are the passes the clock would see.  *)

CheckLevel(config) == config.level \in LevelRange[config.codec]
RoundTrip(config, page) ==
    IF ~CheckLevel(config) THEN Fail("level")
    ELSE IF page.outcome[config.codec] # "ok" THEN Fail(page.outcome[config.codec])
    ELSE [bytes |-> page.bytes, compressed |-> page.size[config.codec]]

BenchPages(config, chunk, passes) ==
    LET pages == [i \in 1..Len(chunk.pages) |-> RoundTrip(config, chunk.pages[i])]
        wrong == SelectSeq(pages, Failed)
    IN  IF wrong # <<>> THEN wrong[1]
        ELSE [column |-> chunk.column, pages |-> pages,
              compress |-> [i \in 1..passes |-> chunk.times[config.codec][i]],
              decompress |-> [i \in 1..passes |-> chunk.times[config.codec][i] + 1]]

(* Every config over every chunk; the first failure ends the sweep.        *)
BenchFile(chunks, configs, passes) ==
    LET Row(config) ==
          LET swept == [i \in 1..Len(chunks) |-> BenchPages(config, chunks[i], passes)]
              wrong == SelectSeq(swept, Failed)
          IN  IF wrong # <<>> THEN wrong[1] ELSE [config |-> config, chunks |-> swept]
        rows == [i \in 1..Len(configs) |-> Row(configs[i])]
        failures == SelectSeq(rows, Failed)
    IN  IF failures # <<>> THEN failures[1] ELSE [rows |-> rows]

-----------------------------------------------------------------------------
(* Statistics.                                                             *)

Plus(p, q) == IF p[1] = 0 THEN q ELSE IF q[1] = 0 THEN p
              ELSE IF p[2] = q[2] THEN <<p[1] + q[1], p[2]>>
              ELSE <<p[1] * q[2] + q[1] * p[2], p[2] * q[2]>>
Zero == [n |-> 0, mean |-> <<0, 1>>, se2 |-> <<0, 1>>]
Combine(a, b) == [n |-> a.n + b.n, mean |-> Plus(a.mean, b.mean), se2 |-> Plus(a.se2, b.se2)]

(* Mutant: the last samples are dropped in place of the first.             *)
WarmupLast(k, samples) == SubSeq(samples, 1, Len(samples) - k)

Warmup(k, samples) == SubSeq(samples, k + 1, Len(samples))
Fastest(samples) == SubSeq(SortedBy(samples, <), 1, IF samples = <<>> THEN 0 ELSE 1)
Reduce(samples, request) ==
    LET warm == Warmup(request.warmup, samples)
    IN  IF request.mode = "fastest" THEN Fastest(warm) ELSE warm

(* The mean, and the variance of n - 1 degrees of freedom over n.          *)
Summarize(samples) ==
    LET n == Len(samples)
        sum == Add(samples)
        squares == Add([i \in 1..n |-> (n * samples[i] - sum) * (n * samples[i] - sum)])
    IN  IF samples = <<>> THEN Zero
        ELSE [n |-> n, mean |-> <<sum, n>>,
              se2 |-> <<squares, n * n * (IF n > 1 THEN n - 1 ELSE 1) * n>>]
Measure(samples, request) == Summarize(Reduce(samples, request))

(* Bytes over the mean, in bytes per unit of time; nothing timed has none. *)
Speed(estimate, bytes) ==
    IF estimate.mean[1] = 0 THEN <<0, 1>> ELSE <<bytes * estimate.mean[2], estimate.mean[1]>>

-----------------------------------------------------------------------------
(* The report.                                                             *)

BytesOf(chunk) == [compressed |-> Add([i \in 1..Len(chunk.pages) |-> chunk.pages[i].compressed]),
                   bytes |-> Add([i \in 1..Len(chunk.pages) |-> chunk.pages[i].bytes])]
RatioOf(sizes) == IF sizes.bytes = 0 THEN <<1, 1>> ELSE <<sizes.compressed, sizes.bytes>>

ChunkMeasure(chunk, request) == <<Measure(chunk.compress, request), Measure(chunk.decompress, request)>>
ReportRow(config, measured, sizes) ==
    [config |-> config, compress |-> measured[1], decompress |-> measured[2],
     sizes |-> sizes, ratio |-> RatioOf(sizes)]

FileMeasure(row, request) ==
    FoldLeft(LAMBDA sums, chunk : <<Combine(sums[1], ChunkMeasure(chunk, request)[1]),
                                    Combine(sums[2], ChunkMeasure(chunk, request)[2])>>,
             <<Zero, Zero>>, row.chunks)
FileBytes(row) ==
    LET sizes == [i \in 1..Len(row.chunks) |-> BytesOf(row.chunks[i])]
    IN  [compressed |-> Add([i \in 1..Len(sizes) |-> sizes[i].compressed]),
         bytes |-> Add([i \in 1..Len(sizes) |-> sizes[i].bytes])]
FileRow(row, request) == ReportRow(row.config, FileMeasure(row, request), FileBytes(row))
ColumnRows(row, request) ==
    [i \in 1..Len(row.chunks) |->
       [column |-> row.chunks[i].column]
       @@ ReportRow(row.config, ChunkMeasure(row.chunks[i], request), BytesOf(row.chunks[i]))]

(* The smallest ratio first; equal ones as they were asked for.            *)
IntoReport(rows, columns) ==
    [rows |-> SortedBy(rows, LAMBDA a, b : a.ratio[1] * b.ratio[2] < b.ratio[1] * a.ratio[2]),
     columns |-> columns]
Aggregate(raw, request) ==
    IntoReport([i \in 1..Len(raw) |-> FileRow(raw[i], request)],
               IF request.perColumn
               THEN FlattenSeq([i \in 1..Len(raw) |-> ColumnRows(raw[i], request)]) ELSE <<>>)

Compression(request, chunks) ==
    LET configs == CodecConfigs(request.specs)
        wrong == SelectSeq(configs, Failed)
        raw == BenchFile(chunks, configs, Passes(request))
    IN  IF wrong # <<>> THEN wrong[1]
        ELSE IF Failed(raw) THEN raw ELSE Aggregate(raw.rows, request)

(* lz sweeps the whole file as one buffer, and has no columns.             *)
Lz(request, chunk) ==
    LET configs == CodecConfigs(request.specs)
        wrong == SelectSeq(configs, Failed)
        raw == BenchFile(<<chunk>>, configs, Passes(request))
        Row(r) == ReportRow(r.config, ChunkMeasure(r.chunks[1], request), BytesOf(r.chunks[1]))
    IN  IF wrong # <<>> THEN wrong[1]
        ELSE IF Failed(raw) THEN raw
        ELSE IntoReport([i \in 1..Len(raw.rows) |-> Row(raw.rows[i])], <<>>)
=============================================================================
