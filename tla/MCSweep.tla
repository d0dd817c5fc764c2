------------------------------- MODULE MCSweep -------------------------------
(***************************************************************************)
(* Files and requests for Sweep, and what a report must say.               *)
(***************************************************************************)
EXTENDS Sweep

Codecs == DOMAIN LevelRange
Page(bytes, snappy, zstd, lz4, gzip, outcome) ==
    [bytes |-> bytes, size |-> [snappy |-> snappy, zstd |-> zstd, lz4 |-> lz4, gzip |-> gzip],
     outcome |-> [c \in Codecs |-> IF c = "gzip" THEN outcome ELSE "ok"]]
Pages == {Page(4, 2, 1, 2, 3, "ok"), Page(6, 6, 3, 2, 1, "ok"), Page(0, 1, 2, 1, 1, "ok"),
          Page(4, 2, 1, 2, 3, "mismatch"), Page(4, 2, 1, 2, 3, "fails")}
\* the two first passes are the slow ones, of some codecs
Times == {[c \in Codecs |-> <<9, 8, 2, 3, 1>>], [c \in Codecs |-> IF c = "zstd" THEN <<5, 1, 4, 4, 4>> ELSE <<0, 0, 0, 0, 0>>]}
Chunk(column, pages, times) == [column |-> column, pages |-> pages, times |-> times]
SweptFiles == {<<>>, <<Chunk("a", <<>>, CHOOSE t \in Times : TRUE)>>}
         \cup {<<Chunk("a", <<p, q>>, t)>> : p, q \in Pages, t \in Times}
         \cup {<<Chunk("a", <<p>>, t), Chunk("b", <<q>>, u)>> : p, q \in Pages, t, u \in Times}

Spec1(name, level) == [name |-> name, level |-> level]
SpecLists == {<<>>, <<Spec1("zstd", <<3>>), Spec1("lz4", None)>>, <<Spec1("snappy", <<2>>)>>,
              <<Spec1("lz4", None), Spec1("snappy", <<1>>), Spec1("lz4", <<1>>)>>, <<Spec1("lzo", None)>>,
              <<Spec1("gzip", "bad")>>, <<Spec1("gzip", <<9>>), Spec1("gzip", <<0>>)>>}
Request(specs, samples, warmup, mode) ==
    [specs |-> specs, samples |-> samples, warmup |-> warmup, mode |-> mode, perColumn |-> TRUE]
SweepRequests == {Request(specs, samples, warmup, mode) :
               specs \in SpecLists, samples \in {0, 1, 3, 4}, warmup \in 0..2, mode \in {"fastest", "mean"}}

Same(p, q) == p[1] * q[2] = q[1] * p[2]
SumOf(rows, Part(_)) == FoldLeft(LAMBDA s, r : Plus(s, Part(r)), <<0, 1>>, rows)

(* A report has a row for every config, the smallest ratio first and the   *)
(* rest as asked; each row is its columns put together, and each time is   *)
(* taken over the samples asked for, the passes after the warmup; where    *)
(* the two counts together wrap, there are too few passes for any sample.  *)
(* It fails for a spec, a level or a round trip that is wrong, and then    *)
(* reports nothing.                                                        *)
Reports(report, configs, request, chunks) ==
    LET ColumnsOf(config) == SelectSeq(report.columns, LAMBDA r : r.config = config)
        Mine(chunk, config) ==
          IF request.samples + request.warmup >= U32 THEN <<>>
          ELSE [i \in 1..request.samples |-> chunk.times[config.codec][request.warmup + i]]
        Best(times) == IF request.mode = "mean" \/ times = <<>> THEN times
                       ELSE <<CHOOSE t \in ToSet(times) : \A u \in ToSet(times) : t <= u>>
    IN  IF Failed(report)
        THEN \E i \in 1..Len(configs) :
               \/ Failed(configs[i])
               \/ \E c \in ToSet(chunks) : \E p \in ToSet(c.pages) :
                    configs[i].level \notin LevelRange[configs[i].codec]
                    \/ p.outcome[configs[i].codec] # "ok"
        ELSE /\ \A i \in 1..Len(configs) : CountOf(configs, configs[i])
                  = Len(SelectSeq(report.rows, LAMBDA r : r.config = configs[i]))
             /\ \A i, j \in 1..Len(report.rows) : i < j =>
                  LET a == report.rows[i].ratio
                      b == report.rows[j].ratio
                  IN  \/ a[1] * b[2] < b[1] * a[2]
                      \/ /\ Same(a, b)
                         /\ \E k, l \in 1..Len(configs) : k < l /\ configs[k] = report.rows[i].config
                                                                /\ configs[l] = report.rows[j].config
             /\ \A row \in ToSet(report.rows) :
                  LET times == CountOf(configs, row.config)
                      mine == SubSeq(ColumnsOf(row.config), 1, Len(ColumnsOf(row.config)) \div times)
                  IN  /\ row.sizes.bytes = Add([i \in 1..Len(mine) |-> mine[i].sizes.bytes])
                      /\ Same(row.compress.mean, SumOf(mine, LAMBDA r : r.compress.mean))
                      /\ Same(row.decompress.se2, SumOf(mine, LAMBDA r : r.decompress.se2))
                      /\ row.compress.n = Add([i \in 1..Len(mine) |-> mine[i].compress.n])
             /\ \A config \in ToSet(configs), i \in 1..Len(chunks) :
                  LET times == Best(Mine(chunks[i], config))
                      row == ColumnsOf(config)[i]
                  IN  /\ row.compress.n = Len(times)
                      /\ times # <<>> => Same(row.compress.mean, <<Add(times), Len(times)>>)
                      /\ Add(times) # 0 => Same(Speed(row.compress, row.sizes.bytes),
                                                <<row.sizes.bytes * Len(times), Add(times)>>)
ReportOf(request, chunks) == Reports(Compression(request, chunks), CodecConfigs(request.specs), request, chunks)

(* The sweep of a buffer is the sweep of a file of one chunk.              *)
SameRows(lz, file) == IF Failed(lz) THEN lz = file ELSE lz.rows = file.rows /\ lz.columns = <<>>
BufferOf(request, chunk) == SameRows(Lz(request, chunk), Compression(request, <<chunk>>))
=============================================================================
