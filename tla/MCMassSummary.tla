--------------------------- MODULE MCMassSummary ---------------------------
(***************************************************************************)
(* Documents for MassSummary: what list columns writes for two files that  *)
(* are measured at once, and documents that were written by hand.          *)
(***************************************************************************)
EXTENDS MassSummary

TwoFeeds == {1, 2}

Chunk(path, bytes, raw, values, codec, nulls) ==
    [path |-> path, physical |-> "INT64", compressed |-> bytes, uncompressed |-> raw,
     values |-> values, codec |-> codec, encodings |-> <<"PLAIN">>,
     dataEncodings |-> None, dictionary |-> FALSE, dictionaryBytes |-> None,
     nulls |-> nulls, unencoded |-> None, distinct |-> 1, min |-> "a", max |-> "b"]

(* Row groups: a and b; b missing from the first; nothing but an empty a.  *)
Wide   == [rowCount |-> 3, chunks |-> <<Chunk("a", 2, 3, 1, "zstd", 0),
                                        Chunk("b", 4, 4, 1, "zstd", None),
                                        Chunk("a", 1, 5, 2, "snappy", 1),
                                        Chunk("b", 0, 1, 2, "zstd", 2)>>]
Narrow == [rowCount |-> 2, chunks |-> <<Chunk("b", 3, 6, 2, "zstd", 0)>>]
Hollow == [rowCount |-> 0, chunks |-> <<Chunk("a", 0, 0, 0, "zstd", 0)>>]
Footers == {Wide, Narrow, Hollow}

Orders == [canonical |-> TRUE, name |-> "orders"]
Local  == [canonical |-> TRUE, name |-> "local"]
Odd    == [canonical |-> FALSE, name |-> "odd"]

Object(n) == [id |-> n, object |-> TRUE]
OnDisk(n) == [id |-> n, object |-> FALSE]

TableFile(blob, footer, rate, size, class) ==
    [blob |-> blob, local |-> Local, footer |-> footer, table |-> Orders,
     rate |-> rate, size |-> size, class |-> class]

Line(kind, values) == [kind |-> kind, values |-> values]
OnePerLine(values) == [i \in 1..Len(values) |-> Line("whole", <<values[i]>>)]
Listed(file) == OnePerLine(ListColumns(file).rows)

(* Two measured files of one table.                                        *)
Classes == {None, "INTELLIGENT_TIERING", "UNPRICED"}
FilesOf(n, blobs) ==
    {TableFile(blob, footer, rate, size, class) :
       blob \in blobs, footer \in Footers, rate \in {None, 2}, size \in {None, 5},
       class \in Classes}
FirstFiles == {f \in FilesOf(1, {Object(1)}) : f.footer = Wide}
              \cup {[f EXCEPT !.rate = Tiny] : f \in FilesOf(1, {OnDisk(1)})}
SecondFiles == FilesOf(2, {Object(2), OnDisk(2), Object(1)})

Measured == {[source |-> "stdin", lines |-> <<Listed(f), Listed(g)>>] :
               f \in FirstFiles, g \in SecondFiles}

(* Written by hand: values over several lines, other records, bad names.   *)
SomeColumn(path) ==
    LET r == ListColumns(TableFile(Object(3), Narrow, 1, 4, None)).rows[2]
    IN  [r EXCEPT !.path = path]
Values == {SomeColumn("b"), [SomeColumn("b") EXCEPT !.table = Odd],
           [SomeColumn("b") EXCEPT !.table = None, !.mass.uncompressed = None],
           [SomeColumn("b") EXCEPT !.rate = 0], [kind |-> "blob"],
           [kind |-> "file", blob |-> None], [kind |-> "file", blob |-> "x"],
           [kind |-> "mass"], [kind |-> "nameless"], [kind |-> "other"]}
Pieces == {Line("whole", <<v>>) : v \in Values}
          \cup {Line("open", <<>>), Line("blank", <<>>), Line("garbage", <<>>),
                Line("close", <<SomeColumn("a")>>),
                Line("whole", <<SomeColumn("a"), SomeColumn("c")>>)}
Written == {[source |-> source, lines |-> <<SomeLines, <<>>>>] :
              source \in {"stdin", "file"}, SomeLines \in BoundedSeq(Pieces, 3)}

AllDocuments == Measured \cup Written
=============================================================================
