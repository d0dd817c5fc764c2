--------------------------- MODULE MCRecordTables ---------------------------
(***************************************************************************)
(* Names of every kind, some of which look like another, and streams of    *)
(* records that carry them, decoded or not.                                *)
(***************************************************************************)
EXTENDS RecordTables

T(schema, table) == TableName(<<"c">>, schema, table)
Blob == BlobName(<<"a">>)
Sweep == Blob \o <<"/", "compression", "/", "zstd-1">>
Names == {T(<<"s">>, <<"t">>), <<"c", ".", "s", ".", "t">>, <<"c", ".", "s">>, <<"c">>,
          T(<<"codecs">>, <<"t">>), T(<<"compression">>, <<"t">>), T(<<"s">>, <<"profile">>),
          TableFileName(T(<<"s">>, <<"t">>), <<"f", "/">>), TableFileName(T(<<"codecs">>, <<"t">>), <<"f">>),
          Spell(Patterns.metastore.segments, <<<<"m">>>>), Blob, BlobName(<<"profile">>),
          Blob \o <<"/", "columns", "/", "x">>, Blob \o <<"/", "columns", "/", "x", "/", "profile">>,
          Blob \o <<"/", "codecs", "/", "lz4-1">>, Sweep, Sweep \o <<"/", "columns", "/", "x">>,
          <<"x", "/", "y">>, None}

(* A record that its type decodes, and one of a few keys that none does.   *)
Decoded(name) ==
    LET class == Classify([fields |-> [name |-> name], fits |-> {}])
    IN  [is |-> "record", fields |-> [name |-> name],
         fits |-> {"Mass"} \cup (IF class = None THEN {} ELSE {class[1]})]
Bare(name, size) == [is |-> "record", fields |-> [name |-> name, size |-> size], fits |-> {}]
Lines == {Decoded(name) : name \in Names} \cup {Bare(name, 1) : name \in Names}
         \cup {Bare(T(<<"s">>, <<"t">>), None), [is |-> "blank"], [is |-> "bad"]}
FewLines == {line \in Lines : line.is # "record"
               \/ line.fields.name \in {T(<<"s">>, <<"t">>), <<"c", ".", "s", ".", "t">>, T(<<"codecs">>, <<"t">>),
                                       Blob, <<"x", "/", "y">>}}
Streams == BoundedSeq(Lines, 2) \cup BoundedSeq(FewLines, 3)

(* Every record is a row of one table, that of its class, or of its keys   *)
(* when its type cannot hold it; a table has all of its records, once      *)
(* each, in the order they came, and the tables are in the order of the    *)
(* first record of their class, held or not.  Only a blob's record, and    *)
(* one with no name that is no summarized column, is in no table.          *)
ClassesOf(lines) == [i \in 1..Len(lines) |-> IF lines[i].is = "record" THEN Classify(lines[i]) ELSE None]
HomesOf(lines, classes) ==
    [i \in 1..Len(lines) |-> IF classes[i] = None \/ classes[i][1] \in lines[i].fits \cup {"Other"} THEN classes[i]
                             ELSE <<"Other", Signature(lines[i])>>]
InOrder(lines, rows) == [r \in 1..Len(rows) |-> lines[rows[r]].fields]
Shows(out, lines, classes, homes) ==
    LET shown == {i \in 1..Len(lines) : classes[i] # None}
        First(class) == Min({i \in shown : class \in {classes[i], homes[i]}})
    IN  IF \E i \in 1..Len(lines) : lines[i].is = "bad" THEN "error" \in DOMAIN out
        ELSE /\ \A i \in 1..Len(lines) \ shown :
                  \/ lines[i].is = "blank" \/ (lines[i].fields.name = None /\ "Mass" \notin lines[i].fits)
                  \/ (lines[i].fields.name # None /\ ParseBlob(lines[i].fields.name) # None)
             /\ {out.tables[t].class : t \in DOMAIN out.tables} = {homes[i] : i \in shown}
             /\ \A t \in DOMAIN out.tables : LET class == out.tables[t].class
                IN  out.tables[t].rows = InOrder(lines, SetToSortSeq({i \in shown : homes[i] = class}, <))
             /\ \A t, u \in DOMAIN out.tables : t < u =>
                  LET first == First(out.tables[t].class)
                      second == First(out.tables[u].class)
                  IN  \/ first < second
                      \/ first = second /\ out.tables[t].class = classes[first] /\ out.tables[u].class = homes[first]
                                        /\ out.tables[t].class # out.tables[u].class
ShowsWith(lines, classes) == Shows(Tables(lines), lines, classes, HomesOf(lines, classes))
ShownOf(lines) == ShowsWith(lines, ClassesOf(lines))

(* The page is made of summarized columns only, and of all of them.        *)
HtmlRecords == [kind : {"mass"}, row : {1, 2}] \cup [kind : {"blob", "column", "file", "error"}, row : {0}]
HtmlOf(records) ==
    LET out == Html(records)
    IN  IF records # <<>> /\ \A i \in 1..Len(records) : records[i].kind = "mass"
        THEN out = [page |-> [i \in 1..Len(records) |-> records[i].row]] ELSE "page" \notin DOMAIN out

(* A cost is shown as a range only when its ends are not shown the same.   *)
CostOf(first, last) ==
    /\ Len(CostText(<<first, last>>)) = IF Dollars(first) = Dollars(last) THEN 1 ELSE 2
    /\ first <= last => Dollars(first)[1] * Dollars(first)[2] <= Dollars(last)[1] * Dollars(last)[2]
=============================================================================
