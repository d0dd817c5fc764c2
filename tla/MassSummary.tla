---------------------------- MODULE MassSummary ----------------------------
(***************************************************************************)
(* summarize columns: read a document one value at a time (a value may     *)
(* span lines), classify it, fold every measured column into its table,    *)
(* and at the end of the document turn the totals into one row per table   *)
(* column with its share of what the table's files cost to store.          *)
(*                                                                         *)
(* The feeds are the outputs of the measurements in flight: each keeps its *)
(* order and they interleave.  Weights are whole numbers (a rate is given  *)
(* in quarters) and money is kept in hundred-thousandths of a dollar, as a *)
(* fraction of the class's bytes, so that shares can be added exactly.     *)
(***************************************************************************)
EXTENDS ColumnMeasure, FiniteSetsExt

CONSTANTS Feeds,       \* the names of the feeds
          Documents    \* the documents: what each feed writes, line by line

VARIABLES document,    \* the document, and whether it is a file or standard input
          at,          \* the line and the value of it that each feed writes next
          open,        \* the lines before the one to read end inside a value
          empty,       \* no value was read yet
          tables,      \* ColumnSummary: what each table adds up to
          status,      \* "reading", "ok", or what the command fails with
          rows         \* the summary, once status is "ok"

vars == <<document, at, open, empty, tables, status, rows>>

(* A map entry, as BTreeMap::entry(..).or_default() gives it.              *)
Entry(map, key, default) == IF key \in DOMAIN map THEN map[key] ELSE default
Put(map, key, value) ==
    [k \in DOMAIN map \cup {key} |-> IF k = key THEN value ELSE map[k]]

-----------------------------------------------------------------------------
(* The fold.                                                               *)

NoBytes == [compressed |-> 0, uncompressed |-> 0, incomplete |-> FALSE,
            values |-> 0, blobs |-> <<>>, classBytes |-> <<>>]
NoTable == [columns |-> <<>>, blobs |-> <<>>, classBytes |-> <<>>]

(* The weight of a record is the inverse of its rate, which must be in     *)
(* (0, 1] and have a finite inverse.                                       *)
SampleRateError(rate) == IF ~RateAccepted(rate) THEN "SampleRate"
                         ELSE IF rate = Tiny THEN "Overflow" ELSE None
SampleWeight(rate) == IF rate = None THEN 1 ELSE 4 \div rate

OrZero(value) == IF value = None THEN 0 ELSE value

(* A record without a table takes the local table of the path it was read  *)
(* from.                                                                   *)
ResolveTable(r) == IF r.table = None THEN r.local ELSE r.table

ColumnClass(r) == IF ~r.blob.object THEN None
                  ELSE IF r.class = None THEN "STANDARD" ELSE r.class

AddClass(classes, class, bytes) ==
    IF class = None THEN classes
    ELSE Put(classes, class, Entry(classes, class, 0) + bytes)

(* Mutant: the values of a sampled file are not scaled.                    *)
AddBytesUnscaled(column, r, weight) ==
    LET bytes == weight * OrZero(r.mass.compressed) IN
    [compressed   |-> column.compressed + bytes,
     uncompressed |-> column.uncompressed + weight * OrZero(r.mass.uncompressed),
     incomplete   |-> column.incomplete \/ r.mass.uncompressed = None,
     values       |-> column.values + OrZero(r.mass.values),
     blobs        |-> Put(column.blobs, r.blob, weight),
     classBytes   |-> AddClass(column.classBytes, ColumnClass(r), bytes)]

AddBytes(column, r, weight) ==
    LET bytes == weight * OrZero(r.mass.compressed) IN
    [compressed   |-> column.compressed + bytes,
     uncompressed |-> column.uncompressed + weight * OrZero(r.mass.uncompressed),
     incomplete   |-> column.incomplete \/ r.mass.uncompressed = None,
     values       |-> column.values + weight * OrZero(r.mass.values),
     blobs        |-> Put(column.blobs, r.blob, weight),
     classBytes   |-> AddClass(column.classBytes, ColumnClass(r), bytes)]

(* Mutant: a column measured twice in a file is added twice.               *)
AddErrorTwice(r) ==
    IF ~ResolveTable(r).canonical THEN "TableName" ELSE SampleRateError(r.rate)

(* What stops a record from being folded, in the order it is looked for.   *)
AddError(r) ==
    IF ~ResolveTable(r).canonical THEN "TableName"
    ELSE IF SampleRateError(r.rate) # None THEN SampleRateError(r.rate)
    ELSE LET table == Entry(tables, ResolveTable(r), NoTable)
         IN  IF r.blob \in DOMAIN Entry(table.columns, r.path, NoBytes).blobs
             THEN "Duplicate" ELSE None

AddColumn(r) ==
    LET name   == ResolveTable(r)
        weight == SampleWeight(r.rate)
        table  == Entry(tables, name, NoTable)
        facts  == [size |-> r.size, class |-> r.class, weight |-> weight]
        column == AddBytes(Entry(table.columns, r.path, NoBytes), r, weight)
    IN  Put(tables, name,
            [columns    |-> Put(table.columns, r.path, column),
             blobs      |-> Put(table.blobs, r.blob, Entry(table.blobs, r.blob, facts)),
             classBytes |-> AddClass(table.classBytes, ColumnClass(r),
                                     weight * OrZero(r.mass.compressed))])

-----------------------------------------------------------------------------
(* The prices and the rows.                                                *)

(* Hundred-thousandths of a dollar per GiB and month, one per access tier. *)
StoragePrices ==
    [STANDARD |-> <<2300>>, REDUCED_REDUNDANCY |-> <<2400>>,
     INTELLIGENT_TIERING |-> <<2300, 1250, 400, 360, 99>>,
     STANDARD_IA |-> <<1250>>, ONEZONE_IA |-> <<1000>>, EXPRESS_ONEZONE |-> <<11000>>,
     GLACIER_IR |-> <<400>>, GLACIER |-> <<360>>, DEEP_ARCHIVE |-> <<99>>]

FileClass(facts) == IF facts.class = None THEN "STANDARD" ELSE facts.class

ClassFiles(blobs, class) ==
    {b \in DOMAIN blobs : b.object /\ FileClass(blobs[b]) = class}

(* The classes of a table's objects that have a price and whose files all  *)
(* have a size, with what each tier of the class would cost.               *)
TableClassCosts(blobs) ==
    LET classes == {FileClass(blobs[b]) : b \in {x \in DOMAIN blobs : x.object}}
        priced  == {c \in classes \cap DOMAIN StoragePrices :
                      \A b \in ClassFiles(blobs, c) : blobs[b].size # None}
        stored(class) == SumFunction([b \in ClassFiles(blobs, class) |->
                                        blobs[b].weight * blobs[b].size])
    IN  [class \in priced |->
           [tier \in DOMAIN StoragePrices[class] |->
              stored(class) * StoragePrices[class][tier]]]

(* Mutant: a column's share is of its own bytes, whatever their class.     *)
ColumnCostsOwn(column, table, costs) ==
    [class \in {c \in DOMAIN column \cap DOMAIN costs : table[c] > 0} |->
       [tier \in DOMAIN costs[class] |->
          [cost |-> costs[class][tier], bytes |-> column[class],
           of |-> SumFunction(column)]]]

(* A column's share of each class's cost: its bytes over the table's.      *)
ColumnCosts(column, table, costs) ==
    [class \in {c \in DOMAIN column \cap DOMAIN costs : table[c] > 0} |->
       [tier \in DOMAIN costs[class] |->
          [cost |-> costs[class][tier], bytes |-> column[class], of |-> table[class]]]]

CountFiles(blobs) == SumFunction(blobs)

Row(name, path, table, costs) ==
    LET column == table.columns[path] IN
    [table |-> name, column |-> path,
     compressed |-> column.compressed,
     uncompressed |-> IF column.incomplete THEN None ELSE column.uncompressed,
     values |-> column.values,
     bytesPerValue |-> IF column.values > 0 THEN <<column.compressed, column.values>>
                                            ELSE <<0, 1>>,
     ratio |-> IF column.incomplete \/ column.compressed = 0 THEN None
               ELSE <<column.uncompressed, column.compressed>>,
     files |-> CountFiles(column.blobs),
     classes |-> DOMAIN column.classBytes,
     costs |-> ColumnCosts(column.classBytes, table.classBytes, costs)]

Rows ==
    UNION {LET costs == TableClassCosts(tables[name].blobs)
           IN  {Row(name, path, tables[name], costs) : path \in DOMAIN tables[name].columns} :
           name \in DOMAIN tables}

(* round: a total that does not fit fails the summary.                     *)
Overflows(row) == \/ row.compressed >= Limit \/ row.values >= Limit
                  \/ row.uncompressed # None /\ row.uncompressed >= Limit
                  \/ row.files >= Limit

(* A row's cost as a range: every class of the column has a price, tiers   *)
(* of a class range and classes add.  Per class, <<low, high>> of the cost *)
(* and the column's share of it.                                           *)
CostRange(row) ==
    IF row.classes = {} \/ \E class \in row.classes : class \notin DOMAIN row.costs
    THEN None
    ELSE [class \in row.classes |->
            LET prices == {row.costs[class][t].cost : t \in DOMAIN row.costs[class]}
            IN  [low |-> Min(prices), high |-> Max(prices),
                 bytes |-> row.costs[class][1].bytes, of |-> row.costs[class][1].of]]

-----------------------------------------------------------------------------
(* The document.                                                           *)

(* A line is blank, holds whole values, starts a value ("open") or ends one*)
(* that a line before it started ("close"), or is no part of any value.    *)
ValuesIn(line) == IF line.kind \in {"whole", "close"} THEN line.values ELSE <<>>

(* A measurement is of a file, and has or lacks each of its numbers.       *)
IsColumn(r) ==
    /\ ResolveTable(r).canonical \in BOOLEAN /\ r.blob.object \in BOOLEAN
    /\ r.size \in Nat \cup {None}
    /\ \A field \in {"compressed", "uncompressed", "values"} :
          r.mass[field] \in Nat \cup {None}

(* A writer that spreads a value over lines is the only one: measurements  *)
(* in flight write a value a line.                                         *)
IsDocument(d) ==
    \A f \in Feeds :
      /\ Len(d.lines[f]) \in Nat
      /\ \A i \in 1..Len(d.lines[f]) :
           LET line == d.lines[f][i] IN
           /\ line.kind \in {"whole", "close"} => Len(line.values) \in Nat \ {0}
           /\ \A n \in 1..Len(ValuesIn(line)) :
                line.values[n].kind = "column" => IsColumn(line.values[n])
           /\ line.kind = "open" => \A g \in Feeds \ {f} : Len(d.lines[g]) = 0

ASSUME DocumentsAssumption ==
    /\ IsFiniteSet(Feeds) /\ \A d \in Documents : IsDocument(d)
    /\ None \notin {"SampleRate", "Overflow", "TableName", "Duplicate", "needs_blob",
                     "measure_first", "summary", "needs_name", "unsupported_name", "STANDARD"}

(* What one more line makes of the lines kept so far: nothing yet, or the  *)
(* values it completes.  Standard input parses the kept lines as one value;*)
(* a file is a run of values, on one line or more.                         *)
Incomplete(line) == \/ line.kind = "blank"
                    \/ line.kind = "open" /\ ~open
Completes(line) ==
    /\ line.kind = IF open THEN "close" ELSE "whole"
    /\ document.source = "stdin" => Len(line.values) = 1

(* classify, then summarize columns' filter: a column is folded, a blob    *)
(* passed over, anything else ends the command.                            *)
ClassifyError(value) ==
    CASE value.kind \in {"column", "blob"} -> None
      [] value.kind = "file" -> IF value.blob = None THEN "needs_blob" ELSE "measure_first"
      [] value.kind = "mass" -> "summary"
      [] value.kind = "nameless" -> "needs_name"
      [] OTHER -> "unsupported_name"

FoldError(value) ==
    IF ClassifyError(value) # None THEN ClassifyError(value)
    ELSE IF value.kind = "column" THEN AddError(value) ELSE None

Init ==
    /\ document \in Documents
    /\ at = [f \in Feeds |-> <<1, 1>>]
    /\ open = FALSE /\ empty = TRUE
    /\ tables = <<>> /\ status = "reading" /\ rows = {}

LineAt(f) == document.lines[f][at[f][1]]
LastOfLine(f) == at[f][2] = Len(LineAt(f).values)
NextLine(f) == <<at[f][1] + 1, 1>>
NextValue(f) == IF LastOfLine(f) THEN NextLine(f) ELSE <<at[f][1], at[f][2] + 1>>

Fails(reason) == status' = reason /\ UNCHANGED <<tables, rows>>

(* A line that completes no value yet is kept.                             *)
KeepLine(f) ==
    /\ Incomplete(LineAt(f))
    /\ at' = [at EXCEPT ![f] = NextLine(f)]
    /\ open' = (open \/ LineAt(f).kind = "open")
    /\ UNCHANGED <<empty, tables, status, rows>>

(* The values a line completes are folded one at a time.                   *)
ReadValue(f) ==
    /\ Completes(LineAt(f))
    /\ at' = [at EXCEPT ![f] = NextValue(f)]
    /\ open' = (open /\ ~LastOfLine(f)) /\ empty' = FALSE
    /\ LET value == LineAt(f).values[at[f][2]]
       IN  \/ FoldError(value) # None /\ Fails(FoldError(value))
           \/ /\ FoldError(value) = None
              /\ tables' = IF value.kind = "column" THEN AddColumn(value) ELSE tables
              /\ UNCHANGED <<status, rows>>

InvalidJson(f) ==
    /\ ~Incomplete(LineAt(f)) /\ ~Completes(LineAt(f))
    /\ Fails("invalid_json") /\ UNCHANGED <<at, open, empty>>

ReadLine(f) ==
    /\ status = "reading" /\ at[f][1] <= Len(document.lines[f])
    /\ KeepLine(f) \/ ReadValue(f) \/ InvalidJson(f)
    /\ UNCHANGED document

(* The end of the document, inside a value, before the first, or after the *)
(* last one.                                                               *)
CutShort ==
    open /\ Fails(IF document.source = "file" THEN "invalid_json" ELSE "incomplete")
Empty == ~open /\ empty /\ Fails("empty")
Summarize ==
    /\ ~open /\ ~empty
    /\ \/ (\E row \in Rows : Overflows(row)) /\ Fails("Overflow")
       \/ Rows = {} /\ Fails("no_columns")
       \/ /\ Rows # {} /\ \A row \in Rows : ~Overflows(row)
          /\ status' = "ok" /\ rows' = Rows /\ UNCHANGED tables

EndOfDocument ==
    /\ status = "reading" /\ \A f \in Feeds : at[f][1] > Len(document.lines[f])
    /\ CutShort \/ Empty \/ Summarize
    /\ UNCHANGED <<document, at, open, empty>>

Next == (\E f \in Feeds : ReadLine(f)) \/ EndOfDocument
Spec == Init /\ [][Next]_vars

-----------------------------------------------------------------------------
(* What a document says, whatever the order its feeds are read in.         *)

(* A value was started before line i of a feed and none of the lines since *)
(* ends it.                                                                *)
Opened(d, f, i) ==
    \E j \in 1..(i - 1) : /\ d.lines[f][j].kind = "open"
                          /\ \A k \in j..(i - 1) : d.lines[f][k].kind # "close"

(* Line i of a feed can be read where it stands.                           *)
Allowed(d, f, i) ==
    LET line == d.lines[f][i] IN
    \/ line.kind = "blank"
    \/ line.kind = "open" /\ ~Opened(d, f, i)
    \/ /\ line.kind = IF Opened(d, f, i) THEN "close" ELSE "whole"
       /\ d.source = "stdin" => Len(line.values) = 1

Readable(d) == \A f \in Feeds : /\ \A i \in 1..Len(d.lines[f]) : Allowed(d, f, i)
                                /\ ~Opened(d, f, Len(d.lines[f]) + 1)

(* The places of the values: a feed, a line, and which value of the line.  *)
Present(d) ==
    UNION {UNION {{<<f, i, n>> : n \in 1..Len(ValuesIn(d.lines[f][i]))} :
                  i \in 1..Len(d.lines[f])} : f \in Feeds}
Value(d, p) == d.lines[p[1]][p[2]].values[p[3]]
Measurements(d) == {p \in Present(d) : Value(d, p).kind = "column"}

TableOf(d, p) == ResolveTable(Value(d, p))
KeyOf(d, p) == <<TableOf(d, p), Value(d, p).path>>
OfKey(d, key) == {p \in Measurements(d) : KeyOf(d, p) = key}

(* What a set of measurements stands for, and how many files: each counts  *)
(* for as many as its rate says.                                           *)
Weight(d, p) == IF Value(d, p).rate = None THEN 1 ELSE 4 \div Value(d, p).rate
Weights(d) == [p \in Measurements(d) |-> Weight(d, p)]
Scaled(d, field) == [p \in Measurements(d) |-> Weight(d, p) * OrZero(Value(d, p).mass[field])]
FilesBehind(d, ps) == SumFunctionOnSet(Weights(d), ps)
Weighted(d, field, ps) == SumFunctionOnSet(Scaled(d, field), ps)
Unknown(d, ps) == \E p \in ps : Value(d, p).mass.uncompressed = None
Fits(d, ps) == /\ Weighted(d, "compressed", ps) < Limit /\ Weighted(d, "values", ps) < Limit
               /\ Unknown(d, ps) \/ Weighted(d, "uncompressed", ps) < Limit
               /\ FilesBehind(d, ps) < Limit

(* What AddError looks for.                                                *)
Usable(d, p) == TableOf(d, p).canonical /\ Value(d, p).rate \in {None} \cup 1..4
SameColumn(d, p, q) == KeyOf(d, p) = KeyOf(d, q) /\ Value(d, p).blob = Value(d, q).blob

Sound(d) ==
    /\ Readable(d)
    /\ \A p \in Present(d) : Value(d, p).kind \in {"column", "blob"}
    /\ Measurements(d) # {}
    /\ \A p \in Measurements(d) : Usable(d, p)
    /\ \A p, q \in Measurements(d) : SameColumn(d, p, q) => p = q
    /\ \A p \in Measurements(d) : Fits(d, OfKey(d, KeyOf(d, p)))

(* A summary is of the whole document or it is not given: whatever the     *)
(* order the measurements come in, the command succeeds exactly when every *)
(* line is part of a value, every value is a measured column or a blob, a  *)
(* column is measured once in a file, its table and rate can be used, and  *)
(* the totals fit u64 (document::records, summarize columns' filter,       *)
(* ColumnSummary).                                                         *)
AllOrNothing == status # "reading" => (status = "ok" <=> Sound(document))

(* The rows are the table's: one per column that was measured, whose bytes,*)
(* values and files are those of its measurements, each standing for as    *)
(* many as its rate says, and whose uncompressed bytes are known only if   *)
(* every measurement's are (ColumnSummary::add_column, into_rows).         *)
RowHolds(d, row) ==
    LET own == OfKey(d, <<row.table, row.column>>) IN
    /\ row.compressed = Weighted(d, "compressed", own)
    /\ row.values = Weighted(d, "values", own)
    /\ row.files = FilesBehind(d, own)
    /\ row.uncompressed = IF Unknown(d, own) THEN None ELSE Weighted(d, "uncompressed", own)

RowsAreTheTable ==
    status = "ok" =>
      /\ {<<row.table, row.column>> : row \in rows}
           = {KeyOf(document, p) : p \in Measurements(document)}
      /\ \A row \in rows : RowHolds(document, row)
      /\ \A row, other \in rows :
            row.table = other.table /\ row.column = other.column => row = other

(* The objects of a class behind a table, what they hold and what they     *)
(* cost.                                                                   *)
ClassOf(d, p) == IF Value(d, p).class = None THEN "STANDARD" ELSE Value(d, p).class
Objects(d, table) == {p \in Measurements(d) : TableOf(d, p) = table /\ Value(d, p).blob.object}
InClass(d, table, class) == {p \in Objects(d, table) : ClassOf(d, p) = class}
ClassBytes(d, table, class) == Weighted(d, "compressed", InClass(d, table, class))
Priced(d, table, class) ==
    /\ class \in DOMAIN StoragePrices /\ ClassBytes(d, table, class) > 0
    /\ \A p \in InClass(d, table, class) : Value(d, p).size # None
Stored(d, table, class) ==
    SumFunction([b \in {Value(d, p).blob : p \in InClass(d, table, class)} |->
                   LET p == CHOOSE q \in InClass(d, table, class) : Value(d, q).blob = b
                   IN  Weight(d, p) * Value(d, p).size])
CostOf(d, table, class, tier) == Stored(d, table, class) * StoragePrices[class][tier]

(* Every column of a file was measured through one record of the file.     *)
FilesAgree(d) ==
    \A p, q \in Measurements(d) :
       TableOf(d, p) = TableOf(d, q) /\ Value(d, p).blob = Value(d, q).blob =>
          /\ Value(d, p).size = Value(d, q).size /\ Value(d, p).class = Value(d, q).class
          /\ Value(d, p).rate = Value(d, q).rate

(* "The table total is still right": a class all of whose files are priced *)
(* and sized costs what its files cost, and the shares of the columns with *)
(* bytes in it make up the whole; a class with a file of unknown size or   *)
(* price costs no column anything (table_class_costs, column_costs), and a *)
(* column with bytes in such a class has no range at all, never one that   *)
(* leaves a class out (cost_range).                                        *)
SharesAddUp(d, all, table, class) ==
    LET charged == {row \in all : row.table = table /\ class \in DOMAIN row.costs} IN
    IF ~Priced(d, table, class) THEN charged = {}
    ELSE /\ SumFunction([row \in charged |-> row.costs[class][1].bytes])
               = ClassBytes(d, table, class)
         /\ \A row \in charged : \A tier \in DOMAIN StoragePrices[class] :
              /\ row.costs[class][tier].of = ClassBytes(d, table, class)
              /\ row.costs[class][tier].cost = CostOf(d, table, class, tier)

RangeHolds(d, row) ==
    LET own == {p \in Objects(d, row.table) : Value(d, p).path = row.column} IN
    IF own = {} \/ \E p \in own : ~Priced(d, row.table, ClassOf(d, p))
    THEN CostRange(row) = None
    ELSE \A p \in own : LET class == ClassOf(d, p)
                            range == CostRange(row)[class] IN
           /\ range.of = ClassBytes(d, row.table, class)
           /\ \A tier \in DOMAIN StoragePrices[class] :
                /\ range.low <= CostOf(d, row.table, class, tier)
                /\ CostOf(d, row.table, class, tier) <= range.high

CostsAddUp ==
    status = "ok" /\ FilesAgree(document) =>
      /\ \A row \in rows : \A p \in Objects(document, row.table) :
            SharesAddUp(document, rows, row.table, ClassOf(document, p))
      /\ \A row \in rows : RangeHolds(document, row)
=============================================================================
