------------------------------ MODULE Treemap ------------------------------
(***************************************************************************)
(* viz/mod.rs: the rows of summarize columns folded into a page of         *)
(* catalogs, schemas, tables and columns.  A level is a function from ids  *)
(* to nodes: the order of siblings is layout.  A ratio is the pair the     *)
(* code divides; a cost is the pair <<first, last>>, or None.              *)
(***************************************************************************)
EXTENDS Names

CONSTANT Limit      \* 2^64: byte counts saturate below it

Known(sum) == IF sum.incomplete THEN None ELSE sum.bytes
AddUncompressed(sum, bytes) ==
    IF bytes = None THEN [sum EXCEPT !.incomplete = TRUE] ELSE [sum EXCEPT !.bytes = @ + bytes]
Ratio(uncompressed, bytes) ==
    IF uncompressed = None \/ bytes = 0 THEN None ELSE <<uncompressed, bytes>>

NoCosts == [first |-> 0, last |-> 0, priced |-> TRUE, any |-> FALSE]

AddCost(costs, cost) ==
    IF cost = None THEN [costs EXCEPT !.priced = FALSE]
    ELSE [costs EXCEPT !.first = @ + cost[1], !.last = @ + cost[2], !.any = TRUE]
TotalCost(costs) == IF costs.priced /\ costs.any THEN <<costs.first, costs.last>> ELSE None

Saturating(n) == IF n < Limit THEN n ELSE Limit - 1

-----------------------------------------------------------------------------
(* What a level's parts add up to: rows to a table, tables to the rest.    *)

NoParts == [bytes |-> 0, uncompressed |-> [bytes |-> 0, incomplete |-> FALSE], cost |-> NoCosts]
AddPart(sum, part) ==
    [bytes |-> Saturating(sum.bytes + part.bytes),
     uncompressed |-> AddUncompressed(sum.uncompressed, part.uncompressed),
     cost |-> AddCost(sum.cost, part.cost)]
Totals(parts) == FoldLeft(AddPart, NoParts, parts)

(* The ratio of a catalog or a schema; a table's is the same pair.         *)
Node(name, display, sum) ==
    [name |-> name, display |-> display, bytes |-> sum.bytes,
     ratio |-> Ratio(Known(sum.uncompressed), sum.bytes), cost |-> TotalCost(sum.cost)]
PartOf(sum) == [bytes |-> sum.bytes, uncompressed |-> Known(sum.uncompressed),
                cost |-> TotalCost(sum.cost)]

RowsOf(rows, ids) == SelectSeq(rows, LAMBDA row : Ids(row.table, Patterns.table) = ids)
Column(row) == [column |-> row.column, bytes |-> row.bytes, values |-> row.values,
                ratio |-> row.ratio, cost |-> row.cost]
Table(rows, ids) ==
    LET mine == RowsOf(rows, ids)
    IN  [columns |-> [i \in 1..Len(mine) |-> Column(mine[i])],
         classes |-> UNION {mine[i].classes : i \in 1..Len(mine)},
         files |-> Max({0} \cup {mine[i].files : i \in 1..Len(mine)})]
        @@ Node(TableName(ids[1], ids[2], ids[3]), ids[3], Totals(mine))

(* Every table whose name has ids with this prefix, as a part of the level. *)
Level(rows, tables, prefix) ==
    LET below == SetToSeq({ids \in tables : IsPrefix(prefix, ids)})
    IN  Totals([i \in 1..Len(below) |-> PartOf(Totals(RowsOf(rows, below[i])))])

(* A row whose table is no table's name is passed over.                    *)
Fold(rows) ==
    LET tables == {Ids(rows[i].table, Patterns.table) : i \in 1..Len(rows)} \ {None}
        Schema(pair) == Node(Spell(Patterns.schema.segments, pair), pair[2], Level(rows, tables, pair))
        Catalog(id) == Node(Spell(Patterns.catalog.segments, id), id[1], Level(rows, tables, id))
    IN  [catalogs |-> [id \in {SubSeq(ids, 1, 1) : ids \in tables} |-> Catalog(id)],
         schemas |-> [pair \in {SubSeq(ids, 1, 2) : ids \in tables} |-> Schema(pair)],
         tables |-> [ids \in tables |-> Table(rows, ids)]]

Title(report) ==
    LET tables == DOMAIN report.tables
    IN  IF tables = {} THEN "summary"
        ELSE IF Cardinality(tables) = 1 THEN CHOOSE ids \in tables : TRUE ELSE Cardinality(tables)

Page(report) ==
    IF DOMAIN report.catalogs = {} THEN [error |-> "html needs summarized columns"]
    ELSE [report |-> report, title |-> Title(report)]
RenderRows(rows) == Page(Fold(rows))
=============================================================================
