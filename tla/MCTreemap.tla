------------------------------ MODULE MCTreemap ------------------------------
(***************************************************************************)
(* Streams of summarized columns: two tables of a schema, a table of a     *)
(* second one, a dotted spelling of the first table, and no table's name.  *)
(***************************************************************************)
EXTENDS Treemap

First == TableName(<<"c">>, <<"s">>, <<"t">>)
Tables == {First, TableName(<<"c">>, <<"s">>, <<"/">>), TableName(<<"c">>, <<"r">>, <<"t">>),
           <<"c", ".", "s", ".", "t">>, <<"t">>}
Facts == {[bytes |-> 0, uncompressed |-> 0, cost |-> <<0, 0>>, files |-> 1, classes |-> {"STANDARD"}],
          [bytes |-> 3, uncompressed |-> 5, cost |-> <<1, 2>>, files |-> 2, classes |-> {"STANDARD"}],
          [bytes |-> 7, uncompressed |-> None, cost |-> <<2, 2>>, files |-> 1, classes |-> {}],
          [bytes |-> Limit - 1, uncompressed |-> Limit, cost |-> None, files |-> 1, classes |-> {"GLACIER"}]}
Rows == {[table |-> t, column |-> c, values |-> 1, ratio |-> None] @@ f : t \in Tables, c \in {"a", "b"}, f \in Facts}

(* The page has a catalog, a schema and a table for every row of a table's *)
(* name and for nothing else, and a table has its rows' columns, each once. *)
(* What it says of a name is what the rows of the tables under it say,     *)
(* each counted once: its bytes, and its ratio and cost when all of them    *)
(* are known.                                                              *)
Tells(page, rows) ==
    LET Under(prefix) == {i \in 1..Len(rows) : Ids(rows[i].table, Patterns.table) # None
                             /\ IsPrefix(prefix, Ids(rows[i].table, Patterns.table))}
        Sum(F(_), at) == FoldSet(LAMBDA i, sum : sum + F(i), 0, at)
        Says(node, at) ==
            /\ node.bytes = Saturating(Sum(LAMBDA i : rows[i].bytes, at))
            /\ node.cost = IF \E i \in at : rows[i].cost = None THEN None
                           ELSE <<Sum(LAMBDA i : rows[i].cost[1], at), Sum(LAMBDA i : rows[i].cost[2], at)>>
            /\ node.ratio = IF node.bytes = 0 \/ (\E i \in at : rows[i].uncompressed = None) THEN None
                            ELSE <<Sum(LAMBDA i : rows[i].uncompressed, at), node.bytes>>
        IdsTo(n) == {SubSeq(Ids(rows[i].table, Patterns.table), 1, n) : i \in Under(<<>>)}
        Columns(at) == [column \in {Column(rows[i]) : i \in at} |-> Cardinality({i \in at : Column(rows[i]) = column})]
        report == page.report
    IN  IF Under(<<>>) = {} THEN "error" \in DOMAIN page
        ELSE /\ DOMAIN report.catalogs = IdsTo(1) /\ DOMAIN report.schemas = IdsTo(2)
             /\ DOMAIN report.tables = IdsTo(3)
             /\ \A id \in DOMAIN report.catalogs : Says(report.catalogs[id], Under(id))
             /\ \A id \in DOMAIN report.schemas : Says(report.schemas[id], Under(id))
             /\ \A id \in DOMAIN report.tables :
                   /\ Says(report.tables[id], Under(id))
                   /\ Columns(Under(id)) = [column \in ToSet(report.tables[id].columns) |->
                                              Cardinality({i \in DOMAIN report.tables[id].columns :
                                                             report.tables[id].columns[i] = column})]
                   /\ Ids(report.tables[id].name, Patterns.table) = id
PageOf(rows) == Tells(RenderRows(rows), rows)
=============================================================================
