------------------------------- MODULE SizeDiff -------------------------------
(***************************************************************************)
(* diff: the compressed bytes of two column streams, path by path.  A row  *)
(* is a column's name (None when it is not a column's), its path, the      *)
(* bytes of a dotted text, and its mass, None when it was not measured.    *)
(***************************************************************************)
EXTENDS Integers, Sorting

CONSTANTS None, Limit      \* Limit is 2^64

Refuse(why) == [error |-> why]
Refused(x) == "error" \in DOMAIN x
OrZero(n) == IF n = None THEN 0 ELSE n

(* The path of a row at a depth, up to its depth-th dot; None for all of it. *)
Dot == 46
DotsUpTo(path, i) == Cardinality({j \in 1..i : path[j] = Dot})
RolledUp(path, depth) ==
    LET cuts == {i \in 1..Len(path) : path[i] = Dot /\ DotsUpTo(path, i) = depth}
    IN  IF depth = None \/ cuts = {} THEN path ELSE SubSeq(path, 1, (CHOOSE i \in cuts : TRUE) - 1)

(* Mutant: a name is told from another by its path only.                   *)
DuplicatePath(totals, row) == row.path \in DOMAIN totals.sums

Duplicate(totals, row) == row.name \in totals.names

AddRow(totals, row, depth) ==
    LET path == RolledUp(row.path, depth)
        Of(column) == IF row.mass = None THEN 0 ELSE OrZero(row.mass[column])
        before == IF path \in DOMAIN totals.sums THEN totals.sums[path] ELSE [bytes |-> 0, values |-> 0]
        after == [bytes |-> before.bytes + Of("bytes"), values |-> before.values + Of("values")]
    IN  IF Refused(totals) THEN totals
        ELSE IF row.name = None THEN Refuse("not a column name")
        ELSE IF Duplicate(totals, row) THEN Refuse("duplicate column")
        ELSE IF after.bytes >= Limit \/ after.values >= Limit THEN Refuse("overflow")
        ELSE [names |-> totals.names \cup {row.name},
              sums |-> [p \in DOMAIN totals.sums \cup {path} |-> IF p = path THEN after ELSE totals.sums[p]]]
Summarize(rows, depth) ==
    FoldLeft(LAMBDA totals, row : AddRow(totals, row, depth), [names |-> {}, sums |-> <<>>], rows)

Delta(path, left, right) ==
    LET l == IF path \in DOMAIN left THEN left[path].bytes ELSE None
        r == IF path \in DOMAIN right THEN right[path].bytes ELSE None
        leftValues == IF path \in DOMAIN left THEN left[path].values ELSE 0
        rightValues == IF path \in DOMAIN right THEN right[path].values ELSE 0
        delta == OrZero(r) - OrZero(l)
    IN  [column |-> path, left |-> l, right |-> r, delta |-> delta,
         percent |-> IF l = None \/ l = 0 THEN None ELSE <<delta * 100, l>>,
         leftValues |-> leftValues, rightValues |-> rightValues,
         leftPerValue |-> IF l = None \/ leftValues = 0 THEN None ELSE <<l, leftValues>>,
         rightPerValue |-> IF r = None \/ rightValues = 0 THEN None ELSE <<r, rightValues>>]

(* The order of paths is that of their bytes, dots included, a prefix first. *)
Before(p, q) == \E i \in 1..Len(q) : /\ \A j \in 1..i - 1 : j <= Len(p) /\ p[j] = q[j]
                                     /\ i > Len(p) \/ p[i] < q[i]

(* One row per path of either side, in the order of paths.                 *)
Compare(left, right, depth) ==
    LET l == Summarize(left, depth)
        r == Summarize(right, depth)
        paths == SortedBy(SetToSeq(DOMAIN l.sums \cup DOMAIN r.sums), Before)
    IN  IF depth = 0 THEN Refuse("depth must be positive")
        ELSE IF Refused(l) THEN l
        ELSE IF Refused(r) THEN r
        ELSE [rows |-> [i \in 1..Len(paths) |-> Delta(paths[i], l.sums, r.sums)]]

-----------------------------------------------------------------------------
(* The command.  An input is [is |-> "stdin"] for "-", or a file: what it  *)
(* starts with, the values in it as a document, None when it cannot be     *)
(* read or decoded, and its columns as Parquet, None when that fails.  A   *)
(* value is a resource of some kind, "garbled" when it is no JSON or no    *)
(* resource, or "cut" when the text ends in it.                            *)

IsDocument(input) == input.starts \in {"brace", "lz4"}

(* The values are read in turn, and the first that is no column stream's   *)
(* ends the command; a document with none at all is an error too.  Of      *)
(* stdin, a value that is cut is waited for till the end; of a file, whose *)
(* text is there, it is no JSON.                                           *)
DocumentColumns(values, cut) ==
    LET foreign == SelectSeq(values, LAMBDA v : v.kind \notin {"column", "blob"})
        columns == SelectSeq(values, LAMBDA v : v.kind = "column")
    IN  IF values = <<>> THEN Refuse("empty document")
        ELSE IF foreign = <<>> THEN [rows |-> [i \in 1..Len(columns) |-> columns[i].row]]
        ELSE Refuse(CASE foreign[1].kind = "garbled" -> "invalid document"
                      [] foreign[1].kind = "cut" -> cut
                      [] OTHER -> "a column stream or a Parquet file")

(* stdin is None when it is a terminal.                                    *)
ColumnsOf(input, stdin) ==
    IF input.is = "stdin"
    THEN IF stdin = None THEN Refuse("not a stream") ELSE DocumentColumns(stdin, "incomplete document")
    ELSE IF IsDocument(input)
    THEN IF input.values = None THEN Refuse("read") ELSE DocumentColumns(input.values, "invalid document")
    ELSE IF input.columns = None THEN Refuse("read") ELSE [rows |-> input.columns]
Run(left, right, stdin, depth) ==
    LET l == ColumnsOf(left, stdin)
        r == ColumnsOf(right, stdin)
    IN  IF left.is = "stdin" /\ right.is = "stdin" THEN Refuse("only one input may be stdin")
        ELSE IF Refused(l) THEN l
        ELSE IF Refused(r) THEN r ELSE Compare(l.rows, r.rows, depth)
=============================================================================
