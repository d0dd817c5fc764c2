------------------------------ MODULE MCSizeDiff ------------------------------
(***************************************************************************)
(* Column streams for SizeDiff, and what their difference must say.  A and *)
(* its sub-columns A.b and A.c sort around A-c, whose dash precedes a dot.  *)
(***************************************************************************)
EXTENDS SizeDiff, FiniteSetsExt

A == <<97>>
AB == <<97, Dot, 98>>
AC == <<97, Dot, 99>>
Dash == <<97, 45, 99>>
DashB == Dash \o <<Dot, 98>>
Masses == {None, [bytes |-> 3, values |-> 2], [bytes |-> 0, values |-> None], [bytes |-> None, values |-> 1]}
Row(name, path, mass) == [name |-> name, path |-> path, mass |-> mass]
Column(file, path, bytes, values) == Row(<<file, path>>, path, [bytes |-> bytes, values |-> values])
Names == {<<"x", A>>, <<"y", A>>, <<"x", AB>>, <<"x", AC>>, <<"x", Dash>>, <<"y", DashB>>}
RowSet == {Row(n, n[2], mass) : n \in Names, mass \in Masses} \cup {Row(None, A, None)}
Streams == BoundedSeq({r \in RowSet : r.path = A \/ (r.mass # None /\ r.mass.bytes # 0)}, 2)
           \cup {<<Column("x", A, 7, 2), Column("y", A, 5, 2)>>, <<Column("x", A, 7, 2), Column("x", Dash, 5, 2)>>,
                 <<Column("x", AB, 1, 7), Column("y", AC, 1, 5)>>}
Rights == {s \in Streams : Len(s) < 2}
          \cup {<<Column("x", A, 4, 2), Column("x", AC, 2, 2)>>, <<Column("y", Dash, 1, 1), Column("x", AB, 2, 2)>>}
Depths == {None, 0, 1, 2}

(* What a path has of a stream at a depth: the sum over the columns that   *)
(* roll up to it, None when none does.                                     *)
At(rows, path, depth) == {i \in DOMAIN rows : RolledUp(rows[i].path, depth) = path}
SumAt(rows, path, depth, key) ==
    MapThenSumSet(LAMBDA i : IF rows[i].mass = None THEN 0 ELSE OrZero(rows[i].mass[key]), At(rows, path, depth))
Twice(rows) == \E i, j \in 1..Len(rows) : i < j /\ rows[i].name = rows[j].name
Foreign(rows) == \E i \in 1..Len(rows) : rows[i].name = None
TooMuch(rows, depth) ==
    \E row \in ToSet(rows), key \in {"bytes", "values"} :
        SumAt(rows, RolledUp(row.path, depth), depth, key) >= Limit

(* A difference accounts for each column where it belongs: every path of   *)
(* either side is there once, in the order of paths, with the bytes and    *)
(* values of the columns that roll up to it and none of another's, and     *)
(* with none at all on the side that lacks it; so the change of a          *)
(* directory is that of the paths under it, in the comparison of whole     *)
(* paths.  It is refused for depth 0, a name twice, a name that is no      *)
(* column's and a sum that does not fit, and for nothing else.             *)
Accounts(diff, left, right, depth) ==
    LET Path(i) == diff.rows[i].column
        Side(rows, i) == IF At(rows, Path(i), depth) = {} THEN None ELSE SumAt(rows, Path(i), depth, "bytes")
        whole == Compare(left, right, None).rows
        Under(i) == {j \in DOMAIN whole : RolledUp(whole[j].column, depth) = Path(i)}
    IN  /\ {Path(i) : i \in DOMAIN diff.rows} = {RolledUp(row.path, depth) : row \in ToSet(left \o right)}
        /\ \A i \in DOMAIN diff.rows :
             /\ i > 1 => Before(Path(i - 1), Path(i))
             /\ diff.rows[i].left = Side(left, i) /\ diff.rows[i].right = Side(right, i)
             /\ diff.rows[i].leftValues = SumAt(left, Path(i), depth, "values")
             /\ diff.rows[i].rightValues = SumAt(right, Path(i), depth, "values")
             /\ diff.rows[i].delta = MapThenSumSet(LAMBDA j : whole[j].delta, Under(i))
Differs(diff, left, right, depth) ==
    IF depth = 0 \/ Twice(left) \/ Twice(right) \/ Foreign(left \o right)
       \/ TooMuch(left, depth) \/ TooMuch(right, depth)
    THEN Refused(diff)
    ELSE ~Refused(diff) /\ Accounts(diff, left, right, depth)
DiffOf(left, right, depth) == Differs(Compare(left, right, depth), left, right, depth)

(* The command compares the columns its inputs hold, one of them stdin at  *)
(* most, and no part of them: a document that is empty, cut short, garbled *)
(* or of other resources is refused, whatever columns came before that.    *)
Value(row) == [kind |-> "column", row |-> row]
Other(kind) == [kind |-> kind]
DocumentTexts == {<<>>, <<Other("blob")>>, <<Value(Column("x", AB, 1, 1))>>,
              <<Value(Column("x", A, 3, 1)), Other("blob"), Value(Column("y", A, 2, 1))>>}
             \cup {<<Value(Column("y", Dash, 4, 1)), Other(kind)>> : kind \in {"garbled", "cut", "file", "mass"}}
Stdins == DocumentTexts \cup {None}
File(starts, values, columns) == [is |-> "file", starts |-> starts, values |-> values, columns |-> columns]
Inputs == {[is |-> "stdin"], File("other", <<>>, None), File("other", <<>>, <<Column("z", A, 5, 1)>>)}
          \cup {File("brace", values, None) : values \in DocumentTexts \ {<<>>}}
          \cup {File("lz4", values, None) : values \in DocumentTexts \cup {None}}
Good(input, stdin) ==
    LET values == IF input.is = "stdin" THEN stdin ELSE input.values
    IN  IF input.is = "file" /\ input.starts = "other" THEN input.columns # None
        ELSE values \notin {None, <<>>} /\ \A i \in 1..Len(values) : values[i].kind \in {"column", "blob"}
Held(input, stdin) ==
    LET values == IF input.is = "stdin" THEN stdin ELSE input.values
        columns == SelectSeq(values, LAMBDA v : v.kind = "column")
    IN  IF input.is = "file" /\ input.starts = "other" THEN input.columns
        ELSE [i \in 1..Len(columns) |-> columns[i].row]
RunOf(left, right, stdin, depth) ==
    LET result == Run(left, right, stdin, depth)
    IN  IF Good(left, stdin) /\ Good(right, stdin) /\ ~(left.is = "stdin" /\ right.is = "stdin")
        THEN Differs(result, Held(left, stdin), Held(right, stdin), depth)
        ELSE Refused(result)
=============================================================================
