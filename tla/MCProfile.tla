------------------------------ MODULE MCProfile ------------------------------
(***************************************************************************)
(* Samples for Profile, and what a column's facts must say together.       *)
(***************************************************************************)
EXTENDS Profile, Functions

Value(text, bytes, boolean, integer, number) ==
    [text |-> text, bytes |-> bytes, boolean |-> boolean, integer |-> integer, number |-> number]
\* "-2" < "10" < "1e0" < "9" < "NaN" < "true" as texts
Values == {Value(1, 2, FALSE, -2, -2), Value(2, 2, FALSE, 10, 10), Value(3, 3, FALSE, None, 1),
           Value(4, 1, FALSE, 9, 9), Value(5, 3, FALSE, None, NaN), Value(6, 4, TRUE, None, None)}
Columns1 == BoundedSeq(Values \cup {None}, 4) \ {<<>>}
Tops == 0..2

\* the second column is cut off in every row but the first
SampleOf(cells) == [columns |-> <<"a", "b">>,
                    rows |-> [i \in 1..Len(cells) |-> IF i = 1 THEN <<cells[1], cells[1]>> ELSE <<cells[i]>>]]
Requests == {[columns |-> columns, top |-> 1] :
               columns \in {<<>>, <<{"a"}>>, <<{"c"}, {"b", "a"}>>, <<{}>>, <<{"a"}, None>>}}

(* The facts of one column agree: every cell is a null or counted once, the *)
(* top values are the most frequent ones, half of the lengths are at most  *)
(* the median, the runs part the cells, and the bounds and the order are   *)
(* those of one comparison, of numbers in an integer or a number column    *)
(* and of texts in another (a column with a NaN has none).                 *)
Agree(p, values, cells, top) ==
    LET n == Len(values)
        OrderOk(kind) == kind \notin {"integer", "number"} \/ \A i \in 1..n : values[i].number # NaN
        Key(v) == IF p.kind \in {"integer", "number"} THEN v.number ELSE v.text
        TopCount == FoldLeft(LAMBDA s, t : s + t.count, 0, p.top)
        SameNext == Cardinality({i \in 1..Len(cells) - 1 : cells[i] = cells[i + 1]})
    IN  /\ p.values = p.nulls + n /\ TopCount <= n
        /\ top >= p.ndv => TopCount = n
        /\ \A i \in 1..Len(p.top) :
             /\ i > 1 => p.top[i - 1].count >= p.top[i].count
             /\ p.top[i].count = Cardinality({j \in 1..n : values[j].text = p.top[i].text})
        /\ \A v \in ToSet(values) :
             \/ \E t \in ToSet(p.top) : t.text = v.text
             \/ \A t \in ToSet(p.top) : t.count >= CountOf(values, v)
        /\ n > 0 => /\ p.lengths.p50 <= p.lengths.p90 /\ p.lengths.p90 <= p.lengths.max
                    /\ 2 * Cardinality({i \in 1..n : values[i].bytes <= p.lengths.p50}) >= n
                    /\ 2 * Cardinality({i \in 1..n : values[i].bytes >= p.lengths.p50}) >= n
        /\ Len(cells) > 1 => p.runs.adjacent = <<SameNext, Len(cells) - 1>>
        /\ p.runs.mean[2] = Len(cells) - SameNext
        /\ p.runs.longest * p.runs.mean[2] >= Len(cells)
        /\ n > 0 /\ OrderOk(p.kind) =>
             /\ \A v \in ToSet(values) : Key(p.bounds[1]) <= Key(v) /\ Key(v) <= Key(p.bounds[2])
             /\ p.monotonic = "CONSTANT" <=> Key(p.bounds[1]) = Key(p.bounds[2])
             /\ p.monotonic = "INCREASING" =>
                  Key(values[1]) = Key(p.bounds[1]) /\ Key(values[n]) = Key(p.bounds[2])
             /\ p.monotonic = "DECREASING" =>
                  Key(values[1]) = Key(p.bounds[2]) /\ Key(values[n]) = Key(p.bounds[1])
FactsOf(cells, top) ==
    Agree(ColumnProfile("a", cells, top), SelectSeq(cells, LAMBDA c : c # None), cells, top)

(* A column that is asked for is profiled over every row, or the profile   *)
(* says which of its three reasons it has not to.                          *)
ProfiledOf(cells, request) ==
    LET result == ProfileOf(SampleOf(cells), request)
        asked == {c \in {"a", "b"} : request.columns = <<>>
                                     \/ \E p \in ToSet(request.columns) : p # None /\ c \in p}
    IN  IF "error" \in DOMAIN result
        THEN cells = <<>> \/ None \in ToSet(request.columns) \/ asked = {}
        ELSE /\ {c.column : c \in ToSet(result.columns)} = asked
             /\ Len(result.columns) = Cardinality(asked)
             /\ \A c \in ToSet(result.columns) : c.values = Len(cells)
=============================================================================
