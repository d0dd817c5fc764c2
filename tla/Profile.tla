------------------------------- MODULE Profile -------------------------------
(***************************************************************************)
(* profile.rs: the facts of each column of a decoded sample.  A cell is    *)
(* None or a value: its text (a number, in the order of texts), how many   *)
(* bytes the text has, whether it is a boolean, and what it parses to as   *)
(* an integer or a number, both rounded to the float they are compared as. *)
(* A fraction is the pair the code divides.                                *)
(***************************************************************************)
EXTENDS Integers, Sorting

CONSTANTS None, NaN

Error(why) == [error |-> why]

Ratio(numerator, denominator) ==
    IF denominator = 0 THEN <<0, 1>> ELSE <<numerator, denominator>>

(* Entropy is known by the counts it is taken over, in any order.          *)
Shannon(counts, total) ==
    IF total = 0 \/ Len(counts) = 1 THEN 0
    ELSE <<SortedBy([i \in 1..Len(counts) |-> counts[i].count], <), total>>

PhysicalKind(values) ==
    LET All(P(_)) == \A i \in 1..Len(values) : P(values[i])
    IN  IF values = <<>> THEN "empty"
        ELSE IF All(LAMBDA v : v.boolean) THEN "boolean"
        ELSE IF All(LAMBDA v : v.integer # None) THEN "integer"
        ELSE IF All(LAMBDA v : v.number # None) THEN "number" ELSE "string"

NumericKey(kind, value) ==
    IF kind = "integer" THEN value.integer ELSE IF kind = "number" THEN value.number ELSE None

(* A NaN compares equal to every number.                                   *)
Less(kind, left, right) ==
    LET l == NumericKey(kind, left)
        r == NumericKey(kind, right)
    IN  IF l = None \/ r = None THEN left.text < right.text
        ELSE l # NaN /\ r # NaN /\ l < r

(* Mutant: numbers are compared as texts.                                  *)
BoundsOfTexts(values, kind) ==
    IF values = <<>> THEN <<None, None>>
    ELSE LET Least(a, b) == IF b.text < a.text THEN b ELSE a
             Most(a, b) == IF a.text < b.text THEN b ELSE a
         IN  <<FoldLeft(Least, values[1], Tail(values)), FoldLeft(Most, values[1], Tail(values))>>

Bounds(values, kind) ==
    IF values = <<>> THEN <<None, None>>
    ELSE LET Least(a, b) == IF Less(kind, b, a) THEN b ELSE a
             Most(a, b) == IF Less(kind, a, b) THEN b ELSE a
         IN  <<FoldLeft(Least, values[1], Tail(values)), FoldLeft(Most, values[1], Tail(values))>>

TopValues(counts, top) ==
    LET ordered == SortedBy(counts, LAMBDA a, b :
                     a.count > b.count \/ (a.count = b.count /\ a.text < b.text))
    IN  SubSeq(ordered, 1, IF top < Len(ordered) THEN top ELSE Len(ordered))

(* The nearest rank of numerator tenths.                                   *)
Percentile(sorted, tenths) ==
    LET rank == (tenths * Len(sorted) + 9) \div 10
    IN  sorted[IF rank = 0 THEN 1 ELSE IF rank > Len(sorted) THEN Len(sorted) ELSE rank]
LengthStats(sorted) ==
    IF sorted = <<>> THEN [mean |-> None, p50 |-> None, p90 |-> None, max |-> None]
    ELSE [mean |-> <<FoldLeft(+, 0, sorted), Len(sorted)>>,
          p50 |-> Percentile(sorted, 5), p90 |-> Percentile(sorted, 9),
          max |-> sorted[Len(sorted)]]

(* Two nulls next to each other are one run.                               *)
RunStats(cells) ==
    LET Step(run, cell) ==
          LET length == IF run.length > 0 /\ run.previous = cell THEN run.length + 1 ELSE 1
          IN  [runs |-> IF length = 1 THEN run.runs + 1 ELSE run.runs, length |-> length,
               longest |-> IF length > run.longest THEN length ELSE run.longest,
               previous |-> cell]
        last == FoldLeft(Step, [runs |-> 0, length |-> 0, longest |-> 0, previous |-> None], cells)
        n == Len(cells)
    IN  IF cells = <<>> THEN [adjacent |-> <<0, 1>>, mean |-> <<0, 1>>, longest |-> 0]
        ELSE [adjacent |-> IF n < 2 THEN <<0, 1>> ELSE <<n - last.runs, n - 1>>,
              mean |-> <<n, last.runs>>, longest |-> last.longest]

Monotonic(values, kind) ==
    LET increasing == \A i \in 1..Len(values) - 1 : ~Less(kind, values[i + 1], values[i])
        decreasing == \A i \in 1..Len(values) - 1 : ~Less(kind, values[i], values[i + 1])
    IN  IF Len(values) <= 1 \/ (increasing /\ decreasing) THEN "CONSTANT"
        ELSE IF increasing THEN "INCREASING" ELSE IF decreasing THEN "DECREASING" ELSE "UNORDERED"

ColumnProfile(column, cells, top) ==
    LET values == SelectSeq(cells, LAMBDA c : c # None)
        counts == [i \in 1..Len(Distinct(values)) |->
                     [text |-> Distinct(values)[i].text,
                      count |-> CountOf(values, Distinct(values)[i])]]
        kind == PhysicalKind(values)
    IN  [column |-> column, kind |-> kind, values |-> Len(cells),
         nulls |-> Len(cells) - Len(values),
         nullFraction |-> Ratio(Len(cells) - Len(values), Len(cells)),
         ndv |-> Len(counts), ndvRatio |-> Ratio(Len(counts), Len(cells)),
         entropy |-> Shannon(counts, Len(values)), top |-> TopValues(counts, top),
         bounds |-> Bounds(values, kind),
         lengths |-> LengthStats(SortedBy([i \in 1..Len(values) |-> values[i].bytes], <)),
         runs |-> RunStats(cells), monotonic |-> Monotonic(values, kind)]

(* A pattern is the set of names it matches, None one that does not parse; *)
(* a row that is too short has nulls.                                      *)
ProfileOf(sample, request) ==
    LET Kept(i) == request.columns = <<>>
                   \/ \E p \in ToSet(request.columns) : sample.columns[i] \in p
        Cells(i) == [r \in 1..Len(sample.rows) |->
                       IF i <= Len(sample.rows[r]) THEN sample.rows[r][i] ELSE None]
        kept == SelectSeq([i \in 1..Len(sample.columns) |-> i], Kept)
    IN  IF sample.rows = <<>> THEN Error("empty")
        ELSE IF Contains(request.columns, None) THEN Error("pattern")
        ELSE IF request.columns # <<>> /\ kept = <<>> THEN Error("no match")
        ELSE [rows |-> Len(sample.rows),
              columns |-> [k \in 1..Len(kept) |->
                             ColumnProfile(sample.columns[kept[k]], Cells(kept[k]), request.top)]]
=============================================================================
