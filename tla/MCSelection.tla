----------------------------- MODULE MCSelection -----------------------------
(***************************************************************************)
(* Files, dates and rates for Selection, and what is selected.             *)
(***************************************************************************)
EXTENDS Selection

File(path, size, partitions) == [path |-> path, name |-> path, size |-> size, partitions |-> partitions]
FileSets == {<<File(1, a, [k |-> 1]), File(2, b, [k |-> None]), File(3, c, <<>>), File(4, d, [k |-> 1])>> :
               a, b, c \in {1, 2, 5, None}, d \in {1, 4}}
Choose(include, exclude, partitions, sample) ==
    [include |-> include, exclude |-> exclude, partitions |-> partitions, sample |-> sample]
Selections ==
    {Choose(include, <<>>, partitions, sample) :
       include \in {<<>>, <<{1, 3}, {3, 4}>>}, partitions \in {<<>>, [k |-> 1]},
       sample \in {<<"">>, <<"first", 2>>, <<"every", 2>>, <<"median", 1>>, <<"median", 2>>, <<"median", 3>>}}
    \cup {Choose(<<{1}>>, <<{1, 2}>>, <<>>, <<"all">>), Choose(<<{1}, None>>, <<>>, <<>>, <<"all">>),
          Choose(<<>>, <<{2}>>, [j |-> 1], <<"first", 0>>), Choose(<<>>, <<>>, [k |-> None], <<"last", 2>>),
          Choose(<<>>, <<>>, <<>>, <<"median">>)}

(* The files that are selected are those the filters leave, thinned as the *)
(* sample says, in the order of paths whatever order they came in; and of  *)
(* a median sample none that is left out is nearer to the median, or as    *)
(* near and first; every n-th is taken from the first on.                  *)
FilesOf(files, selection) ==
    LET result == SelectFiles(files, selection)
        left == {f \in ToSet(files) : Matches(f, selection)}
        chosen == ToSet(result.files)
        AtMost(size) == Cardinality({f \in left : SizeOf(f) <= size})
        median == CHOOSE m \in {SizeOf(f) : f \in left} :
                     /\ 2 * AtMost(m) >= Cardinality(left)
                     /\ \A f \in left : SizeOf(f) < m => 2 * AtMost(SizeOf(f)) < Cardinality(left)
        Distance(f) == AbsDiff(SizeOf(f), median)
    IN  IF IsNo(result)
        THEN \/ None \in ToSet(selection.include) \/ selection.sample \in {<<"first", 0>>, <<"last", 2>>, <<"median">>}
             \/ selection.sample[1] = "median" /\ \E f \in left : SizeOf(f) = 0
        ELSE /\ chosen \subseteq left /\ Cardinality(chosen) = Len(result.files)
             /\ \A i, j \in 1..Len(result.files) : i < j => result.files[i].path < result.files[j].path
             /\ \A order \in {<<4, 3, 2, 1>>, <<2, 4, 1, 3>>} :
                  SelectFiles([i \in 1..4 |-> files[order[i]]], selection) = result
             /\ selection.sample[1] \in {"", "all"} => chosen = left
             /\ selection.sample[1] \in {"first", "median"} =>
                  Len(result.files) = IF selection.sample[2] < Cardinality(left)
                                      THEN selection.sample[2] ELSE Cardinality(left)
             /\ selection.sample[1] = "first" =>
                  \A f \in chosen, g \in left \ chosen : f.path < g.path
             /\ selection.sample[1] = "median" =>
                  \A f \in chosen, g \in left \ chosen :
                     \/ Distance(f) < Distance(g)
                     \/ Distance(f) = Distance(g) /\ f.path < g.path
             /\ selection.sample[1] = "every" =>
                  chosen = {f \in left : Cardinality({g \in left : g.path < f.path}) % selection.sample[2] = 0}

-----------------------------------------------------------------------------
Years == {1970, 1971, 1972, 1999, 2000, 2004, 2023, 2100, 2400}
Dates == {<<y, m, d>> : y \in Years, m \in 1..12, d \in {1, 15, 28, 29, 30, 31}}
Part(value, length) == [value |-> value, length |-> length, digits |-> TRUE]
Spelled(date) == <<Part(date[1], 4), Part(date[2], 2), Part(date[3], 2)>>
BadDates == {<<>>, <<Part(2024, 4), Part(1, 1), Part(1, 2)>>, <<Part(2024, 4), Part(13, 2), Part(1, 2)>>,
             <<Part(2024, 4), Part(None, 2), Part(1, 2)>>, <<Part(2024, 4), Part(2, 2), Part(0, 2)>>,
             <<[Part(2024, 4) EXCEPT !.digits = FALSE], Part(1, 2), Part(1, 2)>>, <<Part(1969, 4), Part(12, 2), Part(31, 2)>>}

(* The calendar, a day at a time.                                          *)
Leap(y) == y % 4 = 0 /\ (y % 100 = 0 => y % 400 = 0)
Length(y, m) == IF m = 2 THEN IF Leap(y) THEN 29 ELSE 28
                ELSE IF m \in {4, 6, 9, 11} THEN 30 ELSE 31
After(date) ==
    IF date[3] < Length(date[1], date[2]) THEN <<date[1], date[2], date[3] + 1>>
    ELSE IF date[2] < 12 THEN <<date[1], date[2] + 1, 1>> ELSE <<date[1] + 1, 1, 1>>

(* The windows of --partition tile the time: a date that exists has one,   *)
(* the next date's begins where it ends, the first is the epoch's, and any *)
(* other date is refused.  --last ends now, and excludes what is now.      *)
DayOf(date) ==
    LET day == ParseDay(Spelled(date))
        window == WindowOf(day.day, 5, 7, 10)
        next == WindowOf(ParseDay(Spelled(After(date))).day, None, 7, 10)
    IN  IF date[3] > Length(date[1], date[2]) THEN IsNo(day)
        ELSE /\ ~IsNo(day)
             /\ window.last = next.first /\ window.last - window.first = 10
             /\ date = <<1970, 1, 1>> => window.first = 0
             /\ \A time \in {window.first, window.last - 1} : Inside(window, time) /\ ~Inside(next, time)
             /\ Inside(next, window.last) /\ ~Inside(window, window.last) /\ ~Inside(window, None)

(* A window that --last accepts is a positive one of that length, unless   *)
(* the product of the count and the unit wraps.                            *)
LastOf(count, unit, now) ==
    LET last == ParseWindow(count, unit, 20000)
        window == WindowOf(None, last.minutes, now, 10)
    IN  IF count = None \/ unit = "y" THEN IsNo(last)
        ELSE IF count * Units[unit] < 20000
             THEN IF count <= 0 THEN IsNo(last)
                  ELSE /\ window.last = now /\ ~Inside(window, now)
                       /\ window.first = IF now < count * Units[unit] THEN 0 ELSE now - count * Units[unit]
             ELSE TRUE

(* list files keeps the files of the window, in order and with the table's *)
(* lease, and refuses a window over a table that records no times.         *)
ListOf(table, window, active) ==
    LET result == ListFiles(table, window, active)
        in == SelectSeq(active, LAMBDA f : window = None \/ Inside(window, f.time))
    IN  IF IsNo(result) THEN table.uri = None \/ (window # None /\ table.format \in {None, "iceberg"})
        ELSE /\ Len(result.files) = Len(in)
             /\ \A i \in 1..Len(in) : result.files[i].name = <<table.name, in[i].path>>
                                      /\ result.files[i].credentials = table.lease
             /\ window = None => Len(in) = Len(active)
TablesListed == {[name |-> "t", uri |-> uri, format |-> format, lease |-> "l"] :
                   uri \in {None, "u"}, format \in {None, "delta", "iceberg"}}
Actives == {<<>>} \cup {<<[path |-> 1, time |-> a], [path |-> 2, time |-> b]>> : a, b \in {None, 4, 9, 10}}

-----------------------------------------------------------------------------
Sampled(size, rate, hash) == [size |-> size, rate |-> rate, hash |-> hash]
Streams == {<<Sampled(size, rate, hash), Sampled(3, None, 20), No("parse"), Sampled(6, None, hash)>> :
              size \in {None, 0, 1, 4, 8, 20}, rate \in {None, 0, 5, 40, 64}, hash \in {0, 3, 7, 30, 63}}
Rates == {0, 1, 3, 7, 8, 9, Tiny}

(* Two stages sample as one stage of the smaller rate: the same files, and *)
(* each with the chance it was kept with, so that weights stay right; and  *)
(* every record that comes in is kept, dropped or a failure.               *)
StagesOf(files, first, second) ==
    LET one == SampleFiles(files, first)
        both == SampleFiles(one.rows, second)
        least == SampleFiles(files, IF first = Tiny \/ second = Tiny THEN Tiny
                                    ELSE IF first < second THEN first ELSE second)
        Good(rows) == SelectSeq(rows, LAMBDA r : ~IsNo(r))
        Bad(rows) == Len(rows) - Len(Good(rows))
    IN  /\ RateValid(first) /\ RateValid(second) =>
             Good(both.rows) = Good(least.rows)
        /\ one.summary.files = Len(files) - 1
        /\ one.summary.kept = Len(Good(one.rows))
        /\ one.summary.keptBytes <= one.summary.bytes
        /\ ~RateValid(first) => Good(one.rows) = <<>> /\ Bad(one.rows) = Len(files)
        /\ \A row \in ToSet(Good(one.rows)) : row.hash < row.rate
RateTexts == BoundedSeq({None, -3, -1, 0, 1, 3, 4}, 2) \ {<<>>}
RateOf(text) ==
    LET rate == ParseRate(text)
    IN  IsNo(rate) \/ (rate.rate[1] # 0 /\ rate.rate[2] # 0 /\ (rate.rate[1] > 0) = (rate.rate[2] > 0))
=============================================================================
