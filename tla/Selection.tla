------------------------------ MODULE Selection ------------------------------
(***************************************************************************)
(* Which of a table's files a run reads: table/selection.rs, the time      *)
(* window of list files (time.rs, cli/time.rs), and sample files           *)
(* (file/sample.rs, cli/sample/files.rs).                                  *)
(***************************************************************************)
EXTENDS Integers, Sorting, FiniteSetsExt

CONSTANTS None, Tiny, Limit      \* a rate that underflows; 2^64

No(why) == [error |-> why]
IsNo(x) == "error" \in DOMAIN x

-----------------------------------------------------------------------------
(* select_files.  A pattern is the set of paths it matches, or None when it *)
(* does not parse; a sample is <<method, n>>.                              *)

ByPath(a, b) == a.path < b.path \/ (a.path = b.path /\ a.name < b.name)
SizeOf(file) == IF file.size = None THEN 0 ELSE file.size
AbsDiff(a, b) == IF a < b THEN b - a ELSE a - b

Matches(file, selection) ==
    /\ selection.include = <<>> \/ \E p \in ToSet(selection.include) : file.path \in p
    /\ ~\E p \in ToSet(selection.exclude) : file.path \in p
    /\ \A key \in DOMAIN selection.partitions :
          key \in DOMAIN file.partitions /\ file.partitions[key] = selection.partitions[key]

SampleError(sample) ==
    IF sample[1] \in {"", "all"} THEN None
    ELSE IF Len(sample) = 1 THEN "sample must be all, first:N, every:N, or median:N"
    ELSE IF sample[2] \notin Nat \ {0} THEN "sample N must be positive"
    ELSE IF sample[1] \notin {"first", "every", "median"} THEN "unknown file sample method" ELSE None

Truncated(files, n) == SubSeq(files, 1, IF n < Len(files) THEN n ELSE Len(files))
Every(files, n) == [k \in 1..(Len(files) + n - 1) \div n |-> files[1 + (k - 1) * n]]
NearMedian(files, n) ==
    LET sizes == SortedBy([i \in 1..Len(files) |-> SizeOf(files[i])], <)
        median == sizes[(Len(sizes) - 1) \div 2 + 1]
    IN  SortedBy(Truncated(SortedBy(files, LAMBDA a, b : AbsDiff(SizeOf(a), median) < AbsDiff(SizeOf(b), median)),
                           n), ByPath)

InOrder(files) == SortedBy(files, ByPath)
SelectFiles(files, selection) ==
    LET kept == InOrder(SelectSeq(files, LAMBDA f : Matches(f, selection)))
        n == selection.sample[2]
    IN  IF Contains(selection.include \o selection.exclude, None) THEN No("invalid file pattern")
        ELSE IF SampleError(selection.sample) # None THEN No(SampleError(selection.sample))
        ELSE IF selection.sample[1] = "first" THEN [files |-> Truncated(kept, n)]
        ELSE IF selection.sample[1] = "every" THEN [files |-> Every(kept, n)]
        ELSE IF selection.sample[1] # "median" \/ kept = <<>> THEN [files |-> kept]
        ELSE IF \E i \in 1..Len(kept) : SizeOf(kept[i]) = 0
             THEN No("median sampling requires known positive file sizes")
        ELSE [files |-> NearMedian(kept, n)]

-----------------------------------------------------------------------------
(* Windows of time.  Days are whole; a day is DayLength long.              *)

TimeWindow(first, last) == [first |-> first, last |-> last]
Inside(window, time) == time # None /\ window.first <= time /\ time < window.last

MonthDays(year, month) ==
    IF month \in {1, 3, 5, 7, 8, 10, 12} THEN 31
    ELSE IF month \in {4, 6, 9, 11} THEN 30
    ELSE IF (year % 4 = 0 /\ year % 100 # 0) \/ year % 400 = 0 THEN 29 ELSE 28

(* Years of the era begin in March.                                        *)
CivilDays(year, month, day) ==
    LET y == IF month <= 2 THEN year - 1 ELSE year
        era == (IF y >= 0 THEN y ELSE y - 399) \div 400
        yearOfEra == y - era * 400
        dayOfYear == (153 * (IF month > 2 THEN month - 3 ELSE month + 9) + 2) \div 5 + day - 1
    IN  era * 146097 + yearOfEra * 365 + yearOfEra \div 4 - yearOfEra \div 100 + dayOfYear - 719468

(* The parts of a date between dashes: how long, only digits or not, and   *)
(* the number they parse to, None when they do not.                        *)
ParseDay(parts) ==
    LET year == parts[1].value
        month == parts[2].value
        day == parts[3].value
    IN  IF \/ Len(parts) # 3 \/ parts[1].length # 4 \/ parts[2].length # 2 \/ parts[3].length # 2
           \/ ~parts[1].digits \/ None \in {year, month, day}
           \/ month = 0 \/ month > 12 \/ day = 0 \/ day > MonthDays(year, month)
        THEN No("an ISO date, YYYY-MM-DD")
        ELSE IF CivilDays(year, month, day) < 0 THEN No("predates the Unix epoch")
        ELSE [day |-> CivilDays(year, month, day)]

(* A count and a unit, in minutes; the product wraps at bound.             *)
Units == [m |-> 1, h |-> 60, d |-> 1440, w |-> 10080]
Wrapped(n, bound) == LET r == n % (2 * bound) IN IF r < bound THEN r ELSE r - 2 * bound
ParseWindow(count, unit, bound) ==
    IF count = None THEN No("needs a number and a unit")
    ELSE IF count <= 0 THEN No("must be positive")
    ELSE IF unit \notin DOMAIN Units THEN No("unit must be m, h, d, or w")
    ELSE IF Wrapped(count * Units[unit], bound) < 0 THEN No("out of range")
    ELSE [minutes |-> Wrapped(count * Units[unit], bound)]

(* --partition wins over --last; --last ends now.                          *)
WindowOf(partition, last, now, dayLength) ==
    IF partition # None THEN TimeWindow(partition * dayLength, (partition + 1) * dayLength)
    ELSE IF last = None THEN None
    ELSE TimeWindow(IF now < last THEN 0 ELSE now - last, now)

(* The listing of a table: the rows of its active files that are inside.   *)
ListFiles(table, window, active) ==
    IF table.uri = None THEN No("no storage path")
    ELSE IF window # None /\ table.format = None THEN No("table")
    ELSE IF window # None /\ table.format = "iceberg" THEN No("Iceberg records no per-file time")
    ELSE LET kept == SelectSeq(active, LAMBDA f : window = None \/ Inside(window, f.time))
         IN  [files |-> [i \in 1..Len(kept) |->
                           [name |-> <<table.name, kept[i].path>>, time |-> kept[i].time,
                            credentials |-> table.lease]]]

-----------------------------------------------------------------------------
(* sample files.  Rates are in eighths, sizes in eighths of the reference, *)
(* probabilities and the hash of a name in 64ths; Tiny is a rate whose      *)
(* product with any size underflows.                                        *)

RateValid(rate) == rate = Tiny \/ rate \in 1..8
Probability(size, rate) ==
    IF rate = 8 THEN 64 ELSE IF rate = Tiny THEN 0
    ELSE IF rate * size < 64 THEN rate * size ELSE 64

(* Mutant: the chance of two stages is their product.                      *)
NestedProduct(previous, drawn) == (previous * drawn) \div 64

Nested(previous, drawn) == IF previous < drawn THEN previous ELSE drawn

(* The probability a file is kept with, "dropped", or an error.            *)
Select(file, rate) ==
    LET drawn == Probability(file.size, rate)
        inclusion == IF file.rate = None THEN drawn ELSE Nested(file.rate, drawn)
    IN  IF ~RateValid(rate) THEN No("rate")
        ELSE IF file.size = None \/ file.size = 0 THEN No("unknown size")
        ELSE IF drawn = 0 THEN No("underflow")
        ELSE IF file.rate # None /\ file.rate \notin 1..64 THEN No("sampled")
        ELSE [rate |-> IF file.hash < inclusion THEN inclusion ELSE None]

(* One record through the stage, and what it has counted.                  *)
NoFiles == [files |-> 0, bytes |-> 0, kept |-> 0, keptBytes |-> 0]
Saturated(n) == IF n < Limit THEN n ELSE Limit - 1
Keep(stage, file, rate) ==
    LET selected == Select(file, rate)
        seen == [stage.summary EXCEPT !.files = @ + 1, !.bytes = Saturated(@ + SizeOf(file))]
    IN  IF IsNo(selected) THEN [stage EXCEPT !.rows = Append(@, selected), !.summary = seen]
        ELSE IF selected.rate = None THEN [stage EXCEPT !.summary = seen]
        ELSE [rows |-> Append(stage.rows, [file EXCEPT !.rate = selected.rate]),
              summary |-> [seen EXCEPT !.kept = @ + 1, !.keptBytes = Saturated(@ + SizeOf(file))]]
SampleFiles(files, rate) ==
    FoldLeft(LAMBDA stage, file : IF IsNo(file) THEN [stage EXCEPT !.rows = Append(@, file)]
                                  ELSE Keep(stage, file, rate),
             [rows |-> <<>>, summary |-> NoFiles], files)

(* --rate: a decimal, or a numerator over a denominator, None when a part  *)
(* does not parse.                                                         *)
ParseRate(text) ==
    IF None \in ToSet(text) THEN No("bad rate")
    ELSE IF Len(text) = 2 /\ text[2] = 0 THEN No("the denominator is zero")
    ELSE LET n == text[1]
             d == IF Len(text) = 2 THEN text[2] ELSE 1
         IN  IF n * d > 0 /\ AbsDiff(n, 0) <= AbsDiff(d, 0) THEN [rate |-> <<n, d>>]
             ELSE No("outside (0, 1]")
=============================================================================
