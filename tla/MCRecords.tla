----------------------------- MODULE MCRecords -----------------------------
(***************************************************************************)
(* The commands that turn records into other records.  One subject is a    *)
(* document that summarize columns reads (MassSummary); each other subject *)
(* is one input of a function that keeps no state, and an invariant says   *)
(* what must hold of the function's result.                                *)
(***************************************************************************)
EXTENDS MCMassSummary

CONSTANTS NaN, U32,
          Few,     \* the bound of u64 totals in the functions: 12
          Files, RunFiles, LaterFiles, Envs, Flags

NM == INSTANCE MCNames
PF == INSTANCE MCProfile
SW == INSTANCE MCSweep
SD == INSTANCE MCSizeDiff WITH Limit <- Few
SL == INSTANCE MCSelection WITH Limit <- Few
RT == INSTANCE MCRecordTables
TR == INSTANCE MCTableRecord WITH Limit <- Few
TM == INSTANCE MCTreemap WITH Limit <- Few
CL == INSTANCE MCCommandLine

(* Run-control files, environments and flags of the runs.                  *)
KeyLine(key, value) == [is |-> "key", key |-> key, value |-> value]
ProfileLine(name) == [is |-> "profile", name |-> name]
FileLines == {[is |-> "skip"], ProfileLine("DEFAULT"), ProfileLine("p"), KeyLine("endpoint", "e1"),
              KeyLine("endpoint", None), KeyLine("endpoint", "blank"), KeyLine("token", "t1"), KeyLine("token", "blank"),
              KeyLine("dialect", "iceberg"), KeyLine("dialect", "bad"), KeyLine("other", "x")}
SampleFiles == BoundedSeq(FileLines, 2) \cup {None}
               \cup {<<ProfileLine("p"), KeyLine("endpoint", "e1")>> \o rest : rest \in BoundedSeq(FileLines, 2)}
SampleRunFiles == {None, <<>>, <<ProfileLine("p"), KeyLine("dialect", "bad")>>,
                   <<ProfileLine("p"), KeyLine("endpoint", "blank")>>,
                   <<ProfileLine("p"), KeyLine("endpoint", "e1"), KeyLine("token", "t1")>>,
                   <<ProfileLine("q"), KeyLine("other", "x"), ProfileLine("p"), KeyLine("endpoint", "e1")>>}
SampleLaterFiles == {<<>>, <<ProfileLine("q"), KeyLine("token", "t9"), KeyLine("endpoint", "e9"), KeyLine("dialect", "iceberg")>>}
SampleEnvs == [host : {None, "blank", "e2"}, token : {None, "t2"}]
SampleFlags == [profile : {None, "p"}, endpoint : {None, "blank", "e3"}, token : {None, "t3"}, dialect : {None, "unity"}]

(* Files are None or lines, and a flag's dialect is one of the two.        *)
ASSUME ConfigurationsAssumption == CL!Configurations

VARIABLE subject      \* <<what it is an input of, the input>>

NoDocument ==
    /\ document = [source |-> "stdin", lines |-> <<<<>>, <<>>>>] /\ at = [f \in Feeds |-> <<1, 1>>]
    /\ open = FALSE /\ empty = TRUE /\ tables = <<>> /\ status = "reading" /\ rows = {}
RecordsInit == \/ subject = <<"document">> /\ Init
               \/ subject = <<"none">> /\ NoDocument

Document == subject = <<"document">> /\ Next /\ UNCHANGED subject
Take(function, inputs) ==
    /\ subject = <<"none">> /\ \E input \in inputs : subject' = <<function>> \o input
    /\ UNCHANGED vars

Names ==
    \/ Take("name", NM!IdTexts \X NM!IdTexts)
    \/ Take("uri", {<<uri>> : uri \in NM!Uris})
    \/ Take("path", {<<uri>> : uri \in NM!Uris})
    \/ Take("derive", {<<input>> : input \in NM!Structs \cup NM!Oddities})
Profiles ==
    \/ Take("facts", PF!Columns1 \X PF!Tops)
    \/ Take("profile", {c \in PF!Columns1 : Len(c) < 3} \X PF!Requests)
Sweeps ==
    \/ Take("report", SW!SweepRequests \X SW!SweptFiles)
    \/ Take("buffer", {<<r, f[1]>> : r \in SW!SweepRequests, f \in {f \in SW!SweptFiles : Len(f) = 1}})
Diffs ==
    \/ Take("diff", SD!Streams \X SD!Rights \X SD!Depths)
    \/ Take("inputs", SD!Inputs \X SD!Inputs \X SD!Stdins \X {None, 1})
Selections ==
    \/ Take("select", SL!FileSets \X SL!Selections)
    \/ Take("day", {<<date>> : date \in SL!Dates})
    \/ Take("misdate", {<<parts>> : parts \in SL!BadDates})
    \/ Take("last", {None, -1, 0, 1, 2, 3, 14, 30} \X {"m", "h", "d", "w", "y"} \X {5, 50000})
    \/ Take("list", SL!TablesListed \X {None, SL!TimeWindow(4, 10)} \X SL!Actives)
    \/ Take("stages", SL!Streams \X SL!Rates \X SL!Rates)
    \/ Take("rate", {<<text>> : text \in SL!RateTexts})
    \/ Take("partitions", {<<files>> : files \in TR!FileLists})
Formats ==
    \/ Take("tables", {<<lines>> : lines \in RT!Streams})
    \/ Take("html", {<<records>> : records \in RT!BoundedSeq(RT!HtmlRecords, 3)})
    \/ Take("cost", (0..250 \cup 9990..10010 \cup {9999940, 9999960, 12000000}) \X {0, 5, 9, 120, 2000000})
    \/ Take("page", {<<pageRows>> : pageRows \in TM!BoundedSeq(TM!Rows, 2)})
Configurations ==
    \/ Take("layers", Files \X Envs \X Flags)
    \/ Take("run", CL!Commands \X RunFiles \X Envs \X Flags \X CL!Outcomes)

RecordsNext == Document \/ Names \/ Profiles \/ Sweeps \/ Diffs \/ Selections \/ Formats \/ Configurations
RecordsSpec == RecordsInit /\ [][RecordsNext]_<<vars, subject>>

Of(function) == subject[1] = function

(* A resource's name survives being written and read: parsing the spelling *)
(* of ids gives the ids, whatever bytes they hold, and no two ids have one *)
(* name; a URI that reads as a blob is spelled back as one that reads as   *)
(* the same blob; an alias stands for the ids of its pattern, in order     *)
(* (v1/name.rs and the derive macros).                                     *)
NamesRoundTrip ==
    /\ Of("name") => NM!NameOf(subject[2], subject[3])
    /\ Of("uri") => NM!UriOf(subject[2])
    /\ Of("path") => CL!PathOf(subject[2])
    /\ Of("derive") => NM!DeriveOf(subject[2])

(* A profile's facts agree with each other: nulls and values make up the   *)
(* rows, the bounds enclose every value in the order of the column's kind, *)
(* the most frequent values are no more than the distinct ones, and a      *)
(* column with one is called constant (profile.rs).  The order of numbers  *)
(* is numeric (profile.md:52), where comments of profile.rs say lexical.   *)
ProfileFacts ==
    /\ Of("facts") => PF!FactsOf(subject[2], subject[3])
    /\ Of("profile") => PF!ProfiledOf(subject[2], subject[3])

(* A codec sweep reports each codec once at each level asked for, over all *)
(* of the bytes: a file's row adds up its columns', and its times are over *)
(* as many samples as were asked for after the warmup, or over none when   *)
(* the passes are more than 32 bits hold (bench.rs, codecs.rs, stats.rs).  *)
ReportAddsUp ==
    /\ Of("report") => SW!ReportOf(subject[2], subject[3])
    /\ Of("buffer") => SW!BufferOf(subject[2], subject[3])

(* diff accounts for every byte of both inputs where it belongs, at any    *)
(* depth: a path has the bytes of the columns under it, whose changes make *)
(* up its own, a name that one side repeats is refused on either side, and *)
(* so is an input that is no whole column stream (diff.rs, document.rs).   *)
DiffAddsUp ==
    /\ Of("diff") => SD!DiffOf(subject[2], subject[3], subject[4])
    /\ Of("inputs") => SD!RunOf(subject[2], subject[3], subject[4], subject[5])

(* The files of a table are chosen alike whatever the order they were      *)
(* listed in; a day is the calendar's, a window is its instants, and a     *)
(* second sampling keeps the chance of the two; the partitions add up the  *)
(* files they hold, or the table is refused (select.rs, list files, sample *)
(* files, table/mod.rs).                                                   *)
FilesSelected ==
    /\ Of("select") => SL!FilesOf(subject[2], subject[3])
    /\ Of("day") => SL!DayOf(subject[2])
    /\ Of("misdate") => SL!IsNo(SL!ParseDay(subject[2]))
    /\ Of("last") => SL!LastOf(subject[2], subject[3], subject[4])
    /\ Of("list") => SL!ListOf(subject[2], subject[3], subject[4])
    /\ Of("stages") => SL!StagesOf(subject[2], subject[3], subject[4])
    /\ Of("rate") => SL!RateOf(subject[2])
    /\ Of("partitions") => TR!PartitionsOf(subject[2])

(* format shows every record once, in its place among those of its class,  *)
(* and one that does not fit its type by its keys; the treemap has a node  *)
(* for every table, schema and catalog of the summary, and counts every    *)
(* row at each of them, unknown sizes and costs included (format.rs, viz). *)
NothingDropped ==
    /\ Of("tables") => RT!ShownOf(subject[2])
    /\ Of("html") => RT!HtmlOf(subject[2])
    /\ Of("cost") => RT!CostOf(subject[2], subject[2] + subject[3])
    /\ Of("page") => TM!PageOf(subject[2])

(* A setting comes from the most specific layer that has it, and what      *)
(* pqbench setup exports gives a later command the configuration that was  *)
(* resolved when it ran, though the file has changed since; a command      *)
(* whose configuration is wrong does not run, only a command that reads a  *)
(* catalog, or setup, needs an endpoint, and a run that fails says why     *)
(* once (config.rs, lib.rs, setup/mod.rs).                                 *)
SetupPins ==
    /\ Of("layers") => /\ CL!LayeredOf(subject[2], subject[3], subject[4])
                       /\ CL!SetupOf(subject[2], subject[3], subject[4])
    /\ Of("run") => CL!RunOf(subject[2], subject[3], subject[4], subject[5], subject[6])
=============================================================================
