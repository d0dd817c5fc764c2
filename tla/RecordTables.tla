---------------------------- MODULE RecordTables ----------------------------
(***************************************************************************)
(* format: a stream of records as tables, one per kind of record, or as    *)
(* the treemap page (format.rs, render.rs).  A record is [fields, fits]:   *)
(* what its keys have, a name among them a text of Names, and the classes  *)
(* whose type its value decodes to.  A row is the record that is shown:    *)
(* which of its columns a type shows, and how, is layout, but for a cost.  *)
(***************************************************************************)
EXTENDS Integers, Names

Field(fields, key) == IF key \in DOMAIN fields THEN fields[key] ELSE None

(* Dollars as they are shown, of an amount in ten-thousandths: the step    *)
(* they are rounded to, and how many steps.                                *)
Dollars(amount) ==
    LET step == IF amount >= 10000000 THEN 1000000 ELSE IF amount >= 10000 THEN 100
                ELSE IF amount >= 100 THEN 10 ELSE 1
    IN  <<step, (amount + step \div 2) \div step>>
CostText(range) ==
    IF range = None THEN None
    ELSE IF Dollars(range[1]) = Dollars(range[2]) THEN <<Dollars(range[1])>>
    ELSE <<Dollars(range[1]), Dollars(range[2])>>

-----------------------------------------------------------------------------
(* What a record is: <<kind>>, or <<"Other", keys>> for a shape of its own; *)
(* None is no row of a table.                                              *)

Within(text, part) ==
    \E i \in 1..Len(text) - Len(part) + 1 : SubSeq(text, i, i + Len(part) - 1) = part
Signature(record) == DOMAIN record.fields
Classify(record) ==
    LET name == Field(record.fields, "name")
        Is(kind) == Ids(name, Patterns[kind]) # None
    IN  IF name = None THEN IF "Mass" \in record.fits THEN <<"Mass">> ELSE None
        ELSE IF Is("column") THEN <<"Column">>
        ELSE IF Within(name, <<"/", "codecs", "/">>) THEN <<"Sweep">>
        ELSE IF IsSuffix(<<"/", "profile">>, name) THEN <<"Profile">>
        ELSE IF Within(name, <<"/", "compression", "/">>)
        THEN IF Within(name, <<"/", "columns", "/">>) THEN <<"CompressionColumn">> ELSE <<"Sweep">>
        ELSE IF ParseBlob(name) # None THEN None
        ELSE IF ParseTableFile(name) # None THEN <<"TableFile">>
        ELSE IF Is("table") THEN <<"Table">>
        ELSE IF Is("schema") THEN <<"Schema">>
        ELSE IF Is("catalog") THEN <<"Catalog">>
        ELSE IF Is("metastore") THEN <<"Metastore">> ELSE <<"Other", Signature(record)>>

(* The tables are in the order their first record came, empty ones too.    *)
Section(sections, class) ==
    IF \E i \in 1..Len(sections) : sections[i].class = class THEN sections
    ELSE Append(sections, [class |-> class, rows |-> <<>>])
Append1(sections, class, record) ==
    [i \in 1..Len(sections) |-> IF sections[i].class = class
                                THEN [sections[i] EXCEPT !.rows = Append(@, record)] ELSE sections[i]]

(* Mutant: a record its type cannot hold is dropped.                       *)
PushTyped(sections, class, record) ==
    IF class[1] \in record.fits \cup {"Other"}
    THEN Append1(Section(sections, class), class, record) ELSE Section(sections, class)

(* A record its type cannot hold is shown by its keys.                     *)
Push(sections, class, record) ==
    LET other == <<"Other", Signature(record)>>
        opened == Section(sections, class)
    IN  IF class[1] \in record.fits \cup {"Other"} THEN Append1(opened, class, record)
        ELSE Append1(Section(opened, other), other, record)

(* A record of a shape of its own has the keys of the table's first row.   *)
RowOf(section, fields) ==
    IF section.class[1] = "Other" THEN [key \in Signature(section.rows[1]) |-> Field(fields, key)] ELSE fields

(* A line is "blank", "bad" when it is no JSON, or a record.  Nothing is   *)
(* written before the last line is read.                                   *)
Place(done, class, line) == IF class = None THEN done ELSE Push(done, class, line)
Sections(lines) ==
    FoldLeft(LAMBDA done, line : IF line.is = "blank" THEN done ELSE Place(done, Classify(line), line), <<>>, lines)
Shown(sections) ==
    [i \in 1..Len(sections) |->
       [class |-> sections[i].class,
        rows |-> [r \in 1..Len(sections[i].rows) |-> RowOf(sections[i], sections[i].rows[r].fields)]]]
Tables(lines) ==
    IF \E i \in 1..Len(lines) : lines[i].is = "bad" THEN [error |-> "format reads NDJSON records"]
    ELSE [tables |-> Shown(SelectSeq(Sections(lines), LAMBDA s : s.rows # <<>>))]

(* --html: the first record that is no summarized column ends the command. *)
Html(records) ==
    LET other == SelectSeq(records, LAMBDA r : r.kind # "mass")
    IN  IF other # <<>> THEN [error |-> other[1].kind]
        ELSE IF records = <<>> THEN [error |-> "summarize columns stream has no rows"]
        ELSE [page |-> [i \in 1..Len(records) |-> records[i].row]]
=============================================================================
