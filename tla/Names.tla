-------------------------------- MODULE Names --------------------------------
(***************************************************************************)
(* v1/name.rs: how a resource name is built from ids and read back.  A     *)
(* text is a sequence of characters, with a word such as "tables" counting *)
(* as one, and U+FFFD too, escaped or not.                                 *)
(***************************************************************************)
EXTENDS Naturals, Sequences, SequencesExt, FiniteSetsExt, TLC

CONSTANT None

-----------------------------------------------------------------------------
(* Escapes.                                                                *)

Escapes == ("/" :> <<"2", "F">>) @@ ("%" :> <<"2", "5">>)
           @@ (":" :> <<"3", "A">>) @@ ("quote" :> <<"2", "2">>)
HexDigit == {"2", "3", "5", "A", "F"}

Encode(text) ==
    FlattenSeq([i \in 1..Len(text) |->
        IF text[i] \in DOMAIN Escapes THEN <<"%">> \o Escapes[text[i]]
        ELSE IF text[i] = "U+FFFD" THEN <<"%EF%BF%BD">> ELSE <<text[i]>>])

(* The byte of two digits; one that is no character on its own is lossy.   *)
Byte(high, low) ==
    IF \E c \in DOMAIN Escapes : Escapes[c] = <<high, low>>
    THEN CHOOSE c \in DOMAIN Escapes : Escapes[c] = <<high, low>>
    ELSE "U+FFFD"

EscapedAt(text, i) ==
    /\ text[i] = "%" /\ i + 2 <= Len(text)
    /\ text[i + 1] \in HexDigit /\ text[i + 2] \in HexDigit

Decode(text) ==
    LET From[i \in 1..Len(text) + 3] ==
          IF i > Len(text) THEN <<>>
          ELSE IF EscapedAt(text, i) THEN <<Byte(text[i + 1], text[i + 2])>> \o From[i + 3]
          ELSE <<IF text[i] = "%EF%BF%BD" THEN "U+FFFD" ELSE text[i]>> \o From[i + 1]
    IN  From[1]

-----------------------------------------------------------------------------
(* Pieces of a text between separators.                                    *)

Pieces(text, separator) ==
    FoldLeft(LAMBDA done, c : IF c = separator THEN Append(done, <<>>)
                              ELSE [done EXCEPT ![Len(done)] = Append(@, c)],
             <<<<>>>>, text)
Join(pieces, separator) ==
    FlattenSeq([i \in 1..Len(pieces) |-> IF i = 1 THEN pieces[i] ELSE <<separator>> \o pieces[i]])

-----------------------------------------------------------------------------
(* Patterns: segments are literals, or None for an id; alias is the number *)
(* of ids a dotted spelling has, None where there is none.                 *)

Pattern(segments, alias) == [segments |-> segments, alias |-> alias]
TablePath == <<"catalogs", None, "schemas", None, "tables", None>>
Patterns ==
    [metastore |-> Pattern(<<"metastores", None>>, None),
     catalog   |-> Pattern(<<"catalogs", None>>, 1),
     schema    |-> Pattern(<<"catalogs", None, "schemas", None>>, 2),
     table     |-> Pattern(TablePath, 3),
     file      |-> Pattern(TablePath \o <<"files", None>>, None),
     commit    |-> Pattern(TablePath \o <<"commits", None>>, None),
     blob      |-> Pattern(<<"blobs", None, None>>, None),
     column    |-> Pattern(<<"blobs", None, None, "columns", None>>, None)]

Spell(segments, ids) ==
    LET Nth(i) == Len(SelectSeq(SubSeq(segments, 1, i), LAMBDA s : s = None))
    IN  Join([i \in 1..Len(segments) |->
                IF segments[i] = None THEN Encode(ids[Nth(i)]) ELSE <<segments[i]>>], "/")
TableName(catalog, schema, table) == Spell(TablePath, <<catalog, schema, table>>)
TableFileName(table, file) == table \o <<"/", "files", "/">> \o Encode(file)

(* The first id ends at the first dot, the second runs across the dots, the *)
(* rest are one piece each.                                                 *)
DottedIds(text, placeholders) ==
    LET pieces == Pieces(text, ".")
        middle == Len(pieces) - (placeholders - 2)
    IN  IF Contains(text, "/") \/ Len(pieces) < placeholders \/ Contains(pieces, <<>>) THEN None
        ELSE IF placeholders = 1 THEN IF Len(pieces) = 1 THEN pieces ELSE None
        ELSE <<pieces[1], Join(SubSeq(pieces, 2, middle), ".")>>
             \o SubSeq(pieces, middle + 1, Len(pieces))

(* A path of the pattern's length is read as one, or not at all.           *)
Ids(text, pattern) ==
    LET parts == Pieces(text, "/")
        segments == pattern.segments
        places == SelectSeq([i \in 1..Len(segments) |-> i], LAMBDA i : segments[i] = None)
    IN  IF Len(parts) = Len(segments)
        THEN IF \A i \in 1..Len(parts) : segments[i] = None \/ parts[i] = <<segments[i]>>
             THEN [i \in 1..Len(places) |-> Decode(parts[places[i]])] ELSE None
        ELSE IF pattern.alias = None THEN None ELSE DottedIds(text, pattern.alias)

(* Mutant: the spelling is kept as it was written.                         *)
PatternNameAsWritten(text, pattern) ==
    IF Ids(text, pattern) = None THEN None ELSE text

PatternName(text, pattern) ==
    IF Ids(text, pattern) = None THEN None ELSE Spell(pattern.segments, Ids(text, pattern))

-----------------------------------------------------------------------------
(* Storage.                                                                *)

Local == <<"local">>
LocalTable(uri) ==
    LET named == SelectSeq(Pieces(uri, "/"), LAMBDA piece : piece # <<>>)
    IN  TableName(Local, Local, IF named = <<>> THEN <<>> ELSE named[Len(named)])

SchemeEnd(uri) ==
    LET ends == {i \in 1..Len(uri) : i + 2 <= Len(uri) /\ SubSeq(uri, i, i + 2) = <<":", "/", "/">>}
    IN  IF ends = {} THEN 1 ELSE Min(ends)
StorageParts(uri) ==
    LET end == SchemeEnd(uri)
    IN  IF end = 1 THEN <<<<"file">>, uri>>
        ELSE <<SubSeq(uri, 1, end - 1), SubSeq(uri, end + 3, Len(uri))>>
StorageUri(service, locator) ==
    IF service = <<"file">> THEN locator ELSE service \o <<":", "/", "/">> \o locator

BlobName(uri) == Spell(Patterns.blob.segments, StorageParts(uri))
ParseBlob(text) == Ids(text, Patterns.blob)
BlobUri(text) ==
    IF ParseBlob(text) = None THEN None ELSE StorageUri(ParseBlob(text)[1], ParseBlob(text)[2])

(* The last "/files/" of a name parts the table from the file.             *)
ParseTableFile(text) ==
    LET cuts == {i \in 1..Len(text) : i + 2 <= Len(text)
                                      /\ SubSeq(text, i, i + 2) = <<"/", "files", "/">>}
    IN  IF cuts = {} THEN None
        ELSE LET table == SubSeq(text, 1, Max(cuts) - 1)
             IN  IF Ids(table, Pattern(TablePath, None)) = None THEN None
                 ELSE <<table, Decode(SubSeq(text, Max(cuts) + 3, Len(text)))>>

-----------------------------------------------------------------------------
(* resource/lib.rs: the record a JSON value spells.  A string is a name; a *)
(* value that decodes has its name checked, and takes the canonical one.   *)

Record(value, pattern) ==
    LET name == PatternName(value.name, pattern)
    IN  IF value.is = "string"
        THEN IF name = None THEN None ELSE [name |-> name, rest |-> None]
        ELSE IF value.is # "record" \/ name = None THEN None
        ELSE [name |-> name, rest |-> value.rest]
=============================================================================
