------------------------------- MODULE MCNames -------------------------------
(***************************************************************************)
(* Ids, texts and derived structs, and what Names and ResourceDerive must  *)
(* make of them.                                                           *)
(***************************************************************************)
EXTENDS ResourceDerive

Small(n) == BoundedSeq({"t", "/", "%", "2", "F", "."}, n)
IdTexts == Small(2) \cup {<<"%", "2", "F">>, <<"F", "%", "F", "F">>, <<"files">>, <<"/", "files", "/">>,
                          <<"tables">>, <<"t", ".", "t">>, <<"s", "3", ":", "/", "/", "t">>}
Uris == {prefix \o text : prefix \in {<<>>, <<"s", "3", ":", "/", "/">>, <<"file", ":", "/", "/">>,
                                      <<":", "/", "/">>, <<"t", "/">>},
                          text \in IdTexts}

(* Every name of two ids is read as these ids, and is its own canonical    *)
(* spelling; so is a file's under its table, and the dotted spelling is the *)
(* same name when no id but the second has a dot.                          *)
NameOf(a, b) ==
    LET table == TableName(<<"t">>, a, b)
        file == TableFileName(table, a)
        dotted == Join(<<a, b, <<"t">>>>, ".")
        undotted(id) == id # <<>> /\ ~Contains(id, ".")
    IN  /\ Ids(table, Patterns.table) = <<<<"t">>, a, b>>
        /\ PatternName(table, Patterns.table) = table
        /\ Ids(file, Patterns.file) = <<<<"t">>, a, b, a>>
        /\ ParseTableFile(file) = <<table, a>>
        /\ Ids(Spell(Patterns.column.segments, <<a, <<"t">>, b>>), Patterns.column) = <<a, <<"t">>, b>>
        /\ ~Contains(a \o b, "/") /\ undotted(a) /\ ~(\E p \in ToSet(Pieces(b, ".")) : p = <<>>)
             => Record([is |-> "string", name |-> dotted], Patterns.table).name
                  = TableName(a, b, <<"t">>)

(* The blob of a URI reads that URI, a local one without its scheme.       *)
UriOf(uri) ==
    LET blob == BlobName(uri)
    IN  /\ BlobUri(blob) = IF IsPrefix(<<"file", ":", "/", "/">>, uri) THEN SubSeq(uri, 5, Len(uri)) ELSE uri
        /\ PatternName(blob, Patterns.blob) = blob
        /\ Len(Pieces(blob, "/")) = 3
        /\ \E id \in ToSet(Pieces(uri, "/")) :
              Ids(LocalTable(uri), Patterns.table) = <<Local, Local, id>>

-----------------------------------------------------------------------------
Words == {"a", "b"}
Segment(shape, text) == [shape |-> shape, text |-> text]
SegmentsOf == {Segment("literal", "x"), Segment("braced", "a"), Segment("braced", "b"),
               Segment("braced", ""), Segment("mixed", "x{a}"), Segment("empty", "")}
NameKeys == {[key |-> "name", value |-> pattern] :
               pattern \in BoundedSeq(SegmentsOf, 3) \ {<<>>}}
AliasKeys == {[key |-> "alias", value |-> alias] : alias \in BoundedSeq(SegmentsOf, 2) \ {<<>>}}
Input(fields) == [attribute |-> FALSE, data |-> "struct", named |-> TRUE, fields |-> fields]
FieldOf(keys) == [keys |-> keys, type |-> "String"]
Structs ==
    {Input(<<FieldOf(<<name>>)>>) : name \in NameKeys}
    \cup {Input(<<FieldOf(<<>>), FieldOf(<<name, alias>>)>>) :
            name \in {k \in NameKeys : Len(k.value) < 3}, alias \in AliasKeys}
Oddities ==
    LET name == CHOOSE k \in NameKeys : k.value = <<Segment("literal", "x"), Segment("braced", "a")>>
        alias == CHOOSE k \in AliasKeys : k.value = <<Segment("braced", "a")>>
        named == Input(<<FieldOf(<<name>>)>>)
    IN  {[named EXCEPT !.attribute = TRUE], [named EXCEPT !.data = "enum"], [named EXCEPT !.named = FALSE],
         Input(<<>>), Input(<<FieldOf(<<alias>>)>>), Input(<<FieldOf(<<name, alias, alias>>)>>),
         Input(<<FieldOf(<<name>>), FieldOf(<<name>>)>>),
         Input(<<[FieldOf(<<name>>) EXCEPT !.type = "u64"]>>),
         Input(<<FieldOf(<<[key |-> "noun", value |-> <<>>]>>), FieldOf(<<name>>)>>)}

(* What the derive accepts never indexes past the ids of a name: a text is *)
(* refused, or spells as many as the pattern has, and then its canonical   *)
(* name spells the same ones and is its own.                               *)
Spelled(ids, name, pattern) ==
    IF ids = None THEN None
    ELSE <<Len(ids), PatternName(name, pattern) = name, Ids(name, pattern) = ids>>
Read(pattern, text) == Spelled(Ids(text, pattern), PatternName(text, pattern), pattern)
Texts3 == {Join(pieces, separator) : separator \in {"/", "."},
             pieces \in BoundedSeq({<<>>, <<"x">>, <<"t">>, <<"%", "2", "F">>}, 3)}
Reads(derived) ==
    \/ IsRefused(derived)
    \/ /\ \A text \in Texts3 : Read(derived.pattern, text) \in {None, <<derived.arity, TRUE, TRUE>>}
       /\ \A name \in {Spell(derived.pattern.segments, [i \in 1..derived.arity |-> <<"x">>])} :
             Ids(name, derived.pattern) # None
       /\ derived.noun \in Words
DeriveOf(input) == Reads(Expand(input, Words))
=============================================================================
