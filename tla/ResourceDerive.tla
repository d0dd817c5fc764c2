--------------------------- MODULE ResourceDerive ---------------------------
(***************************************************************************)
(* pqbench-derive: what #[derive(Resource)] makes of a struct, or why it   *)
(* refuses it.  A segment of a pattern is [shape, text]: "empty", a        *)
(* "literal", a "braced" {text}, or "mixed", braces within other text.     *)
(***************************************************************************)
EXTENDS Names

Refused(why) == [error |-> why]
IsRefused(x) == "error" \in DOMAIN x

(* One key of a #[resource(...)] attribute of the field.                   *)
Key(field, key) ==
    IF IsRefused(field) THEN field
    ELSE IF key.key = "name" THEN [field EXCEPT !.pattern = key.value]
    ELSE IF key.key # "alias" THEN Refused("expected name or alias")
    ELSE IF field.alias # None THEN Refused("one alias per name")
    ELSE [field EXCEPT !.alias = key.value]
Keys(field) == FoldLeft(Key, [pattern |-> None, alias |-> None], field.keys)

(* The field that carries a pattern; an alias without one is passed over.  *)
AddField(found, field) ==
    LET keys == Keys(field) IN
    IF found # None /\ IsRefused(found) THEN found
    ELSE IF IsRefused(keys) THEN keys
    ELSE IF keys.pattern = None THEN found
    ELSE IF found # None THEN Refused("only one field carries the name pattern")
    ELSE IF field.type # "String" THEN Refused("the name field must be a String")
    ELSE keys
NameField(input) ==
    LET found == FoldLeft(AddField, None, input.fields)
    IN  IF input.data # "struct" THEN Refused("Resource is for structs")
        ELSE IF ~input.named THEN Refused("Resource needs named fields")
        ELSE IF found = None THEN Refused("a resource needs a name") ELSE found

Braced(segments) == SelectSeq(segments, LAMBDA s : s.shape = "braced")
Texts(segments) == [i \in 1..Len(segments) |-> segments[i].text]

(* The first segment that is wrong says why.                               *)
SegmentError(segment, words) ==
    CASE segment.shape = "empty" -> "a name pattern has an empty segment"
      [] segment.shape = "braced" /\ segment.text \notin words ->
           "a name placeholder is {id} with an alphanumeric id"
      [] segment.shape = "mixed" -> "a name placeholder is a whole segment"
      [] OTHER -> None
PatternSegments(pattern, words) ==
    LET wrong == {i \in 1..Len(pattern) : SegmentError(pattern[i], words) # None}
    IN  IF wrong # {} THEN Refused(SegmentError(pattern[Min(wrong)], words))
        ELSE IF Braced(pattern) = <<>> THEN Refused("a name pattern has no placeholder")
        ELSE [segments |-> [i \in 1..Len(pattern) |->
                              IF pattern[i].shape = "braced" THEN None ELSE pattern[i].text],
              ids |-> Texts(Braced(pattern))]

AliasSegments(alias, ids) ==
    IF Braced(alias) # alias THEN Refused("an alias is dot-separated placeholders")
    ELSE IF Texts(alias) # ids THEN Refused("an alias names the pattern's ids in order")
    ELSE [ids |-> ids]

(* The noun, the pattern every call is made with, and how many ids a name  *)
(* must spell, which parse_name takes by their index.                      *)
Expand(input, words) ==
    LET field == NameField(input)
        pattern == PatternSegments(field.pattern, words)
        alias == IF field.alias = None THEN [ids |-> None]
                 ELSE AliasSegments(field.alias, pattern.ids)
    IN  IF input.attribute THEN Refused("the noun is the pattern's last placeholder")
        ELSE IF IsRefused(field) THEN field
        ELSE IF IsRefused(pattern) THEN pattern
        ELSE IF IsRefused(alias) THEN alias
        ELSE [noun |-> pattern.ids[Len(pattern.ids)], arity |-> Len(pattern.ids),
              pattern |-> Pattern(pattern.segments,
                                  IF alias.ids = None THEN None ELSE Len(alias.ids))]
=============================================================================
