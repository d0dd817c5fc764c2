--------------------------- MODULE ColumnMeasure ---------------------------
(***************************************************************************)
(* From a footer to records: bytemass groups the column chunks of a file   *)
(* into one column each, measures it, and list columns labels every column *)
(* with the file and the table it was measured through.  Ratios are kept   *)
(* as the pair of integers the code divides.                               *)
(***************************************************************************)
EXTENDS Naturals, Sequences, SequencesExt, FiniteSets

CONSTANTS None,      \* Option::None
          Tiny,      \* a positive sample rate whose inverse is not finite
          Limit      \* 2^64: the first value u64 does not hold

ASSUME LimitAssumption == Limit \in Nat \ {0}
ASSUME NoneAssumption == None \notin Nat /\ Tiny \notin Nat /\ Tiny # None

Total(seq) == FoldLeft(LAMBDA sum, n : sum + n, 0, seq)
Field(chunks, field) == [i \in 1..Len(chunks) |-> chunks[i][field]]

(* The sum of parts that are all known and of which there is one; None too *)
(* when the sum does not fit.                                              *)
KnownSum(parts) ==
    IF parts = <<>> \/ Contains(parts, None) THEN None
    ELSE IF Total(parts) < Limit THEN Total(parts) ELSE None

(* iter().sum() of u64, which wraps in the release build.                  *)
WrappedSum(parts) == Total(parts) % Limit

AddEncodings(encodings, set) ==
    FoldLeft(LAMBDA seen, e : IF Contains(seen, e) THEN seen ELSE Append(seen, e),
             encodings, set)
EncodingUnion(sets) == FoldLeft(AddEncodings, <<>>, sets)
KnownUnion(sets) ==
    IF Contains(sets, None) \/ EncodingUnion(sets) = <<>> THEN None
    ELSE EncodingUnion(sets)

UniformCodec(chunks) ==
    IF \E codec \in ToSet(Field(chunks, "codec")) :
            ToSet(Field(chunks, "codec")) = {codec}
    THEN chunks[1].codec ELSE None

(* Distinct count and bounds are the file's only when it has one chunk.    *)
SingleChunkFacts(chunks) ==
    IF Len(chunks) # 1 THEN <<None, None, None>>
    ELSE <<chunks[1].distinct, chunks[1].min, chunks[1].max>>

(* numerator / denominator; an unknown numerator counts as zero.           *)
Ratio(numerator, denominator) ==
    IF denominator = None \/ denominator = 0 THEN None
    ELSE <<IF numerator = None THEN 0 ELSE numerator, denominator>>

Measure(chunks, rowCount) ==
    LET dictionaries == SelectSeq(chunks, LAMBDA c : c.dictionary)
        compressed   == WrappedSum(Field(chunks, "compressed"))
        uncompressed == WrappedSum(Field(chunks, "uncompressed"))
        values       == WrappedSum(Field(chunks, "values"))
        nulls        == KnownSum(Field(chunks, "nulls"))
        dictBytes    == KnownSum(Field(dictionaries, "dictionaryBytes"))
        facts        == SingleChunkFacts(chunks)
    IN  [compressed |-> compressed, uncompressed |-> uncompressed,
         values |-> values, nulls |-> nulls,
         codec |-> UniformCodec(chunks),
         encodings |-> EncodingUnion(Field(chunks, "encodings")),
         dataEncodings |-> KnownUnion(Field(chunks, "dataEncodings")),
         dictionary |-> dictionaries # <<>>, dictionaryBytes |-> dictBytes,
         unencoded |-> KnownSum(Field(chunks, "unencoded")),
         distinct |-> facts[1], first |-> facts[2], last |-> facts[3],
         bytesPerValue |-> Ratio(compressed, values),
         bytesPerRow |-> Ratio(compressed, rowCount),
         compressionRatio |-> Ratio(uncompressed, compressed),
         nullFraction |-> Ratio(nulls, values),
         dictionaryFraction |-> Ratio(dictBytes, compressed)]

(* The column paths of a footer, in the order their first chunk comes.     *)
Paths(footer) == AddEncodings(<<>>, Field(footer.chunks, "path"))

Columns(footer) ==
    [position \in 1..Len(Paths(footer)) |->
       LET path == Paths(footer)[position]
       IN  [path |-> path,
            mass |-> Measure(SelectSeq(footer.chunks, LAMBDA c : c.path = path),
                             footer.rowCount)]]

(* What list columns writes for one table file: an error, or the blob and  *)
(* one row per column with the file's facts.  A rate outside (0, 1] and a  *)
(* name that is not a table file's are refused after the read.             *)
RateAccepted(rate) == rate \in {None, Tiny} \cup 1..4     \* quarters
ListColumns(file) ==
    IF file.blob = None THEN [error |-> "no blob", rows |-> <<>>]
    ELSE IF ~RateAccepted(file.rate) THEN [error |-> "sample rate", rows |-> <<>>]
    ELSE IF file.table = None THEN [error |-> "table name", rows |-> <<>>]
    ELSE [error |-> None,
          rows |-> <<[kind |-> "blob"]>> \o
                   [i \in 1..Len(Columns(file.footer)) |->
                      [kind |-> "column", blob |-> file.blob, local |-> file.local,
                       path |-> Columns(file.footer)[i].path,
                       mass |-> Columns(file.footer)[i].mass,
                       table |-> file.table, rate |-> file.rate,
                       size |-> file.size, class |-> file.class]]]
=============================================================================
