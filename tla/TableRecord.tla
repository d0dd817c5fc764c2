---------------------------- MODULE TableRecord ----------------------------
(***************************************************************************)
(* table/mod.rs: which format a location holds, the record of a table and  *)
(* the resource it is written as, and the byte mass of its partitions.     *)
(*                                                                         *)
(* A place is what the code can find out about a location: whether it is   *)
(* local, what is there, the markers under it, the markers whose probe     *)
(* fails, and the record its format's loader would return (None when the   *)
(* loader fails).                                                          *)
(***************************************************************************)
EXTENDS Naturals, Sequences, SequencesExt, FiniteSets, FiniteSetsExt, TLC

CONSTANTS None,      \* Option::None
          Limit      \* 2^64: the first value u64 does not hold

ASSUME LimitAssumption == Limit \in Nat \ {0}

-----------------------------------------------------------------------------
(* The format.                                                             *)

Formats == {"delta", "iceberg"}

LocalFormat(place) ==
    CASE place.is = "nothing"   -> "missing"
      [] place.is = "metadata"  -> "iceberg"      \* a file, .metadata.json
      [] place.is = "file"      -> "unrecognized"
      [] place.is = "directory" ->
           IF "delta log" \in place.markers THEN "delta"
           ELSE IF "version hint" \in place.markers THEN "iceberg"
           ELSE IF "metadata json" \in place.broken THEN "io"
           ELSE IF "metadata json" \in place.markers THEN "iceberg"
           ELSE "unrecognized"

(* The probes of a store, in order; one that fails ends the detection.     *)
RemoteProbes == <<"last checkpoint", "commit 0", "version hint">>
RemoteFormat(place) ==
    LET answers == SelectSeq(RemoteProbes,
                             LAMBDA m : m \in place.markers \cup place.broken)
    IN  IF place.is = "metadata" THEN "iceberg"
        ELSE IF answers = <<>> THEN "unrecognized"
        ELSE IF Head(answers) \in place.broken THEN "storage"
        ELSE IF Head(answers) = "version hint" THEN "iceberg" ELSE "delta"

(* A format, or what the detection fails with.                             *)
Detect(place) == IF place.local THEN LocalFormat(place) ELSE RemoteFormat(place)

-----------------------------------------------------------------------------
(* The record.                                                             *)

NonEmpty(text) == IF text = "" THEN None ELSE text
NonEmptyLen(items) == IF items = <<>> THEN None ELSE Len(items)

TableInfo(format, uri, version, partitionColumns) ==
    [format |-> format, uri |-> uri, name |-> "", version |-> version,
     partitionColumns |-> partitionColumns, columns |-> <<>>,
     deltaProperties |-> <<>>, icebergProperties |-> <<>>,
     files |-> <<>>, partitions |-> <<>>]

LoadRequest(uri, version) ==
    [uri |-> uri, version |-> version, fileStats |-> TRUE, requireFiles |-> TRUE,
     commitVersions |-> None]
WithoutFiles(request) == [request EXCEPT !.requireFiles = FALSE]

(* load: the detected format's loader; without files it only has metadata. *)
Load(place, request) ==
    IF Detect(place) \notin Formats THEN [error |-> Detect(place)]
    ELSE IF place.info = None THEN [error |-> "load"]
    ELSE [error |-> None,
          info |-> IF request.requireFiles THEN place.info
                   ELSE [place.info EXCEPT !.files = <<>>, !.partitions = <<>>]]

(* A map extended by another, whose values win.                            *)
Extend(map, added) ==
    [k \in DOMAIN map \cup DOMAIN added |-> IF k \in DOMAIN added THEN added[k] ELSE map[k]]

(* The wire form: columns are positioned, and Iceberg's properties win.    *)
Resource(info, name) ==
    [name |-> name, uri |-> NonEmpty(info.uri), format |-> info.format,
     version |-> info.version, partitionColumns |-> info.partitionColumns,
     columns |-> [i \in 1..Len(info.columns) |-> [info.columns[i] EXCEPT !.position = i - 1]],
     properties |-> Extend(info.deltaProperties, info.icebergProperties),
     fileCount |-> NonEmptyLen(info.files), partitionCount |-> NonEmptyLen(info.partitions)]

-----------------------------------------------------------------------------
(* Partition totals.  groups is a function from partition values, or the   *)
(* file and the total that did not fit.                                    *)

NoTotals == [count |-> 0, size |-> 0, records |-> 0]

AddPartitionTotal(groups, file) ==
    LET old  == IF file.values \in DOMAIN groups THEN groups[file.values] ELSE NoTotals
        size == old.size + (IF file.size = None THEN 0 ELSE file.size)
        known == old.records # None /\ file.records # None
    IN  IF "overflow" \in DOMAIN groups THEN groups
        ELSE IF size >= Limit THEN [overflow |-> "byte"]
        ELSE IF known /\ old.records + file.records >= Limit THEN [overflow |-> "record"]
        ELSE (file.values :> [count |-> old.count + 1, size |-> size,
                              records |-> IF known THEN old.records + file.records
                                          ELSE None]) @@ groups

BytesPerRow(size, records) == IF records = 0 THEN None ELSE <<size, records>>

FinishPartitionMasses(groups) ==
    {[values |-> values, count |-> groups[values].count, size |-> groups[values].size,
      records |-> groups[values].records,
      bytesPerRow |-> IF groups[values].records = None THEN None
                      ELSE BytesPerRow(groups[values].size, groups[values].records)] :
       values \in DOMAIN groups}

PartitionMasses(files) == FoldLeft(AddPartitionTotal, <<>>, files)
=============================================================================
