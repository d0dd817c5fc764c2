---------------------------- MODULE MCTableRecord ----------------------------
(***************************************************************************)
(* The files of a table in the order the log gives them, and the masses of *)
(* the partitions they lie in.                                             *)
(***************************************************************************)
EXTENDS TableRecord

PartFiles == [values : {"p", "q"}, size : {None, 0, 5, 7}, records : {None, 0, 4, 9}]
FileLists == {<<>>} \cup {<<file>> : file \in PartFiles} \cup {<<f, g>> : f, g \in PartFiles}
             \cup {<<f, g, h>> : f, h \in {x \in PartFiles : x.size # 0}, g \in {x \in PartFiles : x.records = 4}}

(* A partition's mass is that of its files, each once: its records are     *)
(* known when all of theirs are, and a table with a partition that u64     *)
(* does not hold is refused whatever its files' order, unless what would   *)
(* not fit are records of a partition in which some are unknown.           *)
PartitionsOf(files) ==
    LET totals == PartitionMasses(files)
        In(v) == {i \in DOMAIN files : files[i].values = v}
        Size(v) == MapThenSumSet(LAMBDA i : files[i].size, {i \in In(v) : files[i].size # None})
        known(v) == {i \in In(v) : files[i].records # None}
        Records(v) == MapThenSumSet(LAMBDA i : files[i].records, known(v))
        Values == {files[i].values : i \in DOMAIN files}
    IN  IF "overflow" \in DOMAIN totals
        THEN \E v \in Values : Size(v) >= Limit \/ Records(v) >= Limit
        ELSE /\ FinishPartitionMasses(totals) =
                  {[values |-> v, count |-> Cardinality(In(v)), size |-> Size(v),
                    records |-> IF known(v) = In(v) THEN Records(v) ELSE None,
                    bytesPerRow |-> IF known(v) # In(v) \/ Records(v) = 0 THEN None
                                    ELSE <<Size(v), Records(v)>>] : v \in Values}
             /\ \A v \in Values : /\ Size(v) < Limit
                                  /\ known(v) = In(v) => Records(v) < Limit
=============================================================================
