---------------------------- MODULE MCIcebergRead -----------------------------
(***************************************************************************)
(* Small instances of IcebergRead.  The third version's hint begins like   *)
(* the first's ("10" and "1").  The tables: one that grows and expires its *)
(* first snapshot; one that is empty, then grows, then rolls back; one     *)
(* whose parents are a cycle, then one with a negative id, then one of a   *)
(* format no one reads.                                                    *)
(***************************************************************************)
EXTENDS IcebergRead

HintTexts == << <<1>>, <<9>>, <<1, 0>> >>

E(file, content) == [file |-> file, deleted |-> FALSE, content |-> content, sound |-> TRUE]
M(deletes, entries) == [deletes |-> deletes, entries |-> entries]

SomeManifests ==
    [a |-> M(FALSE, << E("f1", "data"), [E("f2", "data") EXCEPT !.deleted = TRUE] >>),
     b |-> M(FALSE, << E("f3", "data"), E("d1", "delete") >>),
     d |-> M(TRUE, << E("d2", "data") >>),
     x |-> M(FALSE, << E("f1", "data"), [E("f4", "data") EXCEPT !.sound = FALSE] >>)]

D(format, snaps, current) == [format |-> format, snaps |-> snaps, current |-> current]

Grows == [docs |-> << D(1, {1}, 1), D(2, {1, 2}, 2), D(2, {2, 3}, 3) >>,
          parent |-> (1 :> -1) @@ (2 :> 1) @@ (3 :> 2),
          manifests |-> (1 :> <<"a">>) @@ (2 :> <<"b", "d">>) @@ (3 :> <<"d", "b">>)]
Empty == [docs |-> << D(2, {}, -1), D(2, {1, 2}, 2), D(2, {1, 2}, 1) >>,
          parent |-> (1 :> -1) @@ (2 :> 1),
          manifests |-> (1 :> <<"a", "b">>) @@ (2 :> <<"x">>)]
Odd == [docs |-> << D(2, {1, 2}, 1), D(2, {1, 3, -5}, -5), D(3, {1}, 1) >>,
        parent |-> (1 :> 2) @@ (2 :> 1) @@ (3 :> -5) @@ (-5 :> 1),
        manifests |-> (1 :> << >>) @@ (2 :> <<"b">>) @@ (3 :> <<"b">>) @@ (-5 :> <<"b">>)]
AllTables == [grows |-> Grows, empty |-> Empty, odd |-> Odd]
SoundTable == [grows |-> Grows]
EmptyTable == [empty |-> Empty]

R(walk, via, snapshot) ==
    [walk |-> walk, via |-> via, snapshot |-> snapshot, all |-> TRUE, named |-> {}]
AllRequests ==
    {R("commits", "root", None), R("commits", "json", 2), R("active", "root", None),
     R("active", "get", None), R("active", "catalog", None), R("load", "root", 3),
     R("load", "json", None), R("active", "root", 9),
     [R("files", "root", None) EXCEPT !.all = FALSE, !.named = {2}]}
CommitWalk == {R("commits", "root", None)}
GetThenList == {R("active", "get", None)}
TwoStyles == {1, 3}
AllStores == {"tagged", "untagged", "local"}
OneStore == {"tagged"}
=============================================================================
