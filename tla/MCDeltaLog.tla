----------------------------- MODULE MCDeltaLog ------------------------------
(***************************************************************************)
(* Small instances of DeltaLog: prefixes of 2 and then 4 bytes, commits    *)
(* whose header ends in the first, in the second, beyond both or nowhere,  *)
(* of sizes that just fill a prefix; one that does not parse.              *)
(***************************************************************************)
EXTENDS DeltaLog

C(size, info, dated, adds, sound) ==
    [size |-> size, info |-> info, dated |-> dated, adds |-> adds, sound |-> sound]

TwoStages == <<2, 4>>
SoundLog == [v \in Versions |->
    CASE v = 0 -> C(2, 2, TRUE, 1, TRUE)
      [] v = 1 -> C(6, 5, TRUE, 2, TRUE)
      [] v = 2 -> C(4, 3, TRUE, 0, TRUE)
      [] OTHER -> C(1, 1, TRUE, 1, TRUE)]
OddLog == [v \in Versions |->
    CASE v = 0 -> C(2, 0, FALSE, 1, TRUE)
      [] v = 1 -> C(4, 4, FALSE, 1, TRUE)
      [] v = 2 -> C(5, 5, TRUE, 1, FALSE)
      [] OTHER -> C(3, 1, TRUE, 2, TRUE)]
BothLogs == {SoundLog, OddLog}

Walk1(walk, head) == [walk |-> walk, all |-> TRUE, named |-> {}, head |-> head]
Named(walk, versions) == [walk |-> walk, all |-> FALSE, named |-> versions, head |-> None]
AllRequests == {Walk1("commits", None), Walk1("commits", 2), Walk1("files", None),
                Walk1("log", 2), Named("files", {0, 2, 3}), Named("log", {1, 3})}

SomeLosses == {{}, {1}, {2}}
=============================================================================
