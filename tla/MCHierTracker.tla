--------------------------- MODULE MCHierTracker ---------------------------
(* Instances of HierTracker for model checking. *)
EXTENDS HierTracker, TLC

CONSTANTS t1, t2, t3

Updates   == {"add", "claim", "remove"}
AllUpdate == [t \in Thread |-> Updates]

(* One thread updates, the others delete.                                  *)
OthersDelete == [t \in Thread |-> IF t = t1 THEN {"add", "remove"} ELSE {"delete"}]

(* The ids by turns in two shards of the map.                              *)
TwoShards == [i \in Id |-> i % 2]

NoLimit == None
=============================================================================
