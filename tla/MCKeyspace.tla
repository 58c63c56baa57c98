----------------------------- MODULE MCKeyspace -----------------------------
(* Instances of Keyspace for model checking. *)
EXTENDS Keyspace

CONSTANTS c1, c2, p1, p2, p3

(* Two words of two bits, the last of them past max_id; and without one.   *)
Limited   == [max |-> 3, initial |-> 9]
Unlimited == [max |-> None, initial |-> 3]

With(config, ids, reference, first, n1, second, n2) ==
  [prefix |-> p1, config |-> config, ids |-> ids, reference |-> reference, ops |-> (c1 :> first) @@ (c2 :> second),
   calls |-> (c1 :> n1) @@ (c2 :> n2)]

Singles  == {"add", "remove"}
Compares == {"snapshot", "added_since", "removed_since", "missing", "iter_missing_from_reference", "iter_intersection"}

(* Restoring, past max_id and past the capacity too; comparing; filling;   *)
(* reference sets alone; and the registry.                                 *)
AllSetups == {
  With(Limited, {0}, {1, 3}, {"restore_from_reference"}, 3, Singles \union {"restore_from_reference"}, 3),
  With(Unlimited, {2}, {0, 2, 5}, {"restore_from_reference", "populate_with_pattern"}, 2, Singles, 2),
  With(Unlimited, {0, 2}, {1, 2, 5}, Compares, 2, {"add", "remove", "add_range"}, 2),
  With(Limited, {1, 3}, {}, {"add_range", "remove_range", "populate_with_profile"}, 1, Singles \union {"populate_with_pattern"}, 2),
  With(Limited, {1, 2}, {1, 4}, {"reference"}, 3, {"reference"}, 3),
  With(Limited, {}, {}, {"register", "remove_prefix", "clear"}, 3, {"register", "walk"}, 2)}

TwoShards == (p1 :> 1) @@ (p2 :> 2) @@ (p3 :> 1)

SomePatterns == {[kind |-> "None", here |-> 0, gap |-> 0], [kind |-> "Random", here |-> 0, gap |-> 0],
                 [kind |-> "Alternating", here |-> 2, gap |-> 0], [kind |-> "Clustered", here |-> 2, gap |-> 1],
                 [kind |-> "VariableHoles", here |-> 1, gap |-> 2]}

SomeRanges  == {<<0, 2>>, <<1, 4>>, <<2, 5>>, <<3, 3>>}
BothConfigs == {Limited, Unlimited}
=============================================================================
