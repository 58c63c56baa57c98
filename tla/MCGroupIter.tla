----------------------------- MODULE MCGroupIter -----------------------------
(* Instances of GroupIter for model checking. *)
EXTENDS GroupIter, TLC

CONSTANTS a, h, w1, w2, w3

Iterator(role, policy, list) ==
  [role |-> role, filter |-> "Set", policy |-> policy, list |-> list,
   lo |-> 0, hi |-> 3, subLo |-> 0, subHi |-> 3]
Writer(policy) == Iterator("write", policy, <<a, h>>)
Deleter(list)  == Iterator("delete", "Any", list)
Reader         == Iterator("read", "Any", <<h, a>>)

(* One that writes and two that delete, in opposite orders; two that write *)
(* ranges that overlap and one that deletes; two that read different       *)
(* parts and one that writes; one that writes by weight, one that writes  *)
(* in turn and one that reads whatever is there.                           *)
Deleters == (w1 :> [Writer("RoundRobin") EXCEPT !.subHi = 1]) @@ (w2 :> [Deleter(<<a, h>>) EXCEPT !.lo = 1]) @@ (w3 :> Deleter(<<h, a>>))
Writers  == (w1 :> Writer("RoundRobin")) @@ (w2 :> [Writer("Any") EXCEPT !.hi = 1]) @@ (w3 :> [Deleter(<<h>>) EXCEPT !.hi = 1, !.subHi = 1])
Readers  == (w1 :> Writer("ByUnsetCount")) @@ (w2 :> [Reader EXCEPT !.subLo = 1]) @@ (w3 :> [Reader EXCEPT !.filter = "Unset", !.hi = 1])
Weights  == (w1 :> Writer("ByCount")) @@ (w2 :> [Writer("RoundRobin") EXCEPT !.hi = 1]) @@ (w3 :> [Reader EXCEPT !.filter = "All", !.hi = 1])
GroupBuilds == {Deleters, Writers, Readers, Weights}
=============================================================================
