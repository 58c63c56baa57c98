---------------------------- MODULE MCWriteIter ----------------------------
(* Instances of WriteIter for model checking. *)
EXTENDS WriteIter, TLC

CONSTANTS w1, w2, w3

Claimer(lo, hi) == [lo |-> lo, hi |-> hi, filter |-> "Unset", wrap |-> FALSE, reset |-> FALSE]

(* Ids 1 to 3, by a range that ends past MaxId: everyone claims them, and  *)
(* one resets the cursor; or everyone takes them with the All filter; or   *)
(* one of the claimers is alone and wraps around.                          *)
Upper    == [w \in Worker |-> Claimer(1, 6)]
Sharing  == [Upper EXCEPT ![w1].reset = TRUE]
Taking   == [w \in Worker |-> [Claimer(1, 6) EXCEPT !.filter = "All"]]
Rounding == [w \in Worker |-> IF w = w1 THEN [Claimer(1, 6) EXCEPT !.wrap = TRUE] ELSE Claimer(0, 0)]
OneRangeBuilds == {Sharing, Taking, Rounding}
=============================================================================
