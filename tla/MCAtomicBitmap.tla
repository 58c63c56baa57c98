--------------------------- MODULE MCAtomicBitmap ---------------------------
(* Instances of AtomicBitmap for model checking. *)
EXTENDS AtomicBitmap

CONSTANT t1

(* Every update, and nothing else. *)
UpdateOps == Adds \union Removes
AllUpdate == [t \in Thread |-> UpdateOps]

(* One thread flips single bits while the other scans for one; or, some of *)
(* them past the counter, while the other reads all the words and the      *)
(* counter.                                                                *)
Roles(writer, reader) == [t \in Thread |-> IF t = t1 THEN writer ELSE reader]

OneFinds    == Roles({"set", "clear"}, {"find_next_set", "find_next_unset"})
OneCollects == Roles({"set", "clear", "word_fetch_or", "word_fetch_and"},
                     {"count_range", "snapshot", "verify_count"})

(* Every range of the bitmap; and two of three words of two bits, that     *)
(* start and end inside a word, with two words after the first or one.     *)
AllRanges  == {r \in (0 .. Capacity) \X (0 .. Capacity) : r[1] < r[2]}
SomeRanges == {<<1, 5>>, <<3, 6>>}
=============================================================================
