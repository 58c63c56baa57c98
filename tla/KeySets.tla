------------------------------ MODULE KeySets ------------------------------
(***************************************************************************)
(* Sets of ids packed in words, src/config.rs: the ReferenceSet, which     *)
(* grows, and the BitmapSnapshot, the copy of a tracker's bitmap.  A word  *)
(* is the set of the positions of its bits that are 1; of two operands one *)
(* may have more words than the other.                                     *)
(***************************************************************************)
EXTENDS Integers, FiniteSets, FiniteSetsExt, Sequences, TLC

CONSTANT W    \* bits per word: 64 in the code

ASSUME WordAssumption == W \in Nat \ {0}

CeilDiv(m, n) == (m + n - 1) \div n
Smaller(m, n) == IF m <= n THEN m ELSE n
Larger(m, n)  == IF m >= n THEN m ELSE n

(* Word i of `words`, 0 past the end. *)
WordAt(words, i) == IF i \in DOMAIN words THEN words[i] ELSE {}

(* The ids of the bits that are 1, as trailing_zeros finds them. *)
Ids(words) == UNION {{(i - 1) * W + b : b \in words[i]} : i \in DOMAIN words}

(* count_ones, over all words: how many bits are 1. *)
Ones(words) == Cardinality(UNION {{<<i, b>> : b \in words[i]} : i \in DOMAIN words})

(* The words of a set of ids. *)
Packed(S, n) == [i \in 1 .. n |-> {b \in 0 .. W - 1 : (i - 1) * W + b \in S}]

-----------------------------------------------------------------------------
(* ReferenceSet                                                            *)

with_capacity(max) == [bitmap |-> [i \in 1 .. CeilDiv(max, W) |-> {}], max_id |-> max, count |-> 0]

Largest == 4096    \* bound: reference sets do not grow further
PowersOfTwo == {1, 2, 4, 8, 16, 32, 64, 128, 256, 512, 1024, 2048, Largest}
NextPowerOfTwo(n) == Min({p \in PowersOfTwo : n <= p})

(* Mutant: one word for every W ids up to the id, which may be none. *)
GrownShort(r, id) ==
  IF id < r.max_id THEN r
  ELSE LET n == NextPowerOfTwo(id + 1)
       IN  [r EXCEPT !.bitmap = [i \in 1 .. CeilDiv(n, W) |-> WordAt(r.bitmap, i)], !.max_id = id]

(* insert() makes room for an id past max_id. *)
Grown(r, id) ==
  IF id < r.max_id THEN r
  ELSE LET n == NextPowerOfTwo(id + 1)
       IN  [r EXCEPT !.bitmap = [i \in 1 .. CeilDiv(n, W) |-> WordAt(r.bitmap, i)], !.max_id = n]

contains(r, id) == id < r.max_id /\ id % W \in r.bitmap[id \div W + 1]

insert(r, id) ==
  LET g == Grown(r, id)
      i == id \div W + 1
      b == id % W
  IN  IF b \in g.bitmap[i] THEN g ELSE [g EXCEPT !.bitmap[i] = @ \union {b}, !.count = @ + 1]

remove(r, id) ==
  IF contains(r, id) THEN [r EXCEPT !.bitmap[id \div W + 1] = @ \ {id % W}, !.count = @ - 1] ELSE r

from_iter(S) == FoldSet(LAMBDA id, r : insert(r, id), with_capacity(Max(S \union {0}) + 1), S)

iter(r) == {id \in Ids(r.bitmap) : id < r.max_id}

(* with_capacity(max), then words 1 to n stored and their ones counted.    *)
Filled(max, words) ==
  [with_capacity(max) EXCEPT !.bitmap = [i \in DOMAIN @ |-> WordAt(words, i)], !.count = Ones(words)]

intersection(r, s) ==
  Filled(Smaller(r.max_id, s.max_id),
         [i \in 1 .. Smaller(Len(r.bitmap), Len(s.bitmap)) |-> r.bitmap[i] \intersect s.bitmap[i]])

union(r, s) ==
  Filled(Larger(r.max_id, s.max_id),
         [i \in 1 .. Larger(Len(r.bitmap), Len(s.bitmap)) |-> WordAt(r.bitmap, i) \union WordAt(s.bitmap, i)])

difference(r, s) ==
  Filled(r.max_id, [i \in DOMAIN r.bitmap |-> r.bitmap[i] \ WordAt(s.bitmap, i)])

-----------------------------------------------------------------------------
(* BitmapSnapshot                                                          *)

test(s, id) == id < s.capacity /\ id \div W + 1 \in DOMAIN s.data /\ id % W \in s.data[id \div W + 1]

iter_set(s) == {id \in Ids(s.data) : id < s.capacity}

count_range(s, start, end) == Cardinality({id \in start .. Smaller(end, s.capacity) - 1 : test(s, id)})

(* The words both have, and'ed; and those of the first less the other's.   *)
Both(v, w)  == [i \in 1 .. Smaller(Len(v), Len(w)) |-> v[i] \intersect w[i]]
Less(v, w)  == [i \in DOMAIN v |-> v[i] \ WordAt(w, i)]

snapshot_intersection(s, t)       == Ids(Both(s.data, t.data))
snapshot_difference(s, t)         == Ids(Less(s.data, t.data))
snapshot_intersection_count(s, t) == Ones(Both(s.data, t.data))
snapshot_difference_count(s, t)   == Ones(Less(s.data, t.data))

-----------------------------------------------------------------------------
(* A ReferenceSet against a BitmapSnapshot                                 *)

count_existing_in(r, s) == Ones(Both(r.bitmap, s.data))
count_missing_in(r, s)  == r.count - count_existing_in(r, s)
existing_in(r, s)       == Ids(Both(r.bitmap, s.data))

(* Mutant: ids past the snapshot's words are forgotten. *)
missing_in_common(r, s) == Ids([i \in 1 .. Smaller(Len(r.bitmap), Len(s.data)) |-> r.bitmap[i] \ s.data[i]])

(* The words past the snapshot's are missing whole. *)
missing_in(r, s) ==
  LET common == 1 .. Smaller(Len(r.bitmap), Len(s.data))
  IN  Ids([i \in common |-> r.bitmap[i] \ s.data[i]])
      \union Ids([i \in DOMAIN r.bitmap |-> IF i \in common THEN {} ELSE r.bitmap[i]])
=============================================================================
