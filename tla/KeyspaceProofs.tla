--------------------------- MODULE KeyspaceProofs ---------------------------
(***************************************************************************)
(* Proofs about KeySets and Keyspace, for every word size, any callers,    *)
(* prefixes, shards and configurations.                                    *)
(*                                                                         *)
(* Of the two set types: what their words mean (Ids), that each operation  *)
(* of a ReferenceSet gives one that holds what it should (Holds), and that *)
(* comparisons are those of sets, whatever the numbers of words.           *)
(*                                                                         *)
(* Of the keyspace: typing, and what is known of every call while it goes  *)
(* on: of one that reads, of the ids it has passed (SeenOK); of one that   *)
(* writes, what it has left so far of the ids that nobody else touched     *)
(* (BulkOK); of a walk, of the shards it has visited (WalkOK).  A step of  *)
(* one caller disturbs the calls of others only through the bits, the      *)
(* registry and their histories (Meanwhile), and that they all bear        *)
(* (MeanwhileOK); so there is one lemma for each action, about its caller. *)
(***************************************************************************)
EXTENDS Keyspace, FiniteSetTheorems, WellFoundedInduction, TLAPS

-----------------------------------------------------------------------------
(* Words and ids                                                           *)

WordSeq == Seq(SUBSET (0 .. W - 1))

(* Its elements.                                                           *)
LEMMA WordsOf ==
  ASSUME NEW v \in WordSeq
  PROVE  Len(v) \in Nat /\ DOMAIN v = 1 .. Len(v) /\ \A i \in DOMAIN v : v[i] \in SUBSET (0 .. W - 1)
BY DEF WordSeq

(* What a reference set is made of.                                        *)
LEMMA RefFields == RefType = [bitmap : WordSeq, max_id : Nat, count : Nat]
BY DEF RefType, WordSeq

(* The word of an id, as an index, and its place in it.                    *)
At(id)  == id \div W + 1
Pos(id) == id % W

(* An id is the place in its word, and the words before it.                *)
LEMMA Split ==
  ASSUME NEW id \in Nat
  PROVE  /\ At(id) \in Nat \ {0} /\ Pos(id) \in 0 .. W - 1
         /\ id = (At(id) - 1) * W + Pos(id)
<1> DEFINE q == id \div W
           r == id % W
<1>1. q \in Nat /\ r \in 0 .. W - 1 /\ id = q * W + r
  BY WordAssumption
<1> HIDE DEF q, r
<1>2. q + 1 \in Nat \ {0} /\ (q + 1) - 1 = q
  BY <1>1
<1>3. At(id) = q + 1 /\ Pos(id) = r
  BY DEF At, Pos, q, r
<1> QED BY <1>1, <1>2, <1>3

(* A place in a word is that of one id.                                    *)
LEMMA Joined ==
  ASSUME NEW i \in Nat \ {0}, NEW b \in 0 .. W - 1
  PROVE  (i - 1) * W + b \in Nat /\ At((i - 1) * W + b) = i /\ Pos((i - 1) * W + b) = b
<1> DEFINE id == (i - 1) * W + b
           q == At(id) - 1
           r == Pos(id)
           p == i - 1
<1>1. p \in Nat /\ i = p + 1 /\ W \in Nat /\ W > 0
  BY WordAssumption
<1>2. p * W \in Nat
  BY <1>1
<1>3. id \in Nat /\ id = p * W + b
  BY <1>2
<1>4. q \in Nat /\ r \in 0 .. W - 1 /\ id = q * W + r
  BY <1>3, Split
<1> HIDE DEF id, q, r, p
<1>5. ~(p < q)
  <2> SUFFICES ASSUME p < q PROVE FALSE
    OBVIOUS
  <2>1. PICK d \in Nat : q = p + 1 + d
    <3>1. q - p - 1 \in Nat /\ q = p + 1 + (q - p - 1)
      BY <1>1, <1>4
    <3> QED BY <3>1
  <2>2. q * W = p * W + W + d * W /\ d * W \in Nat
    BY <1>1, <2>1
  <2> QED BY <1>1, <1>2, <1>3, <1>4, <2>2
<1>6. ~(q < p)
  <2> SUFFICES ASSUME q < p PROVE FALSE
    OBVIOUS
  <2>1. PICK d \in Nat : p = q + 1 + d
    <3>1. p - q - 1 \in Nat /\ p = q + 1 + (p - q - 1)
      BY <1>1, <1>4
    <3> QED BY <3>1
  <2>2. p * W = q * W + W + d * W /\ d * W \in Nat /\ q * W \in Nat
    BY <1>1, <1>4, <2>1
  <2> QED BY <1>1, <1>2, <1>3, <1>4, <2>2
<1>7. p = q
  BY <1>1, <1>4, <1>5, <1>6
<1>8. r = b
  BY <1>2, <1>3, <1>4, <1>7
<1>9. At(id) = i
  <2>1. At(id) \in Nat
    BY <1>3, Split
  <2> QED BY <1>1, <1>7, <2>1 DEF q
<1> QED BY <1>3, <1>8, <1>9 DEF id, r

(* An id is in words if its bit is.                                        *)
LEMMA InIds ==
  ASSUME NEW v \in WordSeq
  PROVE  /\ Ids(v) \subseteq Nat
         /\ \A id \in Nat : id \in Ids(v) <=> At(id) \in DOMAIN v /\ Pos(id) \in v[At(id)]
<1>1. DOMAIN v \subseteq Nat \ {0} /\ \A i \in DOMAIN v : v[i] \subseteq 0 .. W - 1
  BY DEF WordSeq
<1>2. ASSUME NEW i \in DOMAIN v, NEW b \in v[i]
      PROVE  /\ (i - 1) * W + b \in Nat /\ At((i - 1) * W + b) = i /\ Pos((i - 1) * W + b) = b
  BY <1>1, Joined
<1>3. \A id : id \in Ids(v) <=> \E i \in DOMAIN v : \E b \in v[i] : id = (i - 1) * W + b
  BY DEF Ids
<1>4. Ids(v) \subseteq Nat
  BY <1>2, <1>3
<1>5. ASSUME NEW id \in Nat
      PROVE  id \in Ids(v) <=> At(id) \in DOMAIN v /\ Pos(id) \in v[At(id)]
  <2>1. ASSUME id \in Ids(v)
        PROVE  At(id) \in DOMAIN v /\ Pos(id) \in v[At(id)]
    <3>1. PICK i \in DOMAIN v : \E b \in v[i] : id = (i - 1) * W + b
      BY <1>3, <2>1
    <3>2. PICK b \in v[i] : id = (i - 1) * W + b
      BY <3>1
    <3>3. At(id) = i /\ Pos(id) = b
      BY <1>2, <3>2
    <3> QED BY <3>3
  <2>2. ASSUME At(id) \in DOMAIN v, Pos(id) \in v[At(id)]
        PROVE  id \in Ids(v)
    <3>1. id = (At(id) - 1) * W + Pos(id)
      BY Split
    <3> QED BY <1>3, <2>2, <3>1
  <2> QED BY <2>1, <2>2
<1> QED BY <1>4, <1>5

(* There are as many ids as bits that are 1.                               *)
LEMMA OnesOfIds ==
  ASSUME NEW v \in WordSeq
  PROVE  IsFiniteSet(Ids(v)) /\ Ones(v) = Cardinality(Ids(v))
<1> DEFINE P == UNION {{<<i, b>> : b \in v[i]} : i \in DOMAIN v}
           F == [p \in P |-> (p[1] - 1) * W + p[2]]
<1>1. DOMAIN v \subseteq Nat \ {0} /\ \A i \in DOMAIN v : v[i] \subseteq 0 .. W - 1
  BY DEF WordSeq
<1>2. \A p : p \in P <=> \E i \in DOMAIN v : \E b \in v[i] : p = <<i, b>>
  OBVIOUS
<1>3. \A id : id \in Ids(v) <=> \E i \in DOMAIN v : \E b \in v[i] : id = (i - 1) * W + b
  BY DEF Ids
<1>4. ASSUME NEW p \in P
      PROVE  p[1] \in Nat \ {0} /\ p[2] \in 0 .. W - 1 /\ p = <<p[1], p[2]>> /\ F[p] \in Ids(v)
  <2>1. PICK i \in DOMAIN v : \E b \in v[i] : p = <<i, b>>
    BY <1>2
  <2>2. PICK b \in v[i] : p = <<i, b>>
    BY <2>1
  <2>3. p[1] = i /\ p[2] = b
    BY <2>2
  <2> QED BY <1>1, <1>3, <2>2, <2>3
<1>5. ASSUME NEW p \in P, NEW q \in P, F[p] = F[q]
      PROVE  p = q
  <2>1. /\ At(F[p]) = p[1] /\ Pos(F[p]) = p[2]
        /\ At(F[q]) = q[1] /\ Pos(F[q]) = q[2]
    BY <1>4, Joined
  <2> QED BY <1>4, <1>5, <2>1
<1>6. ASSUME NEW id \in Ids(v)
      PROVE  \E p \in P : F[p] = id
  <2>1. PICK i \in DOMAIN v : \E b \in v[i] : id = (i - 1) * W + b
    BY <1>3
  <2>2. PICK b \in v[i] : id = (i - 1) * W + b
    BY <2>1
  <2>3. <<i, b>> \in P
    BY <1>2
  <2>4. F[<<i, b>>] = id
    BY <2>2, <2>3
  <2> QED BY <2>3, <2>4
<1>7. F \in Bijection(P, Ids(v))
  <2>1. F \in [P -> Ids(v)]
    BY <1>4
  <2> HIDE DEF F, P
  <2> QED BY <1>5, <1>6, <2>1 DEF Bijection, Injection, Surjection, IsInjective
<1>8. IsFiniteSet(P)
  <2>1. P \subseteq (1 .. Len(v)) \X (0 .. W - 1)
    BY <1>1, <1>2 DEF WordSeq
  <2>2. IsFiniteSet((1 .. Len(v)) \X (0 .. W - 1))
    <3>1. IsFiniteSet(1 .. Len(v)) /\ IsFiniteSet(0 .. W - 1)
      <4>1. Len(v) \in Int /\ W - 1 \in Int
        BY WordAssumption DEF WordSeq
      <4> QED BY <4>1, FS_Interval
    <3> QED BY <3>1, FS_Product
  <2> QED BY <2>1, <2>2, FS_Subset
<1>9. Ones(v) = Cardinality(P)
  BY DEF Ones
<1> HIDE DEF F, P
<1>10. ExistsBijection(P, Ids(v))
  BY <1>7 DEF ExistsBijection
<1> QED BY <1>8, <1>9, <1>10, FS_Bijection

(* Of two numbers of ids the larger needs no fewer words; words have room  *)
(* for their ids; and so many words have room for so many ids.             *)
LEMMA Room ==
  ASSUME NEW m \in Nat
  PROVE  /\ CeilDiv(m, W) \in Nat /\ m <= CeilDiv(m, W) * W
         /\ \A n \in Nat : m <= n => CeilDiv(m, W) <= CeilDiv(n, W)
         /\ \A id \in Nat : id < m => At(id) <= CeilDiv(m, W)
         /\ m = CeilDiv(m, W) * W \/ m < CeilDiv(m, W) * W
<1> DEFINE c(n) == (n + W - 1) \div W
<1>1. \A n \in Nat : c(n) \in Nat /\ c(n) * W <= n + W - 1 /\ n <= c(n) * W
  <2> SUFFICES ASSUME NEW n \in Nat
               PROVE  c(n) \in Nat /\ c(n) * W <= n + W - 1 /\ n <= c(n) * W
    OBVIOUS
  <2> DEFINE k == n + W - 1
             q == k \div W
  <2>1. k \in Nat /\ W \in Nat /\ W > 0
    BY WordAssumption
  <2>2. q \in Nat /\ W * q <= k /\ k < W * q + W
    BY <2>1
  <2>3. W * q = q * W /\ q * W \in Nat
    BY <2>1, <2>2
  <2> HIDE DEF q
  <2>4. q * W <= n + W - 1 /\ n <= q * W
    BY <2>1, <2>2, <2>3
  <2> QED BY <2>2, <2>4 DEF q
<1>2. CeilDiv(m, W) = c(m) /\ \A n \in Nat : CeilDiv(n, W) = c(n)
  BY DEF CeilDiv
<1>w. W \in Nat /\ W > 0
  BY WordAssumption
<1> HIDE DEF c
<1>3. ASSUME NEW a \in Nat, NEW b \in Nat, a * W < b * W + W
      PROVE  a <= b
  <2> SUFFICES ASSUME b < a PROVE FALSE
    OBVIOUS
  <2>1. PICK d \in Nat : a = b + 1 + d
    <3>1. a - b - 1 \in Nat /\ a = b + 1 + (a - b - 1)
      OBVIOUS
    <3> QED BY <3>1
  <2>2. a * W = b * W + W + d * W /\ d * W \in Nat /\ b * W \in Nat
    BY <1>w, <2>1
  <2> QED BY <1>w, <1>3, <2>2
<1>4. ASSUME NEW n \in Nat, m <= n
      PROVE  c(m) <= c(n)
  <2>1. c(m) \in Nat /\ c(n) \in Nat /\ c(m) * W \in Nat /\ c(n) * W \in Nat
    BY <1>1, <1>w
  <2>2. c(m) * W <= m + W - 1 /\ n <= c(n) * W
    BY <1>1
  <2>3. c(m) * W < c(n) * W + W
    BY <1>w, <1>4, <2>1, <2>2
  <2> QED BY <1>3, <2>1, <2>3
<1>5. ASSUME NEW id \in Nat, id < m
      PROVE  At(id) <= c(m)
  <2>1. At(id) \in Nat \ {0} /\ Pos(id) \in 0 .. W - 1 /\ id = (At(id) - 1) * W + Pos(id)
    BY Split
  <2>2. PICK a \in Nat : At(id) = a + 1
    <3>1. At(id) - 1 \in Nat /\ At(id) = (At(id) - 1) + 1
      BY <2>1
    <3> QED BY <3>1
  <2>3. (a + 1) * W = a * W + W /\ a * W \in Nat /\ id = a * W + Pos(id)
    BY <1>w, <2>1, <2>2
  <2>4. c(m) \in Nat /\ c(m) * W \in Nat /\ m <= c(m) * W
    BY <1>1, <1>w
  <2>5. (a + 1) * W < c(m) * W + W
    BY <1>w, <1>5, <2>1, <2>3, <2>4
  <2> QED BY <1>3, <2>2, <2>4, <2>5
<1>6. c(m) \in Nat /\ c(m) * W \in Nat /\ m <= c(m) * W
  BY <1>1, <1>w
<1> QED BY <1>2, <1>4, <1>5, <1>6

(* The ids of n words are those below n * W.                               *)
LEMMA Below ==
  ASSUME NEW n \in Nat, NEW id \in Nat
  PROVE  id < n * W <=> At(id) <= n
<1>w. W \in Nat /\ W > 0
  BY WordAssumption
<1>1. At(id) \in Nat \ {0} /\ Pos(id) \in 0 .. W - 1 /\ id = (At(id) - 1) * W + Pos(id)
  BY Split
<1>2. PICK a \in Nat : At(id) = a + 1
  <2>1. At(id) - 1 \in Nat /\ At(id) = (At(id) - 1) + 1
    BY <1>1
  <2> QED BY <2>1
<1>3. a * W \in Nat /\ n * W \in Nat /\ id = a * W + Pos(id)
  BY <1>w, <1>1, <1>2
<1>4. ASSUME a + 1 <= n
      PROVE  id < n * W
  <2>1. PICK d \in Nat : n = a + 1 + d
    <3>1. n - a - 1 \in Nat /\ n = a + 1 + (n - a - 1)
      BY <1>4
    <3> QED BY <3>1
  <2>2. n * W = a * W + W + d * W /\ d * W \in Nat
    BY <1>w, <2>1
  <2> QED BY <1>w, <1>1, <1>3, <2>2
<1>5. ASSUME n <= a
      PROVE  ~(id < n * W)
  <2>1. PICK d \in Nat : a = n + d
    <3>1. a - n \in Nat /\ a = n + (a - n)
      BY <1>5
    <3> QED BY <3>1
  <2>2. a * W = n * W + d * W /\ d * W \in Nat
    BY <1>w, <2>1
  <2> QED BY <1>w, <1>1, <1>3, <2>2
<1> QED BY <1>2, <1>4, <1>5

(* Packing ids into words keeps them.                                      *)
LEMMA PackedIds ==
  ASSUME NEW n \in Nat, NEW S \in SUBSET (0 .. n * W - 1)
  PROVE  Packed(S, n) \in WordSeq /\ Len(Packed(S, n)) = n /\ Ids(Packed(S, n)) = S
<1>1. /\ Packed(S, n) \in WordSeq /\ DOMAIN Packed(S, n) = 1 .. n /\ Len(Packed(S, n)) = n
      /\ \A i \in 1 .. n : \A b \in 0 .. W - 1 : b \in Packed(S, n)[i] <=> (i - 1) * W + b \in S
  BY DEF Packed, WordSeq
<1>2. n * W \in Nat
  BY WordAssumption
<1>3. ASSUME NEW id \in Nat
      PROVE  id \in Ids(Packed(S, n)) <=> id \in S
  <2>1. At(id) \in Nat \ {0} /\ Pos(id) \in 0 .. W - 1 /\ id = (At(id) - 1) * W + Pos(id)
    BY Split
  <2>2. At(id) \in 1 .. n => (Pos(id) \in Packed(S, n)[At(id)] <=> id \in S)
    BY <1>1, <2>1
  <2>3. id \in S => At(id) \in 1 .. n
    BY <1>2, <2>1, Below
  <2>4. id \in Ids(Packed(S, n)) <=> At(id) \in 1 .. n /\ Pos(id) \in Packed(S, n)[At(id)]
    BY <1>1, InIds
  <2> QED BY <2>2, <2>3, <2>4
<1>4. S \subseteq Nat
  BY <1>2
<1> QED BY <1>1, <1>3, <1>4, InIds

(* Words and'ed, and words less the other's, longer or shorter.            *)
LEMMA BothLess ==
  ASSUME NEW v \in WordSeq, NEW w \in WordSeq
  PROVE  /\ Both(v, w) \in WordSeq /\ Ids(Both(v, w)) = Ids(v) \intersect Ids(w)
         /\ Less(v, w) \in WordSeq /\ Ids(Less(v, w)) = Ids(v) \ Ids(w)
<1>1. /\ Len(v) \in Nat /\ Len(w) \in Nat /\ DOMAIN v = 1 .. Len(v) /\ DOMAIN w = 1 .. Len(w)
      /\ \A i \in DOMAIN v : v[i] \subseteq 0 .. W - 1
      /\ \A i \in DOMAIN w : w[i] \subseteq 0 .. W - 1
  BY DEF WordSeq
<1>2. Both(v, w) \in WordSeq
  BY <1>1 DEF Both, WordSeq, Smaller
<1>3. Less(v, w) \in WordSeq
  BY <1>1 DEF Less, WordSeq
<1>4. DOMAIN Both(v, w) = DOMAIN v \intersect DOMAIN w
  BY <1>1 DEF Both, Smaller
<1>5. \A i \in DOMAIN Both(v, w) : Both(v, w)[i] = v[i] \intersect w[i]
  BY DEF Both
<1>6. Ids(Both(v, w)) = Ids(v) \intersect Ids(w)
  <2>1. \A id \in Nat : id \in Ids(Both(v, w)) <=> id \in Ids(v) /\ id \in Ids(w)
    BY <1>2, <1>4, <1>5, InIds
  <2> QED BY <1>2, <2>1, InIds
<1>7. DOMAIN Less(v, w) = DOMAIN v /\ \A i \in DOMAIN v : Less(v, w)[i] = v[i] \ WordAt(w, i)
  BY DEF Less
<1>8. Ids(Less(v, w)) = Ids(v) \ Ids(w)
  <2>1. \A id \in Nat : id \in Ids(Less(v, w)) <=> id \in Ids(v) /\ id \notin Ids(w)
    BY <1>3, <1>7, InIds DEF WordAt
  <2> QED BY <1>3, <2>1, InIds
<1> QED BY <1>2, <1>3, <1>6, <1>8

-----------------------------------------------------------------------------
(* Reference sets                                                          *)

(* The reference set r is exactly the set m.                               *)
Holds(r, m) ==
  /\ r \in RefType /\ Len(r.bitmap) = CeilDiv(r.max_id, W)
  /\ Ids(r.bitmap) = m /\ (\A id \in m : id < r.max_id)
  /\ r.count = Cardinality(m)

(* What it answers is then right.                                          *)
LEMMA Answers ==
  ASSUME NEW r, NEW m, Holds(r, m)
  PROVE  /\ m \subseteq Nat /\ IsFiniteSet(m) /\ iter(r) = m
         /\ \A id \in Nat : contains(r, id) <=> id \in m
<1>1. r.bitmap \in WordSeq /\ r.max_id \in Nat
  BY DEF Holds, RefType, WordSeq
<1>2. m \subseteq Nat /\ IsFiniteSet(m)
  BY <1>1, InIds, OnesOfIds DEF Holds
<1>3. iter(r) = m
  BY DEF Holds, iter
<1>4. ASSUME NEW id \in Nat
      PROVE  contains(r, id) <=> id \in m
  <2>1. contains(r, id) <=> id < r.max_id /\ Pos(id) \in r.bitmap[At(id)]
    BY DEF contains, At, Pos
  <2>2. id \in m <=> At(id) \in DOMAIN r.bitmap /\ Pos(id) \in r.bitmap[At(id)]
    BY <1>1, InIds DEF Holds
  <2>3. id < r.max_id => At(id) \in DOMAIN r.bitmap
    <3>1. id < r.max_id => At(id) <= CeilDiv(r.max_id, W)
      BY <1>1, Room
    <3>2. At(id) \in Nat \ {0} /\ CeilDiv(r.max_id, W) \in Nat
      BY <1>1, Room, Split
    <3>3. DOMAIN r.bitmap = 1 .. CeilDiv(r.max_id, W)
      BY <1>1 DEF Holds, WordSeq
    <3> QED BY <3>1, <3>2, <3>3
  <2> QED BY <2>1, <2>2, <2>3 DEF Holds
<1> QED BY <1>2, <1>3, <1>4

(* A new one is empty.                                                     *)
LEMMA Emptied ==
  ASSUME NEW max \in Nat
  PROVE  Holds(with_capacity(max), {})
<1> DEFINE r == with_capacity(max)
           n == CeilDiv(max, W)
<1>1. n \in Nat
  BY Room
<1> HIDE DEF n
<1>2. r.bitmap = [i \in 1 .. n |-> {}] /\ r.max_id = max /\ r.count = 0 /\ r \in RefType
  BY <1>1 DEF with_capacity, RefType, n
<1>3. Len(r.bitmap) = n
  BY <1>1, <1>2
<1>4. Ids(r.bitmap) = {}
  BY <1>2 DEF Ids
<1> HIDE DEF r
<1>5. Holds(r, {})
  BY <1>2, <1>3, <1>4, FS_EmptySet DEF Holds, n
<1> QED BY <1>5 DEF r

(* Filled with words, it holds their ids.                                  *)
LEMMA FilledHolds ==
  ASSUME NEW max \in Nat, NEW words \in WordSeq, Len(words) = CeilDiv(max, W),
         \A id \in Ids(words) : id < max
  PROVE  Holds(Filled(max, words), Ids(words))
<1> DEFINE r == Filled(max, words)
           n == CeilDiv(max, W)
<1>1. n \in Nat /\ DOMAIN words = 1 .. n
  BY Room DEF WordSeq
<1>2. words = [i \in 1 .. n |-> WordAt(words, i)]
  <2>1. words = [i \in DOMAIN words |-> words[i]]
    BY DEF WordSeq
  <2>2. \A i \in 1 .. n : WordAt(words, i) = words[i]
    BY <1>1 DEF WordAt
  <2> QED BY <1>1, <2>1, <2>2
<1>3. Ones(words) \in Nat /\ Ones(words) = Cardinality(Ids(words))
  BY OnesOfIds, FS_CardinalityType
<1>4. r.bitmap = words /\ r.max_id = max /\ r.count = Ones(words) /\ r \in RefType
  <2>1. with_capacity(max) = [bitmap |-> [i \in 1 .. n |-> {}], max_id |-> max, count |-> 0]
    BY DEF with_capacity
  <2>2. DOMAIN (with_capacity(max).bitmap) = 1 .. n
    BY <2>1
  <2>3. r = [with_capacity(max) EXCEPT !.bitmap = [i \in 1 .. n |-> WordAt(words, i)], !.count = Ones(words)]
    BY <2>2 DEF Filled
  <2> DEFINE z == with_capacity(max)
             u == [i \in 1 .. n |-> WordAt(words, i)]
  <2>4. r = [z EXCEPT !.bitmap = u, !.count = Ones(words)]
    BY <2>3
  <2>5. u = words
    BY <1>2
  <2>6. z = [bitmap |-> [i \in 1 .. n |-> {}], max_id |-> max, count |-> 0]
    BY <2>1
  <2> HIDE DEF r, z, u, n
  <2>7. r = [bitmap |-> words, max_id |-> max, count |-> Ones(words)]
    BY <2>4, <2>5, <2>6
  <2> QED BY <1>3, <2>7, RefFields
<1> HIDE DEF r
<1>5. Holds(r, Ids(words))
  BY <1>3, <1>4 DEF Holds
<1> QED BY <1>5 DEF r

(* Some number of a set of them is the least, and Min is.                  *)
LEMMA LeastOf ==
  ASSUME NEW S \in SUBSET Nat, S # {}
  PROVE  Min(S) \in S /\ \A i \in S : Min(S) <= i
<1>1. PICK x \in S : \A y \in S : <<y, x>> \notin OpToRel(<, Nat)
  BY NatLessThanWellFounded, WFMin
<1>2. ASSUME NEW y \in S
      PROVE  x <= y
  <2>1. y < x => <<y, x>> \in {ss \in Nat \X Nat : ss[1] < ss[2]}
    OBVIOUS
  <2>2. ~(y < x)
    BY <1>1, <2>1 DEF OpToRel
  <2> QED BY <2>2
<1> QED BY <1>2 DEF Min

(* The bound is a number.                                                  *)
LEMMA LargestNat == Largest \in Nat
BY DEF Largest

(* The next power of two.                                                  *)
LEMMA NextPower ==
  ASSUME NEW n \in 1 .. Largest
  PROVE  NextPowerOfTwo(n) \in Nat /\ n <= NextPowerOfTwo(n)
<1> DEFINE S == {p \in PowersOfTwo : n <= p}
<1>1. S \subseteq Nat
  BY DEF PowersOfTwo, Largest
<1>2. Largest \in S
  BY DEF PowersOfTwo, S
<1> HIDE DEF S
<1>3. Min(S) \in S
  BY <1>1, <1>2, LeastOf
<1> QED BY <1>1, <1>3 DEF NextPowerOfTwo, S

(* Growing changes no id, and makes room.                                  *)
LEMMA GrownHolds ==
  ASSUME NEW r, NEW m, Holds(r, m), NEW id \in 0 .. Largest - 1
  PROVE  Holds(Grown(r, id), m) /\ id < Grown(r, id).max_id
<1> DEFINE g == Grown(r, id)
           n == NextPowerOfTwo(id + 1)
           k == CeilDiv(n, W)
           words == [i \in 1 .. k |-> WordAt(r.bitmap, i)]
<1>0. /\ r \in RefType /\ r.bitmap \in WordSeq /\ r.max_id \in Nat
      /\ DOMAIN r.bitmap = 1 .. CeilDiv(r.max_id, W)
  <2>1. r \in RefType /\ r.bitmap \in WordSeq /\ r.max_id \in Nat
    BY DEF Holds, RefType, WordSeq
  <2> QED BY <2>1 DEF Holds, WordSeq
<1>1. CASE id < r.max_id
  BY <1>1 DEF Grown
<1>2. CASE ~(id < r.max_id)
  <2>1. n \in Nat /\ id < n /\ r.max_id <= n
    <3>1. id + 1 \in 1 .. Largest
      BY LargestNat
    <3>2. n \in Nat /\ id + 1 <= n
      BY <3>1, NextPower
    <3> QED BY <1>0, <1>2, <3>2
  <2> HIDE DEF n
  <2>2. k \in Nat /\ CeilDiv(r.max_id, W) <= k /\ CeilDiv(r.max_id, W) \in Nat
    BY <1>0, <2>1, Room
  <2>3. g = [r EXCEPT !.bitmap = words, !.max_id = n]
    BY <1>2 DEF Grown, n
  <2> HIDE DEF k
  <2>4. words \in WordSeq /\ Len(words) = k /\ DOMAIN words = 1 .. k
    <3>1. \A i \in 1 .. k : WordAt(r.bitmap, i) \in SUBSET (0 .. W - 1)
      <4>1. \A i \in DOMAIN r.bitmap : r.bitmap[i] \in SUBSET (0 .. W - 1)
        BY <1>0, WordsOf
      <4> QED BY <4>1 DEF WordAt
    <3> QED BY <2>2, <3>1 DEF WordSeq
  <2>5. Ids(words) = Ids(r.bitmap)
    <3>1. ASSUME NEW j \in Nat
          PROVE  j \in Ids(words) <=> j \in Ids(r.bitmap)
      <4>1. j \in Ids(words) <=> At(j) \in 1 .. k /\ Pos(j) \in WordAt(r.bitmap, At(j))
        BY <2>4, InIds
      <4>2. j \in Ids(r.bitmap) <=> At(j) \in DOMAIN r.bitmap /\ Pos(j) \in r.bitmap[At(j)]
        BY <1>0, InIds
      <4> QED BY <1>0, <2>2, <4>1, <4>2 DEF WordAt
    <3> QED BY <1>0, <2>4, <3>1, InIds
  <2> HIDE DEF words
  <2>6. g.bitmap = words /\ g.max_id = n /\ g.count = r.count /\ g \in RefType
    BY <1>0, <2>1, <2>3, <2>4 DEF RefType, WordSeq
  <2>7. \A j \in m : j \in Nat /\ j < n
    BY <1>0, <2>1, InIds DEF Holds
  <2> HIDE DEF g
  <2>8. Holds(g, m) /\ id < g.max_id
    BY <2>1, <2>4, <2>5, <2>6, <2>7 DEF Holds, k
  <2> QED BY <2>8 DEF g
<1> QED BY <1>1, <1>2

(* insert() adds the id, remove() takes it out.                            *)
LEMMA InsertHolds ==
  ASSUME NEW r, NEW m, Holds(r, m), NEW id \in 0 .. Largest - 1
  PROVE  Holds(insert(r, id), m \union {id})
<1> DEFINE g == Grown(r, id)
           i == At(id)
           b == Pos(id)
           h == insert(r, id)
<1>1. Holds(g, m) /\ id < g.max_id
  BY GrownHolds
<1> HIDE DEF g
<1>2. /\ g \in RefType /\ g.bitmap \in WordSeq /\ g.max_id \in Nat /\ g.count \in Nat
      /\ DOMAIN g.bitmap = 1 .. Len(g.bitmap)
  BY <1>1 DEF Holds, RefType, WordSeq
<1>3. i \in DOMAIN g.bitmap /\ i \in Nat \ {0} /\ b \in 0 .. W - 1
  <2>1. i \in Nat \ {0} /\ b \in 0 .. W - 1
    BY Split
  <2>2. i <= CeilDiv(g.max_id, W) /\ CeilDiv(g.max_id, W) \in Nat
    BY <1>1, <1>2, Room
  <2> QED BY <1>1, <1>2, <2>1, <2>2 DEF Holds
<1>4. id \in m <=> b \in g.bitmap[i]
  BY <1>1, <1>2, <1>3, InIds DEF Holds
<1>5. h = IF b \in g.bitmap[i] THEN g
          ELSE [g EXCEPT !.bitmap[i] = g.bitmap[i] \union {b}, !.count = g.count + 1]
  BY DEF insert, At, Pos, g
<1>6. IsFiniteSet(m) /\ m \subseteq Nat
  BY <1>1, Answers
<1>7. CASE b \in g.bitmap[i]
  <2>1. m \union {id} = m
    BY <1>4, <1>7
  <2> QED BY <1>1, <1>5, <1>7, <2>1
<1>8. CASE b \notin g.bitmap[i]
  <2> DEFINE words == [g.bitmap EXCEPT ![i] = g.bitmap[i] \union {b}]
  <2> HIDE DEF i, b
  <2>1. h = [g EXCEPT !.bitmap = words, !.count = g.count + 1]
    BY <1>5, <1>8
  <2>2. words \in WordSeq /\ DOMAIN words = DOMAIN g.bitmap /\ Len(words) = Len(g.bitmap)
    BY <1>2, <1>3 DEF WordSeq
  <2>3. \A j \in DOMAIN words : words[j] = IF j = i THEN g.bitmap[i] \union {b} ELSE g.bitmap[j]
    BY <1>2
  <2>4. Ids(words) = m \union {id}
    <3>1. ASSUME NEW j \in Nat
          PROVE  j \in Ids(words) <=> j \in m \/ j = id
      <4>1. j \in Ids(words) <=> At(j) \in DOMAIN words /\ Pos(j) \in words[At(j)]
        BY <2>2, InIds
      <4>2. j \in m <=> At(j) \in DOMAIN g.bitmap /\ Pos(j) \in g.bitmap[At(j)]
        BY <1>1, <1>2, InIds DEF Holds
      <4>3. j = id <=> At(j) = i /\ Pos(j) = b
        <5>1. j = (At(j) - 1) * W + Pos(j) /\ id = (At(id) - 1) * W + Pos(id)
          BY Split
        <5> QED BY <5>1 DEF i, b
      <4> QED BY <1>3, <2>2, <2>3, <4>1, <4>2, <4>3
    <3>2. Ids(words) \subseteq Nat /\ id \in Nat
      BY <2>2, InIds
    <3> QED BY <1>6, <3>1, <3>2
  <2> HIDE DEF words
  <2>5. h.bitmap = words /\ h.max_id = g.max_id /\ h.count = g.count + 1 /\ h \in RefType
    <3> HIDE DEF h
    <3>1. g \in [bitmap : WordSeq, max_id : Nat, count : Nat]
      BY <1>2, RefFields
    <3>2. g.count + 1 \in Nat
      BY <1>2
    <3>3. h.bitmap = words /\ h.max_id = g.max_id /\ h.count = g.count + 1
      BY <2>1, <3>1
    <3>4. h \in [bitmap : WordSeq, max_id : Nat, count : Nat]
      BY <2>1, <2>2, <3>1, <3>2
    <3> QED BY <3>3, <3>4, RefFields
  <2>6. Cardinality(m \union {id}) = Cardinality(m) + 1
    BY <1>4, <1>6, <1>8, FS_AddElement
  <2> HIDE DEF h
  <2>7. Holds(h, m \union {id})
    BY <1>1, <2>2, <2>4, <2>5, <2>6 DEF Holds
  <2> QED BY <2>7 DEF h
<1> QED BY <1>7, <1>8

(* remove() takes the id out.                                              *)
LEMMA RemoveHolds ==
  ASSUME NEW r, NEW m, Holds(r, m), NEW id \in Nat
  PROVE  Holds(remove(r, id), m \ {id})
<1> DEFINE i == At(id)
           b == Pos(id)
           h == remove(r, id)
<1>2. /\ r \in RefType /\ r.bitmap \in WordSeq /\ r.max_id \in Nat /\ r.count \in Nat
      /\ DOMAIN r.bitmap = 1 .. Len(r.bitmap)
  BY DEF Holds, RefType, WordSeq
<1>3. i \in Nat \ {0} /\ b \in 0 .. W - 1
  BY Split
<1>4. /\ id \in m <=> i \in DOMAIN r.bitmap /\ b \in r.bitmap[i]
      /\ id \in m <=> contains(r, id)
  BY <1>2, InIds, Answers DEF Holds
<1>5. h = IF contains(r, id)
          THEN [r EXCEPT !.bitmap[i] = r.bitmap[i] \ {b}, !.count = r.count - 1] ELSE r
  BY DEF remove, At, Pos
<1>6. IsFiniteSet(m) /\ m \subseteq Nat
  BY Answers
<1>7. CASE id \notin m
  <2>1. m \ {id} = m
    BY <1>7
  <2> QED BY <1>4, <1>5, <1>7, <2>1
<1>8. CASE id \in m
  <2> DEFINE words == [r.bitmap EXCEPT ![i] = r.bitmap[i] \ {b}]
  <2> HIDE DEF i, b
  <2>1. h = [r EXCEPT !.bitmap = words, !.count = r.count - 1]
    BY <1>4, <1>5, <1>8
  <2>2. words \in WordSeq /\ DOMAIN words = DOMAIN r.bitmap /\ Len(words) = Len(r.bitmap)
    BY <1>2, <1>3, <1>4, <1>8 DEF WordSeq
  <2>3. \A j \in DOMAIN words : words[j] = IF j = i THEN r.bitmap[i] \ {b} ELSE r.bitmap[j]
    BY <1>2
  <2>4. Ids(words) = m \ {id}
    <3>1. ASSUME NEW j \in Nat
          PROVE  j \in Ids(words) <=> j \in m /\ j # id
      <4>1. j \in Ids(words) <=> At(j) \in DOMAIN words /\ Pos(j) \in words[At(j)]
        BY <2>2, InIds
      <4>2. j \in m <=> At(j) \in DOMAIN r.bitmap /\ Pos(j) \in r.bitmap[At(j)]
        BY <1>2, InIds DEF Holds
      <4>3. j = id <=> At(j) = i /\ Pos(j) = b
        <5>1. j = (At(j) - 1) * W + Pos(j) /\ id = (At(id) - 1) * W + Pos(id)
          BY Split
        <5> QED BY <5>1 DEF i, b
      <4> QED BY <1>3, <2>2, <2>3, <4>1, <4>2, <4>3
    <3> QED BY <1>6, <2>2, <3>1, InIds
  <2> HIDE DEF words
  <2>5. Cardinality(m \ {id}) = Cardinality(m) - 1
    BY <1>6, <1>8, FS_RemoveElement
  <2>6. r.count - 1 \in Nat
    <3>1. Cardinality(m \ {id}) \in Nat
      BY <1>6, FS_RemoveElement, FS_CardinalityType
    <3> QED BY <2>5, <3>1 DEF Holds
  <2>7. h.bitmap = words /\ h.max_id = r.max_id /\ h.count = r.count - 1 /\ h \in RefType
    BY <1>2, <2>1, <2>2, <2>6 DEF RefType, WordSeq
  <2> HIDE DEF h
  <2>8. Holds(h, m \ {id})
    BY <2>2, <2>4, <2>5, <2>7 DEF Holds
  <2> QED BY <2>8 DEF h
<1> QED BY <1>7, <1>8

(* What the proofs below need of a set that is held.                       *)
LEMMA HeldFacts ==
  ASSUME NEW r, NEW m, Holds(r, m)
  PROVE  /\ r.bitmap \in WordSeq /\ r.max_id \in Nat /\ Ids(r.bitmap) = m
         /\ DOMAIN r.bitmap = 1 .. Len(r.bitmap) /\ Len(r.bitmap) \in Nat
         /\ Len(r.bitmap) = CeilDiv(r.max_id, W)
         /\ \A id \in m : id < r.max_id
BY WordsOf, RefFields DEF Holds

(* Of two maxima, the words of the smaller and of the larger.              *)
LEMMA Sizes ==
  ASSUME NEW m \in Nat, NEW n \in Nat
  PROVE  /\ Smaller(m, n) \in Nat /\ Larger(m, n) \in Nat
         /\ Smaller(CeilDiv(m, W), CeilDiv(n, W)) = CeilDiv(Smaller(m, n), W)
         /\ Larger(CeilDiv(m, W), CeilDiv(n, W)) = CeilDiv(Larger(m, n), W)
<1>1. /\ CeilDiv(m, W) \in Nat /\ CeilDiv(n, W) \in Nat
      /\ m <= n => CeilDiv(m, W) <= CeilDiv(n, W)
      /\ n <= m => CeilDiv(n, W) <= CeilDiv(m, W)
  BY Room
<1> QED BY <1>1 DEF Smaller, Larger

(* Intersection, union and difference of reference sets are those of sets. *)
LEMMA Combined ==
  ASSUME NEW r, NEW m, Holds(r, m), NEW s, NEW k, Holds(s, k)
  PROVE  /\ Holds(intersection(r, s), m \intersect k)
         /\ Holds(union(r, s), m \union k)
         /\ Holds(difference(r, s), m \ k)
<1>r. /\ r.bitmap \in WordSeq /\ r.max_id \in Nat /\ Ids(r.bitmap) = m
      /\ DOMAIN r.bitmap = 1 .. Len(r.bitmap) /\ Len(r.bitmap) \in Nat
      /\ Len(r.bitmap) = CeilDiv(r.max_id, W)
      /\ \A id \in m : id < r.max_id
  BY HeldFacts
<1>s. /\ s.bitmap \in WordSeq /\ s.max_id \in Nat /\ Ids(s.bitmap) = k
      /\ DOMAIN s.bitmap = 1 .. Len(s.bitmap) /\ Len(s.bitmap) \in Nat
      /\ Len(s.bitmap) = CeilDiv(s.max_id, W)
      /\ \A id \in k : id < s.max_id
  BY HeldFacts
<1>n. m \subseteq Nat /\ k \subseteq Nat
  BY Answers
<1>1. Holds(intersection(r, s), m \intersect k)
  <2> DEFINE v == Both(r.bitmap, s.bitmap)
             max == Smaller(r.max_id, s.max_id)
  <2>1. v \in WordSeq /\ Ids(v) = m \intersect k
    BY <1>r, <1>s, BothLess
  <2>2. max \in Nat /\ Smaller(Len(r.bitmap), Len(s.bitmap)) = CeilDiv(max, W)
    BY <1>r, <1>s, Sizes
  <2>3. Smaller(Len(r.bitmap), Len(s.bitmap)) \in Nat
    BY <1>r, <1>s DEF Smaller
  <2>4. Len(v) = CeilDiv(max, W)
    BY <2>2, <2>3 DEF Both
  <2>5. \A id \in m \intersect k : id < max
    BY <1>r, <1>s, <1>n DEF Smaller
  <2>6. intersection(r, s) = Filled(max, v)
    BY DEF intersection, Both
  <2> HIDE DEF v, max
  <2> QED BY <2>1, <2>2, <2>4, <2>5, <2>6, FilledHolds
<1>2. Holds(union(r, s), m \union k)
  <2> DEFINE n == Larger(Len(r.bitmap), Len(s.bitmap))
             v == [i \in 1 .. n |-> WordAt(r.bitmap, i) \union WordAt(s.bitmap, i)]
             max == Larger(r.max_id, s.max_id)
  <2>1. n \in Nat /\ Len(r.bitmap) <= n /\ Len(s.bitmap) <= n
    BY <1>r, <1>s DEF Larger
  <2>2. max \in Nat /\ n = CeilDiv(max, W)
    BY <1>r, <1>s, Sizes
  <2>3. \A i : WordAt(r.bitmap, i) \in SUBSET (0 .. W - 1) /\ WordAt(s.bitmap, i) \in SUBSET (0 .. W - 1)
    BY <1>r, <1>s, WordsOf DEF WordAt
  <2>6. union(r, s) = Filled(max, v)
    BY DEF union
  <2>5. \A id \in m \union k : id < max
    BY <1>r, <1>s, <1>n DEF Larger
  <2> HIDE DEF n, max
  <2>4. v \in WordSeq /\ Len(v) = n /\ DOMAIN v = 1 .. n
    BY <2>1, <2>3 DEF WordSeq
  <2>7. Ids(v) = m \union k
    <3>1. ASSUME NEW j \in Nat
          PROVE  j \in Ids(v) <=> j \in m \/ j \in k
      <4>1. j \in Ids(v) <=> At(j) \in 1 .. n /\ Pos(j) \in WordAt(r.bitmap, At(j)) \union WordAt(s.bitmap, At(j))
        BY <2>4, InIds
      <4>2. j \in m <=> At(j) \in DOMAIN r.bitmap /\ Pos(j) \in r.bitmap[At(j)]
        BY <1>r, InIds
      <4>3. j \in k <=> At(j) \in DOMAIN s.bitmap /\ Pos(j) \in s.bitmap[At(j)]
        BY <1>s, InIds
      <4>4. (At(j) \in DOMAIN r.bitmap \/ At(j) \in DOMAIN s.bitmap) => At(j) \in 1 .. n
        BY <1>r, <1>s, <2>1
      <4> QED BY <4>1, <4>2, <4>3, <4>4 DEF WordAt
    <3>2. Ids(v) \subseteq Nat
      BY <2>4, InIds
    <3> QED BY <1>n, <3>1, <3>2
  <2> HIDE DEF v
  <2> QED BY <2>2, <2>4, <2>5, <2>6, <2>7, FilledHolds
<1>3. Holds(difference(r, s), m \ k)
  <2> DEFINE v == Less(r.bitmap, s.bitmap)
             max == r.max_id
  <2>1. v \in WordSeq /\ Ids(v) = m \ k
    BY <1>r, <1>s, BothLess
  <2>2. Len(v) = CeilDiv(max, W)
    BY <1>r DEF Less
  <2>3. difference(r, s) = Filled(max, v)
    BY DEF difference, Less
  <2> HIDE DEF v
  <2> QED BY <1>r, <2>1, <2>2, <2>3, FilledHolds
<1> QED BY <1>1, <1>2, <1>3

-----------------------------------------------------------------------------
(* from_iter                                                               *)

(* FoldSet inserts the ids in some order: that of Pick.  Folded says that g *)
(* is what it makes of every subset of T.                                  *)
Pick(s) == CHOOSE x \in s : TRUE
Folded(g, T, base) == g = [s \in SUBSET T |-> IF s = {} THEN base ELSE insert(g[s \ {Pick(s)}], Pick(s))]

(* Of the subsets of a finite set that are in X, one has no part in X.     *)
LEMMA LeastSubset ==
  ASSUME NEW T, IsFiniteSet(T), NEW X \in SUBSET SUBSET T, X # {}
  PROVE  \E s \in X : \A u \in SUBSET s : u # s => u \notin X
<1>1. IsWellFoundedOn(StrictSubsetOrdering(T), SUBSET T)
  BY FS_StrictSubsetOrderingWellFounded, FS_FiniteSubsetsOfFinite
<1>2. PICK s \in X : \A u \in X : ~ (<<u, s>> \in StrictSubsetOrdering(T))
  BY <1>1, WFMin
<1>3. ASSUME NEW u \in SUBSET s, u # s, u \in X
      PROVE  FALSE
  <2>1. u \in SUBSET T /\ s \in SUBSET T
    OBVIOUS
  <2>2. <<u, s>>[1] = u /\ <<u, s>>[2] = s
    OBVIOUS
  <2>3. <<u, s>> \in StrictSubsetOrdering(T)
    BY <1>3, <2>1, <2>2 DEF StrictSubsetOrdering
  <2> QED BY <1>2, <1>3, <2>3
<1> QED BY <1>3

(* A set with an element is larger than it is without the one picked.      *)
LEMMA PickFrom ==
  ASSUME NEW s, s # {}
  PROVE  Pick(s) \in s /\ s \ {Pick(s)} \in SUBSET s /\ s \ {Pick(s)} # s
BY DEF Pick

(* Two that fold the same fold alike.                                      *)
LEMMA FoldsAlike ==
  ASSUME NEW T, IsFiniteSet(T), NEW base, NEW g, NEW h, Folded(g, T, base), Folded(h, T, base)
  PROVE  \A s \in SUBSET T : g[s] = h[s]
<1> DEFINE X == {s \in SUBSET T : g[s] # h[s]}
<1> SUFFICES ASSUME X # {} PROVE FALSE
  OBVIOUS
<1>1. PICK s \in X : \A u \in SUBSET s : u # s => u \notin X
  <2>1. X \in SUBSET SUBSET T
    OBVIOUS
  <2> HIDE DEF X
  <2> QED BY <2>1, LeastSubset
<1>2. \A u \in SUBSET T : /\ g[u] = IF u = {} THEN base ELSE insert(g[u \ {Pick(u)}], Pick(u))
                          /\ h[u] = IF u = {} THEN base ELSE insert(h[u \ {Pick(u)}], Pick(u))
  BY DEF Folded
<1>3. s \in SUBSET T /\ g[s] # h[s]
  BY <1>1
<1>4. s # {}
  BY <1>2, <1>3
<1>5. g[s \ {Pick(s)}] = h[s \ {Pick(s)}]
  BY <1>1, <1>3, <1>4, PickFrom
<1> QED BY <1>2, <1>3, <1>4, <1>5

(* What folds a set folds its subsets.                                     *)
LEMMA FoldsParts ==
  ASSUME NEW T, NEW base, NEW g, Folded(g, T, base), NEW u \in SUBSET T
  PROVE  Folded([s \in SUBSET u |-> g[s]], u, base)
<1> DEFINE h == [s \in SUBSET u |-> g[s]]
<1>1. \A s \in SUBSET T : g[s] = IF s = {} THEN base ELSE insert(g[s \ {Pick(s)}], Pick(s))
  BY DEF Folded
<1>2. \A s \in SUBSET u : s # {} => s \ {Pick(s)} \in SUBSET u
  BY PickFrom
<1>3. \A s \in SUBSET u : g[s] = IF s = {} THEN base ELSE insert(h[s \ {Pick(s)}], Pick(s))
  BY <1>1, <1>2
<1>4. h = [s \in SUBSET u |-> IF s = {} THEN base ELSE insert(h[s \ {Pick(s)}], Pick(s))]
  BY <1>3
<1> QED BY <1>4 DEF Folded

(* Every finite set is folded by some function.                            *)
LEMMA Foldable ==
  ASSUME NEW T, IsFiniteSet(T), NEW base
  PROVE  \E g : Folded(g, T, base)
<1> DEFINE X == {s \in SUBSET T : ~ \E g : Folded(g, s, base)}
           fold(u) == CHOOSE g : Folded(g, u, base)
<1> SUFFICES ASSUME X # {} PROVE FALSE
  OBVIOUS
<1>1. PICK s \in X : \A u \in SUBSET s : u # s => u \notin X
  <2>1. X \in SUBSET SUBSET T
    OBVIOUS
  <2> HIDE DEF X
  <2> QED BY <2>1, LeastSubset
<1>2. s \in SUBSET T /\ ~ \E g : Folded(g, s, base)
  BY <1>1
<1>3. ASSUME NEW u \in SUBSET s, u # s
      PROVE  Folded(fold(u), u, base)
  BY <1>1, <1>2, <1>3
<1> DEFINE G == [v \in SUBSET s |-> IF v = {} THEN base
                                    ELSE insert(fold(v \ {Pick(v)})[v \ {Pick(v)}], Pick(v))]
<1>4. ASSUME NEW w \in SUBSET s, w # s
      PROVE  G[w] = fold(w)[w]
  <2>1. Folded(fold(w), w, base)
    BY <1>3, <1>4
  <2>2. fold(w)[w] = IF w = {} THEN base ELSE insert(fold(w)[w \ {Pick(w)}], Pick(w))
    <3> HIDE DEF fold
    <3> QED BY <2>1 DEF Folded
  <2>3. ASSUME w # {}
        PROVE  fold(w)[w \ {Pick(w)}] = fold(w \ {Pick(w)})[w \ {Pick(w)}]
    <3> DEFINE v == w \ {Pick(w)}
    <3>1. v \in SUBSET w /\ v # w /\ v \in SUBSET s /\ v # s
      BY <1>4, <2>3, PickFrom
    <3> HIDE DEF v
    <3>2. Folded(fold(v), v, base)
      BY <1>3, <3>1
    <3> HIDE DEF fold
    <3>3. Folded([x \in SUBSET v |-> fold(w)[x]], v, base)
      BY <2>1, <3>1, FoldsParts
    <3>4. IsFiniteSet(v)
      BY <1>2, <3>1, FS_Subset
    <3>5. [x \in SUBSET v |-> fold(w)[x]][v] = fold(v)[v]
      BY <3>2, <3>3, <3>4, FoldsAlike
    <3> QED BY <3>5 DEF v
  <2> HIDE DEF fold
  <2> QED BY <2>2, <2>3
<1> HIDE DEF fold
<1>5. ASSUME NEW v \in SUBSET s, v # {}
      PROVE  G[v \ {Pick(v)}] = fold(v \ {Pick(v)})[v \ {Pick(v)}]
  <2> DEFINE w == v \ {Pick(v)}
  <2>1. w \in SUBSET s /\ w # s
    BY <1>5, PickFrom
  <2> HIDE DEF w, G
  <2>2. G[w] = fold(w)[w]
    BY <1>4, <2>1
  <2> QED BY <2>2 DEF w
<1>6. G = [v \in SUBSET s |-> IF v = {} THEN base ELSE insert(G[v \ {Pick(v)}], Pick(v))]
  BY <1>5
<1>7. Folded(G, s, base)
  <2> HIDE DEF G
  <2> QED BY <1>6 DEF Folded
<1> QED BY <1>2, <1>7

(* A set of ids, inserted one by one, is held.                             *)
THEOREM FromIterHolds ==
  ASSUME NEW S \in SUBSET (0 .. Largest - 1)
  PROVE  Holds(from_iter(S), S)
<1> DEFINE base == with_capacity(Max(S \union {0}) + 1)
<1>0. IsFiniteSet(S) /\ S \subseteq Nat
  <2>1. 0 \in Int /\ Largest - 1 \in Int /\ 0 .. Largest - 1 \subseteq Nat
    BY LargestNat
  <2>2. IsFiniteSet(0 .. Largest - 1)
    BY <2>1, FS_Interval
  <2> HIDE DEF base
  <2> QED BY <2>1, <2>2, FS_Subset
<1>1. Holds(base, {})
  <2>1. Max(S \union {0}) \in Nat
    <3> DEFINE T == S \union {0}
               U == {n \in Nat : \A i \in T : i <= n}
    <3>1. U \in SUBSET Nat /\ Largest \in U
      BY LargestNat
    <3> HIDE DEF U
    <3>2. Min(U) \in U /\ \A n \in U : Min(U) <= n
      BY <3>1, LeastOf
    <3>3. PICK m : m = Min(U)
      OBVIOUS
    <3> USE DEF U
    <3>4. m \in Nat /\ (\A i \in T : i <= m) /\ \A n \in Nat : (\A i \in T : i <= n) => m <= n
      BY <3>2, <3>3
    <3>5. m \in T
      <4>1. CASE m = 0
        BY <4>1
      <4>2. CASE m # 0
        <5>1. m - 1 \in Nat /\ ~(m <= m - 1)
          BY <3>4, <4>2
        <5>2. PICK i \in T : ~(i <= m - 1)
          BY <3>4, <5>1
        <5>3. i \in Nat /\ i <= m
          BY <1>0, <3>4
        <5>4. i = m
          BY <3>4, <5>2, <5>3
        <5> QED BY <5>2, <5>4
      <4> QED BY <4>1, <4>2
    <3>6. \E x \in T : \A y \in T : x >= y
      <4>1. \A y \in T : m >= y
        BY <1>0, <3>4
      <4> QED BY <3>5, <4>1
    <3>7. Max(T) \in T
      <4> HIDE DEF T
      <4> QED BY <3>6 DEF Max
    <3>8. T \subseteq Nat
      BY <1>0
    <3>9. Max(T) \in Nat
      <4> HIDE DEF T
      <4> QED BY <3>7, <3>8
    <3> QED BY <3>9
  <2> QED BY <2>1, Emptied
<1> HIDE DEF base
<1>2. from_iter(S) = (CHOOSE g : Folded(g, S, base))[S]
  BY DEF from_iter, FoldSet, MapThenFoldSet, Folded, Pick, base
<1>3. PICK g : Folded(g, S, base) /\ from_iter(S) = g[S]
  BY <1>0, <1>2, Foldable
<1>4. \A s \in SUBSET S : g[s] = IF s = {} THEN base ELSE insert(g[s \ {Pick(s)}], Pick(s))
  BY <1>3 DEF Folded
<1> DEFINE X == {s \in SUBSET S : ~ Holds(g[s], s)}
<1>5. X = {}
  <2> SUFFICES ASSUME X # {} PROVE FALSE
    OBVIOUS
  <2>1. PICK s \in X : \A u \in SUBSET s : u # s => u \notin X
    <3>1. X \in SUBSET SUBSET S
      OBVIOUS
    <3> HIDE DEF X
    <3> QED BY <1>0, <3>1, LeastSubset
  <2>2. s \in SUBSET S /\ ~ Holds(g[s], s)
    BY <2>1
  <2>3. s # {}
    BY <1>1, <1>4, <2>2
  <2> DEFINE u == s \ {Pick(s)}
  <2>p. Pick(s) \in s /\ u \in SUBSET s /\ u # s
    BY <2>3, PickFrom
  <2>q. g[s] = insert(g[u], Pick(s))
    BY <1>4, <2>2, <2>3
  <2>4. u \union {Pick(s)} = s /\ Pick(s) \in 0 .. Largest - 1 /\ u \in SUBSET S
    BY <2>2, <2>p
  <2> HIDE DEF u
  <2>5. Holds(g[u], u)
    BY <2>1, <2>4, <2>p
  <2>6. Holds(insert(g[u], Pick(s)), s)
    BY <2>4, <2>5, InsertHolds
  <2> QED BY <2>2, <2>6, <2>q
<1> QED BY <1>3, <1>5

-----------------------------------------------------------------------------
(* Snapshots, and what is found by comparing                               *)

(* A snapshot has whole words, and its capacity is theirs.                 *)
Whole(s) == s.data \in WordSeq /\ s.capacity = Len(s.data) * W

(* Its ids are those of its words.                                         *)
LEMMA WholeIds ==
  ASSUME NEW s, Whole(s)
  PROVE  /\ iter_set(s) = Ids(s.data) /\ IsFiniteSet(iter_set(s)) /\ iter_set(s) \subseteq Nat
         /\ \A id \in Nat : test(s, id) <=> id \in iter_set(s)
         /\ \A from, to \in Nat : count_range(s, from, to) = Cardinality({i \in iter_set(s) : from <= i /\ i < to})
<1>0. s.data \in WordSeq /\ Len(s.data) \in Nat /\ DOMAIN s.data = 1 .. Len(s.data)
  BY WordsOf DEF Whole
<1>c. s.capacity \in Nat
  BY <1>0, WordAssumption DEF Whole
<1>1. Ids(s.data) \subseteq Nat /\ \A id \in Nat : id \in Ids(s.data) <=> At(id) \in DOMAIN s.data /\ Pos(id) \in s.data[At(id)]
  BY <1>0, InIds
<1>2. \A id \in Nat : At(id) \in DOMAIN s.data => id < s.capacity
  BY <1>0, Below DEF Whole
<1>3. iter_set(s) = Ids(s.data)
  BY <1>1, <1>2 DEF iter_set
<1>4. \A id \in Nat : test(s, id) <=> id \in iter_set(s)
  BY <1>1, <1>2, <1>3 DEF test, At, Pos
<1>5. IsFiniteSet(iter_set(s))
  BY <1>0, <1>3, OnesOfIds
<1>6. ASSUME NEW from \in Nat, NEW to \in Nat
      PROVE  count_range(s, from, to) = Cardinality({i \in iter_set(s) : from <= i /\ i < to})
  <2>1. \A id \in iter_set(s) : id \in Nat /\ id < s.capacity
    BY <1>1, <1>2, <1>3
  <2>2. {id \in from .. Smaller(to, s.capacity) - 1 : test(s, id)} = {i \in iter_set(s) : from <= i /\ i < to}
    BY <1>c, <1>4, <2>1 DEF Smaller
  <2> QED BY <2>2 DEF count_range
<1> QED BY <1>1, <1>3, <1>4, <1>5, <1>6

(* Two snapshots, compared; and a reference set with a snapshot.           *)
LEMMA Compared ==
  ASSUME NEW s, Whole(s), NEW t, Whole(t)
  PROVE  LET held == iter_set(s)  others == iter_set(t)
         IN  /\ snapshot_intersection(s, t) = held \intersect others
             /\ snapshot_difference(s, t) = held \ others
             /\ snapshot_intersection_count(s, t) = Cardinality(held \intersect others)
             /\ snapshot_difference_count(s, t) = Cardinality(held \ others)
<1>1. s.data \in WordSeq /\ t.data \in WordSeq /\ iter_set(s) = Ids(s.data) /\ iter_set(t) = Ids(t.data)
  BY WholeIds DEF Whole
<1>2. /\ Both(s.data, t.data) \in WordSeq /\ Ids(Both(s.data, t.data)) = iter_set(s) \intersect iter_set(t)
      /\ Less(s.data, t.data) \in WordSeq /\ Ids(Less(s.data, t.data)) = iter_set(s) \ iter_set(t)
  BY <1>1, BothLess
<1>3. /\ Ones(Both(s.data, t.data)) = Cardinality(iter_set(s) \intersect iter_set(t))
      /\ Ones(Less(s.data, t.data)) = Cardinality(iter_set(s) \ iter_set(t))
  BY <1>2, OnesOfIds
<1> QED BY <1>2, <1>3 DEF snapshot_intersection, snapshot_difference, snapshot_intersection_count,
          snapshot_difference_count

(* A reference set, compared with a snapshot.                              *)
LEMMA ComparedReference ==
  ASSUME NEW r, NEW m, Holds(r, m), NEW s, Whole(s)
  PROVE  LET held == iter_set(s)
         IN  /\ missing_in(r, s) = m \ held /\ existing_in(r, s) = m \intersect held
             /\ count_missing_in(r, s) = Cardinality(m \ held)
<1> DEFINE v == r.bitmap
           w == s.data
           held == Ids(w)
<1>1. /\ v \in WordSeq /\ w \in WordSeq /\ iter_set(s) = held
      /\ Ids(v) = m /\ m \subseteq Nat /\ IsFiniteSet(m) /\ r.count = Cardinality(m)
  BY HeldFacts, Answers, WholeIds DEF Whole, Holds
<1>2. Both(v, w) \in WordSeq /\ Ids(Both(v, w)) = m \intersect held
  BY <1>1, BothLess
<1>3. existing_in(r, s) = m \intersect held
  BY <1>2 DEF existing_in
<1>4. count_missing_in(r, s) = Cardinality(m \ held)
  <2>1. count_existing_in(r, s) = Cardinality(m \intersect held)
    BY <1>2, OnesOfIds DEF count_existing_in
  <2>2. Cardinality(m \ held) = Cardinality(m) - Cardinality(m \intersect held)
    BY <1>1, FS_Difference
  <2> QED BY <1>1, <2>1, <2>2 DEF count_missing_in
<1>5. missing_in(r, s) = m \ held
  <2> DEFINE common == 1 .. Smaller(Len(v), Len(w))
             x == [i \in common |-> v[i] \ w[i]]
             y == [i \in DOMAIN v |-> IF i \in common THEN {} ELSE v[i]]
  <2>1. missing_in(r, s) = Ids(x) \union Ids(y)
    BY DEF missing_in
  <2>2. /\ DOMAIN v = 1 .. Len(v) /\ Len(v) \in Nat /\ DOMAIN w = 1 .. Len(w) /\ Len(w) \in Nat
        /\ \A i \in DOMAIN v : v[i] \in SUBSET (0 .. W - 1)
    BY <1>1, WordsOf
  <2> HIDE DEF v, w
  <2>3. common = DOMAIN v \intersect DOMAIN w /\ Smaller(Len(v), Len(w)) \in Nat
    BY <2>2 DEF Smaller
  <2>4. x \in WordSeq /\ DOMAIN x = common
    BY <2>2, <2>3 DEF WordSeq
  <2>5. y \in WordSeq /\ DOMAIN y = DOMAIN v
    <3>1. \A i \in DOMAIN v : (IF i \in common THEN {} ELSE v[i]) \in SUBSET (0 .. W - 1)
      BY <2>2
    <3> HIDE DEF common
    <3> QED BY <2>2, <3>1 DEF WordSeq
  <2>6. ASSUME NEW j \in Nat
        PROVE  j \in Ids(x) \union Ids(y) <=> j \in m /\ j \notin held
    <3>1. j \in Ids(x) <=> At(j) \in common /\ Pos(j) \in v[At(j)] /\ Pos(j) \notin w[At(j)]
      BY <2>4, InIds
    <3>2. j \in Ids(y) <=> At(j) \in DOMAIN v /\ At(j) \notin common /\ Pos(j) \in v[At(j)]
      BY <2>5, InIds
    <3>3. j \in m <=> At(j) \in DOMAIN v /\ Pos(j) \in v[At(j)]
      BY <1>1, InIds
    <3>4. j \in held <=> At(j) \in DOMAIN w /\ Pos(j) \in w[At(j)]
      BY <1>1, InIds
    <3> QED BY <2>3, <3>1, <3>2, <3>3, <3>4
  <2>7. Ids(x) \subseteq Nat /\ Ids(y) \subseteq Nat
    BY <2>4, <2>5, InIds
  <2> QED BY <1>1, <2>1, <2>6, <2>7
<1> QED BY <1>1, <1>3, <1>4, <1>5

-----------------------------------------------------------------------------
(* Types                                                                   *)

TrackerType == [prefix : Prefix, max : Nat \union {None}, words : Nat, bits : SUBSET Nat]

CallType == [op : OpName \union {"none"}, at : Nat, lo : Nat, hi : Nat,
             todo : SUBSET Nat, got : SUBSET Nat, n : Nat]

HistType == [before : SUBSET Nat, want : SUBSET Nat, flips : SUBSET Nat, touched : SUBSET Nat,
             always : SUBSET Nat, ever : SUBSET Nat, kept : SUBSET Nat, met : SUBSET Nat]

(* A tracker has room for its bits, and for all ids below its max_id.      *)
Fits(t) == (\A i \in t.bits : i < capacity(t)) /\ effective_max_id(t) <= capacity(t)

(* The trackers that were made and who holds which.                        *)
TrackersOK ==
  /\ trackers \in Seq(TrackerType) /\ Len(trackers) \in 1 .. MaxTrackers
  /\ \A k \in DOMAIN trackers : Fits(trackers[k])
  /\ arc \in [Caller -> DOMAIN trackers]

(* What is registered under a prefix has it, and what was not taken out is *)
(* registered.                                                             *)
RegistryOK ==
  /\ registry \in [Prefix -> DOMAIN trackers \union {None}] /\ gone \subseteq DOMAIN trackers
  /\ \A p \in Prefix : registry[p] # None => trackers[registry[p]].prefix = p
  /\ \A k \in DOMAIN trackers \ gone : registry[trackers[k].prefix] = k

RangeOps == {"add_range", "remove_range", "populate_with_profile"}

(* The calls: that a range ends within the tracker, and that there is an   *)
(* id to do for as long as they go on id by id.                            *)
CallsOK ==
  /\ ops \in [Caller -> SUBSET OpName]
  /\ pc \in [Caller -> {"idle", "words", "ids", "shards", "return", "panicked"}]
  /\ call \in [Caller -> CallType] /\ hist \in [Caller -> HistType] /\ calls \in [Caller -> Nat]
  /\ \A c \in Caller : /\ pc[c] = "idle" => call[c] = Blank /\ hist[c] = Calm
                       /\ pc[c] = "words" /\ call[c].op \in RangeOps => call[c].hi <= capacity(Mine(c))
                       /\ pc[c] = "ids" => call[c].todo # {}

(* The reference sets and the snapshots.                                   *)
SetsOK ==
  /\ DOMAIN ref = Caller /\ DOMAIN meant = Caller /\ DOMAIN snap = Caller
  /\ \A c \in Caller : Holds(ref[c], meant[c]) /\ Whole(snap[c])

Typed == TrackersOK /\ RegistryOK /\ CallsOK /\ SetsOK

(* The fields of a tracker.                                                *)
LEMMA TrackerFacts ==
  ASSUME NEW t \in TrackerType
  PROVE  /\ t.prefix \in Prefix /\ t.max \in Nat \union {None} /\ t.words \in Nat /\ t.bits \subseteq Nat
         /\ capacity(t) \in Nat /\ effective_max_id(t) \in Nat
<1>1. t.prefix \in Prefix /\ t.max \in Nat \union {None} /\ t.words \in Nat /\ t.bits \subseteq Nat
  BY DEF TrackerType
<1>2. capacity(t) \in Nat
  BY <1>1, WordAssumption DEF capacity
<1> QED BY <1>1, <1>2 DEF effective_max_id

(* A new tracker has room for its ids.                                     *)
LEMMA NewFits ==
  ASSUME NEW p \in Prefix, NEW config \in Config
  PROVE  New(p, config) \in TrackerType /\ New(p, config).prefix = p /\ Fits(New(p, config))
<1> DEFINE t == New(p, config)
           n == IF config.max = None THEN config.initial ELSE config.max
           w == CeilDiv(Larger(n, W), W)
<1>1. config.max \in Nat \union {None} /\ config.initial \in Nat
  BY DEF Config
<1>2. n \in Nat /\ n <= Larger(n, W) /\ Larger(n, W) \in Nat
  BY <1>1, WordAssumption DEF Larger
<1> HIDE DEF n
<1>3. w \in Nat /\ Larger(n, W) <= w * W /\ w * W \in Nat
  <2>1. w \in Nat /\ Larger(n, W) <= w * W
    BY <1>2, Room
  <2> HIDE DEF w
  <2> QED BY <2>1, WordAssumption
<1>4. t = [prefix |-> p, max |-> config.max, words |-> w, bits |-> {}]
  BY DEF New, n
<1> HIDE DEF t, w
<1>5. t.bits = {} /\ t.max = config.max /\ t.words = w /\ t.prefix = p /\ t \in TrackerType
  BY <1>1, <1>3, <1>4 DEF TrackerType
<1>6. capacity(t) = w * W
  BY <1>5 DEF capacity
<1>7. effective_max_id(t) <= capacity(t)
  <2>1. CASE t.max = None
    BY <1>3, <1>6, <2>1 DEF effective_max_id
  <2>2. CASE t.max # None
    BY <1>2, <1>3, <1>5, <1>6, <2>2 DEF effective_max_id, n
  <2> QED BY <2>1, <2>2
<1> QED BY <1>5, <1>7 DEF Fits, t

(* The caller's tracker.                                                   *)
LEMMA MineFacts ==
  ASSUME TrackersOK, NEW c \in Caller
  PROVE  /\ arc[c] \in DOMAIN trackers /\ Mine(c) \in TrackerType /\ Fits(Mine(c))
         /\ Mine(c).bits \subseteq Nat /\ capacity(Mine(c)) \in Nat /\ effective_max_id(Mine(c)) \in Nat
         /\ effective_max_id(Mine(c)) <= capacity(Mine(c))
         /\ \A i \in Mine(c).bits : i \in Nat /\ i < capacity(Mine(c))
<1>1. arc[c] \in DOMAIN trackers /\ Mine(c) \in TrackerType /\ Fits(Mine(c))
  BY DEF TrackersOK, Mine
<1> QED BY <1>1, TrackerFacts DEF Fits

(* Whether a tracker stays what it is, but for its bits.                   *)
Stays(k) ==
  /\ k \in DOMAIN trackers' /\ trackers'[k] \in TrackerType /\ Fits(trackers'[k])
  /\ trackers'[k].prefix = trackers[k].prefix /\ trackers'[k].max = trackers[k].max
  /\ trackers'[k].words = trackers[k].words

(* The bits of c's tracker became S, and the histories say so.             *)
Changed(c, S) ==
  /\ trackers' \in Seq(TrackerType) /\ Len(trackers') = Len(trackers) /\ DOMAIN trackers' = DOMAIN trackers
  /\ \A k \in DOMAIN trackers : /\ Stays(k)
                                /\ trackers'[k].bits = IF k = arc[c] THEN S ELSE trackers[k].bits
  /\ hist' \in [Caller -> HistType]
  /\ \A d \in Caller : /\ hist'[d].kept = hist[d].kept /\ hist'[d].met = hist[d].met
                       /\ hist'[d].before = hist[d].before /\ hist'[d].want = hist[d].want
  /\ \A d \in Caller : IF pc[d] = "idle" \/ arc[d] # arc[c] THEN hist'[d] = hist[d]
       ELSE /\ hist'[d].always = hist[d].always \intersect S /\ hist'[d].ever = hist[d].ever \union S
            /\ hist'[d].flips = IF d = c THEN hist[d].flips \union Diff(Mine(c).bits, S) ELSE hist[d].flips
            /\ hist'[d].touched = IF d = c THEN hist[d].touched
                                  ELSE hist[d].touched \union Diff(Mine(c).bits, S)

(* What a change of bits does, and what it leaves alone.                   *)
LEMMA ChangeFacts ==
  ASSUME TrackersOK, CallsOK, NEW c \in Caller, NEW S \in SUBSET Nat,
         \A i \in S : i < capacity(Mine(c)), Change(c, S)
  PROVE  Changed(c, S)
<1> DEFINE a == arc[c]
           F == Diff(Mine(c).bits, S)
<1>1. a \in DOMAIN trackers /\ DOMAIN trackers = 1 .. Len(trackers) /\ Len(trackers) \in Nat
      /\ trackers \in [1 .. Len(trackers) -> TrackerType] /\ F \in SUBSET Nat
  <2>1. a \in DOMAIN trackers /\ Mine(c).bits \subseteq Nat
    BY MineFacts
  <2>2. F \in SUBSET Nat
    BY <2>1 DEF Diff
  <2>3. trackers \in Seq(TrackerType)
    BY DEF TrackersOK
  <2>4. DOMAIN trackers = 1 .. Len(trackers) /\ Len(trackers) \in Nat /\ trackers \in [1 .. Len(trackers) -> TrackerType]
    BY <2>3
  <2> QED BY <2>1, <2>2, <2>4
<1>2. trackers' = [trackers EXCEPT ![a].bits = S]
  BY DEF Change
<1>3. trackers' \in [1 .. Len(trackers) -> TrackerType] /\ DOMAIN trackers' = DOMAIN trackers
  BY <1>1, <1>2 DEF TrackerType
<1>4. trackers' \in Seq(TrackerType) /\ Len(trackers') = Len(trackers)
  BY <1>1, <1>3
<1>5. ASSUME NEW k \in DOMAIN trackers
      PROVE  /\ trackers'[k].prefix = trackers[k].prefix /\ trackers'[k].max = trackers[k].max
             /\ trackers'[k].words = trackers[k].words
             /\ trackers'[k].bits = IF k = a THEN S ELSE trackers[k].bits
  BY <1>1, <1>2 DEF TrackerType
<1>6. ASSUME NEW k \in DOMAIN trackers
      PROVE  Stays(k)
  <2>1. capacity(trackers'[k]) = capacity(trackers[k]) /\ effective_max_id(trackers'[k]) = effective_max_id(trackers[k])
    BY <1>5 DEF capacity, effective_max_id
  <2>2. Fits(trackers[k])
    BY DEF TrackersOK
  <2>3. Fits(trackers'[k])
    BY <1>5, <2>1, <2>2 DEF Fits, Mine
  <2> QED BY <1>1, <1>3, <1>5, <2>3 DEF Stays
<1>7. hist' = [d \in Caller |->
                IF pc[d] = "idle" \/ arc[d] # a THEN hist[d]
                ELSE [hist[d] EXCEPT !.always = @ \intersect S, !.ever = @ \union S,
                                     !.flips = IF d = c THEN @ \union F ELSE @,
                                     !.touched = IF d = c THEN @ ELSE @ \union F]]
  BY DEF Change
<1> HIDE DEF F, a
<1>8. ASSUME NEW d \in Caller
      PROVE  /\ hist'[d] \in HistType
             /\ hist'[d].kept = hist[d].kept /\ hist'[d].met = hist[d].met
             /\ hist'[d].before = hist[d].before /\ hist'[d].want = hist[d].want
             /\ IF pc[d] = "idle" \/ arc[d] # a THEN hist'[d] = hist[d]
                ELSE /\ hist'[d].always = hist[d].always \intersect S /\ hist'[d].ever = hist[d].ever \union S
                     /\ hist'[d].flips = IF d = c THEN hist[d].flips \union F ELSE hist[d].flips
                     /\ hist'[d].touched = IF d = c THEN hist[d].touched ELSE hist[d].touched \union F
  <2>1. hist[d] \in HistType
    BY DEF CallsOK
  <2>2. CASE pc[d] = "idle" \/ arc[d] # a
    BY <1>7, <2>1, <2>2
  <2>3. CASE ~(pc[d] = "idle" \/ arc[d] # a)
    <3> DEFINE f == IF d = c THEN hist[d].flips \union F ELSE hist[d].flips
               t == IF d = c THEN hist[d].touched ELSE hist[d].touched \union F
    <3>1. hist'[d] = [hist[d] EXCEPT !.always = hist[d].always \intersect S, !.ever = hist[d].ever \union S,
                                     !.flips = f, !.touched = t]
      BY <1>7, <2>3
    <3>2. f \in SUBSET Nat /\ t \in SUBSET Nat
      BY <1>1, <2>1 DEF HistType, F
    <3> HIDE DEF f, t
    <3>3. hist[d].always \intersect S \in SUBSET Nat /\ hist[d].ever \union S \in SUBSET Nat
      BY <2>1 DEF HistType
    <3>4. /\ hist'[d] \in HistType
          /\ hist'[d].kept = hist[d].kept /\ hist'[d].met = hist[d].met
          /\ hist'[d].before = hist[d].before /\ hist'[d].want = hist[d].want
          /\ hist'[d].always = hist[d].always \intersect S /\ hist'[d].ever = hist[d].ever \union S
          /\ hist'[d].flips = f /\ hist'[d].touched = t
      BY <2>1, <3>1, <3>2, <3>3 DEF HistType
    <3> QED BY <2>3, <3>4 DEF f, t
  <2> QED BY <2>2, <2>3
<1>9. hist' \in [Caller -> HistType]
  BY <1>7, <1>8
<1> QED BY <1>3, <1>4, <1>5, <1>6, <1>8, <1>9 DEF a, F, Changed

Labels == {"idle", "words", "ids", "shards", "return", "panicked"}

(* No trackers are lost or made, and none but the bits of one changes.     *)
SameTrackers ==
  /\ trackers' \in Seq(TrackerType) /\ Len(trackers') = Len(trackers) /\ DOMAIN trackers' = DOMAIN trackers
  /\ \A k \in DOMAIN trackers : Stays(k)

(* That is so if nothing changes.                                          *)
LEMMA SameIfUnchanged ==
  ASSUME TrackersOK, trackers' = trackers
  PROVE  SameTrackers
BY DEF TrackersOK, SameTrackers, Stays

(* Then what depends on the trackers stays typed, and who holds them.      *)
LEMMA SameTyped ==
  ASSUME TrackersOK, RegistryOK, SameTrackers, UNCHANGED <<registry, gone, arc>>
  PROVE  /\ TrackersOK' /\ RegistryOK'
         /\ \A c \in Caller : /\ capacity(Mine(c))' = capacity(Mine(c)) /\ Mine(c)'.words = Mine(c).words
                              /\ effective_max_id(Mine(c))' = effective_max_id(Mine(c))
<1>1. TrackersOK'
  BY DEF TrackersOK, SameTrackers, Stays
<1>2. RegistryOK'
  <2>1. DOMAIN trackers' = DOMAIN trackers /\ \A k \in DOMAIN trackers : trackers'[k].prefix = trackers[k].prefix
    BY DEF SameTrackers, Stays
  <2>2. \A p \in Prefix : registry[p] # None => registry[p] \in DOMAIN trackers
    BY DEF RegistryOK
  <2> QED BY <2>1, <2>2 DEF RegistryOK
<1>3. ASSUME NEW c \in Caller
      PROVE  /\ capacity(Mine(c))' = capacity(Mine(c)) /\ Mine(c)'.words = Mine(c).words
             /\ effective_max_id(Mine(c))' = effective_max_id(Mine(c))
  <2>1. Mine(c)' = trackers'[arc[c]] /\ Mine(c) = trackers[arc[c]]
    BY DEF Mine
  <2>2. arc[c] \in DOMAIN trackers
    BY DEF TrackersOK
  <2>3. trackers'[arc[c]].words = trackers[arc[c]].words /\ trackers'[arc[c]].max = trackers[arc[c]].max
    BY <2>2 DEF SameTrackers, Stays
  <2> QED BY <2>1, <2>3 DEF capacity, effective_max_id
<1> QED BY <1>1, <1>2, <1>3

(* The fields of a call, and of its history.                               *)
LEMMA CallFacts ==
  ASSUME CallsOK, NEW c \in Caller
  PROVE  /\ call[c] \in CallType /\ hist[c] \in HistType /\ pc[c] \in Labels
         /\ call[c].op \in OpName \union {"none"} /\ call[c].at \in Nat /\ call[c].lo \in Nat /\ call[c].hi \in Nat
         /\ call[c].todo \subseteq Nat /\ call[c].got \subseteq Nat /\ call[c].n \in Nat
<1>1. call[c] \in CallType /\ hist[c] \in HistType /\ pc[c] \in Labels
  BY DEF CallsOK, Labels
<1> QED BY <1>1 DEF CallType

(* A call goes on, and the others are where they were.                     *)
LEMMA GoesOn ==
  ASSUME TrackersOK, RegistryOK, CallsOK, NEW c \in Caller, NEW label \in Labels, NEW new \in CallType,
         Goto(c, label, new), SameTrackers, UNCHANGED <<registry, gone, arc, ops>>,
         hist' \in [Caller -> HistType], calls' \in [Caller -> Nat],
         label = "words" /\ new.op \in RangeOps => new.hi <= capacity(Mine(c)),
         label = "ids" => new.todo # {}, label = "idle" => new = Blank /\ hist'[c] = Calm,
         \A d \in Caller \ {c} : pc[d] = "idle" => hist'[d] = hist[d]
  PROVE  /\ CallsOK' /\ pc'[c] = label /\ call'[c] = new
         /\ \A d \in Caller \ {c} : pc'[d] = pc[d] /\ call'[d] = call[d]
<1>1. /\ pc' = [pc EXCEPT ![c] = label] /\ call' = [call EXCEPT ![c] = new]
      /\ pc \in [Caller -> Labels] /\ call \in [Caller -> CallType]
  BY DEF Goto, CallsOK, Labels
<1>2. /\ pc'[c] = label /\ call'[c] = new
      /\ \A d \in Caller \ {c} : pc'[d] = pc[d] /\ call'[d] = call[d]
      /\ pc' \in [Caller -> Labels] /\ call' \in [Caller -> CallType]
  BY <1>1
<1>3. ASSUME NEW d \in Caller, pc'[d] = "words", call'[d].op \in RangeOps
      PROVE  call'[d].hi <= capacity(Mine(d))'
  <2>1. capacity(Mine(d))' = capacity(Mine(d))
    BY SameTyped
  <2>2. CASE d = c
    BY <1>2, <1>3, <2>1, <2>2
  <2>3. CASE d # c
    <3>1. pc[d] = "words" /\ call[d].op \in RangeOps /\ call'[d].hi = call[d].hi
      BY <1>2, <1>3, <2>3
    <3> QED BY <2>1, <3>1 DEF CallsOK
  <2> QED BY <2>2, <2>3
<1>4. ops' \in [Caller -> SUBSET OpName]
  BY DEF CallsOK
<1>5. ASSUME NEW d \in Caller
      PROVE  /\ pc'[d] = "idle" => call'[d] = Blank /\ hist'[d] = Calm
             /\ pc'[d] = "ids" => call'[d].todo # {}
  <2>1. CASE d = c
    BY <1>2, <2>1
  <2>2. CASE d # c
    BY <1>2, <2>2 DEF CallsOK
  <2> QED BY <2>1, <2>2
<1>6. CallsOK'
  BY <1>2, <1>3, <1>4, <1>5 DEF CallsOK, Labels, RangeOps, Blank, Calm
<1> QED BY <1>2, <1>6

(* What the beginning of a call leaves.                                    *)
LEMMA BeginFacts ==
  ASSUME TrackersOK, RegistryOK, CallsOK, NEW c \in Caller, NEW op \in OpName, NEW label \in Labels,
         NEW new \in CallType, NEW want \in SUBSET Nat, Begin(c, op, label, new, want),
         UNCHANGED <<trackers, registry, gone, arc, ops>>,
         label = "words" /\ op \in RangeOps => new.hi <= capacity(Mine(c)),
         label = "ids" => new.todo # {}, label # "idle"
  PROVE  /\ CallsOK' /\ pc[c] = "idle" /\ pc'[c] = label
         /\ call'[c].op = op /\ call'[c].at = new.at /\ call'[c].lo = new.lo /\ call'[c].hi = new.hi
         /\ call'[c].todo = new.todo /\ call'[c].got = new.got /\ call'[c].n = new.n
         /\ hist'[c].before = Mine(c).bits /\ hist'[c].always = Mine(c).bits /\ hist'[c].ever = Mine(c).bits
         /\ hist'[c].want = want /\ hist'[c].flips = {} /\ hist'[c].touched = {}
         /\ hist'[c].kept = Registered(registry) /\ hist'[c].met = Registered(registry)
         /\ \A d \in Caller \ {c} : pc'[d] = pc[d] /\ call'[d] = call[d] /\ hist'[d] = hist[d]
<1> DEFINE bits == Mine(c).bits
           enrolled == Registered(registry)
           h == [Calm EXCEPT !.before = bits, !.always = bits, !.ever = bits, !.want = want,
                             !.kept = enrolled, !.met = enrolled]
           made == [new EXCEPT !.op = op]
<1>1. pc[c] = "idle" /\ Goto(c, label, made) /\ calls' = [calls EXCEPT ![c] = @ - 1] /\ calls[c] > 0
      /\ hist' = [hist EXCEPT ![c] = h]
  BY DEF Begin, Registered
<1>2. bits \in SUBSET Nat
  BY MineFacts
<1>3. enrolled \in SUBSET Nat
  <2>1. \A p \in Prefix : registry[p] # None => registry[p] \in DOMAIN trackers
    BY DEF RegistryOK
  <2>2. DOMAIN trackers \subseteq Nat
    BY DEF TrackersOK
  <2> QED BY <2>1, <2>2 DEF Registered
<1> HIDE DEF bits, enrolled
<1>4. /\ h \in HistType
      /\ h.before = bits /\ h.always = bits /\ h.ever = bits /\ h.want = want /\ h.flips = {} /\ h.touched = {}
      /\ h.kept = enrolled /\ h.met = enrolled
  BY <1>2, <1>3 DEF Calm, HistType
<1>5. /\ made \in CallType /\ made.op = op /\ made.at = new.at /\ made.lo = new.lo /\ made.hi = new.hi
      /\ made.todo = new.todo /\ made.got = new.got /\ made.n = new.n
  BY DEF CallType
<1> HIDE DEF h, made
<1>6. /\ hist' \in [Caller -> HistType] /\ hist'[c] = h
      /\ \A d \in Caller \ {c} : hist'[d] = hist[d]
  BY <1>1, <1>4 DEF CallsOK
<1>7. calls' \in [Caller -> Nat]
  BY <1>1 DEF CallsOK
<1>8. /\ CallsOK' /\ pc'[c] = label /\ call'[c] = made
      /\ \A d \in Caller \ {c} : pc'[d] = pc[d] /\ call'[d] = call[d]
  BY <1>1, <1>5, <1>6, <1>7, SameIfUnchanged, GoesOn
<1> QED BY <1>1, <1>4, <1>5, <1>6, <1>8 DEF bits, enrolled

-----------------------------------------------------------------------------
(* What is known of a call while it goes on                                *)

SnapOps == {"snapshot", "added_since", "removed_since", "missing", "restore_from_reference"}
AskOps  == {"iter_missing_from_reference", "iter_intersection"}
SetOps  == {"restore_from_reference", "populate_with_pattern"}

Before(S, n) == {i \in S : i < n}

(* What ChangesSeen says of the call's result.                             *)
Answer(c) ==
  LET got == call[c].got  h == hist[c]  s == snap[c]
  IN  /\ call[c].op = "added_since" => h.always \ s.ever \subseteq got /\ got \subseteq h.ever \ s.always
      /\ call[c].op = "removed_since" => s.always \ h.ever \subseteq got /\ got \subseteq s.ever \ h.always
      /\ call[c].op = "missing" => meant[c] \ h.ever \subseteq got /\ got \subseteq meant[c] \ h.always

(* The copy of a snapshot is between what was always set and what ever was, *)
(* word by word, and so are the ids that were asked for one by one.        *)
SeenOK(c) ==
  LET me == call[c]  h == hist[c]  bits == Mine(c).bits  asked == meant[c] \ me.todo
  IN  /\ snap[c].always \subseteq iter_set(snap[c]) /\ iter_set(snap[c]) \subseteq snap[c].ever
      /\ me.op # "none" => h.always \subseteq bits /\ bits \subseteq h.ever
      /\ pc[c] = "words" /\ me.op \in SnapOps =>
           /\ Before(h.always, me.at * W) \subseteq me.got /\ me.got \subseteq h.ever
           /\ \A i \in me.got : i < capacity(Mine(c))
      /\ pc[c] = "return" => Answer(c)
      /\ me.op \in AskOps =>
           /\ me.todo \subseteq meant[c] /\ (pc[c] = "return" => me.todo = {})
           /\ me.op = "iter_missing_from_reference" => asked \ h.ever \subseteq me.got /\ me.got \subseteq asked \ h.always
           /\ me.op = "iter_intersection" => asked \intersect h.always \subseteq me.got /\ me.got \subseteq asked \intersect h.ever

(* Of the ids that nobody else touched, c's tracker has those in S.        *)
Left(c, S) == \A i \in Nat \ hist[c].touched : i \in S <=> i \in Mine(c).bits

(* The number that a call will return is that of the ids it flipped.       *)
Counts(c) == IsFiniteSet(hist[c].flips) /\ call[c].n = Cardinality(hist[c].flips)

(* What a bulk call has done so far: nothing while it takes a snapshot;    *)
(* the ids before the next one; the words before the next one.             *)
CopyOK(c) ==
  pc[c] = "words" /\ call[c].op \in SnapOps =>
    /\ hist[c].flips = {} /\ call[c].n = 0
    /\ Left(c, hist[c].before) /\ Left(c, hist[c].ever)
    /\ call[c].op = "restore_from_reference" => hist[c].want = meant[c]

SetsSoFar(c) ==
  LET me == call[c]  h == hist[c]  done == h.want \ me.todo
  IN  me.op \in SetOps /\ pc[c] \in {"ids", "return", "panicked"} =>
        /\ (pc[c] = "return") = (me.todo = {}) /\ me.todo \subseteq h.want
        /\ h.flips \subseteq done /\ Counts(c)
        /\ \A i \in done : i \in h.before \/ i \in h.touched \/ \A j \in me.todo : i < j
        /\ Left(c, h.before \union done)

RangeSoFar(c) ==
  LET me == call[c]  h == hist[c]  done == Before(h.want, me.at * W)
  IN  me.op \in {"add_range", "remove_range"} /\ pc[c] \in {"words", "return"} =>
        /\ h.want = {i \in Nat : me.lo <= i /\ i < me.hi} /\ (pc[c] = "return" => done = h.want)
        /\ (\A i \in h.flips : i < me.at * W) /\ Counts(c)
        /\ Left(c, IF me.op = "add_range" THEN h.before \union done ELSE h.before \ done)

ProfileSoFar(c) ==
  LET me == call[c]  h == hist[c]  max == effective_max_id(Mine(c))
  IN  me.op = "populate_with_profile" =>
        /\ pc[c] \in {"words", "ids", "return"} /\ me.lo = 0 /\ me.hi = max
        /\ me.todo \subseteq (0 .. max - 1) \ h.want /\ h.want \subseteq 0 .. max - 1
        /\ pc[c] = "words" => /\ me.todo = (0 .. max - 1) \ h.want
                              /\ Left(c, h.before \union Before(0 .. max - 1, me.at * W))
        /\ pc[c] # "words" => Left(c, h.want \union me.todo \union {i \in h.before : i >= max})
        /\ pc[c] = "return" => me.todo = {}

BulkOK(c) == CopyOK(c) /\ SetsSoFar(c) /\ RangeSoFar(c) /\ ProfileSoFar(c)

(* A walk has every tracker of the shards it has visited that stayed       *)
(* registered, and they are of different prefixes.                         *)
WalkOK(c) ==
  LET me == call[c]  h == hist[c]  shard(k) == ShardOf[trackers[k].prefix]
  IN  me.op = "walk" =>
        /\ pc[c] \in {"shards", "return"} /\ (pc[c] = "shards" => me.at < NShards) /\ (pc[c] = "return" => me.at = NShards)
        /\ h.kept \subseteq Registered(registry) /\ Registered(registry) \subseteq h.met
        /\ me.got \subseteq DOMAIN trackers /\ me.got \subseteq h.met
        /\ \A k \in me.got : shard(k) <= me.at
        /\ \A k \in h.kept : shard(k) <= me.at => k \in me.got
        /\ \A j, k \in me.got : j # k => trackers[j].prefix # trackers[k].prefix

Invariant == Typed /\ \A c \in Caller : SeenOK(c) /\ BulkOK(c) /\ WalkOK(c)

-----------------------------------------------------------------------------
(* The beginnings of calls                                                 *)

(* A call that has not begun.                                              *)
LEMMA BlankFacts ==
  /\ Blank \in CallType
  /\ Blank.op = "none" /\ Blank.at = 0 /\ Blank.lo = 0 /\ Blank.hi = 0
  /\ Blank.todo = {} /\ Blank.got = {} /\ Blank.n = 0
BY DEF Blank, CallType

(* What each call is begun with.                                           *)
Suits(c, op, label, new, want) ==
  /\ op \in {"add_range", "remove_range"} /\ label \in {"words", "return"} =>
       /\ new.at = new.lo \div W /\ want = {i \in Nat : new.lo <= i /\ i < new.hi}
       /\ label = "return" => want = {}
  /\ op = "populate_with_pattern" => new.todo = want /\ label = IF want = {} THEN "return" ELSE "ids"
  /\ op = "populate_with_profile" =>
       /\ label = "words" /\ new.lo = 0 /\ new.at = 0 /\ new.hi = effective_max_id(Mine(c))
       /\ new.todo = (0 .. new.hi - 1) \ want /\ want \subseteq 0 .. new.hi - 1
  /\ op \in SnapOps => label = "words" /\ new.at = 0 /\ (op = "restore_from_reference" => want = meant[c])
  /\ op \in AskOps => new.todo = meant[c] /\ label = IF meant[c] = {} THEN "return" ELSE "ids"
  /\ op = "walk" => label = "shards" /\ new.at = 0

Begun(c, op, label, new, want) ==
  /\ op \in OpName /\ label \in Labels \ {"idle"} /\ new \in CallType /\ want \in SUBSET Nat
  /\ Begin(c, op, label, new, want) /\ UNCHANGED <<shared, own>>
  /\ label = "words" /\ op \in RangeOps => new.hi <= capacity(Mine(c))
  /\ label = "ids" => new.todo # {}
  /\ new.got = {} /\ new.n = 0
  /\ Suits(c, op, label, new, want)

Begins(c) == \E op, label, new, want : Begun(c, op, label, new, want)

(* The ids of a range are counted from its first word on.                  *)
LEMMA FirstWord ==
  ASSUME NEW lo \in Nat
  PROVE  lo \div W \in Nat /\ (lo \div W) * W <= lo
<1>1. At(lo) = lo \div W + 1 /\ At(lo) \in Nat \ {0} /\ Pos(lo) \in 0 .. W - 1 /\ lo = (At(lo) - 1) * W + Pos(lo)
  BY Split DEF At
<1>2. lo \div W \in Nat
  BY WordAssumption
<1> DEFINE q == lo \div W
<1>3. q \in Nat /\ At(lo) - 1 = q /\ W \in Nat
  BY <1>1, <1>2, WordAssumption
<1> HIDE DEF q
<1>4. q * W \in Nat
  BY <1>3
<1>5. lo = q * W + Pos(lo)
  BY <1>1, <1>3, Zenon
<1>6. q * W <= lo
  BY <1>1, <1>4, <1>5
<1> QED BY <1>2, <1>6 DEF q

(* So are begun the calls on ranges,                                       *)
LEMMA BegunRange ==
  ASSUME Typed, NEW c \in Caller, NEW lo \in Nat, NEW end \in Nat,
         AddRange(c, lo, end) \/ RemoveRange(c, lo, end)
  PROVE  Begins(c)
<1>m. /\ capacity(Mine(c)) \in Nat /\ effective_max_id(Mine(c)) \in Nat
      /\ effective_max_id(Mine(c)) <= capacity(Mine(c)) /\ Mine(c).max \in Nat \union {None}
  BY MineFacts, TrackerFacts DEF Typed
<1>d. lo \div W \in Nat
  BY FirstWord
<1>0. ASSUME NEW op \in {"add_range", "remove_range"}, NEW hi \in Nat, NEW want \in SUBSET Nat,
             NEW label \in {"return", "words", "panicked"},
             label = "return" => hi <= lo, label = "words" => hi <= capacity(Mine(c)),
             label # "panicked" => want = {i \in Nat : lo <= i /\ i < hi},
             Begin(c, op, label, [Blank EXCEPT !.lo = lo, !.hi = hi, !.at = lo \div W], want),
             UNCHANGED <<shared, own>>
      PROVE  Begins(c)
  <2> DEFINE new == [Blank EXCEPT !.lo = lo, !.hi = hi, !.at = lo \div W]
  <2>1. /\ new \in CallType /\ new.lo = lo /\ new.hi = hi /\ new.at = lo \div W
        /\ new.todo = {} /\ new.got = {} /\ new.n = 0
    BY <1>d, BlankFacts DEF CallType
  <2>2. Begin(c, op, label, new, want)
    BY <1>0
  <2>3. op \in OpName /\ label \in Labels \ {"idle"}
    BY <1>0 DEF OpName, Labels
  <2> HIDE DEF new
  <2>4. label = "return" => want = {}
    BY <1>0
  <2>5. Suits(c, op, label, new, want)
    BY <1>0, <2>1, <2>4 DEF Suits, SnapOps, AskOps
  <2>6. Begun(c, op, label, new, want)
    BY <1>0, <2>1, <2>2, <2>3, <2>5 DEF Begun
  <2> QED BY <2>6 DEF Begins
<1>1. CASE AddRange(c, lo, end)
  <2> DEFINE hi == EffectiveEnd(Mine(c), end)
             want == {i \in lo .. end - 1 : i < effective_max_id(Mine(c))}
             label == CASE lo >= hi                             -> "return"
                        [] lo < hi /\ hi > capacity(Mine(c))    -> "panicked"
                        [] lo < hi /\ hi <= capacity(Mine(c))   -> "words"
  <2>1. hi \in Nat /\ hi = IF Mine(c).max = None THEN end ELSE IF end <= Mine(c).max THEN end ELSE Mine(c).max
    BY <1>m DEF EffectiveEnd, Smaller
  <2>2. effective_max_id(Mine(c)) = IF Mine(c).max = None THEN capacity(Mine(c)) ELSE Mine(c).max
    BY DEF effective_max_id
  <2>3. Begin(c, "add_range", label, [Blank EXCEPT !.lo = lo, !.hi = hi, !.at = lo \div W], want)
        /\ UNCHANGED <<shared, own>>
    BY <1>1 DEF AddRange
  <2> HIDE DEF hi
  <2>4. \/ label = "words" /\ hi <= capacity(Mine(c))
        \/ label = "return" /\ hi <= lo
        \/ label = "panicked"
    BY <1>m, <2>1
  <2>5. want \in SUBSET Nat
    OBVIOUS
  <2>6. hi <= capacity(Mine(c)) \/ hi <= lo => want = {i \in Nat : lo <= i /\ i < hi}
    <3>1. ASSUME NEW i \in Nat, hi <= capacity(Mine(c)) \/ hi <= lo
          PROVE  i \in lo .. end - 1 /\ i < effective_max_id(Mine(c)) <=> lo <= i /\ i < hi
      BY <1>m, <2>1, <2>2, <3>1
    <3> QED BY <2>5, <3>1
  <2> HIDE DEF label, want
  <2> QED BY <1>0, <2>1, <2>3, <2>4, <2>5, <2>6
<1>2. CASE RemoveRange(c, lo, end)
  <2> DEFINE want == lo .. end - 1
             label == CASE lo >= end                               -> "return"
                        [] lo < end /\ end > capacity(Mine(c))    -> "panicked"
                        [] lo < end /\ end <= capacity(Mine(c))   -> "words"
  <2>1. Begin(c, "remove_range", label, [Blank EXCEPT !.lo = lo, !.hi = end, !.at = lo \div W], want)
        /\ UNCHANGED <<shared, own>>
    BY <1>2 DEF RemoveRange
  <2>2. \/ label = "words" /\ end <= capacity(Mine(c))
        \/ label = "return" /\ end <= lo
        \/ label = "panicked"
    BY <1>m
  <2>3. want \in SUBSET Nat /\ want = {i \in Nat : lo <= i /\ i < end}
    OBVIOUS
  <2> HIDE DEF label, want
  <2> QED BY <1>0, <2>1, <2>2, <2>3
<1> QED BY <1>1, <1>2

(* by patterns,                                                            *)
LEMMA BegunPattern ==
  ASSUME Typed, NEW c \in Caller, NEW pattern, PopulateWithPattern(c, pattern) \/ PopulateWithProfile(c, pattern)
  PROVE  Begins(c)
<1> DEFINE max == effective_max_id(Mine(c))
<1>m. max \in Nat /\ max <= capacity(Mine(c))
  BY MineFacts DEF Typed
<1>1. CASE PopulateWithPattern(c, pattern)
  <2>1. PICK want \in Drawn(pattern, max) :
          Begin(c, "populate_with_pattern", IF want = {} THEN "return" ELSE "ids", [Blank EXCEPT !.todo = want], want)
    BY <1>1 DEF PopulateWithPattern
  <2>2. UNCHANGED <<shared, own>>
    BY <1>1 DEF PopulateWithPattern
  <2> DEFINE new == [Blank EXCEPT !.todo = want]
             label == IF want = {} THEN "return" ELSE "ids"
             op == "populate_with_pattern"
  <2>3. want \in SUBSET Nat
    BY <1>m DEF Drawn
  <2>4. new \in CallType /\ new.todo = want /\ new.got = {} /\ new.n = 0
    BY <2>3, BlankFacts DEF CallType
  <2>5. Begin(c, op, label, new, want)
    BY <2>1
  <2>6. op \in OpName /\ label \in Labels \ {"idle"} /\ (label = "ids" => want # {}) /\ label # "words"
    BY DEF OpName, Labels
  <2> HIDE DEF new
  <2>7. Suits(c, op, label, new, want)
    BY <2>4 DEF Suits, SnapOps, AskOps
  <2>8. Begun(c, op, label, new, want)
    BY <2>2, <2>3, <2>4, <2>5, <2>6, <2>7 DEF Begun
  <2> QED BY <2>8 DEF Begins
<1>2. CASE PopulateWithProfile(c, pattern)
  <2>1. PICK want \in Drawn(pattern, max) :
          Begin(c, "populate_with_profile", "words", [Blank EXCEPT !.hi = max, !.todo = (0 .. max - 1) \ want], want)
    BY <1>2 DEF PopulateWithProfile
  <2>2. UNCHANGED <<shared, own>>
    BY <1>2 DEF PopulateWithProfile
  <2> DEFINE new == [Blank EXCEPT !.hi = max, !.todo = (0 .. max - 1) \ want]
             op == "populate_with_profile"
  <2>3. want \in SUBSET Nat /\ want \subseteq 0 .. max - 1 /\ (0 .. max - 1) \ want \in SUBSET Nat
    BY <1>m DEF Drawn
  <2>4. /\ new \in CallType /\ new.todo = (0 .. max - 1) \ want /\ new.hi = max /\ new.lo = 0 /\ new.at = 0
        /\ new.got = {} /\ new.n = 0
    <3> HIDE DEF max
    <3> QED BY <1>m, <2>3, BlankFacts DEF CallType
  <2>5. Begin(c, op, "words", new, want)
    BY <2>1
  <2>6. op \in OpName /\ "words" \in Labels \ {"idle"}
    BY DEF OpName, Labels
  <2> HIDE DEF new
  <2>7. Suits(c, op, "words", new, want)
    BY <2>3, <2>4 DEF Suits, SnapOps, AskOps
  <2>8. Begun(c, op, "words", new, want)
    BY <1>m, <2>2, <2>3, <2>4, <2>5, <2>6, <2>7 DEF Begun
  <2> QED BY <2>8 DEF Begins
<1> QED BY <1>1, <1>2

(* and the calls that compare, ask or visit the registry.                  *)
LEMMA BegunOther ==
  ASSUME Typed, NEW c \in Caller, NEW o \in OpName,
         Snapshot(c, o) \/ IterReference(c, o) \/ Clear(c) \/ Walk(c)
  PROVE  Begins(c)
<1>r. meant[c] \in SUBSET Nat /\ iter(ref[c]) = meant[c]
  BY Answers DEF Typed, SetsOK
<1>1. CASE Snapshot(c, o)
  <2> DEFINE want == IF o = "restore_from_reference" THEN meant[c] ELSE {}
  <2>1. o \in SnapOps /\ Begin(c, o, "words", Blank, want) /\ UNCHANGED <<shared, own>>
    BY <1>1 DEF Snapshot, SnapOps
  <2>2. "words" \in Labels \ {"idle"} /\ want \in SUBSET Nat /\ o \notin RangeOps /\ o \in OpName
    BY <1>r, <2>1 DEF Labels, SnapOps, RangeOps
  <2>3. Suits(c, o, "words", Blank, want)
    BY <2>1, BlankFacts DEF Suits, SnapOps, AskOps
  <2>4. Begun(c, o, "words", Blank, want)
    BY <2>1, <2>2, <2>3, BlankFacts DEF Begun
  <2> QED BY <2>4 DEF Begins
<1>2. CASE IterReference(c, o)
  <2> DEFINE new == [Blank EXCEPT !.todo = meant[c]]
             label == IF meant[c] = {} THEN "return" ELSE "ids"
  <2>1. o \in AskOps /\ Begin(c, o, label, new, {}) /\ UNCHANGED <<shared, own>>
    BY <1>2, <1>r DEF IterReference, AskOps
  <2>2. label \in Labels \ {"idle"} /\ o \notin RangeOps /\ o \in OpName /\ (label = "ids" => meant[c] # {})
    BY <2>1 DEF Labels, AskOps, RangeOps
  <2>3. new \in CallType /\ new.todo = meant[c] /\ new.got = {} /\ new.n = 0
    BY <1>r, BlankFacts DEF CallType
  <2> HIDE DEF new
  <2>4. Suits(c, o, label, new, {})
    BY <2>1, <2>3 DEF Suits, SnapOps, AskOps
  <2>5. Begun(c, o, label, new, {})
    BY <2>1, <2>2, <2>3, <2>4 DEF Begun
  <2> QED BY <2>5 DEF Begins
<1>3. ASSUME NEW op \in {"clear", "walk"}, Begin(c, op, "shards", Blank, {}), UNCHANGED <<shared, own>>
      PROVE  Begins(c)
  <2>1. "shards" \in Labels \ {"idle"} /\ op \notin RangeOps /\ op \in OpName
    BY <1>3 DEF Labels, RangeOps, OpName
  <2>2. Suits(c, op, "shards", Blank, {})
    BY <1>3, BlankFacts DEF Suits, SnapOps, AskOps
  <2>3. Begun(c, op, "shards", Blank, {})
    BY <1>3, <2>1, <2>2, BlankFacts DEF Begun
  <2> QED BY <2>3 DEF Begins
<1>4. CASE Clear(c) \/ Walk(c)
  BY <1>3, <1>4 DEF Clear, Walk
<1> QED BY <1>1, <1>2, <1>4

(* What a call is when it has begun, and that the others stay.             *)
LEMMA BegunFacts ==
  ASSUME Typed, NEW c \in Caller, NEW op, NEW label, NEW new, NEW want, Begun(c, op, label, new, want)
  PROVE  /\ Typed' /\ pc[c] = "idle" /\ pc'[c] = label /\ label # "idle" /\ op \in OpName
         /\ call'[c].op = op /\ call'[c].at = new.at /\ call'[c].lo = new.lo /\ call'[c].hi = new.hi
         /\ call'[c].todo = new.todo /\ call'[c].got = {} /\ call'[c].n = 0
         /\ hist'[c].before = Mine(c).bits /\ hist'[c].always = Mine(c).bits /\ hist'[c].ever = Mine(c).bits
         /\ hist'[c].want = want /\ hist'[c].flips = {} /\ hist'[c].touched = {}
         /\ hist'[c].kept = Registered(registry) /\ hist'[c].met = Registered(registry)
         /\ \A d \in Caller \ {c} : pc'[d] = pc[d] /\ call'[d] = call[d] /\ hist'[d] = hist[d]
         /\ UNCHANGED <<trackers, registry, gone, arc, ref, meant, snap>> /\ Suits(c, op, label, new, want)
         /\ want \in SUBSET Nat
<1>1. /\ op \in OpName /\ label \in Labels /\ label # "idle" /\ new \in CallType /\ want \in SUBSET Nat
      /\ Begin(c, op, label, new, want)
      /\ UNCHANGED <<ops, trackers, registry, gone, arc, ref, meant, snap>>
      /\ label = "words" /\ op \in RangeOps => new.hi <= capacity(Mine(c))
      /\ label = "ids" => new.todo # {}
      /\ new.got = {} /\ new.n = 0 /\ Suits(c, op, label, new, want)
  BY DEF Begun, shared, own
<1>2. TrackersOK /\ RegistryOK /\ CallsOK /\ SetsOK
  BY DEF Typed
<1>3. TrackersOK' /\ RegistryOK'
  BY <1>1, <1>2, SameIfUnchanged, SameTyped
<1>4. SetsOK'
  BY <1>1, <1>2 DEF SetsOK
<1> HIDE DEF Labels
<1>5. /\ CallsOK' /\ pc[c] = "idle" /\ pc'[c] = label
      /\ call'[c].op = op /\ call'[c].at = new.at /\ call'[c].lo = new.lo /\ call'[c].hi = new.hi
      /\ call'[c].todo = new.todo /\ call'[c].got = new.got /\ call'[c].n = new.n
      /\ hist'[c].before = Mine(c).bits /\ hist'[c].always = Mine(c).bits /\ hist'[c].ever = Mine(c).bits
      /\ hist'[c].want = want /\ hist'[c].flips = {} /\ hist'[c].touched = {}
      /\ hist'[c].kept = Registered(registry) /\ hist'[c].met = Registered(registry)
      /\ \A d \in Caller \ {c} : pc'[d] = pc[d] /\ call'[d] = call[d] /\ hist'[d] = hist[d]
  BY <1>1, <1>2, BeginFacts
<1> QED BY <1>1, <1>3, <1>4, <1>5 DEF Typed

-----------------------------------------------------------------------------
(* Steps of a call                                                         *)

(* What the steps of others do to caller d: they may change the bits of    *)
(* its tracker, or the registry, and its history tells of it; or neither.  *)
SameBits(d)  == /\ Mine(d).bits' = Mine(d).bits /\ hist'[d].always = hist[d].always /\ hist'[d].ever = hist[d].ever
                /\ hist'[d].touched = hist[d].touched
OtherBits(d) == /\ hist'[d].always = hist[d].always \intersect Mine(d).bits'
                /\ hist'[d].ever = hist[d].ever \union Mine(d).bits'
                /\ hist'[d].touched = hist[d].touched \union Diff(Mine(d).bits, Mine(d).bits')
SameRegistry(d)  == Registered(registry') = Registered(registry) /\ hist'[d].kept = hist[d].kept /\ hist'[d].met = hist[d].met
OtherRegistry(d) == /\ hist'[d].kept = hist[d].kept \intersect Registered(registry')
                    /\ hist'[d].met = hist[d].met \union Registered(registry')

Meanwhile(d) ==
  /\ pc'[d] = pc[d] /\ call'[d] = call[d] /\ arc'[d] = arc[d]
  /\ ref'[d] = ref[d] /\ meant'[d] = meant[d] /\ snap'[d] = snap[d]
  /\ pc[d] # "idle" =>
       /\ capacity(Mine(d))' = capacity(Mine(d)) /\ effective_max_id(Mine(d))' = effective_max_id(Mine(d))
       /\ hist'[d].before = hist[d].before /\ hist'[d].want = hist[d].want /\ hist'[d].flips = hist[d].flips
       /\ SameBits(d) \/ OtherBits(d)
       /\ SameRegistry(d) \/ OtherRegistry(d)
       /\ DOMAIN trackers \subseteq DOMAIN trackers'
       /\ \A k \in DOMAIN trackers : trackers'[k].prefix = trackers[k].prefix

(* The fields of a history.                                                *)
LEMMA HistFacts ==
  ASSUME CallsOK, NEW c \in Caller
  PROVE  /\ hist[c].before \subseteq Nat /\ hist[c].want \subseteq Nat /\ hist[c].flips \subseteq Nat
         /\ hist[c].touched \subseteq Nat /\ hist[c].always \subseteq Nat /\ hist[c].ever \subseteq Nat
         /\ hist[c].kept \subseteq Nat /\ hist[c].met \subseteq Nat
<1>1. hist[c] \in HistType
  BY DEF CallsOK
<1> QED BY <1>1 DEF HistType

(* What others leave of the ids nobody else touched.                       *)
LEMMA LeftMeanwhile ==
  ASSUME Typed, NEW d \in Caller, Meanwhile(d), pc[d] # "idle", NEW S, Left(d, S)
  PROVE  \A i \in Nat \ hist'[d].touched : i \in S <=> i \in Mine(d).bits'
BY DEF Meanwhile, Left, SameBits, OtherBits, Diff

(* No step of another changes what is known of d's call.                   *)
LEMMA MeanwhileOK ==
  ASSUME Typed, NEW d \in Caller, Meanwhile(d), SeenOK(d), BulkOK(d), WalkOK(d)
  PROVE  SeenOK(d)' /\ BulkOK(d)' /\ WalkOK(d)'
<1>1. /\ pc'[d] = pc[d] /\ call'[d] = call[d] /\ arc'[d] = arc[d]
      /\ ref'[d] = ref[d] /\ meant'[d] = meant[d] /\ snap'[d] = snap[d]
  BY DEF Meanwhile
<1>2. CASE pc[d] = "idle"
  <2>1. call[d].op = "none"
    BY <1>2, BlankFacts DEF Typed, CallsOK
  <2>2. SeenOK(d)'
    BY <1>1, <1>2, <2>1 DEF SeenOK, SnapOps, AskOps
  <2>3. BulkOK(d)'
    BY <1>1, <1>2, <2>1 DEF BulkOK, CopyOK, SetsSoFar, RangeSoFar, ProfileSoFar, SnapOps, SetOps
  <2>4. WalkOK(d)'
    BY <1>1, <1>2, <2>1 DEF WalkOK
  <2> QED BY <2>2, <2>3, <2>4
<1>3. CASE pc[d] # "idle"
  <2>1. /\ capacity(Mine(d))' = capacity(Mine(d)) /\ effective_max_id(Mine(d))' = effective_max_id(Mine(d))
        /\ hist'[d].before = hist[d].before /\ hist'[d].want = hist[d].want /\ hist'[d].flips = hist[d].flips
        /\ SameBits(d) \/ OtherBits(d)
        /\ SameRegistry(d) \/ OtherRegistry(d)
        /\ DOMAIN trackers \subseteq DOMAIN trackers'
        /\ \A k \in DOMAIN trackers : trackers'[k].prefix = trackers[k].prefix
    BY <1>3 DEF Meanwhile
  <2>2. hist'[d].always \subseteq hist[d].always /\ hist[d].ever \subseteq hist'[d].ever /\ hist[d].touched \subseteq hist'[d].touched
    BY <2>1 DEF SameBits, OtherBits
  <2>3. SeenOK(d)'
    <3>1. /\ snap[d].always \subseteq iter_set(snap[d]) /\ iter_set(snap[d]) \subseteq snap[d].ever
          /\ call[d].op # "none" => hist[d].always \subseteq Mine(d).bits /\ Mine(d).bits \subseteq hist[d].ever
          /\ pc[d] = "words" /\ call[d].op \in SnapOps =>
               /\ Before(hist[d].always, call[d].at * W) \subseteq call[d].got /\ call[d].got \subseteq hist[d].ever
               /\ \A i \in call[d].got : i < capacity(Mine(d))
          /\ pc[d] = "return" => Answer(d)
          /\ call[d].op \in AskOps =>
               /\ call[d].todo \subseteq meant[d] /\ (pc[d] = "return" => call[d].todo = {})
               /\ call[d].op = "iter_missing_from_reference" =>
                    (meant[d] \ call[d].todo) \ hist[d].ever \subseteq call[d].got
                    /\ call[d].got \subseteq (meant[d] \ call[d].todo) \ hist[d].always
               /\ call[d].op = "iter_intersection" =>
                    (meant[d] \ call[d].todo) \intersect hist[d].always \subseteq call[d].got
                    /\ call[d].got \subseteq (meant[d] \ call[d].todo) \intersect hist[d].ever
      BY DEF SeenOK
    <3>2. call[d].op # "none" => hist'[d].always \subseteq Mine(d).bits' /\ Mine(d).bits' \subseteq hist'[d].ever
      BY <2>1, <3>1 DEF SameBits, OtherBits
    <3>3. pc[d] = "return" => Answer(d)'
      BY <1>1, <2>2, <3>1 DEF Answer
    <3>4. pc[d] = "words" /\ call[d].op \in SnapOps =>
               Before(hist'[d].always, call[d].at * W) \subseteq call[d].got /\ call[d].got \subseteq hist'[d].ever
      BY <2>2, <3>1 DEF Before
    <3>5. call[d].op \in AskOps =>
               /\ call[d].op = "iter_missing_from_reference" =>
                    (meant[d] \ call[d].todo) \ hist'[d].ever \subseteq call[d].got
                    /\ call[d].got \subseteq (meant[d] \ call[d].todo) \ hist'[d].always
               /\ call[d].op = "iter_intersection" =>
                    (meant[d] \ call[d].todo) \intersect hist'[d].always \subseteq call[d].got
                    /\ call[d].got \subseteq (meant[d] \ call[d].todo) \intersect hist'[d].ever
      BY <2>2, <3>1
    <3> QED BY <1>1, <2>1, <3>1, <3>2, <3>3, <3>4, <3>5 DEF SeenOK
  <2>4. BulkOK(d)'
    <3>2. CopyOK(d)'
      <4>1. Left(d, hist[d].ever) => \A i \in Nat \ hist'[d].touched : i \in hist'[d].ever <=> i \in Mine(d).bits'
        BY <2>1 DEF Left, SameBits, OtherBits, Diff
      <4>2. Left(d, hist[d].before) => \A i \in Nat \ hist'[d].touched : i \in hist'[d].before <=> i \in Mine(d).bits'
        BY <1>3, <2>1, LeftMeanwhile
      <4> QED BY <1>1, <2>1, <4>1, <4>2 DEF BulkOK, CopyOK, Left
    <3>3. SetsSoFar(d)'
      <4>1. ASSUME call[d].op \in SetOps, pc[d] \in {"ids", "return", "panicked"}
            PROVE  \A i \in Nat \ hist'[d].touched : i \in hist[d].before \union (hist[d].want \ call[d].todo) <=> i \in Mine(d).bits'
        BY <1>3, <4>1, LeftMeanwhile DEF BulkOK, SetsSoFar
      <4>2. Counts(d) => Counts(d)'
        BY <1>1, <2>1 DEF Counts
      <4> QED BY <1>1, <2>1, <2>2, <4>1, <4>2 DEF BulkOK, SetsSoFar, Left
    <3>4. RangeSoFar(d)'
      <4> DEFINE done == Before(hist[d].want, call[d].at * W)
                 S == IF call[d].op = "add_range" THEN hist[d].before \union done ELSE hist[d].before \ done
      <4>1. ASSUME call[d].op \in {"add_range", "remove_range"}, pc[d] \in {"words", "return"}
            PROVE  \A i \in Nat \ hist'[d].touched : i \in S <=> i \in Mine(d).bits'
        <5>1. Left(d, S)
          BY <4>1 DEF BulkOK, RangeSoFar
        <5> QED BY <1>3, <5>1, LeftMeanwhile
      <4>2. Counts(d) => Counts(d)'
        BY <1>1, <2>1 DEF Counts
      <4> QED BY <1>1, <2>1, <4>1, <4>2 DEF BulkOK, RangeSoFar, Left
    <3>5. ProfileSoFar(d)'
      <4> DEFINE max == effective_max_id(Mine(d))
                 S == hist[d].before \union Before(0 .. max - 1, call[d].at * W)
                 T == hist[d].want \union call[d].todo \union {i \in hist[d].before : i >= max}
      <4>1. Left(d, S) => \A i \in Nat \ hist'[d].touched : i \in S <=> i \in Mine(d).bits'
        BY <1>3, LeftMeanwhile
      <4>2. Left(d, T) => \A i \in Nat \ hist'[d].touched : i \in T <=> i \in Mine(d).bits'
        BY <1>3, LeftMeanwhile
      <4> QED BY <1>1, <2>1, <4>1, <4>2 DEF BulkOK, ProfileSoFar, Left
    <3> QED BY <3>2, <3>3, <3>4, <3>5 DEF BulkOK
  <2>5. WalkOK(d)'
    <3> DEFINE shard(k) == ShardOf[trackers[k].prefix]
    <3> SUFFICES ASSUME call[d].op = "walk" PROVE WalkOK(d)'
      BY <1>1 DEF WalkOK
    <3>1. /\ pc[d] \in {"shards", "return"} /\ (pc[d] = "shards" => call[d].at < NShards) /\ (pc[d] = "return" => call[d].at = NShards)
          /\ hist[d].kept \subseteq Registered(registry) /\ Registered(registry) \subseteq hist[d].met
          /\ call[d].got \subseteq DOMAIN trackers /\ call[d].got \subseteq hist[d].met
          /\ \A k \in call[d].got : shard(k) <= call[d].at
          /\ \A k \in hist[d].kept : shard(k) <= call[d].at => k \in call[d].got
          /\ \A j, k \in call[d].got : j # k => trackers[j].prefix # trackers[k].prefix
      BY DEF WalkOK
    <3>2. Registered(registry) \subseteq DOMAIN trackers
      BY DEF Typed, RegistryOK, Registered
    <3>3. /\ hist'[d].kept \subseteq hist[d].kept /\ hist'[d].kept \subseteq Registered(registry')
          /\ hist[d].met \subseteq hist'[d].met /\ Registered(registry') \subseteq hist'[d].met
      BY <2>1, <3>1 DEF SameRegistry, OtherRegistry
    <3>4. \A k \in call[d].got \union hist[d].kept : trackers'[k].prefix = trackers[k].prefix /\ k \in DOMAIN trackers'
      BY <2>1, <3>1, <3>2
    <3> QED BY <1>1, <3>1, <3>3, <3>4 DEF WalkOK
  <2> QED BY <2>3, <2>4, <2>5
<1> QED BY <1>2, <1>3

(* A step that changes no tracker and not the registry is no other's.      *)
LEMMA Apart ==
  ASSUME Typed, NEW c \in Caller, NEW d \in Caller \ {c}, UNCHANGED <<trackers, registry>>,
         pc'[d] = pc[d], call'[d] = call[d], arc'[d] = arc[d], ref'[d] = ref[d], meant'[d] = meant[d], snap'[d] = snap[d],
         hist'[d] = hist[d]
  PROVE  Meanwhile(d)
<1>1. Mine(d)' = Mine(d)
  BY DEF Mine
<1> QED BY <1>1 DEF Meanwhile, SameBits, SameRegistry, capacity, effective_max_id

(* What a call that has begun has done is nothing.                         *)
LEMMA BegunOK ==
  ASSUME Typed, NEW c \in Caller, NEW op, NEW label, NEW new, NEW want, Begun(c, op, label, new, want), SeenOK(c)
  PROVE  SeenOK(c)' /\ BulkOK(c)' /\ WalkOK(c)' /\ \A d \in Caller \ {c} : Meanwhile(d)
<1>1. /\ Typed' /\ pc'[c] = label /\ label # "idle" /\ op \in OpName
      /\ call'[c].op = op /\ call'[c].at = new.at /\ call'[c].lo = new.lo /\ call'[c].hi = new.hi
      /\ call'[c].todo = new.todo /\ call'[c].got = {} /\ call'[c].n = 0
      /\ hist'[c].before = Mine(c).bits /\ hist'[c].always = Mine(c).bits /\ hist'[c].ever = Mine(c).bits
      /\ hist'[c].want = want /\ hist'[c].flips = {} /\ hist'[c].touched = {}
      /\ hist'[c].kept = Registered(registry) /\ hist'[c].met = Registered(registry)
      /\ \A d \in Caller \ {c} : pc'[d] = pc[d] /\ call'[d] = call[d] /\ hist'[d] = hist[d]
      /\ UNCHANGED <<trackers, registry, gone, arc, ref, meant, snap>> /\ Suits(c, op, label, new, want)
      /\ want \in SUBSET Nat
  BY BegunFacts
<1>2. Mine(c)' = Mine(c) /\ capacity(Mine(c))' = capacity(Mine(c)) /\ effective_max_id(Mine(c))' = effective_max_id(Mine(c))
  BY <1>1 DEF Mine, capacity, effective_max_id
<1>3. Mine(c).bits \subseteq Nat /\ effective_max_id(Mine(c)) \in Nat
  BY MineFacts DEF Typed
<1>4. new.at = 0 => \A S \in SUBSET Nat : Before(S, new.at * W) = {}
  <2>1. new.at = 0 => new.at * W = 0
    BY WordAssumption
  <2>2. ASSUME NEW S \in SUBSET Nat PROVE Before(S, 0) = {}
    <3>1. \A i \in S : ~(i < 0)
      OBVIOUS
    <3> QED BY <3>1 DEF Before
  <2> QED BY <2>1, <2>2
<1>5. Counts(c)'
  BY <1>1, FS_EmptySet DEF Counts
<1>6. meant[c] \subseteq Nat
  BY Answers DEF Typed, SetsOK
<1>7. SeenOK(c)'
  <2>1. op \in SnapOps => Before(hist'[c].always, call'[c].at * W) = {}
    BY <1>1, <1>3, <1>4 DEF Suits
  <2>2. /\ snap[c].always \subseteq iter_set(snap[c]) /\ iter_set(snap[c]) \subseteq snap[c].ever
    BY DEF SeenOK
  <2>3. op \in AskOps => new.todo = meant[c] /\ (label = "return" => meant[c] = {})
    BY <1>1 DEF Suits
  <2>4. label = "return" => op \notin SnapOps
    BY <1>1 DEF Suits
  <2>5. label = "return" => Answer(c)'
    BY <1>1, <2>4 DEF Answer, SnapOps
  <2>6. op \in AskOps => call'[c].todo = meant'[c] /\ meant'[c] \ call'[c].todo = {} /\ (label = "return" => call'[c].todo = {})
    BY <1>1, <2>3
  <2> QED BY <1>1, <1>2, <2>1, <2>2, <2>5, <2>6 DEF SeenOK
<1>8. BulkOK(c)'
  <2>1. CopyOK(c)'
    BY <1>1, <1>2, <1>3, <1>4 DEF CopyOK, Suits, Left
  <2>2. SetsSoFar(c)'
    <3>1. op = "restore_from_reference" => label = "words"
      BY <1>1 DEF Suits, SnapOps
    <3>2. op = "populate_with_pattern" => new.todo = want /\ label = IF want = {} THEN "return" ELSE "ids"
      BY <1>1 DEF Suits
    <3>3. op = "populate_with_pattern" => hist'[c].want \ call'[c].todo = {} /\ hist'[c].before \union {} = Mine(c).bits
      BY <1>1, <3>2
    <3>4. Left(c, Mine(c).bits)'
      BY <1>1, <1>2 DEF Left
    <3>5. op = "populate_with_pattern" => Left(c, hist[c].before \union (hist[c].want \ call[c].todo))'
      BY <1>1, <1>2, <3>2 DEF Left
    <3> QED BY <1>1, <1>5, <3>1, <3>2, <3>3, <3>5 DEF SetsSoFar, SetOps
  <2>3. RangeSoFar(c)'
    <3> SUFFICES ASSUME op \in {"add_range", "remove_range"}, label \in {"words", "return"} PROVE RangeSoFar(c)'
      BY <1>1 DEF RangeSoFar
    <3>1. /\ new.at = new.lo \div W /\ want = {i \in Nat : new.lo <= i /\ i < new.hi}
          /\ label = "return" => want = {}
      BY <1>1 DEF Suits
    <3>2. new.lo \in Nat
      BY DEF Begun, CallType
    <3>3. Before(want, new.at * W) = {}
      <4>1. new.at * W <= new.lo /\ new.at \in Nat
        BY <3>1, <3>2, FirstWord
      <4> DEFINE n == new.at * W
      <4>2. n \in Nat /\ n <= new.lo
        BY <4>1, WordAssumption
      <4> HIDE DEF n
      <4>3. \A i \in want : ~(i < n)
        BY <3>1, <3>2, <4>2
      <4>4. Before(want, n) = {}
        BY <4>3 DEF Before
      <4> QED BY <4>4 DEF n
    <3>4. Left(c, IF call[c].op = "add_range" THEN hist[c].before \union {} ELSE hist[c].before \ {})'
      BY <1>1, <1>2 DEF Left
    <3>5. Before(hist'[c].want, call'[c].at * W) = {}
      BY <1>1, <3>3
    <3> QED BY <1>1, <1>5, <3>1, <3>4, <3>5 DEF RangeSoFar, Left
  <2>4. ProfileSoFar(c)'
    <3> SUFFICES ASSUME op = "populate_with_profile" PROVE ProfileSoFar(c)'
      BY <1>1 DEF ProfileSoFar
    <3>1. /\ label = "words" /\ new.lo = 0 /\ new.at = 0 /\ new.hi = effective_max_id(Mine(c))
          /\ new.todo = (0 .. new.hi - 1) \ want /\ want \subseteq 0 .. new.hi - 1
      BY <1>1 DEF Suits
    <3>2. Before(0 .. effective_max_id(Mine(c)) - 1, new.at * W) = {}
      BY <1>3, <1>4, <3>1
    <3>3. Left(c, hist[c].before \union {})'
      BY <1>1, <1>2 DEF Left
    <3>4. Before(0 .. effective_max_id(Mine(c))' - 1, call'[c].at * W) = {}
      BY <1>1, <1>2, <3>2
    <3> QED BY <1>1, <1>2, <3>1, <3>3, <3>4 DEF ProfileSoFar, Left
  <2> QED BY <2>1, <2>2, <2>3, <2>4 DEF BulkOK
<1>9. WalkOK(c)'
  <2> SUFFICES ASSUME op = "walk" PROVE WalkOK(c)'
    BY <1>1 DEF WalkOK
  <2>1. label = "shards" /\ new.at = 0
    BY <1>1 DEF Suits
  <2>2. \A k \in Registered(registry) : ~(ShardOf[trackers[k].prefix] <= 0)
    <3>1. ASSUME NEW k \in Registered(registry)
          PROVE  trackers[k].prefix \in Prefix
      BY DEF Registered, Typed, RegistryOK
    <3>2. \A p \in Prefix : ShardOf[p] \in Nat /\ ShardOf[p] > 0
      BY KeyspaceAssumption
    <3> QED BY <3>1, <3>2
  <2>3. NShards > 0
    BY KeyspaceAssumption
  <2> QED BY <1>1, <2>1, <2>2, <2>3 DEF WalkOK
<1>10. \A d \in Caller \ {c} : Meanwhile(d)
  BY <1>1, Apart
<1> QED BY <1>7, <1>8, <1>9, <1>10

(* A change of the bits of c's tracker is another's to those who hold it.   *)
LEMMA ChangedOthers ==
  ASSUME Typed, NEW c \in Caller, NEW S \in SUBSET Nat, Changed(c, S), UNCHANGED <<registry, gone, arc, ref, meant, snap>>,
         NEW d \in Caller \ {c}, pc'[d] = pc[d], call'[d] = call[d]
  PROVE  Meanwhile(d)
<1>1. /\ \A k \in DOMAIN trackers : /\ Stays(k)
                                    /\ trackers'[k].bits = IF k = arc[c] THEN S ELSE trackers[k].bits
      /\ trackers' \in Seq(TrackerType) /\ Len(trackers') = Len(trackers) /\ DOMAIN trackers' = DOMAIN trackers
      /\ hist'[d].kept = hist[d].kept /\ hist'[d].met = hist[d].met
      /\ hist'[d].before = hist[d].before /\ hist'[d].want = hist[d].want
      /\ IF pc[d] = "idle" \/ arc[d] # arc[c] THEN hist'[d] = hist[d]
           ELSE /\ hist'[d].always = hist[d].always \intersect S /\ hist'[d].ever = hist[d].ever \union S
                /\ hist'[d].flips = hist[d].flips
                /\ hist'[d].touched = hist[d].touched \union Diff(Mine(c).bits, S)
  BY DEF Changed
<1>2. /\ capacity(Mine(d))' = capacity(Mine(d)) /\ effective_max_id(Mine(d))' = effective_max_id(Mine(d))
  BY <1>1, SameTyped DEF Typed, SameTrackers
<1>3. Mine(d).bits' = IF arc[d] = arc[c] THEN S ELSE Mine(d).bits
  BY <1>1 DEF Mine, Typed, TrackersOK
<1>4. SameRegistry(d) /\ \A k \in DOMAIN trackers : trackers'[k].prefix = trackers[k].prefix
  BY <1>1 DEF SameRegistry, Stays
<1>5. CASE pc[d] = "idle"
  BY <1>5 DEF Meanwhile
<1>6. CASE pc[d] # "idle" /\ arc[d] = arc[c]
  <2>1. Mine(d).bits = Mine(c).bits
    BY <1>6 DEF Mine
  <2>2. OtherBits(d) /\ hist'[d].flips = hist[d].flips
    BY <1>1, <1>3, <1>6, <2>1 DEF OtherBits
  <2> QED BY <1>1, <1>2, <1>4, <2>2 DEF Meanwhile
<1>7. CASE pc[d] # "idle" /\ arc[d] # arc[c]
  <2>1. SameBits(d) /\ hist'[d].flips = hist[d].flips
    BY <1>1, <1>3, <1>7 DEF SameBits
  <2> QED BY <1>1, <1>2, <1>4, <2>1 DEF Meanwhile
<1> QED BY <1>5, <1>6, <1>7

(* A call goes on and makes the bits of its tracker those in S.            *)
LEMMA MovesFacts ==
  ASSUME Typed, NEW c \in Caller, pc[c] # "idle", NEW S \in SUBSET Nat, \A i \in S : i < capacity(Mine(c)),
         NEW label \in Labels \ {"idle"}, NEW new \in CallType, Change(c, S), Goto(c, label, new),
         UNCHANGED <<registry, gone, own, calls>>,
         label = "words" /\ new.op \in RangeOps => new.hi <= capacity(Mine(c)),
         label = "ids" => new.todo # {}
  PROVE  /\ Typed' /\ pc'[c] = label /\ call'[c] = new /\ (\A d \in Caller \ {c} : Meanwhile(d))
         /\ Mine(c).bits' = S
         /\ capacity(Mine(c))' = capacity(Mine(c)) /\ effective_max_id(Mine(c))' = effective_max_id(Mine(c))
         /\ hist'[c].before = hist[c].before /\ hist'[c].want = hist[c].want /\ hist'[c].touched = hist[c].touched
         /\ hist'[c].flips = hist[c].flips \union Diff(Mine(c).bits, S)
         /\ hist'[c].always = hist[c].always \intersect S /\ hist'[c].ever = hist[c].ever \union S
         /\ snap'[c] = snap[c] /\ meant'[c] = meant[c]
<1>t. TrackersOK /\ RegistryOK /\ CallsOK /\ SetsOK
  BY DEF Typed
<1>u. UNCHANGED <<registry, gone, ops, arc, ref, meant, snap, calls>>
  BY DEF own
<1>0. Changed(c, S)
  BY <1>t, ChangeFacts
<1>1. /\ trackers' \in Seq(TrackerType) /\ Len(trackers') = Len(trackers) /\ DOMAIN trackers' = DOMAIN trackers
      /\ \A k \in DOMAIN trackers : /\ Stays(k)
                                    /\ trackers'[k].bits = IF k = arc[c] THEN S ELSE trackers[k].bits
      /\ hist' \in [Caller -> HistType]
      /\ \A d \in Caller : /\ hist'[d].kept = hist[d].kept /\ hist'[d].met = hist[d].met
                           /\ hist'[d].before = hist[d].before /\ hist'[d].want = hist[d].want
      /\ \A d \in Caller : IF pc[d] = "idle" \/ arc[d] # arc[c] THEN hist'[d] = hist[d]
           ELSE /\ hist'[d].always = hist[d].always \intersect S /\ hist'[d].ever = hist[d].ever \union S
                /\ hist'[d].flips = IF d = c THEN hist[d].flips \union Diff(Mine(c).bits, S) ELSE hist[d].flips
                /\ hist'[d].touched = IF d = c THEN hist[d].touched
                                      ELSE hist[d].touched \union Diff(Mine(c).bits, S)
  BY <1>0 DEF Changed
<1>2. SameTrackers
  BY <1>1 DEF SameTrackers
<1>3. /\ TrackersOK' /\ RegistryOK'
      /\ \A d \in Caller : /\ capacity(Mine(d))' = capacity(Mine(d)) /\ Mine(d)'.words = Mine(d).words
                           /\ effective_max_id(Mine(d))' = effective_max_id(Mine(d))
  BY <1>t, <1>u, <1>2, SameTyped
<1>4. SetsOK'
  BY <1>t, <1>u DEF SetsOK
<1>5. /\ CallsOK' /\ pc'[c] = label /\ call'[c] = new
      /\ \A d \in Caller \ {c} : pc'[d] = pc[d] /\ call'[d] = call[d]
  <2>1. calls' \in [Caller -> Nat]
    BY <1>t, <1>u DEF CallsOK
  <2>2. \A d \in Caller \ {c} : pc[d] = "idle" => hist'[d] = hist[d]
    BY <1>1
  <2> HIDE DEF Labels
  <2> QED BY <1>1, <1>2, <1>t, <1>u, <2>1, <2>2, GoesOn
<1>6. Mine(c).bits' = S
  <2>1. arc[c] \in DOMAIN trackers
    BY <1>t DEF TrackersOK
  <2> QED BY <1>1, <1>u, <2>1 DEF Mine
<1>7. \A d \in Caller \ {c} : Meanwhile(d)
  BY <1>0, <1>5, <1>u, ChangedOthers
<1>8. Typed'
  BY <1>3, <1>4, <1>5 DEF Typed
<1> QED BY <1>1, <1>3, <1>5, <1>6, <1>7, <1>8, <1>u

(* A call goes on and changes no more than its snapshot.                   *)
LEMMA PassesFacts ==
  ASSUME Typed, NEW c \in Caller, NEW label \in Labels \ {"idle"}, NEW new \in CallType, Goto(c, label, new),
         UNCHANGED <<shared, ops, arc, ref, meant, calls, hist>>, DOMAIN snap' = Caller, Whole(snap'[c]),
         \A d \in Caller \ {c} : snap'[d] = snap[d],
         label = "words" /\ new.op \in RangeOps => new.hi <= capacity(Mine(c)),
         label = "ids" => new.todo # {}
  PROVE  /\ Typed' /\ pc'[c] = label /\ call'[c] = new /\ (\A d \in Caller \ {c} : Meanwhile(d))
         /\ Mine(c)' = Mine(c) /\ capacity(Mine(c))' = capacity(Mine(c))
         /\ effective_max_id(Mine(c))' = effective_max_id(Mine(c))
<1>t. TrackersOK /\ RegistryOK /\ CallsOK /\ SetsOK
  BY DEF Typed
<1>u. UNCHANGED <<trackers, registry, gone, ops, arc, ref, meant, calls, hist>>
  BY DEF shared
<1>1. TrackersOK' /\ RegistryOK' /\ SameTrackers
  BY <1>t, <1>u, SameIfUnchanged, SameTyped
<1>2. SetsOK'
  BY <1>t, <1>u DEF SetsOK
<1>3. /\ CallsOK' /\ pc'[c] = label /\ call'[c] = new
      /\ \A d \in Caller \ {c} : pc'[d] = pc[d] /\ call'[d] = call[d]
  <2>1. calls' \in [Caller -> Nat] /\ hist' \in [Caller -> HistType]
    BY <1>t, <1>u DEF CallsOK
  <2> HIDE DEF Labels
  <2> QED BY <1>1, <1>t, <1>u, <2>1, GoesOn
<1>4. \A d \in Caller \ {c} : Meanwhile(d)
  BY <1>3, <1>u, Apart
<1>5. Mine(c)' = Mine(c)
  BY <1>u DEF Mine
<1> QED BY <1>1, <1>2, <1>3, <1>4, <1>5 DEF Typed, capacity, effective_max_id

(* What is known of a call that is neither copying nor asking.             *)
LEMMA SeenPlain ==
  ASSUME NEW c \in Caller, SeenOK(c), snap'[c] = snap[c], hist'[c].always \subseteq Mine(c).bits',
         Mine(c).bits' \subseteq hist'[c].ever, call'[c].op \notin AskOps,
         pc'[c] = "words" => call'[c].op \notin SnapOps,
         pc'[c] = "return" => call'[c].op \notin SnapOps \ SetOps
  PROVE  SeenOK(c)'
BY DEF SeenOK, Answer, SnapOps, SetOps

(* Numbers of ids apart from each other add up.                            *)
LEMMA AddUp ==
  ASSUME NEW A, NEW B, IsFiniteSet(A), IsFiniteSet(B), A \intersect B = {}
  PROVE  /\ IsFiniteSet(A \union B) /\ Cardinality(B) \in Nat
         /\ Cardinality(A \union B) = Cardinality(A) + Cardinality(B)
<1>1. /\ IsFiniteSet(A \union B) /\ Cardinality(A) \in Nat /\ Cardinality(B) \in Nat
      /\ Cardinality(A \union B) = Cardinality(A) + Cardinality(B) - Cardinality(A \intersect B)
  BY FS_Union, FS_CardinalityType
<1>2. Cardinality(A \intersect B) = 0
  BY FS_EmptySet
<1> QED BY <1>1, <1>2

(* The next word of a range.                                               *)
LEMMA RangeWordOK ==
  ASSUME Typed, NEW c \in Caller, RangeWord(c), SeenOK(c), BulkOK(c)
  PROVE  /\ Typed' /\ SeenOK(c)' /\ BulkOK(c)' /\ WalkOK(c)'
         /\ \A d \in Caller \ {c} : Meanwhile(d)
<1> DEFINE me == call[c]
           h == hist[c]
           n == me.at * W
           mask == InWord(me.at, me.lo, me.hi)
           sets == me.op # "remove_range"
           bits == Mine(c).bits
           ends == (me.at + 1) * W >= me.hi
           flips == IF sets THEN mask \ bits ELSE mask \intersect bits
           S == IF sets THEN bits \union mask ELSE bits \ mask
           label == IF ~ends THEN "words" ELSE IF me.todo = {} THEN "return" ELSE "ids"
           new == [me EXCEPT !.at = me.at + 1, !.n = me.n + Cardinality(flips)]
<1>1. /\ pc[c] = "words" /\ me.op \in RangeOps /\ Change(c, S) /\ Goto(c, label, new)
      /\ UNCHANGED <<registry, gone, own, calls>>
  BY DEF RangeWord, RangeOps
<1>2. /\ me \in CallType /\ me.at \in Nat /\ me.lo \in Nat /\ me.hi \in Nat /\ me.n \in Nat /\ me.todo \subseteq Nat
      /\ me.hi <= capacity(Mine(c)) /\ capacity(Mine(c)) \in Nat /\ effective_max_id(Mine(c)) \in Nat
      /\ bits \subseteq Nat /\ \A i \in bits : i < capacity(Mine(c))
  BY <1>1, CallFacts, MineFacts DEF Typed, CallsOK
<1>3. n \in Nat /\ (me.at + 1) * W = n + W /\ W \in Nat /\ W > 0
  BY <1>2, WordAssumption
<1>4. mask \subseteq Nat /\ \A i \in Nat : i \in mask <=> n <= i /\ i < n + W /\ me.lo <= i /\ i < me.hi
  <2>1. mask = {i \in n .. n + W - 1 : me.lo <= i /\ i < me.hi}
    BY DEF InWord
  <2> HIDE DEF n, mask
  <2> QED BY <1>3, <2>1
<1>5. IsFiniteSet(mask)
  <2>1. mask \subseteq n .. n + W - 1
    BY DEF InWord
  <2> HIDE DEF n, mask
  <2>2. IsFiniteSet(n .. n + W - 1)
    BY <1>3, FS_Interval
  <2> QED BY <2>1, <2>2, FS_Subset
<1> HIDE DEF mask, n
<1>6. IsFiniteSet(flips) /\ Cardinality(flips) \in Nat /\ Diff(bits, S) = flips /\ flips \subseteq mask
  <2>1. flips \subseteq mask /\ Diff(bits, S) = flips
    BY DEF Diff
  <2> QED BY <1>5, <2>1, FS_Subset, FS_CardinalityType
<1>7. S \in SUBSET Nat /\ \A i \in S : i < capacity(Mine(c))
  <2>1. \A i \in mask : i \in Nat /\ i < capacity(Mine(c))
    BY <1>2, <1>4
  <2>2. S \subseteq bits \union mask
    OBVIOUS
  <2> HIDE DEF S
  <2> QED BY <1>2, <2>1, <2>2
<1>8. /\ new \in CallType /\ new.op = me.op /\ new.at = me.at + 1 /\ new.lo = me.lo /\ new.hi = me.hi
      /\ new.todo = me.todo /\ new.n = me.n + Cardinality(flips)
  <2> DEFINE k == me.n + Cardinality(flips)
             a == me.at + 1
  <2>1. k \in Nat /\ a \in Nat
    BY <1>2, <1>6
  <2>2. new = [me EXCEPT !.at = a, !.n = k]
    OBVIOUS
  <2> HIDE DEF flips, new, me, k, a
  <2>3. /\ new \in CallType /\ new.op = me.op /\ new.at = a /\ new.lo = me.lo /\ new.hi = me.hi
        /\ new.todo = me.todo /\ new.n = k
    BY <1>2, <2>1, <2>2 DEF CallType
  <2> QED BY <2>3 DEF k, a
<1>9. label \in Labels \ {"idle"} /\ (label = "ids" => me.todo # {})
  BY DEF Labels
<1>l. /\ label = "words" \/ ends
      /\ label = "words" => ~ends
      /\ label = "return" => ends /\ me.todo = {}
      /\ label \in {"words", "ids", "return"}
  OBVIOUS
<1> HIDE DEF new, label, S, flips
<1>10. /\ Typed' /\ pc'[c] = label /\ call'[c] = new /\ (\A d \in Caller \ {c} : Meanwhile(d))
       /\ Mine(c).bits' = S
       /\ capacity(Mine(c))' = capacity(Mine(c)) /\ effective_max_id(Mine(c))' = effective_max_id(Mine(c))
       /\ hist'[c].before = h.before /\ hist'[c].want = h.want /\ hist'[c].touched = h.touched
       /\ hist'[c].flips = h.flips \union flips
       /\ hist'[c].always = h.always \intersect S /\ hist'[c].ever = h.ever \union S
       /\ snap'[c] = snap[c] /\ meant'[c] = meant[c]
  BY <1>1, <1>2, <1>6, <1>7, <1>8, <1>9, MovesFacts
<1>11. SeenOK(c)'
  <2>1. call'[c].op \in RangeOps
    BY <1>1, <1>8, <1>10
  <2> QED BY <1>10, <2>1, SeenPlain DEF RangeOps, SnapOps, AskOps
<1>12. RangeSoFar(c)'
  <2> SUFFICES ASSUME me.op \in {"add_range", "remove_range"}, label \in {"words", "return"} PROVE RangeSoFar(c)'
    BY <1>8, <1>10 DEF RangeSoFar
  <2> DEFINE done == Before(h.want, n)
             more == Before(h.want, n + W)
  <2>1. /\ h.want = {i \in Nat : me.lo <= i /\ i < me.hi}
        /\ (\A i \in h.flips : i < n) /\ Counts(c)
        /\ Left(c, IF me.op = "add_range" THEN h.before \union done ELSE h.before \ done)
    BY <1>1 DEF BulkOK, RangeSoFar, n
  <2>2. h.before \subseteq Nat /\ h.flips \subseteq Nat
    BY HistFacts DEF Typed
  <2>3. more = done \union mask
    <3>1. ASSUME NEW i \in Nat
          PROVE  i \in more <=> i \in done \/ i \in mask
      BY <1>3, <1>4, <2>1 DEF Before
    <3>2. more \subseteq Nat /\ done \subseteq Nat
      BY <2>1 DEF Before
    <3> HIDE DEF more, done
    <3> QED BY <1>4, <3>1, <3>2
  <2>4. label = "return" => more = h.want
    BY <1>2, <1>3, <1>l, <2>1 DEF Before
  <2>5. h.flips \intersect flips = {}
    BY <1>3, <1>4, <1>6, <2>1, <2>2
  <2>6. Counts(c)'
    <3>1. /\ IsFiniteSet(h.flips \union flips)
          /\ Cardinality(h.flips \union flips) = Cardinality(h.flips) + Cardinality(flips)
      BY <1>6, <2>1, <2>5, AddUp DEF Counts
    <3>2. hist'[c].flips = h.flips \union flips /\ call'[c].n = Cardinality(h.flips) + Cardinality(flips)
      BY <1>8, <1>10, <2>1 DEF Counts
    <3> QED BY <3>1, <3>2 DEF Counts
  <2>7. \A i \in h.flips \union flips : i < n + W
    <3>1. \A i \in h.flips : i \in Nat /\ i < n
      BY <2>1, <2>2
    <3>2. \A i \in flips : i \in Nat /\ i < n + W
      BY <1>4, <1>6
    <3> QED BY <1>3, <3>1, <3>2
  <2>8. Left(c, IF call[c].op = "add_range" THEN hist[c].before \union Before(hist[c].want, call[c].at * W)
                ELSE hist[c].before \ Before(hist[c].want, call[c].at * W))'
    <3>1. Before(hist'[c].want, call'[c].at * W) = more
      BY <1>3, <1>8, <1>10
    <3>2. \A i \in Nat \ h.touched :
            i \in (IF me.op = "add_range" THEN h.before \union done ELSE h.before \ done) <=> i \in bits
      BY <2>1 DEF Left
    <3> HIDE DEF done, more
    <3>3. CASE me.op = "add_range"
      BY <1>8, <1>10, <2>3, <3>1, <3>2, <3>3 DEF Left, S
    <3>4. CASE me.op = "remove_range"
      BY <1>8, <1>10, <2>3, <3>1, <3>2, <3>4 DEF Left, S
    <3> QED BY <3>3, <3>4
  <2>9. Before(hist'[c].want, call'[c].at * W) = more /\ call'[c].at * W = n + W
    BY <1>3, <1>8, <1>10
  <2> HIDE DEF done, more
  <2> QED BY <1>8, <1>10, <2>1, <2>4, <2>6, <2>7, <2>8, <2>9 DEF RangeSoFar
<1>13. ProfileSoFar(c)'
  <2> SUFFICES ASSUME me.op = "populate_with_profile" PROVE ProfileSoFar(c)'
    BY <1>8, <1>10 DEF ProfileSoFar
  <2> DEFINE max == effective_max_id(Mine(c))
  <2>1. /\ me.lo = 0 /\ me.hi = max /\ me.todo = (0 .. max - 1) \ h.want /\ h.want \subseteq 0 .. max - 1
        /\ Left(c, h.before \union Before(0 .. max - 1, n))
    BY <1>1 DEF BulkOK, ProfileSoFar, n
  <2>2. \A i \in Nat \ h.touched : i \in h.before \union Before(0 .. max - 1, n) <=> i \in bits
    BY <2>1 DEF Left
  <2>3. max \in Nat /\ S = bits \union mask /\ h.before \subseteq Nat
    BY <1>2, HistFacts DEF Typed, S
  <2> HIDE DEF max
  <2>4. \A i \in Nat : i \in Before(0 .. max - 1, n + W) <=> i \in Before(0 .. max - 1, n) \/ i \in mask
    BY <1>3, <1>4, <2>1, <2>3 DEF Before
  <2>5. \A i \in Nat \ h.touched : i \in h.before \union Before(0 .. max - 1, n + W) <=> i \in S
    BY <2>2, <2>3, <2>4
  <2>6. ASSUME ends
        PROVE  \A i \in Nat \ h.touched : i \in h.want \union me.todo \union {j \in h.before : j >= max} <=> i \in S
    <3>1. \A i \in Nat : i \in Before(0 .. max - 1, n + W) <=> i < max
      BY <1>3, <2>1, <2>3, <2>6 DEF Before
    <3>2. \A i \in Nat : i \in h.want \union me.todo <=> i < max
      BY <2>1, <2>3
    <3>3. ASSUME NEW i \in Nat \ h.touched
          PROVE  i \in h.want \union me.todo \union {j \in h.before : j >= max} <=> i \in S
      BY <2>3, <2>5, <3>1, <3>2
    <3> QED BY <3>3
  <2>7. call'[c].at * W = n + W /\ effective_max_id(Mine(c))' = max
    BY <1>3, <1>8, <1>10 DEF max
  <2> QED BY <1>8, <1>10, <1>l, <2>1, <2>5, <2>6, <2>7 DEF ProfileSoFar, Left
<1>14. BulkOK(c)'
  <2>1. CopyOK(c)' /\ SetsSoFar(c)'
    BY <1>1, <1>8, <1>10 DEF CopyOK, SetsSoFar, RangeOps, SnapOps, SetOps
  <2> QED BY <1>12, <1>13, <2>1 DEF BulkOK
<1>15. WalkOK(c)'
  BY <1>1, <1>8, <1>10 DEF WalkOK, RangeOps
<1> QED BY <1>10, <1>11, <1>14, <1>15

(* The next id to set.                                                     *)
LEMMA SetIdOK ==
  ASSUME Typed, NEW c \in Caller, SetId(c), SeenOK(c), BulkOK(c)
  PROVE  /\ Typed' /\ SeenOK(c)' /\ BulkOK(c)' /\ WalkOK(c)'
         /\ \A d \in Caller \ {c} : Meanwhile(d)
<1> DEFINE me == call[c]
           h == hist[c]
           i == Min(me.todo)
           bits == Mine(c).bits
           S == bits \union {i}
           label == IF me.todo = {i} THEN "return" ELSE "ids"
           count == IF i \in bits THEN me.n ELSE me.n + 1
           new == [me EXCEPT !.todo = me.todo \ {i}, !.n = count]
<1>1. pc[c] = "ids" /\ me.op \in SetOps
  BY DEF SetId, SetOps
<1>2. /\ me \in CallType /\ me.n \in Nat /\ me.todo \subseteq Nat /\ me.todo # {}
      /\ capacity(Mine(c)) \in Nat /\ bits \subseteq Nat /\ \A j \in bits : j < capacity(Mine(c))
  BY <1>1, CallFacts, MineFacts DEF Typed, CallsOK
<1>3. i \in me.todo /\ i \in Nat /\ \A j \in me.todo : i <= j
  BY <1>2, LeastOf
<1>4. \/ i >= capacity(Mine(c)) /\ Goto(c, "panicked", me) /\ UNCHANGED <<trackers, hist>> /\ UNCHANGED <<registry, gone, own, calls>>
      \/ /\ i < capacity(Mine(c)) /\ Change(c, S) /\ Goto(c, label, new)
         /\ UNCHANGED <<registry, gone, own, calls>>
  BY DEF SetId
<1>5. /\ h.flips \subseteq h.want \ me.todo /\ Counts(c) /\ me.todo \subseteq h.want
      /\ \A j \in h.want \ me.todo : j \in h.before \/ j \in h.touched \/ \A k \in me.todo : j < k
      /\ Left(c, h.before \union (h.want \ me.todo))
  BY <1>1 DEF BulkOK, SetsSoFar
<1>6. /\ snap[c].always \subseteq iter_set(snap[c]) /\ iter_set(snap[c]) \subseteq snap[c].ever
      /\ h.always \subseteq bits /\ bits \subseteq h.ever
  BY <1>1 DEF SeenOK, SetOps
<1>7. DOMAIN snap = Caller /\ Whole(snap[c])
  BY DEF Typed, SetsOK
<1>8. CASE /\ i >= capacity(Mine(c)) /\ Goto(c, "panicked", me) /\ UNCHANGED <<trackers, hist>>
           /\ UNCHANGED <<registry, gone, own, calls>>
  <2>1. UNCHANGED <<shared, ops, arc, ref, meant, calls, hist>> /\ UNCHANGED snap
    BY <1>8 DEF shared, own
  <2>2. /\ Typed' /\ pc'[c] = "panicked" /\ call'[c] = me /\ (\A d \in Caller \ {c} : Meanwhile(d))
        /\ Mine(c)' = Mine(c) /\ capacity(Mine(c))' = capacity(Mine(c))
        /\ effective_max_id(Mine(c))' = effective_max_id(Mine(c))
    <3>1. "panicked" \in Labels \ {"idle"} /\ Goto(c, "panicked", me)
      BY <1>8 DEF Labels
    <3> HIDE DEF me
    <3> QED BY <1>2, <1>7, <2>1, <3>1, PassesFacts
  <2>3. SeenOK(c)'
    BY <1>1, <1>6, <2>1, <2>2, SeenPlain DEF SetOps, SnapOps, AskOps
  <2>4. SetsSoFar(c)'
    <3>1. Counts(c)' /\ Left(c, hist[c].before \union (hist[c].want \ call[c].todo))'
      BY <1>5, <2>1, <2>2 DEF Counts, Left
    <3> QED BY <1>2, <1>5, <2>1, <2>2, <3>1 DEF SetsSoFar
  <2>5. CopyOK(c)' /\ RangeSoFar(c)' /\ ProfileSoFar(c)' /\ WalkOK(c)'
    BY <1>1, <2>2 DEF CopyOK, RangeSoFar, ProfileSoFar, WalkOK, SetOps
  <2> QED BY <2>2, <2>3, <2>4, <2>5 DEF BulkOK
<1>9. CASE /\ i < capacity(Mine(c)) /\ Change(c, S) /\ Goto(c, label, new)
           /\ UNCHANGED <<registry, gone, own, calls>>
  <2>1. /\ new \in CallType /\ new.op = me.op /\ new.todo = me.todo \ {i}
        /\ new.n = IF i \in bits THEN me.n ELSE me.n + 1
    <3>1. count \in Nat
      BY <1>2
    <3> HIDE DEF count
    <3>2. new \in CallType /\ new.op = me.op /\ new.todo = me.todo \ {i} /\ new.n = count
      <4> HIDE DEF i
      <4> QED BY <1>2, <3>1 DEF CallType
    <3> QED BY <3>2 DEF count
  <2>2. S \in SUBSET Nat /\ \A j \in S : j < capacity(Mine(c))
    BY <1>2, <1>3, <1>9
  <2>3. /\ label \in Labels \ {"idle"} /\ label \in {"ids", "return"} /\ (label = "ids" => new.todo # {})
        /\ (label = "return") = (new.todo = {})
    BY <1>3, <2>1 DEF Labels
  <2>4. Change(c, S) /\ Goto(c, label, new) /\ UNCHANGED <<registry, gone, own, calls>>
    BY <1>9
  <2> HIDE DEF new, label, S
  <2>5. /\ Typed' /\ pc'[c] = label /\ call'[c] = new /\ (\A d \in Caller \ {c} : Meanwhile(d))
        /\ Mine(c).bits' = S
        /\ hist'[c].before = h.before /\ hist'[c].want = h.want /\ hist'[c].touched = h.touched
        /\ hist'[c].flips = h.flips \union Diff(bits, S)
        /\ hist'[c].always = h.always \intersect S /\ hist'[c].ever = h.ever \union S
        /\ snap'[c] = snap[c] /\ meant'[c] = meant[c]
    BY <1>1, <2>1, <2>2, <2>3, <2>4, MovesFacts
  <2>6. SeenOK(c)'
    BY <1>1, <2>1, <2>3, <2>5, SeenPlain DEF SetOps, SnapOps, AskOps
  <2>7. SetsSoFar(c)'
    <3>1. h.want \ new.todo = (h.want \ me.todo) \union {i}
      BY <1>3, <1>5, <2>1
    <3>2. Diff(bits, S) = IF i \in bits THEN {} ELSE {i}
      BY DEF S, Diff
    <3>3. Counts(c)'
      <4>1. CASE i \in bits
        BY <1>5, <2>1, <2>5, <3>2, <4>1 DEF Counts
      <4>2. CASE i \notin bits
        <5>1. IsFiniteSet({i}) /\ Cardinality({i}) = 1 /\ h.flips \intersect {i} = {}
          BY <1>3, <1>5, FS_Singleton
        <5>2. /\ IsFiniteSet(h.flips \union {i})
              /\ Cardinality(h.flips \union {i}) = Cardinality(h.flips) + 1
          <6>1. IsFiniteSet(h.flips)
            BY <1>5 DEF Counts
          <6> HIDE DEF i, h
          <6>2. /\ IsFiniteSet(h.flips \union {i})
                /\ Cardinality(h.flips \union {i}) = Cardinality(h.flips) + Cardinality({i})
            BY <5>1, <6>1, AddUp
          <6> QED BY <5>1, <6>2
        <5> QED BY <1>5, <2>1, <2>5, <3>2, <4>2, <5>2 DEF Counts
      <4> QED BY <4>1, <4>2
    <3>4. h.flips \union Diff(bits, S) \subseteq h.want \ new.todo
      BY <1>5, <3>1, <3>2
    <3>5. \A j \in h.want \ new.todo : j \in h.before \/ j \in h.touched \/ \A k \in new.todo : j < k
      <4>1. \A k \in new.todo : i < k
        BY <1>2, <1>3, <2>1
      <4>2. \A k \in new.todo : k \in me.todo
        BY <2>1
      <4> QED BY <1>5, <3>1, <4>1, <4>2
    <3>6. \A j \in Nat \ h.touched : j \in h.before \union (h.want \ new.todo) <=> j \in S
      BY <1>5, <3>1 DEF Left, S
    <3>7. Left(c, hist[c].before \union (hist[c].want \ call[c].todo))'
      BY <2>5, <3>6 DEF Left
    <3>8. new.todo \subseteq h.want
      BY <1>5, <2>1
    <3> QED BY <2>3, <2>5, <3>3, <3>4, <3>5, <3>7, <3>8 DEF SetsSoFar
  <2>8. CopyOK(c)' /\ RangeSoFar(c)' /\ ProfileSoFar(c)' /\ WalkOK(c)'
    BY <1>1, <2>1, <2>3, <2>5 DEF CopyOK, RangeSoFar, ProfileSoFar, WalkOK, SetOps
  <2> QED BY <2>5, <2>6, <2>7, <2>8 DEF BulkOK
<1> QED BY <1>4, <1>8, <1>9

(* The next id to clear.                                                   *)
LEMMA ClearIdOK ==
  ASSUME Typed, NEW c \in Caller, ClearId(c), SeenOK(c), BulkOK(c)
  PROVE  /\ Typed' /\ SeenOK(c)' /\ BulkOK(c)' /\ WalkOK(c)'
         /\ \A d \in Caller \ {c} : Meanwhile(d)
<1> DEFINE me == call[c]
           h == hist[c]
           i == Min(me.todo)
           bits == Mine(c).bits
           max == effective_max_id(Mine(c))
           S == bits \ {i}
           label == IF me.todo = {i} THEN "return" ELSE "ids"
           new == [me EXCEPT !.todo = me.todo \ {i}]
<1>1. /\ pc[c] = "ids" /\ me.op = "populate_with_profile" /\ Change(c, S) /\ Goto(c, label, new)
      /\ UNCHANGED <<registry, gone, own, calls>>
  BY DEF ClearId
<1>2. /\ me \in CallType /\ me.todo \subseteq Nat /\ me.todo # {} /\ max \in Nat
      /\ capacity(Mine(c)) \in Nat /\ bits \subseteq Nat /\ \A j \in bits : j < capacity(Mine(c))
  BY <1>1, CallFacts, MineFacts DEF Typed, CallsOK
<1>3. i \in me.todo /\ i \in Nat
  BY <1>2, LeastOf
<1>4. /\ me.lo = 0 /\ me.hi = max
      /\ me.todo \subseteq (0 .. max - 1) \ h.want /\ h.want \subseteq 0 .. max - 1
      /\ Left(c, h.want \union me.todo \union {j \in h.before : j >= max})
  BY <1>1 DEF BulkOK, ProfileSoFar
<1>5. new \in CallType /\ new.op = me.op /\ new.todo = me.todo \ {i} /\ new.lo = me.lo /\ new.hi = me.hi
  <2> HIDE DEF i
  <2> QED BY <1>2 DEF CallType
<1>6. S \in SUBSET Nat /\ \A j \in S : j < capacity(Mine(c))
  BY <1>2
<1>7. /\ label \in Labels \ {"idle"} /\ label \in {"ids", "return"} /\ (label = "ids" => new.todo # {})
      /\ (label = "return" => new.todo = {})
  BY <1>3, <1>5 DEF Labels
<1> HIDE DEF new, label, S
<1>8. /\ Typed' /\ pc'[c] = label /\ call'[c] = new /\ (\A d \in Caller \ {c} : Meanwhile(d))
      /\ Mine(c).bits' = S /\ effective_max_id(Mine(c))' = max
      /\ hist'[c].before = h.before /\ hist'[c].want = h.want /\ hist'[c].touched = h.touched
      /\ hist'[c].always = h.always \intersect S /\ hist'[c].ever = h.ever \union S
      /\ snap'[c] = snap[c] /\ meant'[c] = meant[c]
  BY <1>1, <1>5, <1>6, <1>7, MovesFacts
<1>9. SeenOK(c)'
  BY <1>1, <1>5, <1>7, <1>8, SeenPlain DEF SetOps, SnapOps, AskOps
<1>10. ProfileSoFar(c)'
  <2>1. i \notin h.want /\ i < max
    BY <1>2, <1>3, <1>4
  <2> HIDE DEF max, i
  <2>2. \A j \in Nat \ h.touched : j \in h.want \union new.todo \union {k \in h.before : k >= max} <=> j \in S
    <3>1. \A j \in Nat \ h.touched : j \in h.want \union me.todo \union {k \in h.before : k >= max} <=> j \in bits
      BY <1>4 DEF Left
    <3>2. ~(i >= max)
      BY <1>2, <1>3, <2>1
    <3> QED BY <1>5, <2>1, <3>1, <3>2 DEF S
  <2>3. new.todo \subseteq (0 .. max - 1) \ h.want
    BY <1>4, <1>5
  <2>4. Left(c, hist[c].want \union call[c].todo \union {k \in hist[c].before : k >= effective_max_id(Mine(c))})'
    BY <1>8, <2>2 DEF Left
  <2> QED BY <1>1, <1>4, <1>5, <1>7, <1>8, <2>3, <2>4 DEF ProfileSoFar
<1>11. CopyOK(c)' /\ SetsSoFar(c)' /\ RangeSoFar(c)' /\ WalkOK(c)'
  BY <1>1, <1>5, <1>8 DEF CopyOK, SetsSoFar, RangeSoFar, WalkOK, SetOps, SnapOps
<1> QED BY <1>8, <1>9, <1>10, <1>11 DEF BulkOK

(* The next id that is asked for.                                          *)
LEMMA TestIdOK ==
  ASSUME Typed, NEW c \in Caller, TestId(c), SeenOK(c), BulkOK(c)
  PROVE  /\ Typed' /\ SeenOK(c)' /\ BulkOK(c)' /\ WalkOK(c)'
         /\ \A d \in Caller \ {c} : Meanwhile(d)
<1> DEFINE me == call[c]
           h == hist[c]
           i == Min(me.todo)
           bits == Mine(c).bits
           got == IF (i \in bits) = (me.op = "iter_intersection") THEN me.got \union {i} ELSE me.got
           label == IF me.todo = {i} THEN "return" ELSE "ids"
           new == [me EXCEPT !.todo = me.todo \ {i}, !.got = got]
<1>1. /\ pc[c] = "ids" /\ me.op \in AskOps /\ Goto(c, label, new)
      /\ UNCHANGED <<shared, own, calls, hist>>
  BY DEF TestId, AskOps
<1>2. me \in CallType /\ me.todo \subseteq Nat /\ me.todo # {} /\ me.got \subseteq Nat
  BY <1>1, CallFacts DEF Typed, CallsOK
<1>3. i \in me.todo /\ i \in Nat
  BY <1>2, LeastOf
<1>4. /\ snap[c].always \subseteq iter_set(snap[c]) /\ iter_set(snap[c]) \subseteq snap[c].ever
      /\ h.always \subseteq bits /\ bits \subseteq h.ever
      /\ me.todo \subseteq meant[c]
      /\ me.op = "iter_missing_from_reference" =>
           (meant[c] \ me.todo) \ h.ever \subseteq me.got /\ me.got \subseteq (meant[c] \ me.todo) \ h.always
      /\ me.op = "iter_intersection" =>
           (meant[c] \ me.todo) \intersect h.always \subseteq me.got /\ me.got \subseteq (meant[c] \ me.todo) \intersect h.ever
  BY <1>1 DEF SeenOK, AskOps
<1>5. new \in CallType /\ new.op = me.op /\ new.todo = me.todo \ {i} /\ new.got = got
  <2>1. got \subseteq Nat
    BY <1>2, <1>3
  <2> HIDE DEF i, got
  <2> QED BY <1>2, <2>1 DEF CallType
<1>6. /\ label \in Labels \ {"idle"} /\ label \in {"ids", "return"} /\ (label = "ids" => new.todo # {})
      /\ (label = "return" => new.todo = {})
  BY <1>3, <1>5 DEF Labels
<1>7. UNCHANGED <<ops, arc, ref, meant, snap, hist>> /\ DOMAIN snap = Caller /\ Whole(snap[c])
  BY <1>1 DEF own, Typed, SetsOK
<1> HIDE DEF new, label
<1>8. /\ Typed' /\ pc'[c] = label /\ call'[c] = new /\ (\A d \in Caller \ {c} : Meanwhile(d)) /\ Mine(c)' = Mine(c)
  BY <1>1, <1>5, <1>6, <1>7, PassesFacts
<1>9. SeenOK(c)'
  <2>1. meant[c] \ new.todo = (meant[c] \ me.todo) \union {i}
    BY <1>3, <1>4, <1>5
  <2>2. me.op = "iter_missing_from_reference" =>
           (meant[c] \ new.todo) \ h.ever \subseteq got /\ got \subseteq (meant[c] \ new.todo) \ h.always
    BY <1>4, <2>1
  <2>3. me.op = "iter_intersection" =>
           (meant[c] \ new.todo) \intersect h.always \subseteq got /\ got \subseteq (meant[c] \ new.todo) \intersect h.ever
    BY <1>4, <2>1
  <2>4. new.todo \subseteq meant[c]
    BY <1>4, <1>5
  <2>5. Answer(c)'
    BY <1>1, <1>5, <1>8 DEF Answer, AskOps
  <2> HIDE DEF got, i
  <2> QED BY <1>1, <1>4, <1>5, <1>6, <1>7, <1>8, <2>2, <2>3, <2>4, <2>5 DEF SeenOK
<1>10. BulkOK(c)' /\ WalkOK(c)'
  BY <1>1, <1>5, <1>8 DEF BulkOK, CopyOK, SetsSoFar, RangeSoFar, ProfileSoFar, WalkOK, AskOps, SetOps, SnapOps
<1> QED BY <1>8, <1>9, <1>10

(* The next word to copy.                                                  *)
LEMMA SnapshotWordOK ==
  ASSUME Typed, NEW c \in Caller, SnapshotWord(c), SeenOK(c), BulkOK(c)
  PROVE  /\ Typed' /\ SeenOK(c)' /\ BulkOK(c)' /\ WalkOK(c)'
         /\ \A d \in Caller \ {c} : Meanwhile(d)
<1> DEFINE me == call[c]
           h == hist[c]
           t == Mine(c)
           got == me.got \union (t.bits \intersect InWord(me.at, 0, capacity(t)))
           copy == [data |-> Packed(got, t.words), capacity |-> capacity(t), always |-> h.always, ever |-> h.ever]
           added == snapshot_difference(copy, snap[c])
           removed == snapshot_difference(snap[c], copy)
           missing == missing_in(ref[c], copy)
           held == iter_set(snap[c])
           n == me.at * W
           Gives(S) == [me EXCEPT !.got = S, !.n = Cardinality(S)]
           further == [me EXCEPT !.at = me.at + 1, !.got = got]
           restores == [me EXCEPT !.got = {}, !.todo = missing]
           begins == IF missing = {} THEN "return" ELSE "ids"
<1>1. /\ pc[c] = "words" /\ me.op \in SnapOps /\ UNCHANGED <<shared, ops, arc, ref, meant, calls, hist>>
      /\ \/ me.at + 1 < t.words /\ Goto(c, "words", further) /\ snap' = snap
         \/ /\ me.at + 1 = t.words /\ me.op = "snapshot"
            /\ Goto(c, "return", Gives(got)) /\ snap' = [snap EXCEPT ![c] = copy]
         \/ /\ me.at + 1 = t.words /\ me.op # "snapshot" /\ snap' = snap
            /\ \/ me.op = "added_since" /\ Goto(c, "return", Gives(added))
               \/ me.op = "removed_since" /\ Goto(c, "return", Gives(removed))
               \/ me.op = "missing" /\ Goto(c, "return", Gives(missing))
               \/ me.op = "restore_from_reference" /\ Goto(c, begins, restores)
  <2>1. SnapshotWord(c)
    OBVIOUS
  <2> QED BY <2>1 DEF SnapshotWord, SnapOps
<1>2. /\ me \in CallType /\ me.at \in Nat /\ me.got \subseteq Nat /\ me.n \in Nat /\ me.todo \subseteq Nat
      /\ t \in TrackerType /\ t.words \in Nat /\ capacity(t) \in Nat /\ capacity(t) = t.words * W
      /\ t.bits \subseteq Nat /\ \A j \in t.bits : j < capacity(t)
  BY CallFacts, MineFacts, TrackerFacts DEF Typed, capacity
<1>3. /\ snap[c].always \subseteq held /\ held \subseteq snap[c].ever
      /\ h.always \subseteq t.bits /\ t.bits \subseteq h.ever
      /\ Before(h.always, n) \subseteq me.got /\ me.got \subseteq h.ever
      /\ \A i \in me.got : i < capacity(t)
  BY <1>1 DEF SeenOK, SnapOps
<1>4. /\ h.flips = {} /\ me.n = 0 /\ Left(c, h.before) /\ Left(c, h.ever)
      /\ me.op = "restore_from_reference" => h.want = meant[c]
  BY <1>1 DEF BulkOK, CopyOK
<1>5. n \in Nat /\ (me.at + 1) * W = n + W /\ W \in Nat /\ W > 0
  BY <1>2, WordAssumption
<1>6. /\ got \subseteq h.ever /\ got \subseteq Nat /\ Before(h.always, n + W) \subseteq got
      /\ \A i \in got : i < capacity(t)
  <2>1. InWord(me.at, 0, capacity(t)) = {i \in n .. n + W - 1 : 0 <= i /\ i < capacity(t)}
    BY DEF InWord
  <2> HIDE DEF n
  <2>2. \A i \in Nat : i \in InWord(me.at, 0, capacity(t)) <=> n <= i /\ i < n + W /\ i < capacity(t)
    BY <1>2, <1>5, <2>1
  <2>3. Before(h.always, n + W) \subseteq got
    <3>1. ASSUME NEW i \in Before(h.always, n + W)
          PROVE  i \in got
      <4>1. i \in t.bits /\ i \in Nat /\ i < n + W /\ i < capacity(t) /\ i \in h.always
        BY <1>2, <1>3, <3>1 DEF Before
      <4>2. CASE i < n
        BY <1>3, <4>1, <4>2 DEF Before
      <4>3. CASE ~(i < n)
        BY <1>5, <2>2, <4>1, <4>3
      <4> QED BY <4>2, <4>3
    <3> HIDE DEF got
    <3> QED BY <3>1
  <2> QED BY <1>2, <1>3, <2>3
<1>w. Whole(snap[c]) /\ Holds(ref[c], meant[c]) /\ DOMAIN snap = Caller
  BY DEF Typed, SetsOK
<1>7. Whole(copy) /\ iter_set(copy) = got /\ copy.always = h.always /\ copy.ever = h.ever
  <2>1. got \in SUBSET (0 .. t.words * W - 1)
    <3>1. \A i \in got : i \in Nat /\ i < t.words * W
      BY <1>2, <1>6
    <3>2. t.words * W \in Nat
      BY <1>2
    <3> HIDE DEF got
    <3> QED BY <3>1, <3>2
  <2> HIDE DEF got
  <2>2. Packed(got, t.words) \in WordSeq /\ Len(Packed(got, t.words)) = t.words /\ Ids(Packed(got, t.words)) = got
    BY <1>2, <2>1, PackedIds
  <2>3. copy.data = Packed(got, t.words) /\ copy.capacity = capacity(t) /\ copy.always = h.always /\ copy.ever = h.ever
    OBVIOUS
  <2> HIDE DEF copy
  <2>4. Whole(copy)
    BY <1>2, <2>2, <2>3 DEF Whole
  <2>5. iter_set(copy) = Ids(copy.data)
    BY <2>4, WholeIds
  <2> QED BY <2>2, <2>3, <2>4, <2>5
<1> HIDE DEF copy
<1>8. /\ added = got \ held /\ removed = held \ got /\ missing = meant[c] \ got
      /\ IsFiniteSet(got) /\ IsFiniteSet(held) /\ IsFiniteSet(meant[c]) /\ held \subseteq Nat /\ meant[c] \subseteq Nat
  <2>1. snapshot_difference(copy, snap[c]) = iter_set(copy) \ held
    BY <1>7, <1>w, Compared
  <2>2. snapshot_difference(snap[c], copy) = held \ iter_set(copy)
    BY <1>7, <1>w, Compared
  <2>3. missing_in(ref[c], copy) = meant[c] \ iter_set(copy)
    BY <1>7, <1>w, ComparedReference
  <2>4. IsFiniteSet(iter_set(copy)) /\ IsFiniteSet(held) /\ held \subseteq Nat
    BY <1>7, <1>w, WholeIds
  <2>5. IsFiniteSet(meant[c]) /\ meant[c] \subseteq Nat
    BY <1>w, Answers
  <2> QED BY <1>7, <2>1, <2>2, <2>3, <2>4, <2>5
<1> HIDE DEF added, removed, missing, held, got
<1>9. IsFiniteSet(added) /\ IsFiniteSet(removed) /\ IsFiniteSet(missing) /\ added \subseteq Nat /\ removed \subseteq Nat /\ missing \subseteq Nat
  BY <1>6, <1>8, FS_Subset, FS_Difference
<1>u. UNCHANGED <<ref, meant, hist>>
  BY <1>1
<1>10. ASSUME NEW S \in SUBSET Nat, IsFiniteSet(S)
       PROVE  Gives(S) \in CallType /\ Gives(S).op = me.op /\ Gives(S).got = S
  <2> DEFINE k == Cardinality(S)
  <2>1. k \in Nat
    BY <1>10, FS_CardinalityType
  <2> HIDE DEF me, k
  <2>2. [me EXCEPT !.got = S, !.n = k] \in CallType /\ [me EXCEPT !.got = S, !.n = k].op = me.op /\ [me EXCEPT !.got = S, !.n = k].got = S
    BY <1>2, <2>1 DEF CallType
  <2> QED BY <2>2 DEF k
<1>11. CASE me.at + 1 < t.words /\ Goto(c, "words", further) /\ snap' = snap
  <2>1. further \in CallType /\ further.op = me.op /\ further.at = me.at + 1 /\ further.got = got /\ further.n = me.n
    <3>1. me.at + 1 \in Nat /\ got \in SUBSET Nat
      BY <1>2, <1>6
    <3> DEFINE a == me.at + 1
    <3>2. further = [me EXCEPT !.at = a, !.got = got]
      OBVIOUS
    <3> HIDE DEF me, a, further
    <3>3. further \in CallType /\ further.op = me.op /\ further.at = a /\ further.got = got /\ further.n = me.n
      BY <1>2, <3>1, <3>2 DEF CallType, a
    <3> QED BY <3>3 DEF a
  <2>2. "words" \in Labels \ {"idle"} /\ further.op \notin RangeOps
    BY <1>1, <2>1 DEF Labels, RangeOps, SnapOps
  <2>3. Goto(c, "words", further) /\ UNCHANGED <<shared, ops, arc, ref, meant, calls, hist>> /\ snap' = snap
    BY <1>1, <1>11
  <2> HIDE DEF further
  <2>4. /\ Typed' /\ pc'[c] = "words" /\ call'[c] = further /\ (\A d \in Caller \ {c} : Meanwhile(d))
        /\ Mine(c)' = t /\ capacity(Mine(c))' = capacity(t)
    BY <1>w, <2>1, <2>2, <2>3, PassesFacts
  <2>5. SeenOK(c)'
    <3>1. Before(hist[c].always, call[c].at * W)' \subseteq call'[c].got
      <4>1. call'[c].at * W = n + W
        BY <1>5, <2>1, <2>4
      <4> QED BY <1>6, <1>u, <2>1, <2>4, <4>1
    <3> QED BY <1>1, <1>3, <1>6, <1>u, <2>1, <2>3, <2>4, <3>1 DEF SeenOK, SnapOps, AskOps, held
  <2>6. BulkOK(c)' /\ WalkOK(c)'
    BY <1>1, <1>4, <1>u, <2>1, <2>4
       DEF BulkOK, CopyOK, SetsSoFar, RangeSoFar, ProfileSoFar, WalkOK, SnapOps, SetOps, Left
  <2> QED BY <2>4, <2>5, <2>6
<1>12. ASSUME NEW S \in SUBSET Nat, IsFiniteSet(S), Goto(c, "return", Gives(S)), me.op # "restore_from_reference",
              DOMAIN snap' = Caller, Whole(snap'[c]), \A d \in Caller \ {c} : snap'[d] = snap[d]
       PROVE  /\ Typed' /\ pc'[c] = "return" /\ call'[c].op = me.op /\ call'[c].got = S
              /\ (\A d \in Caller \ {c} : Meanwhile(d)) /\ Mine(c)' = t /\ BulkOK(c)' /\ WalkOK(c)'
  <2> DEFINE new == Gives(S)
  <2>1. new \in CallType /\ new.op = me.op /\ new.got = S
    BY <1>10, <1>12
  <2>2. "return" \in Labels \ {"idle"} /\ Goto(c, "return", new) /\ UNCHANGED <<shared, ops, arc, ref, meant, calls, hist>>
    BY <1>1, <1>12 DEF Labels
  <2> HIDE DEF new, Gives
  <2>3. /\ Typed' /\ pc'[c] = "return" /\ call'[c] = new /\ (\A d \in Caller \ {c} : Meanwhile(d)) /\ Mine(c)' = t
    BY <1>12, <2>1, <2>2, PassesFacts
  <2>4. BulkOK(c)' /\ WalkOK(c)'
    BY <1>1, <1>12, <2>1, <2>3
       DEF BulkOK, CopyOK, SetsSoFar, RangeSoFar, ProfileSoFar, WalkOK, SnapOps, SetOps
  <2> QED BY <2>1, <2>3, <2>4
<1>13. me.at + 1 = t.words => h.always \subseteq got
  <2> SUFFICES ASSUME me.at + 1 = t.words PROVE h.always \subseteq got
    OBVIOUS
  <2>1. capacity(t) = n + W
    BY <1>2, <1>5
  <2>2. \A i \in h.always : i < n + W
    BY <1>2, <1>3, <2>1
  <2> QED BY <1>6, <2>2 DEF Before
<1> HIDE DEF Gives
<1>14. CASE me.at + 1 = t.words /\ me.op = "snapshot" /\ Goto(c, "return", Gives(got)) /\ snap' = [snap EXCEPT ![c] = copy]
  <2>1. DOMAIN snap' = Caller /\ snap'[c] = copy /\ \A d \in Caller \ {c} : snap'[d] = snap[d]
    BY <1>14, <1>w
  <2>2. /\ Typed' /\ pc'[c] = "return" /\ call'[c].op = me.op /\ call'[c].got = got
        /\ (\A d \in Caller \ {c} : Meanwhile(d)) /\ Mine(c)' = t /\ BulkOK(c)' /\ WalkOK(c)'
    BY <1>6, <1>7, <1>8, <1>12, <1>14, <2>1
  <2>3. SeenOK(c)'
    BY <1>3, <1>6, <1>7, <1>13, <1>14, <1>u, <2>1, <2>2 DEF SeenOK, Answer, SnapOps, AskOps
  <2> QED BY <2>2, <2>3
<1>15. ASSUME me.at + 1 = t.words, snap' = snap, NEW S \in SUBSET Nat, IsFiniteSet(S), Goto(c, "return", Gives(S)),
              \/ me.op = "added_since" /\ S = added
              \/ me.op = "removed_since" /\ S = removed
              \/ me.op = "missing" /\ S = missing
       PROVE  /\ Typed' /\ SeenOK(c)' /\ BulkOK(c)' /\ WalkOK(c)'
              /\ \A d \in Caller \ {c} : Meanwhile(d)
  <2>1. /\ Typed' /\ pc'[c] = "return" /\ call'[c].op = me.op /\ call'[c].got = S
        /\ (\A d \in Caller \ {c} : Meanwhile(d)) /\ Mine(c)' = t /\ BulkOK(c)' /\ WalkOK(c)'
    BY <1>12, <1>15, <1>w
  <2>2. me.op = "added_since" => h.always \ snap[c].ever \subseteq S /\ S \subseteq h.ever \ snap[c].always
    BY <1>3, <1>6, <1>8, <1>13, <1>15
  <2>3. me.op = "removed_since" => snap[c].always \ h.ever \subseteq S /\ S \subseteq snap[c].ever \ h.always
    BY <1>3, <1>6, <1>8, <1>13, <1>15
  <2>4. me.op = "missing" => meant[c] \ h.ever \subseteq S /\ S \subseteq meant[c] \ h.always
    BY <1>6, <1>8, <1>13, <1>15
  <2>5. Answer(c)'
    BY <1>15, <1>u, <2>1, <2>2, <2>3, <2>4 DEF Answer
  <2>6. SeenOK(c)'
    BY <1>1, <1>3, <1>15, <1>u, <2>1, <2>5 DEF SeenOK, SnapOps, AskOps, held
  <2> QED BY <2>1, <2>6
<1>16. CASE me.at + 1 = t.words /\ me.op = "restore_from_reference" /\ Goto(c, begins, restores) /\ snap' = snap
  <2>1. /\ restores \in CallType /\ restores.op = me.op /\ restores.todo = missing /\ restores.n = me.n
    <3> HIDE DEF me
    <3> QED BY <1>2, <1>9 DEF CallType
  <2>2. /\ begins \in Labels \ {"idle"} /\ begins \in {"ids", "return"} /\ (begins = "ids" => restores.todo # {})
        /\ (begins = "return") = (restores.todo = {})
    BY <2>1 DEF Labels
  <2>3. Goto(c, begins, restores) /\ UNCHANGED <<shared, ops, arc, ref, meant, calls, hist>> /\ snap' = snap
    BY <1>1, <1>16
  <2> HIDE DEF begins, restores
  <2>4. /\ Typed' /\ pc'[c] = begins /\ call'[c] = restores /\ (\A d \in Caller \ {c} : Meanwhile(d)) /\ Mine(c)' = t
    BY <1>w, <2>1, <2>2, <2>3, PassesFacts
  <2>5. SeenOK(c)'
    BY <1>3, <1>16, <1>u, <2>1, <2>2, <2>4 DEF SeenOK, Answer, SnapOps, AskOps, held
  <2>6. SetsSoFar(c)'
    <3>1. h.want \ missing \subseteq got /\ missing \subseteq h.want
      BY <1>4, <1>8, <1>16
    <3>2. \A i \in Nat \ h.touched : (i \in h.before <=> i \in t.bits) /\ (i \in h.ever <=> i \in t.bits)
      BY <1>4 DEF Left
    <3>3. \A i \in h.want \ missing : i \in h.before \/ i \in h.touched
      BY <1>6, <3>1, <3>2
    <3>4. \A i \in Nat \ h.touched : i \in h.before \union (h.want \ missing) <=> i \in t.bits
      BY <3>2, <3>3
    <3>5. Counts(c)'
      BY <1>4, <1>u, <2>1, <2>4, FS_EmptySet DEF Counts
    <3>6. Left(c, hist[c].before \union (hist[c].want \ call[c].todo))'
      BY <1>u, <2>1, <2>4, <3>4 DEF Left
    <3> QED BY <1>4, <1>u, <2>1, <2>2, <2>4, <3>1, <3>3, <3>5, <3>6 DEF SetsSoFar
  <2>7. CopyOK(c)' /\ RangeSoFar(c)' /\ ProfileSoFar(c)' /\ WalkOK(c)'
    BY <1>16, <2>1, <2>2, <2>4 DEF CopyOK, RangeSoFar, ProfileSoFar, WalkOK
  <2> QED BY <2>4, <2>5, <2>6, <2>7 DEF BulkOK
<1> QED BY <1>1, <1>9, <1>11, <1>14, <1>15, <1>16

(* Of a caller between its calls nothing is known.                         *)
LEMMA NoneOK ==
  ASSUME NEW c \in Caller, call'[c].op = "none", snap'[c] = snap[c], SeenOK(c)
  PROVE  SeenOK(c)' /\ BulkOK(c)' /\ WalkOK(c)'
<1>1. SeenOK(c)'
  BY DEF SeenOK, Answer, SnapOps, AskOps
<1>2. BulkOK(c)' /\ WalkOK(c)'
  BY DEF BulkOK, CopyOK, SetsSoFar, RangeSoFar, ProfileSoFar, WalkOK, SnapOps, SetOps
<1> QED BY <1>1, <1>2

(* One id is added or removed.                                             *)
LEMMA SingleOK ==
  ASSUME Typed, NEW c \in Caller, NEW i \in Nat, Add(c, i) \/ Remove(c, i), SeenOK(c)
  PROVE  /\ Typed' /\ SeenOK(c)' /\ BulkOK(c)' /\ WalkOK(c)'
         /\ \A d \in Caller \ {c} : Meanwhile(d)
<1>m. /\ capacity(Mine(c)) \in Nat /\ effective_max_id(Mine(c)) \in Nat /\ Mine(c).bits \subseteq Nat
      /\ effective_max_id(Mine(c)) <= capacity(Mine(c)) /\ \A j \in Mine(c).bits : j < capacity(Mine(c))
  BY MineFacts DEF Typed
<1>1. PICK S \in SUBSET Nat : \E op : Single(c, op, S) /\ \A j \in S : j < capacity(Mine(c))
  <2>1. CASE Add(c, i)
    <3>1. \A j \in Mine(c).bits \union {i} : j \in Nat /\ j < capacity(Mine(c))
      BY <1>m, <2>1 DEF Add
    <3> QED BY <2>1, <3>1 DEF Add
  <2>2. CASE Remove(c, i)
    <3>1. \A j \in Mine(c).bits \ {i} : j \in Nat /\ j < capacity(Mine(c))
      BY <1>m
    <3> QED BY <2>2, <3>1 DEF Remove
  <2> QED BY <2>1, <2>2
<1>2. /\ pc[c] = "idle" /\ calls[c] > 0 /\ calls' = [calls EXCEPT ![c] = @ - 1] /\ Change(c, S)
      /\ UNCHANGED <<registry, gone, ops, arc, ref, meant, snap, pc, call>>
  BY <1>1 DEF Single, own
<1>t. TrackersOK /\ RegistryOK /\ CallsOK /\ SetsOK
  BY DEF Typed
<1>3. Changed(c, S)
  BY <1>1, <1>2, <1>t, ChangeFacts
<1>4. SameTrackers /\ hist' \in [Caller -> HistType] /\ \A d \in Caller : pc[d] = "idle" => hist'[d] = hist[d]
  BY <1>3 DEF Changed, SameTrackers
<1>5. /\ TrackersOK' /\ RegistryOK'
      /\ \A d \in Caller : capacity(Mine(d))' = capacity(Mine(d))
  BY <1>2, <1>4, <1>t, SameTyped
<1>6. CallsOK'
  <2>1. calls' \in [Caller -> Nat]
    BY <1>2, <1>t DEF CallsOK
  <2>2. pc' = pc /\ call' = call /\ ops' = ops
    BY <1>2
  <2>3. \A d \in Caller : pc[d] = "words" /\ call[d].op \in RangeOps => call[d].hi <= capacity(Mine(d))'
    BY <1>5, <1>t DEF CallsOK
  <2>4. \A d \in Caller : pc[d] = "idle" => call[d] = Blank /\ hist'[d] = Calm
    BY <1>4, <1>t DEF CallsOK
  <2>5. Blank' = Blank /\ Calm' = Calm
    BY DEF Blank, Calm
  <2> QED BY <1>4, <1>t, <2>1, <2>2, <2>3, <2>4, <2>5 DEF CallsOK
<1>7. SetsOK'
  BY <1>2, <1>t DEF SetsOK
<1>8. \A d \in Caller \ {c} : Meanwhile(d)
  BY <1>2, <1>3, ChangedOthers
<1>9. SeenOK(c)' /\ BulkOK(c)' /\ WalkOK(c)'
  <2>1. call'[c].op = "none"
    BY <1>2, <1>t, BlankFacts DEF CallsOK
  <2> QED BY <1>2, <2>1, NoneOK
<1> QED BY <1>5, <1>6, <1>7, <1>8, <1>9 DEF Typed

(* It is past the capacity.                                                *)
LEMMA SinglePanicsOK ==
  ASSUME Typed, NEW c \in Caller, NEW i, SinglePanics(c, i), SeenOK(c)
  PROVE  /\ Typed' /\ SeenOK(c)' /\ BulkOK(c)' /\ WalkOK(c)'
         /\ \A d \in Caller \ {c} : Meanwhile(d)
<1>1. /\ pc[c] = "idle" /\ Goto(c, "panicked", call[c])
      /\ UNCHANGED <<shared, ops, arc, ref, meant, calls, hist>> /\ snap' = snap
  BY DEF SinglePanics, own
<1>2. call[c] \in CallType /\ "panicked" \in Labels \ {"idle"} /\ call[c] = Blank
  BY <1>1 DEF Typed, CallsOK, Labels
<1>3. DOMAIN snap = Caller /\ Whole(snap[c])
  BY DEF Typed, SetsOK
<1>4. /\ Typed' /\ pc'[c] = "panicked" /\ call'[c] = call[c] /\ (\A d \in Caller \ {c} : Meanwhile(d))
  BY <1>1, <1>2, <1>3, PassesFacts
<1>5. call'[c].op = "none"
  BY <1>2, <1>4, BlankFacts
<1> QED BY <1>1, <1>4, <1>5, NoneOK

(* A call returns.                                                         *)
LEMMA ReturnOK ==
  ASSUME Typed, NEW c \in Caller, Return(c), SeenOK(c)
  PROVE  /\ Typed' /\ SeenOK(c)' /\ BulkOK(c)' /\ WalkOK(c)'
         /\ \A d \in Caller \ {c} : Meanwhile(d)
<1>t. TrackersOK /\ RegistryOK /\ CallsOK /\ SetsOK
  BY DEF Typed
<1>1. /\ pc[c] = "return" /\ Goto(c, "idle", Blank) /\ hist' = [hist EXCEPT ![c] = Calm]
      /\ UNCHANGED <<trackers, registry, gone, ops, arc, ref, meant, snap, calls>>
  BY DEF Return, shared, own
<1>2. /\ hist' \in [Caller -> HistType] /\ hist'[c] = Calm /\ \A d \in Caller \ {c} : hist'[d] = hist[d]
  <2>1. Calm \in HistType
    BY DEF Calm, HistType
  <2> QED BY <1>1, <1>t, <2>1 DEF CallsOK
<1>3. /\ CallsOK' /\ call'[c] = Blank /\ \A d \in Caller \ {c} : pc'[d] = pc[d] /\ call'[d] = call[d]
  <2>1. "idle" \in Labels /\ calls' \in [Caller -> Nat] /\ SameTrackers
    BY <1>1, <1>t, SameIfUnchanged DEF Labels, CallsOK
  <2> QED BY <1>1, <1>2, <1>t, <2>1, BlankFacts, GoesOn
<1>4. TrackersOK' /\ RegistryOK'
  BY <1>1, <1>t, SameIfUnchanged, SameTyped
<1>5. SetsOK'
  BY <1>1, <1>t DEF SetsOK
<1>6. \A d \in Caller \ {c} : Meanwhile(d)
  BY <1>1, <1>2, <1>3, Apart
<1>7. SeenOK(c)' /\ BulkOK(c)' /\ WalkOK(c)'
  BY <1>1, <1>3, BlankFacts, NoneOK
<1> QED BY <1>3, <1>4, <1>5, <1>6, <1>7 DEF Typed

(* A reference set is changed.                                             *)
LEMMA ChangeReferenceOK ==
  ASSUME Typed, NEW c \in Caller, ChangeReference(c), SeenOK(c)
  PROVE  /\ Typed' /\ SeenOK(c)' /\ BulkOK(c)' /\ WalkOK(c)'
         /\ \A d \in Caller \ {c} : Meanwhile(d)
<1>t. TrackersOK /\ RegistryOK /\ CallsOK /\ SetsOK
  BY DEF Typed
<1>h. \A d \in Caller : Holds(ref[d], meant[d])
  BY <1>t DEF SetsOK
<1>1. PICK r, S : Assign(c, r, S) /\ Holds(r, S)
  <2>1. ASSUME NEW i \in Probe, Assign(c, insert(ref[c], i), meant[c] \union {i})
        PROVE  \E r, S : Assign(c, r, S) /\ Holds(r, S)
    <3>1. Holds(insert(ref[c], i), meant[c] \union {i})
      BY <1>h, InsertHolds, KeyspaceAssumption
    <3> QED BY <2>1, <3>1
  <2>2. ASSUME NEW i \in Probe, Assign(c, remove(ref[c], i), meant[c] \ {i})
        PROVE  \E r, S : Assign(c, r, S) /\ Holds(r, S)
    <3>1. i \in Nat
      BY KeyspaceAssumption, LargestNat
    <3>2. Holds(remove(ref[c], i), meant[c] \ {i})
      BY <1>h, <3>1, RemoveHolds
    <3> QED BY <2>2, <3>2
  <2>3. ASSUME NEW max \in Probe, Assign(c, with_capacity(max), {})
        PROVE  \E r, S : Assign(c, r, S) /\ Holds(r, S)
    <3>1. max \in Nat
      BY KeyspaceAssumption, LargestNat
    <3>2. Holds(with_capacity(max), {})
      BY <3>1, Emptied
    <3> QED BY <2>3, <3>2
  <2>4. ASSUME NEW d \in Caller,
               \/ Assign(c, union(ref[c], ref[d]), meant[c] \union meant[d])
               \/ Assign(c, intersection(ref[c], ref[d]), meant[c] \intersect meant[d])
               \/ Assign(c, difference(ref[c], ref[d]), meant[c] \ meant[d])
        PROVE  \E r, S : Assign(c, r, S) /\ Holds(r, S)
    <3>1. /\ Holds(intersection(ref[c], ref[d]), meant[c] \intersect meant[d])
          /\ Holds(union(ref[c], ref[d]), meant[c] \union meant[d])
          /\ Holds(difference(ref[c], ref[d]), meant[c] \ meant[d])
      BY <1>h, Combined
    <3> QED BY <2>4, <3>1
  <2> QED BY <2>1, <2>2, <2>3, <2>4 DEF ChangeReference
<1>2. /\ pc[c] = "idle" /\ calls[c] > 0
      /\ ref' = [ref EXCEPT ![c] = r] /\ meant' = [meant EXCEPT ![c] = S]
      /\ calls' = [calls EXCEPT ![c] = @ - 1]
      /\ UNCHANGED <<trackers, registry, gone, ops, arc, snap, pc, call, hist>>
  BY <1>1 DEF Assign, shared
<1>3. SetsOK'
  <2>1. /\ ref'[c] = r /\ meant'[c] = S /\ DOMAIN ref' = Caller /\ DOMAIN meant' = Caller
        /\ \A d \in Caller \ {c} : ref'[d] = ref[d] /\ meant'[d] = meant[d]
    BY <1>2, <1>t DEF SetsOK
  <2>2. \A d \in Caller : Holds(ref'[d], meant'[d])
    BY <1>1, <1>h, <2>1
  <2> QED BY <1>2, <1>t, <2>1, <2>2 DEF SetsOK
<1>4. TrackersOK' /\ RegistryOK' /\ CallsOK'
  <2>1. calls' \in [Caller -> Nat]
    BY <1>2, <1>t DEF CallsOK
  <2>2. CallsOK'
    BY <1>2, <1>t, <2>1 DEF CallsOK, Mine, Blank, Calm
  <2> QED BY <1>2, <1>t, <2>2, SameIfUnchanged, SameTyped
<1>5. \A d \in Caller \ {c} : Meanwhile(d)
  <2>1. \A d \in Caller \ {c} : ref'[d] = ref[d] /\ meant'[d] = meant[d]
    BY <1>2, <1>t DEF SetsOK
  <2> QED BY <1>2, <2>1, Apart
<1>6. SeenOK(c)' /\ BulkOK(c)' /\ WalkOK(c)'
  BY <1>2, <1>t, BlankFacts, NoneOK DEF CallsOK
<1> QED BY <1>3, <1>4, <1>5, <1>6 DEF Typed

-----------------------------------------------------------------------------
(* Steps of the registry                                                   *)

(* What was made stays, whatever else is made.                             *)
Extends ==
  /\ trackers' \in Seq(TrackerType) /\ Len(trackers') \in 1 .. MaxTrackers
  /\ DOMAIN trackers \subseteq DOMAIN trackers' /\ \A k \in DOMAIN trackers : trackers'[k] = trackers[k]

(* The histories tell of the registry's change.                            *)
LEMMA EnrollFacts ==
  ASSUME CallsOK, NEW r, Registered(r) \subseteq Nat, Enroll(r, hist)
  PROVE  /\ registry' = r /\ hist' \in [Caller -> HistType]
         /\ \A d \in Caller :
              IF pc[d] = "idle" THEN hist'[d] = hist[d]
              ELSE /\ hist'[d].before = hist[d].before /\ hist'[d].want = hist[d].want /\ hist'[d].flips = hist[d].flips
                   /\ hist'[d].always = hist[d].always /\ hist'[d].ever = hist[d].ever
                   /\ hist'[d].touched = hist[d].touched /\ OtherRegistry(d)
<1>1. /\ registry' = r
      /\ hist' = [d \in Caller |-> IF pc[d] = "idle" THEN hist[d]
                   ELSE [hist[d] EXCEPT !.kept = @ \intersect Registered(r), !.met = @ \union Registered(r)]]
  BY DEF Enroll
<1>2. ASSUME NEW d \in Caller
      PROVE  /\ hist'[d] \in HistType
             /\ IF pc[d] = "idle" THEN hist'[d] = hist[d]
                ELSE /\ hist'[d].before = hist[d].before /\ hist'[d].want = hist[d].want /\ hist'[d].flips = hist[d].flips
                     /\ hist'[d].always = hist[d].always /\ hist'[d].ever = hist[d].ever
                     /\ hist'[d].touched = hist[d].touched /\ OtherRegistry(d)
  <2>1. hist[d] \in HistType
    BY DEF CallsOK
  <2>2. CASE pc[d] = "idle"
    BY <1>1, <2>1, <2>2
  <2>3. CASE pc[d] # "idle"
    <3> DEFINE R == Registered(r)
               kept == hist[d].kept \intersect R
               met == hist[d].met \union R
    <3>1. hist'[d] = [hist[d] EXCEPT !.kept = kept, !.met = met]
      BY <1>1, <2>3
    <3>2. kept \in SUBSET Nat /\ met \in SUBSET Nat
      BY <2>1 DEF HistType
    <3> HIDE DEF kept, met
    <3>3. /\ hist'[d] \in HistType
          /\ hist'[d].before = hist[d].before /\ hist'[d].want = hist[d].want /\ hist'[d].flips = hist[d].flips
          /\ hist'[d].always = hist[d].always /\ hist'[d].ever = hist[d].ever
          /\ hist'[d].touched = hist[d].touched /\ hist'[d].kept = kept /\ hist'[d].met = met
      BY <2>1, <3>1, <3>2 DEF HistType
    <3>4. OtherRegistry(d)
      BY <1>1, <3>3 DEF OtherRegistry, kept, met
    <3> QED BY <2>3, <3>3, <3>4
  <2> QED BY <2>2, <2>3
<1>3. hist' \in [Caller -> HistType]
  BY <1>1, <1>2
<1> QED BY <1>1, <1>2, <1>3

(* The registry changes in c's step, or does not: to others, meanwhile.    *)
LEMMA RegistryOthers ==
  ASSUME Typed, NEW c \in Caller, Extends, NEW d \in Caller \ {c},
         pc'[d] = pc[d], call'[d] = call[d], arc'[d] = arc[d], ref'[d] = ref[d], meant'[d] = meant[d], snap'[d] = snap[d],
         IF pc[d] = "idle" THEN hist'[d] = hist[d]
         ELSE /\ hist'[d].before = hist[d].before /\ hist'[d].want = hist[d].want /\ hist'[d].flips = hist[d].flips
              /\ hist'[d].always = hist[d].always /\ hist'[d].ever = hist[d].ever
              /\ hist'[d].touched = hist[d].touched /\ (SameRegistry(d) \/ OtherRegistry(d))
  PROVE  Meanwhile(d)
<1>1. arc[d] \in DOMAIN trackers
  BY DEF Typed, TrackersOK
<1>2. Mine(d)' = Mine(d)
  BY <1>1 DEF Mine, Extends
<1>3. capacity(Mine(d))' = capacity(Mine(d)) /\ effective_max_id(Mine(d))' = effective_max_id(Mine(d))
  BY <1>2 DEF capacity, effective_max_id
<1>4. pc[d] # "idle" => SameBits(d)
  BY <1>2 DEF SameBits
<1>5. \A k \in DOMAIN trackers : trackers'[k].prefix = trackers[k].prefix
  BY DEF Extends
<1> QED BY <1>3, <1>4, <1>5 DEF Meanwhile, Extends

(* A step between c's calls: c may get another tracker.                    *)
LEMMA Changes ==
  ASSUME Typed, NEW c \in Caller, pc[c] = "idle", SeenOK(c), NEW k \in DOMAIN trackers', Extends,
         \A j \in DOMAIN trackers' \ DOMAIN trackers : Fits(trackers'[j]),
         arc' = [arc EXCEPT ![c] = k], calls[c] > 0, calls' = [calls EXCEPT ![c] = @ - 1],
         UNCHANGED <<ops, ref, meant, snap, pc, call>>, hist' \in [Caller -> HistType],
         \A d \in Caller :
              IF pc[d] = "idle" THEN hist'[d] = hist[d]
              ELSE /\ hist'[d].before = hist[d].before /\ hist'[d].want = hist[d].want /\ hist'[d].flips = hist[d].flips
                   /\ hist'[d].always = hist[d].always /\ hist'[d].ever = hist[d].ever
                   /\ hist'[d].touched = hist[d].touched /\ (SameRegistry(d) \/ OtherRegistry(d)),
         RegistryOK'
  PROVE  /\ Typed' /\ SeenOK(c)' /\ BulkOK(c)' /\ WalkOK(c)'
         /\ \A d \in Caller \ {c} : Meanwhile(d)
<1>t. TrackersOK /\ RegistryOK /\ CallsOK /\ SetsOK
  BY DEF Typed
<1>1. arc' \in [Caller -> DOMAIN trackers'] /\ arc'[c] = k /\ \A d \in Caller \ {c} : arc'[d] = arc[d]
  BY <1>t DEF TrackersOK, Extends
<1>2. TrackersOK'
  <2>1. \A j \in DOMAIN trackers' : Fits(trackers'[j])
    BY <1>t DEF TrackersOK, Extends
  <2> QED BY <1>1, <2>1 DEF TrackersOK, Extends
<1>3. \A d \in Caller \ {c} : Meanwhile(d)
  BY <1>1, RegistryOthers
<1>4. CallsOK'
  <2>1. calls' \in [Caller -> Nat]
    BY <1>t DEF CallsOK
  <2>2. \A d \in Caller : pc[d] = "words" => capacity(Mine(d))' = capacity(Mine(d))
    BY <1>3 DEF Meanwhile
  <2>3. \A d \in Caller : pc[d] = "words" /\ call[d].op \in RangeOps => call[d].hi <= capacity(Mine(d))'
    BY <1>t, <2>2 DEF CallsOK
  <2>4. \A d \in Caller : pc[d] = "idle" => call[d] = Blank /\ hist'[d] = Calm
    BY <1>t DEF CallsOK
  <2>5. Blank' = Blank /\ Calm' = Calm
    BY DEF Blank, Calm
  <2> QED BY <1>t, <2>1, <2>3, <2>4, <2>5 DEF CallsOK
<1>5. SetsOK'
  BY <1>t DEF SetsOK
<1>6. SeenOK(c)' /\ BulkOK(c)' /\ WalkOK(c)'
  BY <1>t, BlankFacts, NoneOK DEF CallsOK
<1> QED BY <1>2, <1>3, <1>4, <1>5, <1>6 DEF Typed

(* Who is registered was made.                                             *)
LEMMA RegisteredMade ==
  ASSUME Typed
  PROVE  /\ DOMAIN trackers = 1 .. Len(trackers) /\ Len(trackers) \in Nat \ {0} /\ DOMAIN trackers \subseteq Nat
         /\ Registered(registry) \subseteq DOMAIN trackers
         /\ \A p \in Prefix : registry[p] # None => registry[p] \in DOMAIN trackers /\ trackers[registry[p]].prefix = p
<1>1. trackers \in Seq(TrackerType) /\ Len(trackers) \in 1 .. MaxTrackers /\ RegistryOK
  BY DEF Typed, TrackersOK
<1>2. DOMAIN trackers = 1 .. Len(trackers) /\ Len(trackers) \in Nat \ {0}
  BY <1>1, KeyspaceAssumption
<1> QED BY <1>1, <1>2 DEF RegistryOK, Registered

(* A prefix is registered, or was already.                                 *)
LEMMA RegisterOK ==
  ASSUME Typed, NEW c \in Caller, NEW p \in Prefix, NEW config \in Configs, Register(c, p, config), SeenOK(c)
  PROVE  /\ Typed' /\ SeenOK(c)' /\ BulkOK(c)' /\ WalkOK(c)'
         /\ \A d \in Caller \ {c} : Meanwhile(d)
<1>t. TrackersOK /\ RegistryOK /\ CallsOK /\ SetsOK
  BY DEF Typed
<1>m. /\ DOMAIN trackers = 1 .. Len(trackers) /\ Len(trackers) \in Nat \ {0} /\ DOMAIN trackers \subseteq Nat
      /\ Registered(registry) \subseteq DOMAIN trackers
      /\ \A q \in Prefix : registry[q] # None => registry[q] \in DOMAIN trackers /\ trackers[registry[q]].prefix = q
  BY RegisteredMade
<1> DEFINE k == Len(trackers) + 1
           new == New(p, config)
           r == [registry EXCEPT ![p] = k]
<1>1. CASE /\ Registry(c, "register") /\ registry[p] = None /\ Len(trackers) < MaxTrackers
           /\ trackers' = Append(trackers, new) /\ arc' = [arc EXCEPT ![c] = k] /\ Enroll(r, hist)
           /\ UNCHANGED <<ops, gone, ref, meant, snap, pc, call>>
  <2>1. new \in TrackerType /\ new.prefix = p /\ Fits(new)
    BY NewFits, KeyspaceAssumption
  <2> HIDE DEF new
  <2>2. /\ trackers' \in Seq(TrackerType) /\ Len(trackers') = k /\ DOMAIN trackers' = 1 .. k /\ trackers'[k] = new
        /\ \A j \in DOMAIN trackers : trackers'[j] = trackers[j]
    BY <1>1, <1>m, <1>t, <2>1 DEF TrackersOK
  <2>3. Extends /\ k \in DOMAIN trackers' /\ DOMAIN trackers' = DOMAIN trackers \union {k} /\ k \notin DOMAIN trackers /\ k # None
    BY <1>1, <1>m, <2>2, KeyspaceAssumption DEF Extends, None
  <2> HIDE DEF k
  <2>4. r \in [Prefix -> DOMAIN trackers' \union {None}] /\ r[p] = k /\ \A q \in Prefix \ {p} : r[q] = registry[q]
    BY <1>t, <2>3 DEF RegistryOK
  <2>5. Registered(r) \subseteq Nat
    <3>1. \A q \in Prefix : r[q] # None => r[q] \in DOMAIN trackers'
      BY <2>4
    <3>2. DOMAIN trackers' \subseteq Nat
      BY <1>m, <2>2, <2>3 DEF k
    <3> QED BY <3>1, <3>2 DEF Registered
  <2>6. RegistryOK'
    <3>1. registry' = r /\ gone' = gone
      BY <1>1 DEF Enroll
    <3>2. gone \subseteq DOMAIN trackers'
      BY <1>t, <2>3 DEF RegistryOK
    <3>3. \A q \in Prefix : r[q] # None => trackers'[r[q]].prefix = q
      BY <1>m, <2>1, <2>2, <2>3, <2>4
    <3>4. ASSUME NEW j \in DOMAIN trackers' \ gone
          PROVE  r[trackers'[j].prefix] = j
      <4>1. CASE j = k
        BY <2>1, <2>2, <2>4, <4>1
      <4>2. CASE j # k
        <5>1. j \in DOMAIN trackers \ gone /\ trackers'[j] = trackers[j] /\ registry[trackers[j].prefix] = j
          BY <1>t, <2>2, <2>3, <4>2 DEF RegistryOK
        <5>2. trackers[j].prefix \in Prefix /\ trackers[j].prefix # p
          <6>1. trackers[j] \in TrackerType
            BY <1>t, <5>1 DEF TrackersOK
          <6>2. j # None
            BY <1>m, <5>1 DEF None
          <6> QED BY <1>1, <5>1, <6>1, <6>2, TrackerFacts
        <5> QED BY <2>4, <5>1, <5>2
      <4> QED BY <4>1, <4>2
    <3> HIDE DEF r
    <3> QED BY <2>4, <3>1, <3>2, <3>3, <3>4 DEF RegistryOK
  <2> HIDE DEF r
  <2>7. /\ registry' = r /\ hist' \in [Caller -> HistType]
        /\ \A d \in Caller :
             IF pc[d] = "idle" THEN hist'[d] = hist[d]
             ELSE /\ hist'[d].before = hist[d].before /\ hist'[d].want = hist[d].want /\ hist'[d].flips = hist[d].flips
                  /\ hist'[d].always = hist[d].always /\ hist'[d].ever = hist[d].ever
                  /\ hist'[d].touched = hist[d].touched /\ OtherRegistry(d)
    BY <1>1, <1>t, <2>5, EnrollFacts
  <2>8. \A j \in DOMAIN trackers' \ DOMAIN trackers : Fits(trackers'[j])
    BY <2>1, <2>2, <2>3
  <2>9. pc[c] = "idle" /\ calls[c] > 0 /\ calls' = [calls EXCEPT ![c] = @ - 1]
    BY <1>1 DEF Registry
  <2> QED BY <1>1, <2>3, <2>6, <2>7, <2>8, <2>9, Changes
<1>2. CASE /\ Registry(c, "register") /\ registry[p] # None
           /\ arc' = [arc EXCEPT ![c] = registry[p]]
           /\ UNCHANGED <<ops, shared, ref, meant, snap, pc, call, hist>>
  <2>1. UNCHANGED <<trackers, registry, gone>>
    BY <1>2 DEF shared
  <2>2. Extends /\ registry[p] \in DOMAIN trackers'
    BY <1>2, <1>m, <1>t, <2>1 DEF Extends, TrackersOK
  <2>3. RegistryOK'
    BY <1>t, <2>1 DEF RegistryOK
  <2>4. pc[c] = "idle" /\ calls[c] > 0 /\ calls' = [calls EXCEPT ![c] = @ - 1]
    BY <1>2 DEF Registry
  <2>5. hist' \in [Caller -> HistType] /\ hist' = hist
    BY <1>2, <1>t DEF CallsOK
  <2>6. \A d \in Caller : SameRegistry(d)
    BY <2>1, <2>5 DEF SameRegistry
  <2>7. \A j \in DOMAIN trackers' \ DOMAIN trackers : Fits(trackers'[j])
    BY <2>1
  <2> QED BY <1>2, <2>2, <2>3, <2>4, <2>5, <2>6, <2>7, Changes
<1> QED BY <1>1, <1>2 DEF Register

(* The trackers of some prefixes are taken out.                            *)
LEMMA TakenOut ==
  ASSUME Typed, NEW Q \in SUBSET Prefix, trackers' = trackers,
         registry' = [p \in Prefix |-> IF p \in Q THEN None ELSE registry[p]],
         gone' = gone \union ({registry[p] : p \in Q} \ {None})
  PROVE  RegistryOK' /\ Registered(registry') \subseteq Registered(registry) /\ Extends
<1>t. TrackersOK /\ RegistryOK
  BY DEF Typed
<1>m. /\ DOMAIN trackers \subseteq Nat
      /\ \A q \in Prefix : registry[q] # None => registry[q] \in DOMAIN trackers /\ trackers[registry[q]].prefix = q
  BY RegisteredMade
<1>1. registry' \in [Prefix -> DOMAIN trackers' \union {None}] /\ gone' \subseteq DOMAIN trackers'
  BY <1>t, <1>m DEF RegistryOK
<1>2. \A p \in Prefix : registry'[p] # None => trackers'[registry'[p]].prefix = p
  BY <1>m
<1>3. ASSUME NEW k \in DOMAIN trackers' \ gone'
      PROVE  registry'[trackers'[k].prefix] = k
  <2> DEFINE p == trackers[k].prefix
  <2>1. k \in DOMAIN trackers \ gone /\ registry[p] = k /\ k # None
    BY <1>m, <1>t DEF RegistryOK, None
  <2>2. p \in Prefix
    <3>1. trackers[k] \in TrackerType
      BY <1>t, <2>1 DEF TrackersOK
    <3> QED BY <3>1, TrackerFacts
  <2>3. p \notin Q
    BY <2>1
  <2> HIDE DEF p
  <2>4. registry'[p] = k
    BY <2>1, <2>2, <2>3
  <2> QED BY <2>4 DEF p
<1>4. Registered(registry') \subseteq Registered(registry)
  BY DEF Registered
<1>5. Extends
  BY <1>t DEF Extends, TrackersOK
<1> QED BY <1>1, <1>2, <1>3, <1>4, <1>5 DEF RegistryOK

(* A prefix is removed.                                                    *)
LEMMA RemovePrefixOK ==
  ASSUME Typed, NEW c \in Caller, NEW p \in Prefix, RemovePrefix(c, p), SeenOK(c)
  PROVE  /\ Typed' /\ SeenOK(c)' /\ BulkOK(c)' /\ WalkOK(c)'
         /\ \A d \in Caller \ {c} : Meanwhile(d)
<1>t. TrackersOK /\ RegistryOK /\ CallsOK
  BY DEF Typed
<1> DEFINE r == [registry EXCEPT ![p] = None]
           Q == {p}
<1>1. /\ Registry(c, "remove_prefix") /\ registry[p] # None /\ arc' = [arc EXCEPT ![c] = registry[p]]
      /\ gone' = gone \union {registry[p]} /\ Enroll(r, hist) /\ registry' = r
      /\ UNCHANGED <<ops, trackers, ref, meant, snap, pc, call>>
  BY DEF RemovePrefix, Enroll
<1>2. r = [q \in Prefix |-> IF q \in Q THEN None ELSE registry[q]]
  BY <1>t DEF RegistryOK
<1>3. gone' = gone \union ({registry[q] : q \in Q} \ {None})
  BY <1>1
<1>q. Q \in SUBSET Prefix /\ trackers' = trackers
  BY <1>1
<1> HIDE DEF r, Q
<1>r. registry' = [q \in Prefix |-> IF q \in Q THEN None ELSE registry[q]]
  BY <1>1, <1>2
<1>4. RegistryOK' /\ Registered(registry') \subseteq Registered(registry) /\ Extends
  BY <1>q, <1>r, <1>3, TakenOut
<1>5. Registered(r) \subseteq Nat
  BY <1>1, <1>4, RegisteredMade
<1>6. /\ hist' \in [Caller -> HistType]
      /\ \A d \in Caller :
           IF pc[d] = "idle" THEN hist'[d] = hist[d]
           ELSE /\ hist'[d].before = hist[d].before /\ hist'[d].want = hist[d].want /\ hist'[d].flips = hist[d].flips
                /\ hist'[d].always = hist[d].always /\ hist'[d].ever = hist[d].ever
                /\ hist'[d].touched = hist[d].touched /\ OtherRegistry(d)
  BY <1>1, <1>5, <1>t, EnrollFacts
<1>7. registry[p] \in DOMAIN trackers'
  BY <1>1, RegisteredMade
<1>8. pc[c] = "idle" /\ calls[c] > 0 /\ calls' = [calls EXCEPT ![c] = @ - 1]
  BY <1>1 DEF Registry
<1>9. \A j \in DOMAIN trackers' \ DOMAIN trackers : Fits(trackers'[j])
  BY <1>1
<1> QED BY <1>1, <1>4, <1>6, <1>7, <1>8, <1>9, Changes

(* clear() empties a shard.                                                *)
LEMMA ClearShardOK ==
  ASSUME Typed, NEW c \in Caller, ClearShard(c), SeenOK(c)
  PROVE  /\ Typed' /\ SeenOK(c)' /\ BulkOK(c)' /\ WalkOK(c)'
         /\ \A d \in Caller \ {c} : Meanwhile(d)
<1>t. TrackersOK /\ RegistryOK /\ CallsOK /\ SetsOK
  BY DEF Typed
<1> DEFINE Q == InShard(call[c].at)
           r == [p \in Prefix |-> IF p \in Q THEN None ELSE registry[p]]
           label == IF LastShard(c) THEN "return" ELSE "shards"
           new == [call[c] EXCEPT !.at = @ + 1]
<1>1. /\ pc[c] = "shards" /\ call[c].op = "clear" /\ gone' = gone \union ({registry[p] : p \in Q} \ {None})
      /\ Enroll(r, hist) /\ registry' = r /\ Goto(c, label, new)
      /\ UNCHANGED <<trackers, ops, arc, ref, meant, snap, calls>>
  BY DEF ClearShard, Enroll, own
<1>2. Q \in SUBSET Prefix
  BY DEF InShard
<1> HIDE DEF Q
<1>3. RegistryOK' /\ Registered(registry') \subseteq Registered(registry) /\ Extends
  BY <1>1, <1>2, TakenOut
<1>4. Registered(r) \subseteq Nat
  BY <1>1, <1>3, RegisteredMade
<1>5. new \in CallType /\ new.op = "clear"
  BY <1>1, CallFacts, <1>t DEF CallType
<1>6. label \in {"return", "shards"} /\ label \in Labels
  BY DEF Labels
<1> HIDE DEF r, new, label
<1>7. /\ hist' \in [Caller -> HistType]
      /\ \A d \in Caller :
           IF pc[d] = "idle" THEN hist'[d] = hist[d]
           ELSE /\ hist'[d].before = hist[d].before /\ hist'[d].want = hist[d].want /\ hist'[d].flips = hist[d].flips
                /\ hist'[d].always = hist[d].always /\ hist'[d].ever = hist[d].ever
                /\ hist'[d].touched = hist[d].touched /\ OtherRegistry(d)
  BY <1>1, <1>4, <1>t, EnrollFacts
<1>8. /\ pc'[c] = label /\ call'[c] = new /\ pc' \in [Caller -> Labels] /\ call' \in [Caller -> CallType]
      /\ \A d \in Caller \ {c} : pc'[d] = pc[d] /\ call'[d] = call[d]
  BY <1>1, <1>5, <1>6, <1>t DEF Goto, CallsOK, Labels
<1>9. TrackersOK' /\ \A d \in Caller : capacity(Mine(d))' = capacity(Mine(d))
  BY <1>1, <1>t DEF TrackersOK, Mine, capacity
<1>10. CallsOK'
  <2>1. \A d \in Caller : pc'[d] = "words" /\ call'[d].op \in RangeOps => call'[d].hi <= capacity(Mine(d))'
    BY <1>6, <1>8, <1>9, <1>t DEF CallsOK
  <2>2. \A d \in Caller : /\ pc'[d] = "idle" => call'[d] = Blank /\ hist'[d] = Calm
                          /\ pc'[d] = "ids" => call'[d].todo # {}
    BY <1>6, <1>7, <1>8, <1>t DEF CallsOK
  <2>3. Blank' = Blank /\ Calm' = Calm /\ ops' = ops /\ calls' = calls
    BY <1>1 DEF Blank, Calm
  <2> QED BY <1>7, <1>8, <1>t, <2>1, <2>2, <2>3 DEF CallsOK, Labels
<1>11. SetsOK'
  BY <1>1, <1>t DEF SetsOK
<1>12. \A d \in Caller \ {c} : Meanwhile(d)
  BY <1>1, <1>3, <1>7, <1>8, RegistryOthers
<1>13. SeenOK(c)'
  <2>1. hist'[c].always \subseteq Mine(c).bits' /\ Mine(c).bits' \subseteq hist'[c].ever
    BY <1>1, <1>7 DEF SeenOK, Mine
  <2>2. call'[c].op = "clear" /\ pc'[c] # "words" /\ snap'[c] = snap[c]
    BY <1>1, <1>5, <1>6, <1>8
  <2> QED BY <2>1, <2>2, SeenPlain DEF AskOps, SnapOps
<1>14. BulkOK(c)' /\ WalkOK(c)'
  BY <1>5, <1>8 DEF BulkOK, CopyOK, SetsSoFar, RangeSoFar, ProfileSoFar, WalkOK, SnapOps, SetOps
<1> QED BY <1>3, <1>9, <1>10, <1>11, <1>12, <1>13, <1>14 DEF Typed

(* A walk visits a shard.                                                  *)
LEMMA WalkShardOK ==
  ASSUME Typed, NEW c \in Caller, WalkShard(c), SeenOK(c), WalkOK(c)
  PROVE  /\ Typed' /\ SeenOK(c)' /\ BulkOK(c)' /\ WalkOK(c)'
         /\ \A d \in Caller \ {c} : Meanwhile(d)
<1> DEFINE me == call[c]
           h == hist[c]
           shard(k) == ShardOf[trackers[k].prefix]
           here == {registry[p] : p \in InShard(me.at)} \ {None}
           label == IF LastShard(c) THEN "return" ELSE "shards"
           new == [me EXCEPT !.at = @ + 1, !.got = @ \union here]
<1>1. /\ pc[c] = "shards" /\ me.op = "walk" /\ Goto(c, label, new)
      /\ UNCHANGED <<shared, ops, arc, ref, meant, calls, hist>> /\ snap' = snap
  BY DEF WalkShard, own
<1>2. /\ me.at < NShards
      /\ h.kept \subseteq Registered(registry) /\ Registered(registry) \subseteq h.met
      /\ me.got \subseteq DOMAIN trackers /\ me.got \subseteq h.met
      /\ \A k \in me.got : shard(k) <= me.at
      /\ \A k \in h.kept : shard(k) <= me.at => k \in me.got
      /\ \A j, k \in me.got : j # k => trackers[j].prefix # trackers[k].prefix
  BY <1>1 DEF WalkOK
<1>3. me \in CallType /\ me.at \in Nat /\ me.got \subseteq Nat /\ DOMAIN snap = Caller /\ Whole(snap[c])
  BY CallFacts DEF Typed, SetsOK
<1>m. /\ DOMAIN trackers \subseteq Nat /\ Registered(registry) \subseteq DOMAIN trackers
      /\ \A q \in Prefix : registry[q] # None => registry[q] \in DOMAIN trackers /\ trackers[registry[q]].prefix = q
  BY RegisteredMade
<1>4. /\ here \subseteq Registered(registry)
      /\ \A k \in here : \E p \in Prefix : k = registry[p] /\ k # None /\ ShardOf[p] = me.at + 1
  BY DEF InShard, Registered
<1>5. \A p \in Prefix : ShardOf[p] = me.at + 1 /\ registry[p] # None => registry[p] \in here
  BY DEF InShard
<1> HIDE DEF here
<1>6. new \in CallType /\ new.op = "walk" /\ new.at = me.at + 1 /\ new.got = me.got \union here
  <2>1. me.got \union here \in SUBSET Nat /\ me.at + 1 \in Nat
    BY <1>3, <1>4, <1>m
  <2> DEFINE a == me.at + 1
             g == me.got \union here
  <2>2. new = [me EXCEPT !.at = a, !.got = g]
    OBVIOUS
  <2> HIDE DEF a, g, me, new
  <2>3. new \in CallType /\ new.op = me.op /\ new.at = a /\ new.got = g
    BY <1>3, <2>1, <2>2 DEF CallType, a, g
  <2> QED BY <1>1, <2>3 DEF a, g
<1>7. /\ label \in Labels \ {"idle"} /\ label \in {"shards", "return"}
      /\ (label = "return") = (me.at + 1 = NShards)
  BY DEF Labels, LastShard
<1> HIDE DEF new, label
<1>8. /\ Typed' /\ pc'[c] = label /\ call'[c] = new /\ (\A d \in Caller \ {c} : Meanwhile(d)) /\ Mine(c)' = Mine(c)
  BY <1>1, <1>3, <1>6, <1>7, PassesFacts
<1>u. UNCHANGED <<trackers, registry, hist>>
  BY <1>1 DEF shared
<1>9. SeenOK(c)'
  <2>1. hist'[c].always \subseteq Mine(c).bits' /\ Mine(c).bits' \subseteq hist'[c].ever
    BY <1>1, <1>8, <1>u DEF SeenOK
  <2> QED BY <1>1, <1>6, <1>7, <1>8, <2>1, SeenPlain DEF AskOps, SnapOps
<1>10. BulkOK(c)'
  BY <1>6, <1>8 DEF BulkOK, CopyOK, SetsSoFar, RangeSoFar, ProfileSoFar, SnapOps, SetOps
<1>11. WalkOK(c)'
  <2>s. NShards \in Nat /\ \A p \in Prefix : ShardOf[p] \in Nat
    BY KeyspaceAssumption
  <2>t. \A k \in DOMAIN trackers : trackers[k].prefix \in Prefix
    <3>1. \A k \in DOMAIN trackers : trackers[k] \in TrackerType
      BY DEF Typed, TrackersOK
    <3> QED BY <3>1, TrackerFacts
  <2>1. \A k \in here : k \in DOMAIN trackers /\ shard(k) = me.at + 1 /\ registry[trackers[k].prefix] = k
    BY <1>4, <1>m
  <2>2. \A k \in me.got \union here : shard(k) <= me.at + 1
    BY <1>2, <1>3, <1>m, <2>1, <2>s, <2>t
  <2>3. ASSUME NEW k \in h.kept, shard(k) <= me.at + 1
        PROVE  k \in me.got \union here
    <3>1. PICK p \in Prefix : k = registry[p] /\ k # None
      BY <1>2 DEF Registered
    <3>2. trackers[k].prefix = p /\ k \in DOMAIN trackers
      BY <1>m, <3>1
    <3>3. CASE shard(k) <= me.at
      BY <1>2, <3>3
    <3>4. CASE ~(shard(k) <= me.at)
      <4>1. ShardOf[p] = me.at + 1
        BY <1>3, <2>3, <2>s, <3>2, <3>4
      <4> QED BY <1>5, <3>1, <4>1
    <3> QED BY <3>3, <3>4
  <2>4. ASSUME NEW j \in me.got \union here, NEW k \in me.got \union here, j # k
        PROVE  trackers[j].prefix # trackers[k].prefix
    <3>1. CASE j \in here /\ k \in here
      BY <2>1, <2>4, <3>1
    <3>2. CASE j \in me.got /\ k \in me.got
      BY <1>2, <2>4, <3>2
    <3>3. CASE j \in me.got /\ k \in here
      <4>1. shard(j) <= me.at /\ shard(k) = me.at + 1 /\ shard(j) \in Nat
        BY <1>2, <2>1, <2>s, <2>t, <3>3
      <4> QED BY <1>3, <4>1
    <3>4. CASE k \in me.got /\ j \in here
      <4>1. shard(k) <= me.at /\ shard(j) = me.at + 1 /\ shard(k) \in Nat
        BY <1>2, <2>1, <2>s, <2>t, <3>4
      <4> QED BY <1>3, <4>1
    <3> QED BY <3>1, <3>2, <3>3, <3>4
  <2>5. me.got \union here \subseteq DOMAIN trackers /\ me.got \union here \subseteq h.met
    BY <1>2, <1>4, <1>m
  <2>6. (label = "shards" => me.at + 1 < NShards) /\ (label = "return" => me.at + 1 = NShards)
    BY <1>2, <1>3, <1>7, <2>s
  <2> QED BY <1>2, <1>6, <1>7, <1>8, <1>u, <2>2, <2>3, <2>4, <2>5, <2>6 DEF WalkOK
<1> QED BY <1>8, <1>9, <1>10, <1>11

-----------------------------------------------------------------------------
(* The invariant                                                           *)

(* To begin with, everyone holds the one tracker and a snapshot of it.     *)
LEMMA InitOK == Init => Invariant
<1> SUFFICES ASSUME Init PROVE Invariant
  OBVIOUS
<1> DEFINE T(s) == [New(s.prefix, s.config) EXCEPT !.bits = s.ids]
<1>0. PICK s \in Setups :
        /\ ops = s.ops /\ trackers = <<T(s)>>
        /\ registry = [p \in Prefix |-> IF p = s.prefix THEN 1 ELSE None] /\ gone = {}
        /\ arc = [c \in Caller |-> 1] /\ ref = [c \in Caller |-> from_iter(s.reference)]
        /\ meant = [c \in Caller |-> s.reference] /\ snap = [c \in Caller |-> Copy(T(s))]
        /\ pc = [c \in Caller |-> "idle"] /\ call = [c \in Caller |-> Blank]
        /\ hist = [c \in Caller |-> Calm] /\ calls = s.calls
  BY DEF Init
<1> DEFINE t == T(s)
           n == New(s.prefix, s.config)
<1>1. /\ s.ops \in [Caller -> SUBSET OpName] /\ s.calls \in [Caller -> Nat] /\ s.ids \subseteq Nat
      /\ s.reference \in SUBSET (0 .. Largest - 1) /\ s.prefix \in Prefix /\ s.config \in Config
  BY KeyspaceAssumption
<1>2. \A i \in s.ids : i < capacity(n)
  BY SetupAssumption
<1>3. n \in TrackerType /\ n.prefix = s.prefix /\ Fits(n)
  BY <1>1, NewFits
<1>4. t \in TrackerType /\ t.prefix = s.prefix /\ t.max = n.max /\ t.words = n.words /\ t.bits = s.ids
  <2>1. t = [n EXCEPT !.bits = s.ids]
    OBVIOUS
  <2> HIDE DEF n, T
  <2> QED BY <1>1, <1>3, <2>1 DEF TrackerType
<1> HIDE DEF n
<1>5. capacity(t) = capacity(n) /\ effective_max_id(t) = effective_max_id(n)
  <2> HIDE DEF T
  <2> QED BY <1>4 DEF capacity, effective_max_id
<1> HIDE DEF T
<1>6. Fits(t) /\ \A i \in t.bits : i < capacity(t)
  BY <1>2, <1>3, <1>4, <1>5 DEF Fits
<1>7. trackers \in Seq(TrackerType) /\ Len(trackers) = 1 /\ DOMAIN trackers = {1} /\ trackers[1] = t
  BY <1>0, <1>4
<1>8. TrackersOK
  BY <1>0, <1>6, <1>7, KeyspaceAssumption DEF TrackersOK
<1>9. RegistryOK
  BY <1>0, <1>1, <1>4, <1>7 DEF RegistryOK, None
<1>10. Calm \in HistType
  BY DEF Calm, HistType
<1>11. CallsOK
  BY <1>0, <1>1, <1>10, BlankFacts DEF CallsOK
<1>12. Whole(Copy(t)) /\ iter_set(Copy(t)) = t.bits
  <2> DEFINE y == Copy(t)
             x == Packed(t.bits, t.words)
  <2>1. t.words \in Nat /\ capacity(t) = t.words * W
    BY <1>4 DEF TrackerType, capacity
  <2>2. t.bits \in SUBSET (0 .. t.words * W - 1)
    <3>1. t.bits \in SUBSET Nat
      BY <1>1, <1>4
    <3>2. t.words * W \in Nat
      BY <2>1, WordAssumption
    <3> QED BY <3>1, <3>2, <2>1, <1>6
  <2>3. x \in WordSeq /\ Len(x) = t.words /\ Ids(x) = t.bits
    BY <2>1, <2>2, PackedIds
  <2>4. y.data = x /\ y.capacity = capacity(t)
    BY DEF Copy
  <2> HIDE DEF x, y
  <2>5. Whole(y)
    BY <2>1, <2>3, <2>4 DEF Whole
  <2>6. iter_set(y) = t.bits
    BY <2>3, <2>4, <2>5, WholeIds
  <2> QED BY <2>5, <2>6 DEF y
<1>13. Holds(from_iter(s.reference), s.reference)
  BY <1>1, FromIterHolds
<1>14. SetsOK
  BY <1>0, <1>12, <1>13 DEF SetsOK
<1>15. ASSUME NEW c \in Caller
       PROVE  SeenOK(c) /\ BulkOK(c) /\ WalkOK(c)
  <2>1. pc[c] = "idle" /\ call[c].op = "none" /\ snap[c] = Copy(t)
    BY <1>0, BlankFacts
  <2>2. Copy(t).always = t.bits /\ Copy(t).ever = t.bits
    BY DEF Copy
  <2>3. SeenOK(c)
    BY <2>1, <2>2, <1>12 DEF SeenOK, AskOps
  <2>4. BulkOK(c)
    BY <2>1 DEF BulkOK, CopyOK, SetsSoFar, RangeSoFar, ProfileSoFar, SetOps
  <2>5. WalkOK(c)
    BY <2>1 DEF WalkOK
  <2> QED BY <2>3, <2>4, <2>5
<1> QED BY <1>8, <1>9, <1>11, <1>14, <1>15 DEF Invariant, Typed

(* What a step of caller c leaves of the calls.                            *)
Steps(c) == /\ Typed' /\ SeenOK(c)' /\ BulkOK(c)' /\ WalkOK(c)'
            /\ \A d \in Caller \ {c} : Meanwhile(d)

(* The beginning of any call.                                              *)
LEMMA BeginsOK ==
  ASSUME Typed, NEW c \in Caller, Begins(c), SeenOK(c)
  PROVE  Steps(c)
<1>1. PICK op, label, new, want : Begun(c, op, label, new, want)
  BY DEF Begins
<1>2. Typed'
  BY <1>1, BegunFacts
<1>3. SeenOK(c)' /\ BulkOK(c)' /\ WalkOK(c)' /\ \A d \in Caller \ {c} : Meanwhile(d)
  BY <1>1, BegunOK
<1> QED BY <1>2, <1>3 DEF Steps

(* Operations on the tracker that a caller holds.                          *)
LEMMA TrackerOpOK ==
  ASSUME Typed, NEW c \in Caller, TrackerOp(c), SeenOK(c)
  PROVE  Steps(c)
<1>1. ASSUME NEW i \in Probe, Add(c, i) \/ Remove(c, i) \/ SinglePanics(c, i)
      PROVE  Steps(c)
  <2>1. i \in Nat
    BY KeyspaceAssumption, LargestNat
  <2>2. CASE Add(c, i) \/ Remove(c, i)
    BY <2>1, <2>2, SingleOK DEF Steps
  <2>3. CASE SinglePanics(c, i)
    BY <2>3, SinglePanicsOK DEF Steps
  <2> QED BY <1>1, <2>2, <2>3
<1>2. ASSUME NEW r \in Ranges, AddRange(c, r[1], r[2]) \/ RemoveRange(c, r[1], r[2])
      PROVE  Steps(c)
  <2>1. r[1] \in Nat /\ r[2] \in Nat
    BY KeyspaceAssumption
  <2>2. Begins(c)
    BY <1>2, <2>1, BegunRange
  <2> QED BY <2>2, BeginsOK
<1>3. ASSUME NEW p \in Patterns, PopulateWithPattern(c, p) \/ PopulateWithProfile(c, p)
      PROVE  Steps(c)
  <2>1. Begins(c)
    BY <1>3, BegunPattern
  <2> QED BY <2>1, BeginsOK
<1>4. ASSUME NEW op \in OpName, Snapshot(c, op) \/ IterReference(c, op)
      PROVE  Steps(c)
  <2>1. Begins(c)
    BY <1>4, BegunOther
  <2> QED BY <2>1, BeginsOK
<1> QED BY <1>1, <1>2, <1>3, <1>4 DEF TrackerOp

(* Operations on the registry.                                             *)
LEMMA RegistryOpOK ==
  ASSUME Typed, NEW c \in Caller, RegistryOp(c), SeenOK(c)
  PROVE  Steps(c)
<1>1. ASSUME NEW p \in Prefix, RemovePrefix(c, p)
      PROVE  Steps(c)
  BY <1>1, RemovePrefixOK DEF Steps
<1>2. ASSUME NEW p \in Prefix, NEW config \in Configs, Register(c, p, config)
      PROVE  Steps(c)
  BY <1>2, RegisterOK DEF Steps
<1>3. ASSUME Clear(c) \/ Walk(c)
      PROVE  Steps(c)
  <2>1. PICK o : o \in OpName
    BY DEF OpName
  <2>2. Begins(c)
    BY <1>3, <2>1, BegunOther
  <2> QED BY <2>2, BeginsOK
<1> QED BY <1>1, <1>2, <1>3 DEF RegistryOp

(* A step of c keeps the invariant of c and, as it leaves the others'      *)
(* calls as they are but for their histories, theirs.                      *)
LEMMA NextOK == Invariant /\ [Next]_vars => Invariant'
<1> SUFFICES ASSUME Invariant, [Next]_vars PROVE Invariant'
  OBVIOUS
<1>0. Typed /\ \A c \in Caller : SeenOK(c) /\ BulkOK(c) /\ WalkOK(c)
  BY DEF Invariant
<1>1. ASSUME NEW c \in Caller, Steps(c)
      PROVE  Invariant'
  <2>1. \A d \in Caller \ {c} : SeenOK(d)' /\ BulkOK(d)' /\ WalkOK(d)'
    BY <1>0, <1>1, MeanwhileOK DEF Steps
  <2> QED BY <1>1, <2>1 DEF Steps, Invariant
<1>2. ASSUME NEW c \in Caller, TrackerOp(c) \/ RegistryOp(c)
      PROVE  Steps(c)
  BY <1>0, <1>2, TrackerOpOK, RegistryOpOK
<1>3. ASSUME NEW c \in Caller, ChangeReference(c)
      PROVE  Steps(c)
  BY <1>0, <1>3, ChangeReferenceOK DEF Steps
<1>4. ASSUME NEW c \in Caller, RangeWord(c)
      PROVE  Steps(c)
  BY <1>0, <1>4, RangeWordOK DEF Steps
<1>5. ASSUME NEW c \in Caller, SnapshotWord(c)
      PROVE  Steps(c)
  BY <1>0, <1>5, SnapshotWordOK DEF Steps
<1>6. ASSUME NEW c \in Caller, SetId(c) \/ ClearId(c) \/ TestId(c)
      PROVE  Steps(c)
  <2>1. CASE SetId(c)
    BY <1>0, <2>1, SetIdOK DEF Steps
  <2>2. CASE ClearId(c)
    BY <1>0, <2>2, ClearIdOK DEF Steps
  <2>3. CASE TestId(c)
    BY <1>0, <2>3, TestIdOK DEF Steps
  <2> QED BY <1>6, <2>1, <2>2, <2>3
<1>7. ASSUME NEW c \in Caller, ClearShard(c) \/ WalkShard(c) \/ Return(c)
      PROVE  Steps(c)
  <2>1. CASE ClearShard(c)
    BY <1>0, <2>1, ClearShardOK DEF Steps
  <2>2. CASE WalkShard(c)
    BY <1>0, <2>2, WalkShardOK DEF Steps
  <2>3. CASE Return(c)
    BY <1>0, <2>3, ReturnOK DEF Steps
  <2> QED BY <1>7, <2>1, <2>2, <2>3
<1>8. ASSUME UNCHANGED vars
      PROVE  Invariant'
  <2>1. TrackersOK' /\ RegistryOK'
    BY <1>0, <1>8 DEF vars, Typed, TrackersOK, RegistryOK
  <2>2. CallsOK' /\ SetsOK'
    <3>1. \A c \in Caller : capacity(Mine(c))' = capacity(Mine(c))
      BY <1>8 DEF vars, Mine
    <3>2. Blank' = Blank /\ Calm' = Calm
      BY DEF Blank, Calm
    <3> QED BY <1>0, <1>8, <3>1, <3>2 DEF vars, Typed, CallsOK, SetsOK
  <2>3. \A d \in Caller : Meanwhile(d)
    <3> SUFFICES ASSUME NEW d \in Caller PROVE Meanwhile(d)
      OBVIOUS
    <3>1. Mine(d)' = Mine(d) /\ capacity(Mine(d))' = capacity(Mine(d))
          /\ effective_max_id(Mine(d))' = effective_max_id(Mine(d)) /\ Mine(d).bits' = Mine(d).bits
      BY <1>8 DEF vars, Mine
    <3>2. Registered(registry') = Registered(registry)
      BY <1>8 DEF vars
    <3> QED BY <1>8, <3>1, <3>2 DEF vars, Meanwhile, SameBits, SameRegistry
  <2>4. \A d \in Caller : SeenOK(d)' /\ BulkOK(d)' /\ WalkOK(d)'
    BY <1>0, <2>3, MeanwhileOK
  <2> QED BY <2>1, <2>2, <2>4 DEF Invariant, Typed
<1> QED BY <1>1, <1>2, <1>3, <1>4, <1>5, <1>6, <1>7, <1>8 DEF Next

(* The invariant holds of every state.                                     *)
THEOREM Inductive == Spec => []Invariant
<1>1. Init => Invariant
  BY InitOK
<1>2. Invariant /\ [Next]_vars => Invariant'
  BY NextOK
<1> QED BY <1>1, <1>2, PTL DEF Spec

(* Every state has the types that TypeOK gives.                            *)
THEOREM TypeCorrect == Spec => []TypeOK
<1>1. ASSUME Invariant
      PROVE  TypeOK
  <2>0. TrackersOK /\ RegistryOK /\ CallsOK /\ SetsOK
    BY <1>1 DEF Invariant, Typed
  <2>1. ASSUME NEW k \in DOMAIN trackers
        PROVE  trackers[k].prefix \in Prefix /\ trackers[k].bits \subseteq 0 .. capacity(trackers[k]) - 1
    <3> DEFINE t == trackers[k]
    <3>1. t \in TrackerType /\ Fits(t)
      BY <2>0 DEF TrackersOK
    <3> HIDE DEF t
    <3>2. t.prefix \in Prefix /\ t.bits \subseteq Nat /\ capacity(t) \in Nat
      BY <3>1, TrackerFacts
    <3>3. t.bits \subseteq 0 .. capacity(t) - 1
      BY <3>1, <3>2 DEF Fits
    <3> QED BY <3>2, <3>3 DEF t
  <2>2. DOMAIN trackers \subseteq Tracker
    BY <2>0, KeyspaceAssumption DEF TrackersOK, Tracker
  <2>3. registry \in [Prefix -> Tracker \union {None}] /\ gone \subseteq Tracker
    BY <2>0, <2>2 DEF RegistryOK
  <2>4. arc \in [Caller -> DOMAIN trackers \union {None}]
    BY <2>0 DEF TrackersOK
  <2>5. ASSUME NEW c \in Caller
        PROVE  ref[c] \in RefType /\ meant[c] \subseteq Nat
    <3>1. Holds(ref[c], meant[c])
      BY <2>0 DEF SetsOK
    <3>2. meant[c] \subseteq Nat
      BY <3>1, Answers
    <3> QED BY <3>1, <3>2 DEF Holds
  <2>6. \A c \in Caller : /\ call[c].op \in OpName \union {"none"}
                          /\ call[c].todo \subseteq Nat /\ call[c].n \in Nat
    BY <2>0, CallFacts
  <2> QED BY <2>0, <2>1, <2>3, <2>4, <2>5, <2>6 DEF TypeOK, CallsOK
<1> QED BY <1>1, Inductive, PTL

(* Reference sets and snapshots answer exactly, whatever calls made them.  *)
THEOREM ReferencesAreExact == Spec => []ReferencesExact
<1>1. ASSUME Invariant
      PROVE  ReferencesExact
  <2> SUFFICES ASSUME NEW c \in Caller
               PROVE  LET r == ref[c]  m == meant[c]
                      IN  /\ iter(r) = m /\ r.count = Cardinality(m) /\ Len(r.bitmap) = CeilDiv(r.max_id, W)
                          /\ \A i \in 0 .. W * Len(r.bitmap) : contains(r, i) <=> i \in m
                          /\ \A d \in Caller :
                               LET s == snap[d]  held == iter_set(s)  own_held == iter_set(snap[c])
                               IN  /\ missing_in(r, s) = m \ held /\ existing_in(r, s) = m \intersect held
                                   /\ count_missing_in(r, s) = Cardinality(m \ held)
                                   /\ snapshot_intersection(snap[c], s) = own_held \intersect held
                                   /\ snapshot_intersection_count(snap[c], s) = Cardinality(own_held \intersect held)
                                   /\ snapshot_difference_count(snap[c], s) = Cardinality(own_held \ held)
                                   /\ \A i \in Probe : test(s, i) <=> i \in held
                                   /\ \A q \in Ranges : count_range(s, q[1], q[2])
                                                          = Cardinality({i \in held : q[1] <= i /\ i < q[2]})
    BY DEF ReferencesExact
  <2> DEFINE r == ref[c]
             m == meant[c]
             mine == snap[c]
  <2>1. Holds(r, m) /\ \A d \in Caller : Whole(snap[d])
    BY <1>1 DEF Invariant, Typed, SetsOK
  <2> HIDE DEF r, m
  <2>2. iter(r) = m /\ r.count = Cardinality(m) /\ Len(r.bitmap) = CeilDiv(r.max_id, W)
    BY <2>1, Answers DEF Holds
  <2>3. \A i \in 0 .. W * Len(r.bitmap) : contains(r, i) <=> i \in m
    <3>1. \A i \in Nat : contains(r, i) <=> i \in m
      BY <2>1, Answers
    <3> QED BY <3>1
  <2>4. ASSUME NEW d \in Caller
        PROVE  LET s == snap[d]  held == iter_set(s)  own_held == iter_set(mine)
               IN  /\ missing_in(r, s) = m \ held /\ existing_in(r, s) = m \intersect held
                   /\ count_missing_in(r, s) = Cardinality(m \ held)
                   /\ snapshot_intersection(mine, s) = own_held \intersect held
                   /\ snapshot_intersection_count(mine, s) = Cardinality(own_held \intersect held)
                   /\ snapshot_difference_count(mine, s) = Cardinality(own_held \ held)
                   /\ \A i \in Probe : test(s, i) <=> i \in held
                   /\ \A q \in Ranges : count_range(s, q[1], q[2]) = Cardinality({i \in held : q[1] <= i /\ i < q[2]})
    <3> DEFINE s == snap[d]
    <3>1. Whole(s) /\ Whole(mine)
      BY <2>1
    <3> HIDE DEF s, mine
    <3>2. missing_in(r, s) = m \ iter_set(s) /\ existing_in(r, s) = m \intersect iter_set(s)
          /\ count_missing_in(r, s) = Cardinality(m \ iter_set(s))
      BY <2>1, <3>1, ComparedReference
    <3>3. /\ snapshot_intersection(mine, s) = iter_set(mine) \intersect iter_set(s)
          /\ snapshot_intersection_count(mine, s) = Cardinality(iter_set(mine) \intersect iter_set(s))
          /\ snapshot_difference_count(mine, s) = Cardinality(iter_set(mine) \ iter_set(s))
      BY <3>1, Compared
    <3>4. \A i \in Probe : test(s, i) <=> i \in iter_set(s)
      <4>1. Probe \subseteq Nat
        BY KeyspaceAssumption, LargestNat
      <4> QED BY <3>1, <4>1, WholeIds
    <3>5. \A q \in Ranges : count_range(s, q[1], q[2]) = Cardinality({i \in iter_set(s) : q[1] <= i /\ i < q[2]})
      <4>1. \A q \in Ranges : q[1] \in Nat /\ q[2] \in Nat
        BY KeyspaceAssumption
      <4>2. \A from, to \in Nat : count_range(s, from, to) = Cardinality({i \in iter_set(s) : from <= i /\ i < to})
        BY <3>1, WholeIds
      <4> QED BY <4>1, <4>2
    <3> QED BY <3>2, <3>3, <3>4, <3>5 DEF s
  <2> QED BY <2>2, <2>3, <2>4 DEF r, m
<1> QED BY <1>1, Inductive, PTL

(* The answers of the calls that compare are between what always was and   *)
(* what ever was, whatever other callers do meanwhile.                     *)
THEOREM ChangesAreSeen == Spec => []ChangesSeen
<1>1. ASSUME Invariant
      PROVE  ChangesSeen
  <2> SUFFICES ASSUME NEW c \in Caller, pc[c] = "return"
               PROVE  LET got == call[c].got  h == hist[c]  s == snap[c]
                      IN  /\ call[c].op = "added_since" =>
                               h.always \ s.ever \subseteq got /\ got \subseteq h.ever \ s.always
                          /\ call[c].op = "removed_since" =>
                               s.always \ h.ever \subseteq got /\ got \subseteq s.ever \ h.always
                          /\ call[c].op \in {"missing", "iter_missing_from_reference"} =>
                               meant[c] \ h.ever \subseteq got /\ got \subseteq meant[c] \ h.always
                          /\ call[c].op = "iter_intersection" =>
                               meant[c] \intersect h.always \subseteq got /\ got \subseteq meant[c] \intersect h.ever
    BY DEF ChangesSeen
  <2>1. SeenOK(c)
    BY <1>1 DEF Invariant
  <2>2. Answer(c)
    BY <2>1 DEF SeenOK
  <2>3. call[c].op \in AskOps => call[c].todo = {}
    BY <2>1 DEF SeenOK
  <2>4. call[c].op = "iter_missing_from_reference" =>
          meant[c] \ hist[c].ever \subseteq call[c].got /\ call[c].got \subseteq meant[c] \ hist[c].always
    BY <2>1, <2>3 DEF SeenOK, AskOps
  <2>5. call[c].op = "iter_intersection" =>
          meant[c] \intersect hist[c].always \subseteq call[c].got /\ call[c].got \subseteq meant[c] \intersect hist[c].ever
    BY <2>1, <2>3 DEF SeenOK, AskOps
  <2> QED BY <2>2, <2>4, <2>5 DEF Answer
<1> QED BY <1>1, Inductive, PTL

(* Two trackers of one prefix are not both registered.                     *)
THEOREM OneTracker == Spec => []OneTrackerPerPrefix
<1>1. ASSUME Invariant
      PROVE  OneTrackerPerPrefix
  <2>1. TrackersOK /\ RegistryOK
    BY <1>1 DEF Invariant, Typed
  <2> SUFFICES ASSUME NEW c \in Caller, NEW d \in Caller, Mine(c).prefix = Mine(d).prefix, arc[c] # arc[d],
                      arc[c] \notin gone, arc[d] \notin gone
               PROVE  FALSE
    BY DEF OneTrackerPerPrefix
  <2>2. arc[c] \in DOMAIN trackers /\ arc[d] \in DOMAIN trackers
    BY <2>1, MineFacts
  <2>3. registry[Mine(c).prefix] = arc[c] /\ registry[Mine(d).prefix] = arc[d]
    BY <2>1, <2>2 DEF RegistryOK, Mine
  <2> QED BY <2>3
<1> QED BY <1>1, Inductive, PTL

(* A walk over the shards visits what stays registered, and nothing twice. *)
THEOREM WalksAreSound == Spec => []WalkSound
<1>1. ASSUME Invariant
      PROVE  WalkSound
  <2> SUFFICES ASSUME NEW c \in Caller, pc[c] = "return", call[c].op = "walk"
               PROVE  /\ hist[c].kept \subseteq call[c].got /\ call[c].got \subseteq hist[c].met
                      /\ \A j, k \in call[c].got : j # k => trackers[j].prefix # trackers[k].prefix
    BY DEF WalkSound
  <2>1. WalkOK(c) /\ Typed
    BY <1>1 DEF Invariant
  <2>2. /\ call[c].at = NShards /\ hist[c].kept \subseteq Registered(registry) /\ call[c].got \subseteq hist[c].met
        /\ \A k \in hist[c].kept : ShardOf[trackers[k].prefix] <= NShards => k \in call[c].got
        /\ \A j, k \in call[c].got : j # k => trackers[j].prefix # trackers[k].prefix
    BY <2>1 DEF WalkOK
  <2>3. ASSUME NEW k \in hist[c].kept
        PROVE  ShardOf[trackers[k].prefix] <= NShards
    <3>1. PICK p \in Prefix : k = registry[p] /\ registry[p] # None
      BY <2>2 DEF Registered
    <3>2. trackers[k].prefix = p
      BY <2>1, <3>1, RegisteredMade
    <3>3. ShardOf[p] \in 1 .. NShards
      BY KeyspaceAssumption
    <3> QED BY <3>2, <3>3, KeyspaceAssumption
  <2> QED BY <2>2, <2>3
<1> QED BY <1>1, Inductive, PTL

(* What is left of a bulk call, for those of S that nobody else touched.   *)
LEMMA LeavesLeft ==
  ASSUME Typed, NEW c \in Caller, NEW S \in SUBSET Nat, Left(c, S)
  PROVE  \A i \in (S \union Mine(c).bits) \ hist[c].touched : i \in S <=> i \in Mine(c).bits
<1>1. Mine(c).bits \subseteq Nat
  BY MineFacts DEF Typed
<1> QED BY <1>1 DEF Left

(* Bulk calls do what they say to the ids nobody else touches, and count   *)
(* those they flipped.                                                     *)
THEOREM BulkIsExact == Spec => []BulkExact
<1>1. ASSUME Invariant
      PROVE  BulkExact
  <2> SUFFICES ASSUME NEW c \in Caller, pc[c] \in {"return", "panicked"}
               PROVE  LET me == call[c]  h == hist[c]  t == Mine(c)
                          Leaves(S) == \A i \in (S \union t.bits) \ h.touched : i \in S <=> i \in t.bits
                          done == IF pc[c] = "return" THEN h.want ELSE {i \in h.want : i < Min(me.todo)}
                      IN  /\ me.op \in {"restore_from_reference", "populate_with_pattern"} =>
                               Leaves(h.before \union done) /\ me.n = Cardinality(h.flips)
                          /\ me.op = "populate_with_profile" =>
                               Leaves(h.want \union {i \in h.before : i >= effective_max_id(t)})
                          /\ pc[c] = "return" /\ me.op = "add_range" =>
                               Leaves(h.before \union h.want) /\ me.n = Cardinality(h.flips)
                          /\ pc[c] = "return" /\ me.op = "remove_range" =>
                               Leaves(h.before \ h.want) /\ me.n = Cardinality(h.flips)
    BY DEF BulkExact
  <2> DEFINE Leaves(S) == \A i \in (S \union Mine(c).bits) \ hist[c].touched : i \in S <=> i \in Mine(c).bits
             want == hist[c].want
             before == hist[c].before
             todo == call[c].todo
             done == IF pc[c] = "return" THEN want ELSE {i \in want : i < Min(todo)}
  <2>1. BulkOK(c) /\ Typed
    BY <1>1 DEF Invariant
  <2>2. before \subseteq Nat /\ want \subseteq Nat /\ todo \subseteq Nat
    BY <2>1, HistFacts, CallFacts DEF Typed
  <2>3. \A S \in SUBSET Nat : Left(c, S) => Leaves(S)
    BY <2>1, LeavesLeft
  <2>4. ASSUME call[c].op \in SetOps
        PROVE  Leaves(before \union done) /\ call[c].n = Cardinality(hist[c].flips)
    <3>1. /\ (pc[c] = "return") = (todo = {}) /\ Counts(c) /\ Left(c, before \union (want \ todo))
          /\ \A i \in want \ todo : i \in before \/ i \in hist[c].touched \/ \A j \in todo : i < j
      BY <2>1, <2>4 DEF BulkOK, SetsSoFar
    <3>2. CASE pc[c] = "return"
      <4>1. before \union done = before \union (want \ todo)
        BY <3>1, <3>2
      <4> QED BY <3>1, <4>1, <2>2, <2>3 DEF Counts
    <3>3. CASE pc[c] # "return"
      <4>1. Min(todo) \in todo /\ \A j \in todo : Min(todo) <= j
        BY <3>1, <3>3, <2>2, LeastOf
      <4>2. done = {i \in want : i < Min(todo)}
        BY <3>3
      <4> HIDE DEF done
      <4>3. \A i \in Nat \ hist[c].touched : i \in before \union done <=> i \in before \union (want \ todo)
        <5> SUFFICES ASSUME NEW i \in Nat \ hist[c].touched, i \in want, i \notin before
                     PROVE  i < Min(todo) <=> i \notin todo
          BY <4>2
        <5>1. i < Min(todo) => i \notin todo
          BY <4>1, <2>2
        <5>2. i \notin todo => i < Min(todo)
          BY <4>1, <3>1
        <5> QED BY <5>1, <5>2
      <4>4. Left(c, before \union done)
        BY <3>1, <4>3 DEF Left
      <4>5. before \union done \in SUBSET Nat
        BY <2>2, <4>2
      <4> QED BY <3>1, <4>4, <4>5, <2>3 DEF Counts
    <3> QED BY <3>2, <3>3
  <2>5. ASSUME call[c].op = "populate_with_profile"
        PROVE  Leaves(want \union {i \in before : i >= effective_max_id(Mine(c))})
    <3> DEFINE S == want \union {i \in before : i >= effective_max_id(Mine(c))}
    <3>1. pc[c] = "return" /\ todo = {}
      BY <2>1, <2>5 DEF BulkOK, ProfileSoFar
    <3>2. Left(c, want \union todo \union {i \in before : i >= effective_max_id(Mine(c))})
      BY <2>1, <2>5, <3>1 DEF BulkOK, ProfileSoFar
    <3>3. S = want \union todo \union {i \in before : i >= effective_max_id(Mine(c))}
      BY <3>1
    <3>4. S \in SUBSET Nat
      BY <2>2
    <3> QED BY <3>2, <3>3, <3>4, <2>3
  <2>6. ASSUME pc[c] = "return", call[c].op \in {"add_range", "remove_range"}
        PROVE  /\ call[c].n = Cardinality(hist[c].flips)
               /\ Leaves(IF call[c].op = "add_range" THEN before \union want ELSE before \ want)
    <3> DEFINE far == Before(want, call[c].at * W)
               S == IF call[c].op = "add_range" THEN before \union want ELSE before \ want
    <3>1. far = want /\ Counts(c) /\ Left(c, IF call[c].op = "add_range" THEN before \union far ELSE before \ far)
      BY <2>1, <2>6 DEF BulkOK, RangeSoFar
    <3>2. Left(c, S) /\ S \in SUBSET Nat
      BY <3>1, <2>2
    <3> QED BY <3>1, <3>2, <2>3 DEF Counts
  <2> QED BY <2>4, <2>5, <2>6 DEF SetOps
<1> QED BY <1>1, Inductive, PTL
=============================================================================
