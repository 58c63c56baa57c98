--------------------------- MODULE WordScanProofs ---------------------------
(***************************************************************************)
(* Proofs about WordScan, for any bits per word, numbers of words, starts  *)
(* and machines.                                                           *)
(***************************************************************************)
EXTENDS WordScan, FiniteSetTheorems, WellFoundedInduction, TLAPS

-----------------------------------------------------------------------------
(* Batches                                                                 *)

(* A set of numbers has a least one, and no other.                         *)
LEMMA LeastOf ==
  ASSUME NEW S \in SUBSET Nat
  PROVE  /\ S # {} => Least(S) \in S /\ \A i \in S : Least(S) <= i
         /\ \A x \in S : (\A i \in S : x <= i) => Least(S) = x
<1>1. ASSUME S # {}
      PROVE  \E x \in S : \A i \in S : x <= i
  <2>1. PICK x \in S : \A y \in S : <<y, x>> \notin OpToRel(<, Nat)
    BY <1>1, NatLessThanWellFounded, WFMin
  <2>2. ASSUME NEW y \in S
        PROVE  x <= y
    <3>1. y < x => <<y, x>> \in {ss \in Nat \X Nat : ss[1] < ss[2]}
      OBVIOUS
    <3>2. ~(y < x)
      BY <2>1, <3>1 DEF OpToRel
    <3> QED BY <3>2
  <2> QED BY <2>2
<1>2. S # {} => Least(S) \in S /\ \A i \in S : Least(S) <= i
  BY <1>1 DEF Least
<1>3. ASSUME NEW x \in S, \A i \in S : x <= i
      PROVE  Least(S) = x
  <2>1. Least(S) \in S /\ Least(S) <= x
    BY <1>2
  <2>2. x <= Least(S) /\ x \in Nat /\ Least(S) \in Nat
    BY <1>3, <2>1
  <2> QED BY <2>1, <2>2
<1> QED BY <1>2, <1>3

(* A number is a multiple of another, and a rest.                          *)
LEMMA Divided ==
  ASSUME NEW m \in Nat, NEW n \in Nat \ {0}
  PROVE  m \div n \in Nat /\ (m % n) \in 0 .. n - 1 /\ m = (m \div n) * n + (m % n)
OBVIOUS

(* Multiples are apart.                                                    *)
LEMMA Spaced ==
  ASSUME NEW n \in Nat \ {0}, NEW a \in Nat, NEW b \in Nat
  PROVE  /\ a * n \in Nat /\ b * n \in Nat
         /\ a < b => a * n + n <= b * n
<1>0. a * n \in Nat /\ b * n \in Nat
  OBVIOUS
<1>1. ASSUME a < b
      PROVE  a * n + n <= b * n
  <2>1. PICK d \in Nat : b = a + 1 + d
    <3>1. b - a - 1 \in Nat /\ b = a + 1 + (b - a - 1)
      BY <1>1
    <3> QED BY <3>1
  <2>2. b * n = a * n + n + d * n /\ d * n \in Nat
    BY <2>1
  <2> QED BY <1>0, <2>2
<1> QED BY <1>0, <1>1

(* They leave no rest.                                                     *)
LEMMA Multiples ==
  ASSUME NEW n \in Nat \ {0}, NEW a \in Nat
  PROVE  (a * n) % n = 0
<1> DEFINE q == (a * n) \div n
           r == (a * n) % n
<1>1. a * n \in Nat
  OBVIOUS
<1>2. q \in Nat /\ r \in 0 .. n - 1 /\ a * n = q * n + r
  BY <1>1, Divided
<1> HIDE DEF q, r
<1>3. q * n \in Nat /\ (a < q => a * n + n <= q * n) /\ (q < a => q * n + n <= a * n)
  BY <1>2, Spaced
<1>4. q = a
  BY <1>1, <1>2, <1>3
<1>5. r = 0
  BY <1>1, <1>2, <1>4
<1> QED BY <1>5 DEF r

(* Where the batch with index i begins, counted from start.                *)
BatchOf(i, start, width) == start + ((i - start) \div width) * width

(* A batch before the end of some batch is a batch.                        *)
LEMMA Batched ==
  ASSUME NEW start \in Nat, NEW len \in Nat, NEW width \in Nat \ {0}, NEW i \in Nat, start <= i,
         NEW j \in BatchStarts(start, len, width), i < j + width
  PROVE  LET k == BatchOf(i, start, width)
         IN  k \in BatchStarts(start, len, width) /\ k \in Nat /\ k <= i /\ i < k + width /\ k <= j
<1> DEFINE q == (i - start) \div width
           r == (i - start) % width
           p == (j - start) \div width
           k == start + q * width
<1>1. j \in start .. len /\ (j - start) % width = 0 /\ j + width <= len
  BY DEF BatchStarts
<1>2. q \in Nat /\ r \in 0 .. width - 1 /\ i - start = q * width + r
  <2>1. i - start \in Nat
    OBVIOUS
  <2> QED BY <2>1, Divided
<1>3. p \in Nat /\ j - start = p * width
  <2>1. j - start \in Nat
    BY <1>1
  <2>2. p \in Nat /\ j - start = p * width + ((j - start) % width)
    BY <2>1, Divided
  <2> QED BY <1>1, <2>1, <2>2
<1> HIDE DEF q, r, p
<1>4. /\ q * width \in Nat /\ p * width \in Nat /\ (q * width) % width = 0
      /\ p < q => p * width + width <= q * width
  BY <1>2, <1>3, Spaced, Multiples
<1>5. ~(p < q)
  BY <1>1, <1>2, <1>3, <1>4
<1>6. q * width <= p * width
  <2>1. q < p => q * width + width <= p * width
    BY <1>2, <1>3, Spaced
  <2> QED BY <1>2, <1>3, <1>4, <1>5, <2>1
<1>7. k \in Nat /\ k <= i /\ i < k + width /\ k <= j /\ k - start = q * width /\ start <= k
  BY <1>1, <1>2, <1>3, <1>4, <1>6
<1> HIDE DEF k
<1>8. k \in start .. len /\ (k - start) % width = 0 /\ k + width <= len
  BY <1>1, <1>4, <1>7
<1> QED BY <1>7, <1>8 DEF BatchStarts, BatchOf, k, q

(* Two batches with an index in common are one.                            *)
LEMMA BatchesApart ==
  ASSUME NEW start \in Nat, NEW len \in Nat, NEW width \in Nat \ {0}, NEW i \in Nat,
         NEW j \in BatchStarts(start, len, width), j <= i, i < j + width
  PROVE  j = BatchOf(i, start, width)
<1> DEFINE k == BatchOf(i, start, width)
           p == (j - start) \div width
           q == (k - start) \div width
<1>1. j \in start .. len /\ (j - start) % width = 0 /\ j + width <= len
  BY DEF BatchStarts
<1>2. k \in BatchStarts(start, len, width) /\ k \in Nat /\ k <= i /\ i < k + width /\ k <= j
  BY <1>1, Batched
<1>3. k \in start .. len /\ (k - start) % width = 0
  BY <1>2 DEF BatchStarts
<1> HIDE DEF k
<1>4. p \in Nat /\ j - start = p * width
  <2>1. j - start \in Nat
    BY <1>1
  <2>2. p \in Nat /\ j - start = p * width + ((j - start) % width)
    BY <2>1, Divided
  <2> QED BY <1>1, <2>1, <2>2
<1>5. q \in Nat /\ k - start = q * width
  <2>1. k - start \in Nat
    BY <1>3
  <2>2. q \in Nat /\ k - start = q * width + ((k - start) % width)
    BY <2>1, Divided
  <2> QED BY <1>3, <2>1, <2>2
<1> HIDE DEF p, q
<1>6. p * width \in Nat /\ q * width \in Nat /\ (q < p => q * width + width <= p * width)
  BY <1>4, <1>5, Spaced
<1>7. ~(q < p)
  BY <1>1, <1>2, <1>3, <1>4, <1>5, <1>6
<1>8. ~(p < q)
  <2>1. p < q => p * width + width <= q * width
    BY <1>4, <1>5, Spaced
  <2> QED BY <1>1, <1>2, <1>3, <1>4, <1>5, <1>6, <2>1
<1>9. p = q
  BY <1>4, <1>5, <1>7, <1>8
<1>10. j = k
  BY <1>1, <1>2, <1>4, <1>5, <1>9
<1> QED BY <1>10 DEF k

-----------------------------------------------------------------------------
(* Finds                                                                   *)

(* Slices of n words.                                                      *)
Slices(n) == [0 .. n - 1 -> SUBSET Full]

(* Their indices and their length.                                         *)
LEMMA SliceFacts ==
  ASSUME NEW n \in Nat, NEW ws \in Slices(n)
  PROVE  DOMAIN ws = 0 .. n - 1 /\ Len(ws) = n /\ IsFiniteSet(DOMAIN ws)
<1>1. DOMAIN ws = 0 .. n - 1
  BY DEF Slices
<1>2. IsFiniteSet(0 .. n - 1) /\ Cardinality(0 .. n - 1) = n
  BY FS_Interval
<1> QED BY <1>1, <1>2 DEF Len

(* What a find must return: the first hit from the start on, if any.       *)
FirstOf(ws, start, hits) ==
  LET later == {i \in hits : i >= start} IN IF later = {} THEN None ELSE <<Least(later), ws[Least(later)]>>

(* A scan whose tests pick out the batches that have hits, and whose       *)
(* choices are their first, returns the first.                             *)
LEMMA ScanFirst ==
  ASSUME NEW n \in Nat, NEW ws \in Slices(n), NEW start \in Nat, NEW width \in Nat \ {0},
         NEW found, NEW pick, NEW hits \in SUBSET DOMAIN ws,
         \A j \in BatchStarts(start, n, width) :
           /\ j \in found <=> \E i \in hits : j <= i /\ i < j + width
           /\ j \in found => /\ pick[j] \in hits /\ j <= pick[j] /\ pick[j] < j + width
                             /\ \A i \in hits : j <= i /\ i < j + width => pick[j] <= i
  PROVE  Scan(ws, start, width, found, pick, hits) = FirstOf(ws, start, hits)
<1> DEFINE starts == BatchStarts(start, n, width)
           batches == found \intersect starts
           singles == hits \intersect Rest(start, n, width)
           later == {i \in hits : i >= start}
<1>0. Len(ws) = n /\ DOMAIN ws = 0 .. n - 1 /\ hits \subseteq Nat
  BY SliceFacts
<1>1. starts \subseteq Nat /\ \A j \in starts : start <= j
  BY DEF BatchStarts
<1>2. later \subseteq Nat /\ batches \subseteq Nat
  BY <1>0, <1>1
<1>3. ASSUME NEW i \in later, NEW j \in starts, i < j + width
      PROVE  \E k \in batches : k <= i /\ i < k + width /\ k <= j
  <2> DEFINE k == BatchOf(i, start, width)
  <2>1. i \in Nat /\ start <= i /\ i \in hits
    BY <1>0
  <2>2. k \in starts /\ k <= i /\ i < k + width /\ k <= j
    BY <1>3, <2>1, Batched
  <2>3. k \in found
    BY <2>1, <2>2
  <2> QED BY <2>2, <2>3
<1>4. CASE batches # {}
  <2> DEFINE b == Least(batches)
             h == pick[b]
  <2>1. b \in batches /\ \A j \in batches : b <= j
    BY <1>2, <1>4, LeastOf
  <2> HIDE DEF b
  <2>2. b \in starts /\ b \in found /\ b \in Nat /\ start <= b
    BY <1>1, <2>1
  <2>3. /\ h \in hits /\ b <= h /\ h < b + width
        /\ \A i \in hits : b <= i /\ i < b + width => h <= i
    BY <2>2
  <2>4. h \in later
    BY <1>0, <2>2, <2>3
  <2>5. ASSUME NEW i \in later
        PROVE  h <= i
    <3>1. i \in Nat /\ h \in Nat /\ i \in hits
      BY <1>0, <2>3
    <3>2. CASE b <= i /\ i < b + width
      BY <2>3, <3>1, <3>2
    <3>3. CASE b + width <= i
      BY <2>2, <2>3, <3>1, <3>3
    <3>4. CASE i < b
      <4>1. i < b + width
        BY <2>2, <3>1, <3>4
      <4>2. PICK k \in batches : k <= i
        BY <1>3, <2>2, <4>1
      <4> QED BY <1>2, <2>1, <2>2, <3>1, <3>4, <4>2
    <3> QED BY <2>2, <3>1, <3>2, <3>3, <3>4
  <2>6. Least(later) = h
    BY <1>2, <2>4, <2>5, LeastOf
  <2>7. Scan(ws, start, width, found, pick, hits) = <<h, ws[h]>>
    BY <1>0, <1>4 DEF Scan, b
  <2> QED BY <2>4, <2>6, <2>7 DEF FirstOf
<1>5. CASE batches = {}
  <2>1. ASSUME NEW i \in later
        PROVE  i \in singles
    <3>1. \A j \in starts : i >= j + width
      <4> SUFFICES ASSUME NEW j \in starts, ~(i >= j + width) PROVE FALSE
        OBVIOUS
      <4>1. i < j + width
        BY <1>1, <1>2
      <4> QED BY <1>3, <1>5, <4>1
    <3>2. i \in start .. n - 1 /\ i \in hits
      BY <1>0
    <3> QED BY <3>1, <3>2 DEF Rest
  <2>2. singles \subseteq later
    BY DEF Rest
  <2>3. singles = later
    BY <2>1, <2>2
  <2>4. Scan(ws, start, width, found, pick, hits) = IF singles = {} THEN None ELSE <<Least(singles), ws[Least(singles)]>>
    <3> HIDE DEF singles
    <3>1. Scan(ws, start, width, found, pick, hits) =
            CASE batches # {} -> <<pick[Least(batches)], ws[pick[Least(batches)]]>>
              [] batches = {} /\ singles # {} -> <<Least(singles), ws[Least(singles)]>>
              [] batches = {} /\ singles = {} -> None
      BY <1>0 DEF Scan, singles
    <3> QED BY <1>5, <3>1
  <2> QED BY <2>3, <2>4 DEF FirstOf
<1> QED BY <1>4, <1>5

(* A batch of four lies within the slice.                                  *)
LEMMA FourWords ==
  ASSUME NEW n \in Nat, NEW ws \in Slices(n), NEW start \in Nat, NEW j \in BatchStarts(start, n, 4)
  PROVE  /\ j \in Nat /\ j \in Fours(ws)
         /\ \A i \in j .. j + 3 : i \in DOMAIN ws /\ ws[i] \subseteq Full
<1>1. DOMAIN ws = 0 .. n - 1 /\ \A i \in DOMAIN ws : ws[i] \subseteq Full
  BY SliceFacts DEF Slices
<1>2. j \in Nat /\ j + 4 <= n
  BY DEF BatchStarts
<1> QED BY <1>1, <1>2 DEF Fours

(* Of four words with a hit, the chain names the first.                    *)
LEMMA ChainFirst ==
  ASSUME NEW hits \in SUBSET Nat, NEW j \in Nat, \E i \in hits : j <= i /\ i < j + 4
  PROVE  /\ Chained(hits, j) \in hits /\ j <= Chained(hits, j) /\ Chained(hits, j) < j + 4
         /\ \A i \in hits : j <= i /\ i < j + 4 => Chained(hits, j) <= i
<1> DEFINE tested == hits \intersect (j .. j + 2)
<1>1. tested \subseteq Nat
  OBVIOUS
<1>2. CASE tested # {}
  <2>1. Chained(hits, j) = Least(tested)
    BY <1>2 DEF Chained
  <2>2. Least(tested) \in tested /\ \A i \in tested : Least(tested) <= i
    BY <1>1, <1>2, LeastOf
  <2> HIDE DEF tested
  <2>3. Least(tested) \in hits /\ Least(tested) \in j .. j + 2
    BY <2>2 DEF tested
  <2>4. ASSUME NEW i \in hits, j <= i, i < j + 4
        PROVE  Least(tested) <= i
    <3>1. i \in j .. j + 2 => i \in tested
      BY DEF tested
    <3> QED BY <2>2, <2>3, <2>4, <3>1
  <2> QED BY <2>1, <2>3, <2>4
<1>3. CASE tested = {}
  <2>1. Chained(hits, j) = j + 3
    BY <1>3 DEF Chained
  <2>2. ASSUME NEW i \in hits, j <= i, i < j + 4
        PROVE  i = j + 3
    BY <1>3, <2>2
  <2> QED BY <2>1, <2>2
<1> QED BY <1>2, <1>3

(* A scan by batches of four finds the first, if its test is exact.        *)
LEMMA FoursFirst ==
  ASSUME NEW n \in Nat, NEW ws \in Slices(n), NEW start \in Nat, NEW hits \in SUBSET DOMAIN ws, NEW found,
         \A j \in Fours(ws) : j \in found <=> \E i \in hits : i \in j .. j + 3
  PROVE  Scan4(ws, start, found, hits) = FirstOf(ws, start, hits)
<1> DEFINE pick == [i \in Fours(ws) |-> Chained(hits, i)]
<1>0. hits \subseteq Nat
  BY SliceFacts
<1>1. ASSUME NEW j \in BatchStarts(start, n, 4)
      PROVE  /\ j \in found <=> \E i \in hits : j <= i /\ i < j + 4
             /\ j \in found => /\ pick[j] \in hits /\ j <= pick[j] /\ pick[j] < j + 4
                               /\ \A i \in hits : j <= i /\ i < j + 4 => pick[j] <= i
  <2>1. j \in Nat /\ j \in Fours(ws) /\ pick[j] = Chained(hits, j)
    BY FourWords
  <2> HIDE DEF pick
  <2>2. j \in found <=> \E i \in hits : j <= i /\ i < j + 4
    <3>1. \A i \in hits : i \in j .. j + 3 <=> j <= i /\ i < j + 4
      BY <1>0, <2>1
    <3> QED BY <2>1, <3>1
  <2> QED BY <1>0, <2>1, <2>2, ChainFirst
<1> HIDE DEF pick
<1>2. Scan(ws, start, 4, found, pick, hits) = FirstOf(ws, start, hits)
  BY <1>1, ScanFirst
<1> QED BY <1>2 DEF Scan4, pick

(* The words that are hits.                                                *)
LEMMA HitFacts ==
  ASSUME NEW n \in Nat, NEW ws \in Slices(n)
  PROVE  Nonzero(ws) \in SUBSET DOMAIN ws /\ NotFull(ws) \in SUBSET DOMAIN ws
BY DEF Nonzero, NotFull

(* By OR, the test of four words finds words that are not zero.            *)
LEMMA OrFirst ==
  ASSUME NEW n \in Nat, NEW ws \in Slices(n), NEW start \in Nat
  PROVE  ScanOr4(ws, start) = FirstOf(ws, start, Nonzero(ws))
<1> DEFINE found == {i \in Fours(ws) : Or4(ws, i) # {}}
<1>1. ASSUME NEW j \in Fours(ws)
      PROVE  j \in found <=> \E i \in Nonzero(ws) : i \in j .. j + 3
  <2>1. \A i \in j .. j + 3 : i \in DOMAIN ws
    BY SliceFacts DEF Fours
  <2>2. Or4(ws, j) # {} <=> \E i \in j .. j + 3 : ws[i] # {}
    BY DEF Or4
  <2> QED BY <2>1, <2>2 DEF Nonzero
<1> HIDE DEF found
<1>2. Scan4(ws, start, found, Nonzero(ws)) = FirstOf(ws, start, Nonzero(ws))
  BY <1>1, HitFacts, FoursFirst
<1> QED BY <1>2 DEF ScanOr4, found

(* By AND, the test finds words that are not full.                         *)
LEMMA AndFirst ==
  ASSUME NEW n \in Nat, NEW ws \in Slices(n), NEW start \in Nat
  PROVE  ScanAnd4(ws, start) = FirstOf(ws, start, NotFull(ws))
<1> DEFINE found == {i \in Fours(ws) : And4(ws, i) # Full}
<1>1. ASSUME NEW j \in Fours(ws)
      PROVE  j \in found <=> \E i \in NotFull(ws) : i \in j .. j + 3
  <2>1. \A i \in j .. j + 3 : i \in DOMAIN ws /\ ws[i] \subseteq Full
    BY SliceFacts DEF Fours, Slices
  <2>2. And4(ws, j) # Full <=> \E i \in j .. j + 3 : ws[i] # Full
    BY <2>1 DEF And4
  <2> QED BY <2>1, <2>2 DEF NotFull
<1> HIDE DEF found
<1>2. Scan4(ws, start, found, NotFull(ws)) = FirstOf(ws, start, NotFull(ws))
  BY <1>1, HitFacts, FoursFirst
<1> QED BY <1>2 DEF ScanAnd4, found

(* Comparing lanes finds words other than the one compared with.           *)
LEMMA LanesFirst ==
  ASSUME NEW n \in Nat, NEW ws \in Slices(n), NEW start \in Nat, NEW x
  PROVE  LET hits == {i \in DOMAIN ws : ws[i] # x}
         IN  Scan4(ws, start, {i \in Fours(ws) : EqLanes(ws, i, x) # 0 .. 3}, hits) = FirstOf(ws, start, hits)
<1> DEFINE hits == {i \in DOMAIN ws : ws[i] # x}
           found == {i \in Fours(ws) : EqLanes(ws, i, x) # 0 .. 3}
<1>1. ASSUME NEW j \in Fours(ws)
      PROVE  j \in found <=> \E i \in hits : i \in j .. j + 3
  <2>1. j \in Nat /\ \A i \in j .. j + 3 : i \in DOMAIN ws
    BY SliceFacts DEF Fours
  <2>2. EqLanes(ws, j, x) # 0 .. 3 <=> \E l \in 0 .. 3 : ws[j + l] # x
    BY DEF EqLanes
  <2>3. \A i \in j .. j + 3 : i - j \in 0 .. 3 /\ i = j + (i - j)
    BY <2>1
  <2>4. \A l \in 0 .. 3 : j + l \in j .. j + 3
    BY <2>1
  <2> QED BY <2>1, <2>2, <2>3, <2>4
<1>2. hits \in SUBSET DOMAIN ws
  OBVIOUS
<1> HIDE DEF found, hits
<1>3. Scan4(ws, start, found, hits) = FirstOf(ws, start, hits)
  BY <1>1, <1>2, FoursFirst
<1> QED BY <1>3 DEF found, hits

(* The test of eight words, by lanes that differ.                          *)
LEMMA EightsFirst ==
  ASSUME NEW n \in Nat, NEW ws \in Slices(n), NEW start \in Nat, NEW x
  PROVE  LET hits == {i \in DOMAIN ws : ws[i] # x}
         IN  Scan8(ws, start, x, hits) = FirstOf(ws, start, hits)
<1> DEFINE hits == {i \in DOMAIN ws : ws[i] # x}
           found == {i \in Eights(ws) : NeLanes(ws, i, x) # {}}
           pick == [i \in Eights(ws) |-> i + Least(NeLanes(ws, i, x))]
<1>1. DOMAIN ws = 0 .. n - 1
  BY SliceFacts
<1>2. ASSUME NEW j \in BatchStarts(start, n, 8)
      PROVE  /\ j \in found <=> \E i \in hits : j <= i /\ i < j + 8
             /\ j \in found => /\ pick[j] \in hits /\ j <= pick[j] /\ pick[j] < j + 8
                               /\ \A i \in hits : j <= i /\ i < j + 8 => pick[j] <= i
  <2> DEFINE L == NeLanes(ws, j, x)
  <2>1. j \in Nat /\ j + 8 <= n
    BY DEF BatchStarts
  <2>2. j \in Eights(ws)
    BY <1>1, <2>1 DEF Eights
  <2>3. L \subseteq 0 .. 7 /\ \A l \in 0 .. 7 : l \in L <=> j + l \in hits
    BY <1>1, <2>1 DEF NeLanes
  <2>4. pick[j] = j + Least(L) /\ (j \in found <=> L # {})
    BY <2>2
  <2> HIDE DEF L, hits, found, pick
  <2>5. hits \subseteq Nat
    BY <1>1 DEF hits
  <2>6. ASSUME NEW i \in hits, j <= i, i < j + 8
        PROVE  i - j \in L
    <3>1. i - j \in 0 .. 7 /\ j + (i - j) = i
      BY <2>1, <2>5, <2>6
    <3> QED BY <2>3, <3>1
  <2>7. L # {} => Least(L) \in L /\ \A l \in L : Least(L) <= l
    BY <2>3, LeastOf
  <2>8. j \in found <=> \E i \in hits : j <= i /\ i < j + 8
    <3>1. \A l \in L : j + l \in hits /\ j <= j + l /\ j + l < j + 8
      BY <2>1, <2>3
    <3> QED BY <2>4, <2>6, <3>1
  <2>9. ASSUME j \in found
        PROVE  /\ pick[j] \in hits /\ j <= pick[j] /\ pick[j] < j + 8
               /\ \A i \in hits : j <= i /\ i < j + 8 => pick[j] <= i
    <3>1. Least(L) \in L /\ Least(L) \in 0 .. 7
      BY <2>3, <2>4, <2>7, <2>9
    <3>2. pick[j] \in hits /\ j <= pick[j] /\ pick[j] < j + 8
      BY <2>1, <2>3, <2>4, <3>1
    <3>3. ASSUME NEW i \in hits, j <= i, i < j + 8
          PROVE  pick[j] <= i
      <4>1. Least(L) <= i - j
        BY <2>6, <2>7, <3>3
      <4> QED BY <2>1, <2>4, <2>5, <3>1, <4>1
    <3> QED BY <3>2, <3>3
  <2> QED BY <2>8, <2>9
<1>3. hits \in SUBSET DOMAIN ws
  OBVIOUS
<1> HIDE DEF found, hits, pick
<1>4. Scan(ws, start, 8, found, pick, hits) = FirstOf(ws, start, hits)
  BY <1>2, <1>3, ScanFirst
<1> QED BY <1>4 DEF Scan8, found, hits, pick

(* Whatever the machine, the first nonzero and the first not-full word.    *)
LEMMA FindsFirst ==
  ASSUME NEW n \in Nat, NEW ws \in Slices(n), NEW start \in Nat, NEW m \in MachineType
  PROVE  /\ simd_find_first_nonzero(m, ws, start) = FirstOf(ws, start, Nonzero(ws))
         /\ simd_find_first_not_full(m, ws, start) = FirstOf(ws, start, NotFull(ws))
<1>1. m.arch \in {"x86_64", "aarch64", "other"} /\ m.avx512f \in BOOLEAN /\ m.avx2 \in BOOLEAN /\ m.popcnt \in BOOLEAN
  BY DEF MachineType
<1>2. ScanOr4(ws, start) = FirstOf(ws, start, Nonzero(ws)) /\ ScanAnd4(ws, start) = FirstOf(ws, start, NotFull(ws))
  BY OrFirst, AndFirst
<1>3. /\ find_first_nonzero_avx2(ws, start) = FirstOf(ws, start, Nonzero(ws))
      /\ find_first_not_full_avx2(ws, start) = FirstOf(ws, start, NotFull(ws))
  <2>1. \A x : Scan4(ws, start, {i \in Fours(ws) : EqLanes(ws, i, x) # 0 .. 3}, {i \in DOMAIN ws : ws[i] # x})
               = FirstOf(ws, start, {i \in DOMAIN ws : ws[i] # x})
    BY LanesFirst
  <2>2. Scan4(ws, start, {i \in Fours(ws) : EqLanes(ws, i, {}) # 0 .. 3}, Nonzero(ws)) = FirstOf(ws, start, Nonzero(ws))
    BY <2>1 DEF Nonzero
  <2>3. Scan4(ws, start, {i \in Fours(ws) : EqLanes(ws, i, Full) # 0 .. 3}, NotFull(ws)) = FirstOf(ws, start, NotFull(ws))
    BY <2>1 DEF NotFull
  <2> QED BY <2>2, <2>3 DEF find_first_nonzero_avx2, find_first_not_full_avx2
<1>4. /\ find_first_nonzero_avx512(ws, start) = FirstOf(ws, start, Nonzero(ws))
      /\ find_first_not_full_avx512(ws, start) = FirstOf(ws, start, NotFull(ws))
  <2>1. \A x : Scan8(ws, start, x, {i \in DOMAIN ws : ws[i] # x}) = FirstOf(ws, start, {i \in DOMAIN ws : ws[i] # x})
    BY EightsFirst
  <2>2. Scan8(ws, start, {}, Nonzero(ws)) = FirstOf(ws, start, Nonzero(ws))
    BY <2>1 DEF Nonzero
  <2>3. Scan8(ws, start, Full, NotFull(ws)) = FirstOf(ws, start, NotFull(ws))
    BY <2>1 DEF NotFull
  <2> QED BY <2>2, <2>3 DEF find_first_nonzero_avx512, find_first_not_full_avx512
<1>5. x86_find_first_nonzero(m, ws, start) = FirstOf(ws, start, Nonzero(ws))
  BY <1>1, <1>2, <1>3, <1>4 DEF x86_find_first_nonzero, find_first_nonzero_popcnt, scalar_find_first_nonzero
<1>6. x86_find_first_not_full(m, ws, start) = FirstOf(ws, start, NotFull(ws))
  BY <1>1, <1>2, <1>3, <1>4 DEF x86_find_first_not_full, find_first_not_full_popcnt, scalar_find_first_not_full
<1>7. simd_find_first_nonzero(m, ws, start) = FirstOf(ws, start, Nonzero(ws))
  BY <1>1, <1>2, <1>5 DEF simd_find_first_nonzero, find_first_nonzero_neon, scalar_find_first_nonzero
<1>8. simd_find_first_not_full(m, ws, start) = FirstOf(ws, start, NotFull(ws))
  BY <1>1, <1>2, <1>6 DEF simd_find_first_not_full, find_first_not_full_neon, scalar_find_first_not_full
<1> QED BY <1>7, <1>8

-----------------------------------------------------------------------------
(* The words of the bitmap                                                 *)

(* Their number does not change, and they are words.                       *)
WordsOK == \E n \in Nat : words \in Slices(n)

(* They hold words of that kind throughout.                                *)
LEMMA WordsTyped == Spec => []WordsOK
<1>1. Init => WordsOK
  <2> SUFFICES ASSUME Init PROVE WordsOK
    OBVIOUS
  <2>1. PICK n \in Sizes, f \in Fills : words = [i \in 0 .. n - 1 |-> f]
    BY DEF Init
  <2>2. n \in Nat /\ words \in Slices(n)
    BY <2>1, WordAssumption DEF Slices
  <2> QED BY <2>2 DEF WordsOK
<1>2. WordsOK /\ [Next]_vars => WordsOK'
  <2> SUFFICES ASSUME WordsOK, [Next]_vars PROVE WordsOK'
    OBVIOUS
  <2>1. PICK n \in Nat : words \in Slices(n)
    BY DEF WordsOK
  <2>2. CASE Next
    <3>1. PICK i \in DOMAIN words, w \in SUBSET Full : words' = [words EXCEPT ![i] = w]
      BY <2>2 DEF Next, Store
    <3>2. words' \in Slices(n)
      BY <2>1, <3>1 DEF Slices
    <3> QED BY <3>2 DEF WordsOK
  <2>3. CASE UNCHANGED vars
    BY <2>3 DEF WordsOK, vars
  <2> QED BY <2>2, <2>3
<1> QED BY <1>1, <1>2, PTL DEF Spec

(* Every find of every backend returns the first hit (FirstWordFound).     *)
THEOREM FindsAreFirst == Spec => []FirstWordFound
<1>1. WordsOK => FirstWordFound
  <2> SUFFICES ASSUME WordsOK PROVE FirstWordFound
    OBVIOUS
  <2>1. PICK n \in Nat : words \in Slices(n)
    BY DEF WordsOK
  <2>2. Len(words) = n
    BY <2>1, SliceFacts
  <2>3. ASSUME NEW m \in Machines, NEW start \in 0 .. Len(words) + 1
        PROVE  /\ simd_find_first_nonzero(m, words, start) = FirstOf(words, start, Nonzero(words))
               /\ simd_find_first_not_full(m, words, start) = FirstOf(words, start, NotFull(words))
    <3>1. m \in MachineType /\ start \in Nat
      BY <2>2, WordAssumption
    <3> QED BY <2>1, <3>1, FindsFirst
  <2> QED BY <2>3 DEF FirstWordFound, FirstOf
<1> QED BY <1>1, WordsTyped, PTL

-----------------------------------------------------------------------------
(* Sums over sets                                                          *)

(* MapThenSumSet adds in some order: that of Pick.  Adds says that g is    *)
(* the sum over every subset of S.                                         *)
Pick(s) == CHOOSE x \in s : TRUE
Adds(g, c, S) == g = [s \in SUBSET S |-> IF s = {} THEN 0 ELSE c[Pick(s)] + g[s \ {Pick(s)}]]

(* There is such a sum, and that over S is x.                              *)
SumsTo(c, S, x) == (\E g : Adds(g, c, S)) /\ \A g : Adds(g, c, S) => g[S] = x

(* All that the sets E[i] contain.                                         *)
Joint(E, S) == UNION {E[i] : i \in S}

(* Of the subsets of a finite set that are in X, one has no part in X.     *)
LEMMA LeastSubset ==
  ASSUME NEW T, IsFiniteSet(T), NEW X \in SUBSET SUBSET T, X # {}
  PROVE  \E s \in X : \A u \in SUBSET s : u # s => u \notin X
<1>1. IsWellFoundedOn(StrictSubsetOrdering(T), SUBSET T)
  BY FS_StrictSubsetOrderingWellFounded, FS_FiniteSubsetsOfFinite
<1>2. PICK s \in X : \A u \in X : ~ (<<u, s>> \in StrictSubsetOrdering(T))
  BY <1>1, WFMin
<1>3. ASSUME NEW u \in SUBSET s, u # s, u \in X
      PROVE  FALSE
  <2>1. u \in SUBSET T /\ s \in SUBSET T
    OBVIOUS
  <2>2. <<u, s>>[1] = u /\ <<u, s>>[2] = s
    OBVIOUS
  <2>3. <<u, s>> \in StrictSubsetOrdering(T)
    BY <1>3, <2>1, <2>2 DEF StrictSubsetOrdering
  <2> QED BY <1>2, <1>3, <2>3
<1> QED BY <1>3

(* A set with an element is larger than it is without the one picked.      *)
LEMMA PickFrom ==
  ASSUME NEW s, s # {}
  PROVE  Pick(s) \in s /\ s \ {Pick(s)} \in SUBSET s /\ s \ {Pick(s)} # s
BY DEF Pick

(* A union of finite sets without a common element, less one of them.      *)
LEMMA JointLess ==
  ASSUME NEW S, IsFiniteSet(S), NEW E, IsFiniteSet(Joint(E, S)),
         \A i, j \in S : i # j => E[i] \intersect E[j] = {}, NEW s \in SUBSET S, s # {}
  PROVE  Cardinality(Joint(E, s)) = Cardinality(E[Pick(s)]) + Cardinality(Joint(E, s \ {Pick(s)}))
<1> DEFINE x == Pick(s)
           u == s \ {x}
<1>1. x \in s /\ u \in SUBSET S /\ x \in S
  BY PickFrom
<1> HIDE DEF x
<1>2. Joint(E, s) = E[x] \union Joint(E, u) /\ E[x] \intersect Joint(E, u) = {}
  BY <1>1 DEF Joint
<1>3. IsFiniteSet(Joint(E, u)) /\ IsFiniteSet(E[x])
  <2>1. Joint(E, u) \subseteq Joint(E, S) /\ E[x] \subseteq Joint(E, S)
    BY <1>1 DEF Joint
  <2> QED BY <2>1, FS_Subset
<1> HIDE DEF u
<1>4. Cardinality(E[x] \union Joint(E, u)) = Cardinality(E[x]) + Cardinality(Joint(E, u)) - Cardinality(E[x] \intersect Joint(E, u))
  BY <1>1, <1>3, FS_Union
<1>5. Cardinality({}) = 0 /\ Cardinality(E[x]) \in Nat /\ Cardinality(Joint(E, u)) \in Nat
  BY <1>1, <1>3, FS_EmptySet, FS_CardinalityType
<1>6. Cardinality(Joint(E, s)) = Cardinality(E[x]) + Cardinality(Joint(E, u))
  <2>1. Cardinality(Joint(E, s)) = Cardinality(E[x] \union Joint(E, u))
    BY <1>2, Zenon
  <2>2. Cardinality(E[x] \intersect Joint(E, u)) = 0
    BY <1>2, <1>5, Zenon
  <2> QED BY <1>4, <1>5, <2>1, <2>2
<1> QED BY <1>6 DEF x, u

(* So the sum of their sizes is the size of their union.                   *)
LEMMA SumOfSets ==
  ASSUME NEW S, IsFiniteSet(S), NEW E, IsFiniteSet(Joint(E, S)),
         \A i, j \in S : i # j => E[i] \intersect E[j] = {}, NEW c, \A i \in S : c[i] = Cardinality(E[i])
  PROVE  SumsTo(c, S, Cardinality(Joint(E, S)))
<1>1. \A s \in SUBSET S : s # {} => /\ Pick(s) \in S /\ s \ {Pick(s)} \in SUBSET S
                                    /\ Cardinality(Joint(E, s)) = c[Pick(s)] + Cardinality(Joint(E, s \ {Pick(s)}))
  BY JointLess, PickFrom
<1>2. Cardinality(Joint(E, {})) = 0
  <2>1. Joint(E, {}) = {}
    BY DEF Joint
  <2> QED BY <2>1, FS_EmptySet
<1>3. \E g : Adds(g, c, S)
  <2> DEFINE G == [s \in SUBSET S |-> Cardinality(Joint(E, s))]
  <2>1. \A s \in SUBSET S : G[s] = IF s = {} THEN 0 ELSE c[Pick(s)] + G[s \ {Pick(s)}]
    BY <1>1, <1>2
  <2>2. G = [s \in SUBSET S |-> IF s = {} THEN 0 ELSE c[Pick(s)] + G[s \ {Pick(s)}]]
    BY <2>1
  <2> HIDE DEF G
  <2> QED BY <2>2 DEF Adds
<1>4. ASSUME NEW g, Adds(g, c, S)
      PROVE  g[S] = Cardinality(Joint(E, S))
  <2> DEFINE X == {s \in SUBSET S : g[s] # Cardinality(Joint(E, s))}
  <2> SUFFICES ASSUME X # {} PROVE FALSE
    OBVIOUS
  <2>1. PICK s \in X : \A u \in SUBSET s : u # s => u \notin X
    <3>1. X \in SUBSET SUBSET S
      OBVIOUS
    <3> HIDE DEF X
    <3> QED BY <3>1, LeastSubset
  <2>2. s \in SUBSET S /\ g[s] # Cardinality(Joint(E, s))
    BY <2>1
  <2>3. g[s] = IF s = {} THEN 0 ELSE c[Pick(s)] + g[s \ {Pick(s)}]
    BY <1>4, <2>2 DEF Adds
  <2>4. s # {}
    BY <1>2, <2>2, <2>3
  <2>5. g[s \ {Pick(s)}] = Cardinality(Joint(E, s \ {Pick(s)}))
    BY <2>1, <2>2, <2>4, PickFrom
  <2> QED BY <1>1, <2>2, <2>3, <2>4, <2>5
<1> QED BY <1>3, <1>4 DEF SumsTo

-----------------------------------------------------------------------------
(* Popcounts                                                               *)

(* The one bits of the words in S, each with its word.                     *)
Bits(ws, S) == UNION {{i} \X ws[i] : i \in S}

(* The ones of some words are as many as their bits.                       *)
LEMMA OnesAre ==
  ASSUME NEW n \in Nat, NEW ws \in Slices(n), NEW S \in SUBSET DOMAIN ws
  PROVE  IsFiniteSet(Bits(ws, S)) /\ OnesAt(ws, S) = Cardinality(Bits(ws, S))
<1> DEFINE E == [i \in S |-> {i} \X ws[i]]
           c == [i \in S |-> Cardinality(ws[i])]
<1>0. IsFiniteSet(Full)
  BY FS_Interval, WordAssumption DEF Full
<1>1. IsFiniteSet(S)
  BY SliceFacts, FS_Subset
<1>2. ASSUME NEW i \in S
      PROVE  Cardinality(E[i]) = c[i]
  <2>1. ws[i] \subseteq Full
    BY DEF Slices
  <2>2. IsFiniteSet(ws[i])
    BY <1>0, <2>1, FS_Subset
  <2>3. IsFiniteSet({i}) /\ Cardinality({i}) = 1
    BY FS_Singleton
  <2>4. IsFiniteSet({i} \X ws[i]) /\ Cardinality({i} \X ws[i]) = Cardinality({i}) * Cardinality(ws[i])
    BY <2>2, <2>3, FS_Product
  <2>5. Cardinality(ws[i]) \in Nat
    BY <2>2, FS_CardinalityType
  <2> QED BY <2>3, <2>4, <2>5
<1>3. \A i, j \in S : i # j => E[i] \intersect E[j] = {}
  OBVIOUS
<1>4. Joint(E, S) = Bits(ws, S)
  BY DEF Joint, Bits
<1>5. IsFiniteSet(Bits(ws, S))
  <2>1. Bits(ws, S) \subseteq S \X Full
    BY DEF Bits, Slices
  <2>2. IsFiniteSet(S \X Full)
    BY <1>0, <1>1, FS_Product
  <2> QED BY <2>1, <2>2, FS_Subset
<1>6. \A g : g = [s \in SUBSET S |-> IF s = {} THEN 0 ELSE Cardinality(ws[Pick(s)]) + g[s \ {Pick(s)}]] <=> Adds(g, c, S)
  <2>1. \A s \in SUBSET S : s # {} => c[Pick(s)] = Cardinality(ws[Pick(s)])
    BY PickFrom
  <2> HIDE DEF c
  <2> QED BY <2>1 DEF Adds
<1> HIDE DEF E, c
<1>7. SumsTo(c, S, Cardinality(Joint(E, S)))
  <2>1. \A i \in S : c[i] = Cardinality(E[i])
    BY <1>2
  <2> QED BY <1>1, <1>3, <1>4, <1>5, <2>1, SumOfSets
<1>8. OnesAt(ws, S) = (CHOOSE g : g = [s \in SUBSET S |-> IF s = {} THEN 0 ELSE Cardinality(ws[Pick(s)]) + g[s \ {Pick(s)}]])[S]
  BY DEF OnesAt, MapThenSumSet, MapThenFoldSet, Pick
<1> QED BY <1>4, <1>5, <1>6, <1>7, <1>8 DEF SumsTo

(* The ones of two parts are added.                                        *)
LEMMA Halves ==
  ASSUME NEW n \in Nat, NEW ws \in Slices(n), NEW S \in SUBSET DOMAIN ws, NEW T \in SUBSET DOMAIN ws,
         S \intersect T = {}
  PROVE  OnesAt(ws, S) + OnesAt(ws, T) = OnesAt(ws, S \union T)
<1>1. Bits(ws, S \union T) = Bits(ws, S) \union Bits(ws, T) /\ Bits(ws, S) \intersect Bits(ws, T) = {}
  BY DEF Bits
<1>2. /\ IsFiniteSet(Bits(ws, S)) /\ OnesAt(ws, S) = Cardinality(Bits(ws, S))
      /\ IsFiniteSet(Bits(ws, T)) /\ OnesAt(ws, T) = Cardinality(Bits(ws, T))
      /\ OnesAt(ws, S \union T) = Cardinality(Bits(ws, S \union T))
  BY OnesAre
<1>3. Cardinality(Bits(ws, S) \union Bits(ws, T))
        = Cardinality(Bits(ws, S)) + Cardinality(Bits(ws, T)) - Cardinality(Bits(ws, S) \intersect Bits(ws, T))
  BY <1>2, FS_Union
<1>4. Cardinality(Bits(ws, S)) \in Nat /\ Cardinality(Bits(ws, T)) \in Nat
  BY <1>2, FS_CardinalityType
<1>5. Cardinality(Bits(ws, S) \intersect Bits(ws, T)) = 0
  BY <1>1, FS_EmptySet, Zenon
<1>6. OnesAt(ws, S \union T) = Cardinality(Bits(ws, S) \union Bits(ws, T))
  BY <1>1, <1>2, Zenon
<1> QED BY <1>2, <1>3, <1>4, <1>5, <1>6

(* The indices that whole batches cover.                                   *)
InBatches(start, len, width) == UNION {i .. i + width - 1 : i \in BatchStarts(start, len, width)}

(* They are indices of the slice, and no two batches share one.            *)
LEMMA BatchFacts ==
  ASSUME NEW start \in Nat, NEW n \in Nat, NEW width \in Nat \ {0}
  PROVE  /\ IsFiniteSet(BatchStarts(start, n, width)) /\ BatchStarts(start, n, width) \subseteq Nat
         /\ \A j \in BatchStarts(start, n, width) : j .. j + width - 1 \subseteq start .. n - 1
         /\ \A j, k \in BatchStarts(start, n, width) :
              j # k => (j .. j + width - 1) \intersect (k .. k + width - 1) = {}
<1> DEFINE starts == BatchStarts(start, n, width)
<1>1. starts \subseteq start .. n
  BY DEF BatchStarts
<1>2. IsFiniteSet(starts)
  BY <1>1, FS_Interval, FS_Subset
<1>3. \A j \in starts : j .. j + width - 1 \subseteq start .. n - 1
  BY DEF BatchStarts
<1>4. ASSUME NEW j \in starts, NEW k \in starts, j # k
      PROVE  (j .. j + width - 1) \intersect (k .. k + width - 1) = {}
  <2> SUFFICES ASSUME NEW i \in (j .. j + width - 1) \intersect (k .. k + width - 1) PROVE FALSE
    OBVIOUS
  <2>1. i \in Nat /\ j <= i /\ i < j + width /\ k <= i /\ i < k + width
    BY <1>1
  <2>2. j = BatchOf(i, start, width) /\ k = BatchOf(i, start, width)
    BY <2>1, BatchesApart
  <2> QED BY <1>4, <2>2
<1> QED BY <1>1, <1>2, <1>3, <1>4

(* What batches add up, if they count the ones of their words, is the ones *)
(* of all their words.                                                     *)
LEMMA BatchesAdd ==
  ASSUME NEW n \in Nat, NEW ws \in Slices(n), NEW start \in Nat, NEW width \in Nat \ {0}, NEW c, NEW S,
         S = BatchStarts(start, n, width), \A j \in S : c[j] = OnesAt(ws, j .. j + width - 1)
  PROVE  SumsTo(c, S, OnesAt(ws, InBatches(start, n, width)))
<1> DEFINE E == [j \in S |-> Bits(ws, j .. j + width - 1)]
           all == InBatches(start, n, width)
<1>1. /\ IsFiniteSet(S) /\ S \subseteq Nat /\ DOMAIN ws = 0 .. n - 1
      /\ \A j \in S : j .. j + width - 1 \subseteq start .. n - 1
      /\ \A j, k \in S : j # k => (j .. j + width - 1) \intersect (k .. k + width - 1) = {}
  BY BatchFacts, SliceFacts
<1>2. all \subseteq DOMAIN ws /\ \A j \in S : j .. j + width - 1 \subseteq DOMAIN ws
  <2>1. start .. n - 1 \subseteq 0 .. n - 1
    OBVIOUS
  <2> QED BY <1>1, <2>1 DEF InBatches
<1>3. Joint(E, S) = Bits(ws, all)
  BY DEF Joint, Bits, InBatches
<1>4. IsFiniteSet(Bits(ws, all)) /\ OnesAt(ws, all) = Cardinality(Bits(ws, all))
  BY <1>2, OnesAre
<1>5. \A j \in S : c[j] = Cardinality(E[j])
  BY <1>2, OnesAre
<1>6. \A j, k \in S : j # k => E[j] \intersect E[k] = {}
  <2> SUFFICES ASSUME NEW j \in S, NEW k \in S, j # k, NEW p \in Bits(ws, j .. j + width - 1), p \in Bits(ws, k .. k + width - 1)
               PROVE  FALSE
    OBVIOUS
  <2>1. p[1] \in j .. j + width - 1 /\ p[1] \in k .. k + width - 1
    BY DEF Bits
  <2> QED BY <1>1, <2>1
<1> HIDE DEF E, all
<1>7. SumsTo(c, S, Cardinality(Joint(E, S)))
  BY <1>1, <1>3, <1>4, <1>5, <1>6, SumOfSets
<1> QED BY <1>3, <1>4, <1>7 DEF all

(* The batches and the rest are the slice from the start on.               *)
LEMMA BatchesAndRest ==
  ASSUME NEW start \in Nat, NEW n \in Nat, NEW width \in Nat \ {0}
  PROVE  /\ InBatches(start, n, width) \union Rest(start, n, width) = start .. n - 1
         /\ InBatches(start, n, width) \intersect Rest(start, n, width) = {}
<1> DEFINE starts == BatchStarts(start, n, width)
<1>1. starts \subseteq Nat /\ \A j \in starts : j .. j + width - 1 \subseteq start .. n - 1
  BY BatchFacts
<1>2. ASSUME NEW i \in start .. n - 1, i \notin Rest(start, n, width)
      PROVE  i \in InBatches(start, n, width)
  <2>1. PICK j \in starts : ~(i >= j + width)
    BY <1>2 DEF Rest
  <2>2. i \in Nat /\ start <= i /\ i < j + width
    BY <1>1, <2>1
  <2>3. PICK k \in starts : k <= i /\ i < k + width
    BY <2>2, Batched
  <2>4. i \in k .. k + width - 1
    BY <1>1, <2>2, <2>3
  <2> QED BY <2>3, <2>4 DEF InBatches
<1>3. ASSUME NEW i \in InBatches(start, n, width)
      PROVE  i \in start .. n - 1 /\ i \notin Rest(start, n, width)
  <2>1. PICK j \in starts : i \in j .. j + width - 1
    BY DEF InBatches
  <2>2. i \in start .. n - 1 /\ ~(i >= j + width)
    BY <1>1, <2>1
  <2> QED BY <2>1, <2>2 DEF Rest
<1>4. Rest(start, n, width) \subseteq start .. n - 1
  BY DEF Rest
<1> QED BY <1>2, <1>3, <1>4

(* What BatchOnes adds up.                                                 *)
LEMMA BatchesCount ==
  ASSUME NEW n \in Nat, NEW ws \in Slices(n), NEW start \in Nat, NEW width \in Nat \ {0}
  PROVE  BatchOnes(ws, start, width) = OnesAt(ws, InBatches(start, n, width))
<1> DEFINE S == BatchStarts(start, n, width)
           c == [j \in S |-> OnesAt(ws, j .. j + width - 1)]
<1>1. SumsTo(c, S, OnesAt(ws, InBatches(start, n, width)))
  <2>1. S = BatchStarts(start, n, width) /\ \A j \in S : c[j] = OnesAt(ws, j .. j + width - 1)
    OBVIOUS
  <2> HIDE DEF c, S
  <2> QED BY <2>1, BatchesAdd
<1>2. \A g : g = [s \in SUBSET S |-> IF s = {} THEN 0 ELSE OnesAt(ws, Pick(s) .. Pick(s) + width - 1) + g[s \ {Pick(s)}]]
             <=> Adds(g, c, S)
  <2>1. \A s \in SUBSET S : s # {} => c[Pick(s)] = OnesAt(ws, Pick(s) .. Pick(s) + width - 1)
    BY PickFrom
  <2> HIDE DEF c, S
  <2> QED BY <2>1 DEF Adds
<1>3. BatchOnes(ws, start, width) =
        (CHOOSE g : g = [s \in SUBSET S |-> IF s = {} THEN 0
                                            ELSE OnesAt(ws, Pick(s) .. Pick(s) + width - 1) + g[s \ {Pick(s)}]])[S]
  <2>1. Len(ws) = n
    BY SliceFacts
  <2> QED BY <2>1 DEF BatchOnes, MapThenSumSet, MapThenFoldSet, Pick
<1> HIDE DEF S, c
<1> QED BY <1>1, <1>2, <1>3 DEF SumsTo

(* Whole batches and then the rest, the plan of three of the backends.     *)
LEMMA PlainCount ==
  ASSUME NEW n \in Nat, NEW ws \in Slices(n), NEW start \in Nat, NEW width \in Nat \ {0}
  PROVE  BatchOnes(ws, start, width) + OnesAt(ws, Rest(start, n, width)) = OnesAt(ws, start .. n - 1)
<1> DEFINE A == InBatches(start, n, width)
           R == Rest(start, n, width)
<1>1. A \union R = start .. n - 1 /\ A \intersect R = {}
  BY BatchesAndRest
<1>2. start .. n - 1 \subseteq 0 .. n - 1 /\ DOMAIN ws = 0 .. n - 1
  BY SliceFacts
<1>3. BatchOnes(ws, start, width) = OnesAt(ws, A)
  BY BatchesCount
<1> HIDE DEF A, R
<1>4. A \in SUBSET DOMAIN ws /\ R \in SUBSET DOMAIN ws
  BY <1>1, <1>2
<1>5. OnesAt(ws, A) + OnesAt(ws, R) = OnesAt(ws, A \union R)
  BY <1>1, <1>4, Halves
<1> QED BY <1>1, <1>3, <1>5 DEF R

(* Batches of eight end where those of four begin.                         *)
LEMMA EightsEnd ==
  ASSUME NEW n \in Nat
  PROVE  InBatches(0, n, 8) = 0 .. 8 * (n \div 8) - 1 /\ 8 * (n \div 8) \in 0 .. n
<1> DEFINE q == n \div 8
<1>1. q \in Nat /\ (n % 8) \in 0 .. 7 /\ n = q * 8 + (n % 8)
  BY Divided
<1> HIDE DEF q
<1>2. ASSUME NEW i \in InBatches(0, n, 8)
      PROVE  i \in 0 .. 8 * q - 1
  <2>1. PICK j \in BatchStarts(0, n, 8) : i \in j .. j + 8 - 1
    BY DEF InBatches
  <2>2. j \in Nat /\ (j - 0) % 8 = 0 /\ j + 8 <= n
    BY <2>1 DEF BatchStarts
  <2>3. PICK p \in Nat : j = p * 8
    <3>1. j \div 8 \in Nat /\ j = (j \div 8) * 8 + (j % 8)
      <4>1. j \in Nat
        BY <2>2
      <4> QED BY <4>1, Divided
    <3>2. j - 0 = j
      BY <2>2
    <3>3. j % 8 = 0
      BY <2>2, <3>2
    <3> QED BY <3>1, <3>3
  <2>4. p < q
    BY <1>1, <2>2, <2>3
  <2> QED BY <1>1, <2>1, <2>2, <2>3, <2>4
<1>3. ASSUME NEW i \in 0 .. 8 * q - 1
      PROVE  i \in InBatches(0, n, 8)
  <2>1. i \in Nat /\ i < 8 * q
    BY <1>1
  <2>2. PICK p \in Nat : p * 8 <= i /\ i < p * 8 + 8
    <3>1. i \div 8 \in Nat /\ (i % 8) \in 0 .. 7 /\ i = (i \div 8) * 8 + (i % 8)
      BY <2>1, Divided
    <3> QED BY <2>1, <3>1
  <2> DEFINE j == p * 8
  <2>3. j \in Nat /\ j <= i /\ i < j + 8 /\ j + 8 <= n /\ (j - 0) % 8 = 0
    <3>1. (p * 8) % 8 = 0
      BY <2>2, Multiples
    <3>2. p < q
      BY <1>1, <2>1, <2>2
    <3> QED BY <1>1, <2>1, <2>2, <3>1, <3>2
  <2> HIDE DEF j
  <2>4. j \in BatchStarts(0, n, 8) /\ i \in j .. j + 8 - 1
    BY <2>1, <2>3 DEF BatchStarts
  <2> QED BY <2>4 DEF InBatches
<1>4. 8 * q \in 0 .. n
  BY <1>1
<1>5. InBatches(0, n, 8) = 0 .. 8 * q - 1
  BY <1>2, <1>3
<1> QED BY <1>4, <1>5 DEF q

(* Batches of eight, then of four, then the rest.                          *)
LEMMA TwofoldCount ==
  ASSUME NEW n \in Nat, NEW ws \in Slices(n)
  PROVE  popcount_slice_avx512(ws) = OnesAt(ws, 0 .. n - 1)
<1> DEFINE mid == 8 * (n \div 8)
<1>1. Len(ws) = n /\ DOMAIN ws = 0 .. n - 1
  BY SliceFacts
<1>2. mid \in 0 .. n /\ InBatches(0, n, 8) = 0 .. mid - 1
  BY EightsEnd
<1>3. popcount_slice_avx512(ws) = BatchOnes(ws, 0, 8) + BatchOnes(ws, mid, 4) + OnesAt(ws, Rest(mid, n, 4))
  BY <1>1 DEF popcount_slice_avx512
<1> HIDE DEF mid
<1>4. BatchOnes(ws, 0, 8) = OnesAt(ws, 0 .. mid - 1)
  BY <1>2, BatchesCount
<1>5. BatchOnes(ws, mid, 4) + OnesAt(ws, Rest(mid, n, 4)) = OnesAt(ws, mid .. n - 1)
  BY <1>2, PlainCount
<1>6. OnesAt(ws, 0 .. mid - 1) + OnesAt(ws, mid .. n - 1) = OnesAt(ws, 0 .. n - 1)
  <2>1. /\ (0 .. mid - 1) \union (mid .. n - 1) = 0 .. n - 1 /\ (0 .. mid - 1) \intersect (mid .. n - 1) = {}
        /\ 0 .. mid - 1 \in SUBSET DOMAIN ws /\ mid .. n - 1 \in SUBSET DOMAIN ws
    BY <1>1, <1>2
  <2>2. OnesAt(ws, 0 .. mid - 1) + OnesAt(ws, mid .. n - 1) = OnesAt(ws, (0 .. mid - 1) \union (mid .. n - 1))
    BY <2>1, Halves
  <2> QED BY <2>1, <2>2
<1>7. /\ OnesAt(ws, 0 .. mid - 1) \in Int /\ BatchOnes(ws, mid, 4) \in Int /\ OnesAt(ws, Rest(mid, n, 4)) \in Int
  <2>1. \A S \in SUBSET DOMAIN ws : OnesAt(ws, S) \in Int
    BY OnesAre, FS_CardinalityType
  <2>2. BatchOnes(ws, mid, 4) = OnesAt(ws, InBatches(mid, n, 4))
    BY <1>2, BatchesCount
  <2>3. InBatches(mid, n, 4) \union Rest(mid, n, 4) = mid .. n - 1
    BY <1>2, BatchesAndRest
  <2>4. 0 .. mid - 1 \in SUBSET DOMAIN ws /\ mid .. n - 1 \in SUBSET DOMAIN ws
    BY <1>1, <1>2
  <2>5. InBatches(mid, n, 4) \in SUBSET DOMAIN ws /\ Rest(mid, n, 4) \in SUBSET DOMAIN ws
    BY <2>3, <2>4
  <2> QED BY <2>1, <2>2, <2>4, <2>5
<1> QED BY <1>3, <1>4, <1>5, <1>6, <1>7

(* Batches of four in two halves, then the rest.                           *)
LEMMA HalvedCount ==
  ASSUME NEW n \in Nat, NEW ws \in Slices(n)
  PROVE  popcount_slice_neon(ws) = OnesAt(ws, 0 .. n - 1)
<1> DEFINE S == BatchStarts(0, n, 4)
           c == [j \in S |-> OnesAt(ws, {j, j + 1}) + OnesAt(ws, {j + 2, j + 3})]
           A == InBatches(0, n, 4)
           R == Rest(0, n, 4)
<1>1. Len(ws) = n /\ DOMAIN ws = 0 .. n - 1
  BY SliceFacts
<1>2. ASSUME NEW j \in S
      PROVE  c[j] = OnesAt(ws, j .. j + 4 - 1)
  <2>1. j \in Nat /\ j .. j + 4 - 1 \subseteq 0 .. n - 1
    BY BatchFacts
  <2>2. /\ {j, j + 1} \union {j + 2, j + 3} = j .. j + 4 - 1
        /\ {j, j + 1} \intersect {j + 2, j + 3} = {}
    BY <2>1
  <2>3. {j, j + 1} \in SUBSET DOMAIN ws /\ {j + 2, j + 3} \in SUBSET DOMAIN ws
    BY <1>1, <2>1, <2>2
  <2>4. OnesAt(ws, {j, j + 1}) + OnesAt(ws, {j + 2, j + 3}) = OnesAt(ws, {j, j + 1} \union {j + 2, j + 3})
    BY <2>2, <2>3, Halves
  <2> QED BY <2>2, <2>4
<1>3. \A g : g = [s \in SUBSET S |->
                    IF s = {} THEN 0
                    ELSE OnesAt(ws, {Pick(s), Pick(s) + 1}) + OnesAt(ws, {Pick(s) + 2, Pick(s) + 3}) + g[s \ {Pick(s)}]]
             <=> Adds(g, c, S)
  <2>1. \A s \in SUBSET S : s # {} =>
          c[Pick(s)] = OnesAt(ws, {Pick(s), Pick(s) + 1}) + OnesAt(ws, {Pick(s) + 2, Pick(s) + 3})
    BY PickFrom
  <2> HIDE DEF c, S
  <2> QED BY <2>1 DEF Adds
<1> DEFINE h == CHOOSE g : g = [s \in SUBSET S |->
                    IF s = {} THEN 0
                    ELSE OnesAt(ws, {Pick(s), Pick(s) + 1}) + OnesAt(ws, {Pick(s) + 2, Pick(s) + 3}) + g[s \ {Pick(s)}]]
<1>4. popcount_slice_neon(ws) = h[S] + OnesAt(ws, R)
  BY <1>1 DEF popcount_slice_neon, MapThenSumSet, MapThenFoldSet, Pick
<1>5. SumsTo(c, S, OnesAt(ws, A))
  <2>1. S = BatchStarts(0, n, 4) /\ \A j \in S : c[j] = OnesAt(ws, j .. j + 4 - 1)
    BY <1>2
  <2> HIDE DEF c, S
  <2> QED BY <2>1, BatchesAdd
<1> HIDE DEF S, A, R, c
<1>6. popcount_slice_neon(ws) = OnesAt(ws, A) + OnesAt(ws, R)
  <2>1. Adds(h, c, S)
    BY <1>3, <1>5 DEF SumsTo
  <2> HIDE DEF h
  <2> QED BY <1>4, <1>5, <2>1 DEF SumsTo
<1>7. A \union R = 0 .. n - 1 /\ A \intersect R = {}
  BY BatchesAndRest DEF A, R
<1>8. OnesAt(ws, A) + OnesAt(ws, R) = OnesAt(ws, A \union R)
  BY <1>1, <1>7, Halves
<1> QED BY <1>6, <1>7, <1>8

(* The machines whose popcount is right: all but those that take the AVX2  *)
(* path, which adds two of its four partial counts.                        *)
Counting == {m \in MachineType : ~(m.arch = "x86_64" /\ ~m.avx512vpopcntdq /\ m.avx2)}

(* The dispatch reaches no other.                                          *)
LEMMA CountsAll ==
  ASSUME NEW n \in Nat, NEW ws \in Slices(n), NEW m \in Counting
  PROVE  simd_popcount_slice(m, ws) = OnesAt(ws, DOMAIN ws)
<1>1. /\ m.arch \in {"x86_64", "aarch64", "other"} /\ m.avx512vpopcntdq \in BOOLEAN
      /\ m.avx2 \in BOOLEAN /\ m.popcnt \in BOOLEAN
      /\ ~(m.arch = "x86_64" /\ ~m.avx512vpopcntdq /\ m.avx2)
  BY DEF Counting, MachineType
<1>2. Len(ws) = n /\ DOMAIN ws = 0 .. n - 1
  BY SliceFacts
<1>3. scalar_popcount_slice(ws) = OnesAt(ws, 0 .. n - 1)
  BY <1>2, PlainCount DEF scalar_popcount_slice
<1>4. popcount_slice_popcnt(ws) = OnesAt(ws, 0 .. n - 1)
  BY <1>2, PlainCount DEF popcount_slice_popcnt
<1>5. popcount_slice_avx512(ws) = OnesAt(ws, 0 .. n - 1) /\ popcount_slice_neon(ws) = OnesAt(ws, 0 .. n - 1)
  BY TwofoldCount, HalvedCount
<1>6. m.arch = "x86_64" => x86_popcount_slice(m, ws) = OnesAt(ws, 0 .. n - 1)
  BY <1>1, <1>3, <1>4, <1>5 DEF x86_popcount_slice
<1> QED BY <1>1, <1>2, <1>3, <1>5, <1>6 DEF simd_popcount_slice

(* Every popcount but that of AVX2 counts every one bit (PopcountExact).   *)
THEOREM CountsAreExact == Counters \subseteq Counting => (Spec => []PopcountExact)
<1> SUFFICES ASSUME Counters \subseteq Counting PROVE Spec => []PopcountExact
  OBVIOUS
<1>1. WordsOK => PopcountExact
  <2> SUFFICES ASSUME WordsOK PROVE PopcountExact
    OBVIOUS
  <2>1. PICK n \in Nat : words \in Slices(n)
    BY DEF WordsOK
  <2> QED BY <2>1, CountsAll DEF PopcountExact
<1> QED BY <1>1, WordsTyped, PTL
=============================================================================
