-------------------------- MODULE TrackerIterProofs --------------------------
(***************************************************************************)
(* Proofs about TrackerIter, for any iterators, however built.             *)
(***************************************************************************)
EXTENDS TrackerIter, FiniteSetTheorems, WellFoundedInduction, TLAPS

-----------------------------------------------------------------------------
(* Numbers                                                                 *)

(* A set of numbers has a least one.                                       *)
LEMMA LeastOf ==
  ASSUME NEW S \in SUBSET Nat, S # {}
  PROVE  Least(S) \in S /\ \A i \in S : Least(S) <= i
<1>1. PICK x \in S : \A y \in S : <<y, x>> \notin OpToRel(<, Nat)
  BY NatLessThanWellFounded, WFMin
<1>2. ASSUME NEW y \in S
      PROVE  x <= y
  <2>1. y < x => <<y, x>> \in {ss \in Nat \X Nat : ss[1] < ss[2]}
    OBVIOUS
  <2>2. ~(y < x)
    BY <1>1, <2>1 DEF OpToRel
  <2> QED BY <2>2
<1> QED BY <1>2 DEF Least

(* A quotient and a remainder are what they should be, and no others are.  *)
LEMMA Divided ==
  ASSUME NEW m \in Nat, NEW n \in Nat \ {0}
  PROVE  m \div n \in Nat /\ (m % n) \in 0 .. n - 1 /\ m = (m \div n) * n + (m % n)
OBVIOUS

(* Two numbers with the same quotient and remainder are the same number.   *)
LEMMA OneQuotient ==
  ASSUME NEW n \in Nat \ {0}, NEW q \in Nat, NEW r \in 0 .. n - 1, NEW x \in Nat, NEW y \in 0 .. n - 1,
         q * n + r = x * n + y
  PROVE  q = x /\ r = y
<1>0. q * n \in Nat /\ x * n \in Nat
  OBVIOUS
<1>1. ASSUME NEW a \in Nat, NEW b \in Nat, a < b
      PROVE  a * n + n <= b * n
  <2>1. PICK d \in Nat : b = a + 1 + d
    <3>1. b - a - 1 \in Nat /\ b = a + 1 + (b - a - 1)
      BY <1>1
    <3> QED BY <3>1
  <2>2. b * n = a * n + n + d * n /\ d * n \in Nat /\ a * n \in Nat
    BY <2>1
  <2> QED BY <2>2
<1>2. ~(q < x)
  BY <1>0, <1>1
<1>3. ~(x < q)
  BY <1>0, <1>1
<1>4. q = x
  BY <1>2, <1>3
<1> QED BY <1>0, <1>4

(* Multiples keep the order.                                               *)
LEMMA Multiples ==
  ASSUME NEW n \in Nat, NEW a \in Nat, NEW b \in Nat, a <= b
  PROVE  a * n \in Nat /\ b * n \in Nat /\ a * n <= b * n
<1>1. PICK d \in Nat : b = a + d
  <2>1. b - a \in Nat /\ b = a + (b - a)
    OBVIOUS
  <2> QED BY <2>1
<1>2. b * n = a * n + d * n /\ d * n \in Nat /\ a * n \in Nat
  BY <1>1
<1> QED BY <1>2

(* Rounded up, a quotient is the least number of parts that are enough.    *)
LEMMA RoundedUp ==
  ASSUME NEW m \in Nat, NEW n \in Nat \ {0}
  PROVE  /\ CeilDiv(m, n) \in Nat /\ m <= CeilDiv(m, n) * n
         /\ CeilDiv(m, n) * n < m + n /\ CeilDiv(m, n) <= m
         /\ m > 0 => CeilDiv(m, n) > 0
<1> DEFINE c == CeilDiv(m, n)
           r == (m + n - 1) % n
<1>1. c \in Nat /\ r \in 0 .. n - 1 /\ m + n - 1 = c * n + r
  <2>1. m + n - 1 \in Nat
    OBVIOUS
  <2> QED BY <2>1, Divided DEF CeilDiv
<1> HIDE DEF c, r
<1>2. c * n \in Nat
  BY <1>1
<1>3. m <= c * n /\ c * n < m + n
  BY <1>1, <1>2
<1>4. m > 0 => c > 0
  BY <1>1, <1>3
<1>5. c <= m
  <2> SUFFICES ASSUME c > m PROVE FALSE
    BY <1>1
  <2>1. m + 1 \in Nat /\ m + 1 <= c
    BY <1>1
  <2>2. (m + 1) * n <= c * n /\ (m + 1) * n = m * n + n /\ m * n \in Nat
    BY <1>1, <2>1, Multiples
  <2>3. m * n < m
    BY <1>2, <1>3, <2>2
  <2>4. m * 1 <= m * n
    <3>1. 1 <= n
      OBVIOUS
    <3> QED BY <3>1, Multiples
  <2> QED BY <2>2, <2>3, <2>4
<1> QED BY <1>1, <1>3, <1>4, <1>5 DEF c

-----------------------------------------------------------------------------
(* What iterators are built with                                           *)

(* The fields of a builder.                                                *)
LEMMA BuildFields ==
  ASSUME NEW b \in Build
  PROVE  /\ b.mode \in {"sequential", "random", "partition", "delete", "write"}
         /\ b.filter \in {"Set", "Unset", "All"} /\ b.lo \in Nat /\ b.hi \in Nat /\ b.subLo \in Nat /\ b.subHi \in Nat
         /\ b.limit \in Nat \union {None} /\ b.timed \in BOOLEAN /\ b.wrap \in BOOLEAN /\ b.reset \in BOOLEAN
         /\ b.wants \subseteq BOOLEAN /\ b.passes \subseteq BOOLEAN
         /\ b.part \in Nat /\ b.parts \in Nat \ {0} /\ b.overlap \in BOOLEAN
         /\ b.dist \in {"Uniform", "Zipf1", "Hotspot", "Latest", "Tailed"}
BY DEF Build

(* The ends of a range, and its size.                                      *)
LEMMA RangeFacts ==
  ASSUME NEW b \in Build
  PROVE  /\ Last(b) \in Nat /\ Last(b) <= b.hi /\ Last(b) <= MaxId
         /\ Size(b) \in Nat /\ (b.lo <= Last(b) => b.lo + Size(b) = Last(b)) /\ (Last(b) < b.lo => Size(b) = 0)
         /\ \A i \in Nat : i < b.hi /\ i < MaxId => i < Last(b)
<1>1. b.lo \in Nat /\ b.hi \in Nat /\ MaxId \in Nat
  BY BuildFields, IterAssumption
<1> QED BY <1>1 DEF Last, Size, Smaller, Larger

(* Where an iterator begins, and where it ends.                            *)
First(b) == IF b.mode = "partition" THEN PartRange(b)[1] ELSE b.lo
End(b)   == IF b.mode = "partition" THEN PartRange(b)[2] ELSE Last(b)

(* They lie within its range.                                              *)
LEMMA EndsFacts ==
  ASSUME NEW b \in Build
  PROVE  First(b) \in Nat /\ b.lo <= First(b) /\ End(b) \in Nat /\ End(b) <= Last(b)
<1> DEFINE chunk == CeilDiv(Size(b), b.parts)
           from == b.lo + b.part * chunk
<1>1. b.lo \in Nat /\ b.part \in Nat /\ b.parts \in Nat \ {0}
  BY BuildFields
<1>2. Last(b) \in Nat /\ Size(b) \in Nat
  BY RangeFacts
<1>3. chunk \in Nat
  BY <1>1, <1>2, RoundedUp
<1>4. from \in Nat /\ b.lo <= from
  <2> HIDE DEF chunk
  <2>1. b.part * chunk \in Nat
    BY <1>1, <1>3
  <2> QED BY <1>1, <2>1
<1>5. PartRange(b) = IF b.overlap THEN <<b.lo, Last(b)>> ELSE <<from, Smaller(from + chunk, Last(b))>>
  BY DEF PartRange
<1> HIDE DEF chunk, from
<1>6. Smaller(from + chunk, Last(b)) \in Nat /\ Smaller(from + chunk, Last(b)) <= Last(b)
  BY <1>2, <1>3, <1>4 DEF Smaller
<1> QED BY <1>1, <1>2, <1>4, <1>5, <1>6 DEF First, End

(* Builders that differ in nothing but the part.                           *)
LEMMA PartsAlike ==
  ASSUME NEW b \in Build, NEW c \in Build, [b EXCEPT !.part = c.part] = c
  PROVE  /\ c.mode = b.mode /\ c.filter = b.filter /\ c.lo = b.lo /\ c.hi = b.hi
         /\ c.subLo = b.subLo /\ c.subHi = b.subHi /\ c.limit = b.limit /\ c.timed = b.timed
         /\ c.wrap = b.wrap /\ c.wants = b.wants /\ c.passes = b.passes
         /\ c.parts = b.parts /\ c.overlap = b.overlap /\ [c EXCEPT !.part = b.part] = b
<1> DEFINE x == c.part
<1>1. [b EXCEPT !.part = x] = c
  OBVIOUS
<1> HIDE DEF x
<1>2. /\ c.mode = b.mode /\ c.filter = b.filter /\ c.lo = b.lo /\ c.hi = b.hi
      /\ c.subLo = b.subLo /\ c.subHi = b.subHi /\ c.limit = b.limit /\ c.timed = b.timed
      /\ c.wrap = b.wrap /\ c.wants = b.wants /\ c.passes = b.passes
      /\ c.parts = b.parts /\ c.overlap = b.overlap
  BY <1>1 DEF Build
<1>3. c.reset = b.reset /\ c.dist = b.dist
  BY <1>1 DEF Build
<1>4. [c EXCEPT !.part = b.part] = b
  BY <1>2, <1>3 DEF Build
<1> QED BY <1>2, <1>4

(* Of two parts of one range one ends before the other begins.             *)
LEMMA PartsApart ==
  ASSUME NEW b \in Build, NEW c \in Build, Splits(b), [b EXCEPT !.part = c.part] = c, b.part < c.part
  PROVE  End(b) <= First(c)
<1> DEFINE chunk == CeilDiv(Size(b), b.parts)
<1>0. /\ c.mode = b.mode /\ c.lo = b.lo /\ c.hi = b.hi /\ c.parts = b.parts /\ c.overlap = b.overlap
  BY PartsAlike
<1>1. b.lo \in Nat /\ b.part \in Nat /\ c.part \in Nat /\ b.parts \in Nat \ {0}
  BY BuildFields
<1>2. Last(b) \in Nat /\ Size(b) \in Nat /\ Last(c) = Last(b) /\ Size(c) = Size(b)
  BY <1>0, RangeFacts DEF Last, Size
<1>3. chunk \in Nat
  BY <1>1, <1>2, RoundedUp
<1>4. /\ First(c) = b.lo + c.part * chunk
      /\ End(b) = Smaller((b.lo + b.part * chunk) + chunk, Last(b))
  BY <1>0, <1>2 DEF First, End, PartRange, Splits
<1> HIDE DEF chunk
<1>5. (b.part + 1) * chunk <= c.part * chunk /\ (b.part + 1) * chunk = b.part * chunk + chunk /\ b.part * chunk \in Nat
      /\ c.part * chunk \in Nat
  <2>1. b.part + 1 \in Nat /\ b.part + 1 <= c.part
    BY <1>1
  <2> QED BY <1>1, <1>3, <2>1, Multiples
<1>6. End(b) <= (b.lo + b.part * chunk) + chunk
  BY <1>1, <1>2, <1>3, <1>4, <1>5 DEF Smaller
<1>7. End(b) \in Nat
  BY EndsFacts
<1> QED BY <1>1, <1>3, <1>4, <1>5, <1>6, <1>7

(* Every id of a range is in one of its parts.                             *)
LEMMA PartsCover ==
  ASSUME NEW b \in Build, Splits(b), NEW i \in Nat, b.lo <= i, i < Last(b)
  PROVE  \E k \in 0 .. b.parts - 1 :
           \A c \in Build : c.part = k /\ [c EXCEPT !.part = b.part] = b => First(c) <= i /\ i < End(c)
<1> DEFINE chunk == CeilDiv(Size(b), b.parts)
           k == (i - b.lo) \div chunk
           r == (i - b.lo) % chunk
<1>1. b.lo \in Nat /\ b.part \in Nat /\ b.parts \in Nat \ {0}
  BY BuildFields
<1>2. Last(b) \in Nat /\ Size(b) \in Nat /\ b.lo + Size(b) = Last(b) /\ Size(b) > 0
  BY <1>1, RangeFacts
<1>3. chunk \in Nat \ {0} /\ Size(b) <= chunk * b.parts
  <2>1. chunk \in Nat /\ Size(b) <= chunk * b.parts /\ (Size(b) > 0 => chunk > 0)
    BY <1>1, <1>2, RoundedUp
  <2> HIDE DEF chunk
  <2> QED BY <1>2, <2>1
<1>4. i - b.lo \in Nat /\ i - b.lo < Size(b)
  BY <1>1, <1>2
<1>5. k \in Nat /\ r \in 0 .. chunk - 1 /\ i - b.lo = k * chunk + r
  <2> HIDE DEF chunk
  <2> QED BY <1>3, <1>4, Divided
<1> HIDE DEF chunk, k, r
<1>6. k * chunk \in Nat
  BY <1>3, <1>5
<1>7. k < b.parts
  <2> SUFFICES ASSUME b.parts <= k PROVE FALSE
    BY <1>1, <1>5
  <2>1. b.parts * chunk <= k * chunk /\ b.parts * chunk = chunk * b.parts /\ b.parts * chunk \in Nat
    BY <1>1, <1>3, <1>5, Multiples
  <2> QED BY <1>3, <1>4, <1>5, <1>6, <2>1, <1>2
<1>8. ASSUME NEW c \in Build, c.part = k, [c EXCEPT !.part = b.part] = b
      PROVE  First(c) <= i /\ i < End(c)
  <2>1. c.mode = b.mode /\ c.lo = b.lo /\ c.hi = b.hi /\ c.parts = b.parts /\ c.overlap = b.overlap
    BY <1>8, PartsAlike
  <2>2. Last(c) = Last(b) /\ Size(c) = Size(b)
    BY <2>1 DEF Last, Size
  <2>3. First(c) = b.lo + k * chunk /\ End(c) = Smaller((b.lo + k * chunk) + chunk, Last(b))
    BY <1>8, <2>1, <2>2 DEF First, End, PartRange, Splits, chunk
  <2>4. i = b.lo + k * chunk + r /\ i < (b.lo + k * chunk) + chunk
    BY <1>1, <1>3, <1>5, <1>6
  <2> QED BY <1>1, <1>2, <1>3, <1>5, <1>6, <2>3, <2>4 DEF Smaller
<1> QED BY <1>1, <1>5, <1>7, <1>8

-----------------------------------------------------------------------------
(* Types                                                                   *)

(* The iterators that go through ids in order.                             *)
Readers == {w \in Iter : Of(w).mode \in {"sequential", "partition"}}
BuiltOnes == {w \in Iter : pc[w] \notin {"unbuilt", "refused"}}

(* Where each kind of iterator can be.                                     *)
Shape(w) ==
  /\ pc[w] \in {"unbuilt", "refused"} => it[w] = Unbuilt /\ given[w] = <<>>
  /\ pc[w] = "sub" => hier /\ w \in Readers /\ it[w].id < it[w].last
  /\ pc[w] \in {"random", "pick"} => Of(w).mode = "random"
  /\ pc[w] \in {"refused", "gone"} => Of(w).mode = "delete"
  /\ pc[w] = "claim" => hier /\ Of(w).mode = "write" /\ Of(w).filter # "Set" /\ Contains(Of(w), it[w].id, it[w].sub)
                       /\ it[w].id < it[w].last
  /\ pc[w] = "panicked" => Of(w).mode = "write"
  /\ w \in BuiltOnes => it[w].last = End(Of(w))

(* Typing, with what the fields of an iterator mean by its label.          *)
TypeInv == setup \in Setups /\ TypeOK /\ \A w \in Iter : Shape(w)

(* The labels an iterator may have.                                        *)
Labels == Running \union {"unbuilt", "idle", "refused", "gone", "panicked"}

(* What is known of a setup.                                               *)
LEMMA SetupFacts ==
  ASSUME setup \in Setups
  PROVE  /\ hier \in BOOLEAN
         /\ \A w \in Iter : Of(w) \in Build /\ Of(w).part < Of(w).parts
         /\ setup.start \subseteq Nat \X Nat
         /\ ~hier => setup.start \subseteq Nat \X {0}
BY IterAssumption DEF hier, Of

(* The fields of an iterator.                                              *)
LEMMA IterFields ==
  ASSUME TypeOK, NEW w \in Iter
  PROVE  /\ it[w] \in IterType /\ it[w].id \in Nat /\ it[w].sub \in Nat /\ it[w].last \in Nat
         /\ it[w].step \in Nat /\ it[w].offset \in Nat /\ it[w].yielded \in Nat
         /\ it[w].calls \in 0 .. MaxCalls /\ it[w].ret \in {"fresh", "some", "none"} /\ it[w].wasLate \in BOOLEAN
         /\ pc[w] \in Labels /\ given[w] \in Seq(Nat \X Nat) /\ late[w] \in BOOLEAN
BY DEF TypeOK, IterType, Labels

(* What an index of a random iterator is.                                  *)
LEMMA IndexType ==
  ASSUME NEW b \in Build, NEW step \in Nat, NEW offset \in Nat, Size(b) > 0 \/ b.dist # "Uniform",
         NEW index \in Indices(b, step, offset)
  PROVE  index \in Nat
<1> DEFINE n == Size(b)
<1>1. n \in Nat
  BY RangeFacts
<1>2. CASE b.dist # "Uniform"
  <2> HIDE DEF n
  <2>1. b.dist \in {"Zipf1", "Hotspot", "Latest", "Tailed"}
    BY <1>2, BuildFields
  <2>2. Larger(n \div 2, 1) \in Nat /\ n \div 2 <= n
    BY <1>1 DEF Larger
  <2>3. index \in Sample(b.dist, n)
    BY <1>2 DEF Indices, n
  <2>4. Larger(n \div 2, 1) <= n \/ n = 0
    BY <1>1 DEF Larger
  <2> DEFINE half == Larger(n \div 2, 1)
  <2>5. half \in Nat /\ (half <= n \/ n = 0)
    BY <2>2, <2>4
  <2>6. Sample(b.dist, n) =
          CASE n = 0 -> {0}
            [] n > 0 /\ b.dist = "Zipf1" -> {0}
            [] n > 0 /\ b.dist = "Hotspot" -> 0 .. half - 1 \union (IF half < n THEN half .. n - 1 ELSE 0 .. n - 1)
            [] n > 0 /\ b.dist = "Latest" -> n - half .. n - 1 \union (IF n > half THEN 0 .. n - half - 1 ELSE 0 .. n - 1)
            [] n > 0 /\ b.dist \in {"Uniform", "Tailed"} -> 0 .. n - 1
    BY DEF Sample
  <2> HIDE DEF half
  <2>7. CASE n = 0
    BY <2>3, <2>6, <2>7
  <2>8. CASE n > 0
    <3>1. CASE b.dist = "Zipf1"
      BY <2>3, <2>6, <2>8, <3>1
    <3>2. CASE b.dist = "Hotspot"
      BY <1>1, <2>3, <2>5, <2>6, <2>8, <3>2
    <3>3. CASE b.dist = "Latest"
      BY <1>1, <2>3, <2>5, <2>6, <2>8, <3>3
    <3>4. CASE b.dist = "Tailed"
      BY <1>1, <2>3, <2>6, <2>8, <3>4
    <3> QED BY <2>1, <3>1, <3>2, <3>3, <3>4
  <2> QED BY <1>1, <2>7, <2>8
<1>3. CASE b.dist = "Uniform"
  <2>1. n > 0 /\ index = ((step * find_coprime(n) + offset) % U) % n
    BY <1>3 DEF Indices, Permuted
  <2> HIDE DEF n
  <2>2. find_coprime(n) \in Nat
    <3> DEFINE good == {k \in DOMAIN Candidates : is_power_of_two(n) \/ binary_gcd(Candidates[k], n) = 1}
               odd == {c \in 3 .. n - 1 : c % 2 = 1 /\ binary_gcd(c, n) = 1}
    <3>1. find_coprime(n) = CASE n <= 1 -> 1
            [] n > 1 /\ good # {} -> Candidates[Least(good)]
            [] n > 1 /\ good = {} /\ odd # {} -> Least(odd)
            [] n > 1 /\ good = {} /\ odd = {} -> 1
      BY DEF find_coprime
    <3>2. good \subseteq DOMAIN Candidates /\ good \subseteq Nat /\ odd \subseteq Nat /\ Candidates \in Seq(Nat \ {0})
      BY IterAssumption
    <3> HIDE DEF good, odd
    <3>3. good # {} => Least(good) \in DOMAIN Candidates
      BY <3>2, LeastOf
    <3>4. odd # {} => Least(odd) \in Nat
      BY <3>2, LeastOf
    <3>5. good # {} => Candidates[Least(good)] \in Nat
      BY <3>2, <3>3
    <3> QED BY <1>1, <3>1, <3>4, <3>5
  <2>3. step * find_coprime(n) + offset \in Nat
    BY <2>2
  <2>4. ((step * find_coprime(n) + offset) % U) \in Nat
    <3> DEFINE x == step * find_coprime(n) + offset
    <3>1. x \in Nat /\ U \in Nat \ {0}
      BY <2>3, IterAssumption
    <3> HIDE DEF x
    <3>2. (x % U) \in Nat
      BY <3>1, Divided
    <3> QED BY <3>2 DEF x
  <2>5. n \in Nat \ {0}
    BY <1>1, <2>1
  <2> DEFINE y == (step * find_coprime(n) + offset) % U
  <2>6. y \in Nat /\ index = y % n
    BY <2>1, <2>4
  <2> HIDE DEF y
  <2> QED BY <2>5, <2>6, Divided
<1> QED BY <1>2, <1>3

-----------------------------------------------------------------------------
(* What a step does to one iterator                                        *)

Same(w) == pc'[w] = pc[w] /\ it'[w] = it[w] /\ given'[w] = given[w]
Went(w, label, new) == pc'[w] = label /\ it'[w] = new /\ given'[w] = given[w]
Gave(w, item, new) == /\ pc'[w] = "idle" /\ given'[w] = Append(given[w], item)
                      /\ it'[w] = [new EXCEPT !.ret = "some", !.yielded = @ + 1]

(* Only w has moved.                                                       *)
OnlyAt(w) ==
  /\ pc' = [v \in Iter |-> pc'[v]] /\ it' = [v \in Iter |-> it'[v]] /\ given' = [v \in Iter |-> given'[v]]
  /\ \A v \in Iter \ {w} : Same(v)

BuiltNow(w) ==
  /\ pc[w] = "unbuilt" /\ \E offset \in Nat : Went(w, "idle", Built(Of(w), First(Of(w)), End(Of(w)), offset))

Refused(w) == pc[w] = "unbuilt" /\ Of(w).mode = "delete" /\ Went(w, "refused", it[w])
Dropped(w) == pc[w] = "idle" /\ Of(w).mode = "delete" /\ Went(w, "gone", it[w])
Called(w)  == /\ pc[w] = "idle" /\ it[w].calls < MaxCalls
              /\ Went(w, IF Of(w).mode = "random" THEN "random" ELSE "next",
                      [it[w] EXCEPT !.calls = @ + 1, !.wasLate = Of(w).timed /\ late[w]])

(* A turn that goes on, or ends in None.                                   *)
LEMMA GotoAt ==
  ASSUME TypeOK, NEW w \in Iter, NEW label, NEW new, Goto(w, label, new)
  PROVE  OnlyAt(w) /\ Went(w, label, new)
BY DEF TypeOK, Goto, OnlyAt, Went, Same

(* A turn that ends in an item.                                            *)
LEMMA HandAt ==
  ASSUME TypeOK, NEW w \in Iter, NEW item, NEW new, Hand(w, item, new)
  PROVE  OnlyAt(w) /\ Gave(w, item, new)
<1> DEFINE x == [new EXCEPT !.ret = "some", !.yielded = @ + 1]
<1>1. /\ pc' = [pc EXCEPT ![w] = "idle"] /\ it' = [it EXCEPT ![w] = x]
      /\ given' = [given EXCEPT ![w] = Append(@, item)]
  BY DEF Hand
<1>2. pc = [v \in Iter |-> pc[v]] /\ it = [v \in Iter |-> it[v]] /\ given = [v \in Iter |-> given[v]]
  BY DEF TypeOK
<1> HIDE DEF x
<1>3. pc'[w] = "idle" /\ it'[w] = x /\ given'[w] = Append(given[w], item)
  BY <1>1, <1>2
<1>4. OnlyAt(w)
  BY <1>1, <1>2 DEF OnlyAt, Same
<1> QED BY <1>3, <1>4 DEF Gave, x

(* An iterator that is built begins and ends where its range does.         *)
LEMMA StartAt ==
  ASSUME TypeOK, setup \in Setups, NEW w \in Iter, NEW mode, NEW lo, NEW last, NEW offset \in Nat,
         Start(w, mode, Built(Of(w), lo, last, offset)), lo = First(Of(w)), last = End(Of(w))
  PROVE  OnlyAt(w) /\ BuiltNow(w) /\ Of(w).mode = mode
<1> DEFINE new == Built(Of(w), lo, last, offset)
<1> HIDE DEF new
<1>1. /\ pc[w] = "unbuilt" /\ it' = [it EXCEPT ![w] = new] /\ pc' = [pc EXCEPT ![w] = "idle"] /\ given' = given
      /\ Of(w).mode = mode
  BY DEF Start, new
<1>2. OnlyAt(w) /\ Went(w, "idle", new)
  BY <1>1 DEF TypeOK, OnlyAt, Went, Same
<1> QED BY <1>1, <1>2 DEF BuiltNow, new

(* An item before a position.                                              *)
Before(p, i, s) == p[1] < i \/ (p[1] = i /\ hier /\ p[2] < s)
Places == IF hier THEN Nat \X Nat ELSE Nat \X {0}

(* Why a reader passes over an item.                                       *)
Passed(w, p) ==
  \/ ~Plain(Of(w)) \/ matches_filter(Of(w), p \in bits) # {TRUE}
  \/ hier /\ (p[1] \notin made \/ p[2] >= SubEnd(Of(w)) \/ p[2] < Of(w).subLo)

(* What a turn of a reader comes to: it wraps around, ...                  *)
Rewound(w) == /\ Wraps(Of(w)) /\ pc[w] = "next"
              /\ Went(w, "next", [it[w] EXCEPT !.id = Of(w).lo, !.sub = Of(w).subLo])

(* ... it returns None, ...                                                *)
Ended(w) ==
  /\ Went(w, "idle", [it[w] EXCEPT !.ret = "none"])
  /\ ~check_limit(w) \/ \A p \in Places : it[w].id <= p[1] /\ p[1] < it[w].last => Passed(w, p)

(* ... it moves on, ...                                                    *)
Moved(w) ==
  \E i \in Nat, s \in Nat, label \in {"next", "sub"} :
    /\ Went(w, label, [it[w] EXCEPT !.id = i, !.sub = s])
    /\ it[w].id <= i /\ (label = "sub" => hier /\ i = it[w].id /\ i < it[w].last) /\ (s >= it[w].sub \/ s = Of(w).subLo)
    /\ \A p \in Places : /\ Before(p, it[w].id, it[w].sub) => Before(p, i, s)
                         /\ Before(p, i, s) /\ ~Before(p, it[w].id, it[w].sub) => Passed(w, p)

(* ... or it returns an item.                                              *)
Returned(w) ==
  \E i \in Nat, s \in Nat, q \in Places :
    /\ Gave(w, q, [it[w] EXCEPT !.id = i, !.sub = s])
    /\ check_limit(w)
    /\ it[w].id <= i /\ s >= it[w].sub
    /\ it[w].id <= q[1] /\ q[1] < it[w].last /\ (hier => it[w].sub <= q[2] /\ q[2] < SubEnd(Of(w)))
    /\ Before(q, i, s) /\ ~Before(q, it[w].id, it[w].sub)
    /\ \A p \in Places : /\ Before(p, it[w].id, it[w].sub) => Before(p, i, s)
                         /\ Before(p, i, s) /\ ~Before(p, it[w].id, it[w].sub) => p = q \/ Passed(w, p)

Turned(w) == OnlyAt(w) /\ (Rewound(w) \/ Ended(w) \/ Moved(w) \/ Returned(w))

(* What is not to be yielded does not match, or there is sampling.         *)
LEMMA NotYielded ==
  ASSUME NEW w \in Iter, NEW p, NEW yes \in should_yield(w, p \in bits), ~yes
  PROVE  Passed(w, p)
<1> DEFINE M == matches_filter(Of(w), p \in bits)
<1> SUFFICES ASSUME Plain(Of(w)), M = {TRUE} PROVE FALSE
  BY DEF Passed
<1>1. check_limit(w)
  BY DEF Plain, check_limit, Limit
<1>2. Of(w).passes = {TRUE}
  BY DEF Plain
<1>3. PICK m \in M, a \in Of(w).passes : yes = (m /\ a)
  BY <1>1 DEF should_yield, passes_sampling
<1> HIDE DEF M
<1>4. m = TRUE /\ a = TRUE
  BY <1>2, <1>3
<1> QED BY <1>3, <1>4

(* What is yielded is within the limit and the duration.                   *)
LEMMA Yielded ==
  ASSUME NEW w \in Iter, NEW isSet, NEW yes \in should_yield(w, isSet), yes
  PROVE  check_limit(w)
<1> SUFFICES ASSUME ~check_limit(w) PROVE FALSE
  OBVIOUS
<1>1. should_yield(w, isSet) = {FALSE}
  BY DEF should_yield
<1>2. yes = FALSE
  BY <1>1
<1> QED BY <1>2

(* should_yield says TRUE or FALSE.                                        *)
LEMMA YieldType ==
  ASSUME setup \in Setups, NEW w \in Iter, NEW p, NEW yes \in should_yield(w, p \in bits)
  PROVE  yes \in BOOLEAN
<1>1. CASE ~check_limit(w)
  BY <1>1 DEF should_yield
<1>2. CASE check_limit(w)
  <2>1. PICK m \in matches_filter(Of(w), p \in bits), a \in Of(w).passes : yes = (m /\ a)
    BY <1>2 DEF should_yield, passes_sampling
  <2> QED BY <2>1
<1> QED BY <1>1, <1>2

(* Past the last id.                                                       *)
LEMMA RewindTurn ==
  ASSUME TypeOK, NEW w \in Iter, Rewind(w), pc[w] = "next",
         \A p \in Places : it[w].id <= p[1] /\ p[1] < it[w].last => Passed(w, p)
  PROVE  Turned(w)
<1>1. CASE Wraps(Of(w)) /\ Goto(w, "next", [it[w] EXCEPT !.id = Of(w).lo, !.sub = Of(w).subLo])
  <2>1. OnlyAt(w) /\ Went(w, "next", [it[w] EXCEPT !.id = Of(w).lo, !.sub = Of(w).subLo])
    BY <1>1, GotoAt
  <2> QED BY <1>1, <2>1 DEF Turned, Rewound
<1>2. CASE NoMore(w)
  <2>1. OnlyAt(w) /\ Went(w, "idle", [it[w] EXCEPT !.ret = "none"])
    BY <1>2, GotoAt DEF NoMore
  <2> QED BY <2>1 DEF Turned, Ended
<1> QED BY <1>1, <1>2 DEF Rewind

(* What the search passes over does not match.                             *)
LEMMA NotFound ==
  ASSUME NEW w \in Iter, Finds(Of(w)), NEW p, ~((p \in bits) = (Of(w).filter = "Set"))
  PROVE  Passed(w, p)
<1> DEFINE b == Of(w)
           isSet == p \in bits
<1>1. b.wants = {} /\ b.filter \in {"Set", "Unset"}
  BY DEF Finds, can_use_find_next_set, can_use_find_next_unset
<1>2. isSet \in BOOLEAN
  OBVIOUS
<1>3. matches_filter(b, isSet) = {CASE b.filter = "All" -> TRUE [] b.filter = "Set" -> isSet [] b.filter = "Unset" -> ~isSet}
  BY <1>1 DEF matches_filter
<1>4. isSet # (b.filter = "Set")
  OBVIOUS
<1> HIDE DEF b, isSet
<1>5. CASE b.filter = "Set"
  <2>1. isSet = FALSE
    BY <1>2, <1>4, <1>5
  <2>2. matches_filter(b, isSet) = {FALSE}
    BY <1>3, <1>5, <2>1
  <2> QED BY <2>2 DEF Passed, b, isSet
<1>6. CASE b.filter = "Unset"
  <2>1. isSet = TRUE
    BY <1>2, <1>4, <1>6
  <2>2. matches_filter(b, isSet) = {FALSE}
    BY <1>3, <1>6, <2>1
  <2> QED BY <2>2 DEF Passed, b, isSet
<1> QED BY <1>1, <1>5, <1>6

(* A turn by find_next_set or find_next_unset.                             *)
LEMMA FindTurn ==
  ASSUME TypeInv, NEW w \in Readers, pc[w] = "next", ~hier, FindStep(w)
  PROVE  Turned(w)
<1> DEFINE me == it[w]
           hits == {i \in me.id .. me.last - 1 : (<<i, 0>> \in bits) = (Of(w).filter = "Set")}
<1>0. w \in Iter /\ TypeOK /\ Finds(Of(w))
  BY DEF TypeInv, Readers, FindStep
<1>1. me.id \in Nat /\ me.last \in Nat /\ me.sub \in Nat
  BY <1>0, IterFields
<1>2. ASSUME NEW p \in Places, me.id <= p[1], p[1] < me.last, p[1] \notin hits
      PROVE  Passed(w, p)
  <2>1. p = <<p[1], 0>> /\ p[1] \in Nat
    BY DEF Places
  <2>2. p[1] \in me.id .. me.last - 1
    BY <1>1, <1>2, <2>1
  <2>3. ~((p \in bits) = (Of(w).filter = "Set"))
    BY <1>2, <2>1, <2>2
  <2> QED BY <1>0, <2>3, NotFound
<1>3. \/ ~check_limit(w) /\ NoMore(w)
      \/ check_limit(w) /\ hits = {} /\ Rewind(w)
      \/ check_limit(w) /\ hits # {} /\ Hand(w, <<Least(hits), 0>>, [me EXCEPT !.id = Least(hits) + 1])
  BY DEF FindStep
<1>4. hits \in SUBSET Nat /\ hits \subseteq me.id .. me.last - 1
  BY <1>1
<1> HIDE DEF hits
<1>5. CASE ~check_limit(w) /\ NoMore(w)
  <2>1. OnlyAt(w) /\ Went(w, "idle", [me EXCEPT !.ret = "none"])
    BY <1>0, <1>5, GotoAt DEF NoMore
  <2> QED BY <1>5, <2>1 DEF Turned, Ended
<1>6. CASE hits = {} /\ Rewind(w)
  BY <1>0, <1>2, <1>6, RewindTurn
<1>7. CASE check_limit(w) /\ hits # {} /\ Hand(w, <<Least(hits), 0>>, [me EXCEPT !.id = Least(hits) + 1])
  <2> DEFINE h == Least(hits)
             q == <<h, 0>>
  <2>1. h \in hits /\ \A i \in hits : h <= i
    BY <1>4, <1>7, LeastOf
  <2> HIDE DEF h
  <2>2. h \in Nat /\ me.id <= h /\ h < me.last
    BY <1>1, <1>4, <2>1
  <2>3. OnlyAt(w) /\ Gave(w, q, [me EXCEPT !.id = h + 1])
    BY <1>0, <1>7, HandAt DEF h
  <2>4. [me EXCEPT !.id = h + 1] = [me EXCEPT !.id = h + 1, !.sub = me.sub]
    BY <1>0, IterFields DEF IterType
  <2>5. ASSUME NEW p \in Places, Before(p, h + 1, me.sub), ~Before(p, me.id, me.sub)
        PROVE  p = q \/ Passed(w, p)
    <3>1. p = <<p[1], 0>> /\ p[1] \in Nat
      BY DEF Places
    <3>2. p[1] < h + 1 /\ ~(p[1] < me.id)
      BY <2>5 DEF Before
    <3>3. CASE p[1] = h
      BY <3>1, <3>3
    <3>4. CASE p[1] < h
      <4>1. p[1] \notin hits
        BY <2>1, <2>2, <3>1, <3>4
      <4> QED BY <1>1, <1>2, <2>2, <3>1, <3>2, <3>4, <4>1
    <3> QED BY <2>2, <3>1, <3>2, <3>3, <3>4
  <2>6. \A p \in Places : Before(p, me.id, me.sub) => Before(p, h + 1, me.sub)
    BY <1>1, <2>2 DEF Before, Places
  <2>7. q \in Places /\ Before(q, h + 1, me.sub) /\ ~Before(q, me.id, me.sub)
    BY <1>1, <2>2 DEF Before, Places
  <2>8. Returned(w)
    <3>1. h + 1 \in Nat /\ me.id <= h + 1 /\ me.sub >= me.sub
      BY <1>1, <2>2
    <3>2. Gave(w, q, [me EXCEPT !.id = h + 1, !.sub = me.sub])
      BY <2>3, <2>4
    <3> QED BY <1>1, <1>7, <2>2, <2>5, <2>6, <2>7, <3>1, <3>2 DEF Returned
  <2> QED BY <2>3, <2>8 DEF Turned
<1> QED BY <1>3, <1>5, <1>6, <1>7

(* A turn that does not return, past items that do not match.              *)
LEMMA MoveTurn ==
  ASSUME TypeInv, NEW w \in Readers, NEW i \in Nat, NEW s \in Nat, NEW label \in {"next", "sub"},
         Goto(w, label, [it[w] EXCEPT !.id = i, !.sub = s]),
         it[w].id <= i, label = "sub" => hier /\ i = it[w].id /\ i < it[w].last,
         s >= it[w].sub \/ s = Of(w).subLo,
         \A p \in Places : /\ Before(p, it[w].id, it[w].sub) => Before(p, i, s)
                           /\ Before(p, i, s) /\ ~Before(p, it[w].id, it[w].sub) => Passed(w, p)
  PROVE  Turned(w)
<1>1. w \in Iter /\ TypeOK
  BY DEF TypeInv, Readers
<1>2. OnlyAt(w) /\ Went(w, label, [it[w] EXCEPT !.id = i, !.sub = s])
  BY <1>1, GotoAt
<1> QED BY <1>2 DEF Turned, Moved

(* A turn that returns the item it is at.                                  *)
LEMMA HandTurn ==
  ASSUME TypeInv, NEW w \in Readers, NEW q \in Places, NEW i \in Nat, NEW s \in Nat,
         Hand(w, q, [it[w] EXCEPT !.id = i, !.sub = s]), check_limit(w),
         it[w].id <= i, s >= it[w].sub, q[1] = it[w].id, q[1] < it[w].last,
         hier => it[w].sub <= q[2] /\ q[2] < SubEnd(Of(w)),
         \A p \in Places : /\ Before(p, it[w].id, it[w].sub) => Before(p, i, s)
                           /\ Before(p, i, s) /\ ~Before(p, it[w].id, it[w].sub) => p = q \/ Passed(w, p),
         Before(q, i, s), ~Before(q, it[w].id, it[w].sub)
  PROVE  Turned(w)
<1>1. w \in Iter /\ TypeOK
  BY DEF TypeInv, Readers
<1>2. OnlyAt(w) /\ Gave(w, q, [it[w] EXCEPT !.id = i, !.sub = s])
  BY <1>1, HandAt
<1>3. it[w].id <= q[1]
  BY <1>1, IterFields
<1> QED BY <1>2, <1>3 DEF Turned, Returned

(* A turn that tests one id.                                               *)
LEMMA TestTurn ==
  ASSUME TypeInv, NEW w \in Readers, pc[w] = "next", ~hier, TestStep(w)
  PROVE  Turned(w)
<1> DEFINE me == it[w]
           q == <<me.id, 0>>
<1>0. w \in Iter /\ TypeOK /\ setup \in Setups
  BY DEF TypeInv, Readers
<1>1. me.id \in Nat /\ me.last \in Nat /\ me.sub \in Nat /\ me \in IterType
  BY <1>0, IterFields
<1>2. [me EXCEPT !.id = me.id + 1] = [me EXCEPT !.id = me.id + 1, !.sub = me.sub]
  BY <1>1 DEF IterType
<1>3. \A p \in Places : Before(p, me.id, me.sub) => Before(p, me.id + 1, me.sub)
  BY <1>1 DEF Before, Places
<1>4. \A p \in Places : Before(p, me.id + 1, me.sub) /\ ~Before(p, me.id, me.sub) => p = q
  BY <1>1 DEF Before, Places
<1>5. CASE me.id >= me.last /\ Rewind(w)
  <2>1. \A p \in Places : ~(me.id <= p[1] /\ p[1] < me.last)
    BY <1>1, <1>5 DEF Places
  <2> QED BY <1>0, <1>5, <2>1, RewindTurn
<1>6. ASSUME me.id < me.last, NEW yes \in should_yield(w, q \in bits), yes,
             Hand(w, q, [me EXCEPT !.id = me.id + 1])
      PROVE  Turned(w)
  <2>1. check_limit(w)
    BY <1>0, <1>6, Yielded
  <2>2. q \in Places /\ Before(q, me.id + 1, me.sub) /\ ~Before(q, me.id, me.sub)
    BY <1>1 DEF Before, Places
  <2>3. Hand(w, q, [me EXCEPT !.id = me.id + 1, !.sub = me.sub])
    BY <1>2, <1>6
  <2>4. me.id + 1 \in Nat /\ me.id <= me.id + 1 /\ me.sub >= me.sub /\ q[1] = me.id /\ q[1] < me.last
    BY <1>1, <1>6
  <2> HIDE DEF q, me
  <2> QED BY <1>1, <1>3, <1>4, <2>1, <2>2, <2>3, <2>4, HandTurn DEF me
<1>7. ASSUME me.id < me.last, NEW yes \in should_yield(w, q \in bits), ~yes,
             Goto(w, "next", [me EXCEPT !.id = me.id + 1])
      PROVE  Turned(w)
  <2>1. Passed(w, q)
    BY <1>0, <1>7, NotYielded
  <2>2. Goto(w, "next", [me EXCEPT !.id = me.id + 1, !.sub = me.sub])
    BY <1>2, <1>7
  <2>3. me.id + 1 \in Nat /\ me.id <= me.id + 1 /\ me.sub >= me.sub
    BY <1>1
  <2> HIDE DEF q, me
  <2> QED BY <1>1, <1>3, <1>4, <2>1, <2>2, <2>3, MoveTurn DEF me
<1>8. \/ me.id >= me.last /\ Rewind(w)
      \/ /\ me.id < me.last
         /\ \E yes \in should_yield(w, q \in bits) :
              IF yes THEN Hand(w, q, [me EXCEPT !.id = me.id + 1])
              ELSE Goto(w, "next", [me EXCEPT !.id = me.id + 1])
  BY DEF TestStep
<1>9. \A yes \in should_yield(w, q \in bits) : yes \in BOOLEAN
  BY <1>0, YieldType
<1> HIDE DEF me, q
<1> QED BY <1>5, <1>6, <1>7, <1>8, <1>9

(* A turn that looks for the next sub-bitmap.                              *)
LEMMA SeekTurn ==
  ASSUME TypeInv, NEW w \in Readers, pc[w] = "next", hier, SeekStep(w)
  PROVE  Turned(w)
<1> DEFINE me == it[w]
<1>0. w \in Iter /\ TypeOK /\ setup \in Setups
  BY DEF TypeInv, Readers
<1>1. me.id \in Nat /\ me.last \in Nat /\ me.sub \in Nat /\ me \in IterType /\ Of(w).subLo \in Nat
  BY <1>0, IterFields, SetupFacts, BuildFields
<1>2. CASE me.id >= me.last /\ Rewind(w)
  <2>1. \A p \in Places : ~(me.id <= p[1] /\ p[1] < me.last)
    BY <1>1, <1>2 DEF Places
  <2> QED BY <1>0, <1>2, <2>1, RewindTurn
<1>3. CASE me.id < me.last /\ me.id \in made /\ Goto(w, "sub", me)
  <2>1. me = [me EXCEPT !.id = me.id, !.sub = me.sub]
    BY <1>1 DEF IterType
  <2>2. Goto(w, "sub", [me EXCEPT !.id = me.id, !.sub = me.sub])
    BY <1>3, <2>1
  <2>3. me.id <= me.id /\ me.sub >= me.sub
    BY <1>1
  <2> HIDE DEF me
  <2> QED BY <1>1, <1>3, <2>2, <2>3, MoveTurn DEF me
<1>4. CASE me.id < me.last /\ me.id \notin made /\ Goto(w, "next", [me EXCEPT !.id = me.id + 1, !.sub = Of(w).subLo])
  <2>1. \A p \in Places : Before(p, me.id, me.sub) => Before(p, me.id + 1, Of(w).subLo)
    BY <1>1 DEF Before, Places
  <2>2. \A p \in Places : Before(p, me.id + 1, Of(w).subLo) /\ ~Before(p, me.id, me.sub) =>
          p[1] = me.id \/ p[2] < Of(w).subLo
    BY <1>1 DEF Before, Places
  <2>3. \A p : p[1] = me.id \/ p[2] < Of(w).subLo => Passed(w, p)
    BY <1>4 DEF Passed
  <2>4. me.id + 1 \in Nat /\ me.id <= me.id + 1
    BY <1>1
  <2> HIDE DEF me
  <2> QED BY <1>1, <1>4, <2>1, <2>2, <2>3, <2>4, MoveTurn DEF me
<1> QED BY <1>2, <1>3, <1>4 DEF SeekStep

(* A turn inside a sub-bitmap.                                             *)
LEMMA SubTurn ==
  ASSUME TypeInv, NEW w \in Readers, pc[w] = "sub", hier, SubStep(w)
  PROVE  Turned(w)
<1> DEFINE me == it[w]
           q == <<me.id, me.sub>>
<1>0. w \in Iter /\ TypeOK /\ setup \in Setups /\ me.id < me.last
  BY DEF TypeInv, Readers, Shape
<1>1. me.id \in Nat /\ me.last \in Nat /\ me.sub \in Nat /\ me \in IterType /\ Of(w).subLo \in Nat
  BY <1>0, IterFields, SetupFacts, BuildFields
<1>2. SubEnd(Of(w)) \in Nat
  BY <1>0, SetupFacts, BuildFields, IterAssumption DEF SubEnd, Smaller
<1>3. [me EXCEPT !.sub = me.sub + 1] = [me EXCEPT !.id = me.id, !.sub = me.sub + 1]
  BY <1>1 DEF IterType
<1>4. \A p \in Places : Before(p, me.id, me.sub) => Before(p, me.id, me.sub + 1)
  BY <1>1 DEF Before, Places
<1>5. \A p \in Places : Before(p, me.id, me.sub + 1) /\ ~Before(p, me.id, me.sub) => p = q
  BY <1>1 DEF Before, Places
<1>6. CASE me.sub >= SubEnd(Of(w)) /\ Goto(w, "next", [me EXCEPT !.id = me.id + 1, !.sub = Of(w).subLo])
  <2>1. \A p \in Places : Before(p, me.id, me.sub) => Before(p, me.id + 1, Of(w).subLo)
    BY <1>1 DEF Before, Places
  <2>2. \A p \in Places : Before(p, me.id + 1, Of(w).subLo) /\ ~Before(p, me.id, me.sub) =>
          p[2] >= me.sub \/ p[2] < Of(w).subLo
    BY <1>1 DEF Before, Places
  <2>3. ASSUME NEW p \in Places, p[2] >= me.sub \/ p[2] < Of(w).subLo
        PROVE  Passed(w, p)
    <3>1. p[2] \in Nat
      BY DEF Places
    <3>2. p[2] >= SubEnd(Of(w)) \/ p[2] < Of(w).subLo
      BY <1>1, <1>2, <1>6, <2>3, <3>1
    <3> QED BY <3>2 DEF Passed
  <2>4. me.id + 1 \in Nat /\ me.id <= me.id + 1
    BY <1>1
  <2> HIDE DEF me
  <2> QED BY <1>1, <1>6, <2>1, <2>2, <2>3, <2>4, MoveTurn DEF me
<1>7. ASSUME me.sub < SubEnd(Of(w)), NEW yes \in should_yield(w, q \in bits), yes,
             Hand(w, q, [me EXCEPT !.sub = me.sub + 1])
      PROVE  Turned(w)
  <2>1. check_limit(w)
    BY <1>0, <1>7, Yielded
  <2>2. q \in Places /\ Before(q, me.id, me.sub + 1) /\ ~Before(q, me.id, me.sub)
    BY <1>1 DEF Before, Places
  <2>3. Hand(w, q, [me EXCEPT !.id = me.id, !.sub = me.sub + 1])
    BY <1>3, <1>7
  <2>4. me.sub + 1 \in Nat /\ me.id <= me.id /\ me.sub + 1 >= me.sub /\ me.sub <= me.sub /\ q[1] = me.id /\ q[2] = me.sub
        /\ q[1] < me.last
    BY <1>0, <1>1
  <2> HIDE DEF q, me
  <2> QED BY <1>1, <1>4, <1>5, <1>7, <2>1, <2>2, <2>3, <2>4, HandTurn DEF me
<1>8. ASSUME me.sub < SubEnd(Of(w)), NEW yes \in should_yield(w, q \in bits), ~yes,
             Goto(w, "sub", [me EXCEPT !.sub = me.sub + 1])
      PROVE  Turned(w)
  <2>1. Passed(w, q)
    BY <1>0, <1>8, NotYielded
  <2>2. Goto(w, "sub", [me EXCEPT !.id = me.id, !.sub = me.sub + 1])
    BY <1>3, <1>8
  <2>3. me.sub + 1 \in Nat /\ me.id <= me.id /\ me.sub + 1 >= me.sub /\ me.id < me.last
    BY <1>0, <1>1
  <2> HIDE DEF q, me
  <2> QED BY <1>1, <1>4, <1>5, <2>1, <2>2, <2>3, MoveTurn DEF me
<1>9. \/ me.sub >= SubEnd(Of(w)) /\ Goto(w, "next", [me EXCEPT !.id = me.id + 1, !.sub = Of(w).subLo])
      \/ /\ me.sub < SubEnd(Of(w))
         /\ \E yes \in should_yield(w, q \in bits) :
              IF yes THEN Hand(w, q, [me EXCEPT !.sub = me.sub + 1])
              ELSE Goto(w, "sub", [me EXCEPT !.sub = me.sub + 1])
  BY DEF SubStep
<1>10. \A yes \in should_yield(w, q \in bits) : yes \in BOOLEAN
  BY <1>0, YieldType
<1> HIDE DEF me, q
<1> QED BY <1>6, <1>7, <1>8, <1>9, <1>10

-----------------------------------------------------------------------------
(* The steps                                                               *)

(* The state that is not one iterator's.                                   *)
Shared == <<bits, made, primary, cursor, deleting, late, touched, changes>>

Whole == /\ pc' = [v \in Iter |-> pc'[v]] /\ it' = [v \in Iter |-> it'[v]]
         /\ given' = [v \in Iter |-> given'[v]]

(* Iterators are built, a delete iterator only where there is none.        *)
Building ==
  /\ Whole /\ cursor' \in {0, cursor}
  /\ UNCHANGED <<bits, made, primary, late, touched, changes>>
  /\ \/ /\ \A w \in Iter : Same(w) \/ (BuiltNow(w) /\ Of(w).mode # "delete")
        /\ deleting' = deleting
     \/ /\ ~deleting /\ deleting' = TRUE
        /\ \E w \in Iter : OnlyAt(w) /\ BuiltNow(w) /\ Of(w).mode = "delete"

Refusing(w) == OnlyAt(w) /\ Refused(w) /\ UNCHANGED Shared
Calling(w)  == OnlyAt(w) /\ Called(w) /\ UNCHANGED Shared
Dropping(w) == /\ OnlyAt(w) /\ Dropped(w) /\ deleting' = FALSE
               /\ UNCHANGED <<bits, made, primary, cursor, late, touched, changes>>
Reading(w)  == Turned(w) /\ w \in Readers /\ pc[w] \in {"next", "sub"} /\ UNCHANGED Shared

(* A turn of a random iterator.                                            *)
Drawing(w) ==
  /\ RandomCheck(w) \/ RandomStep(w) \/ RandomPick(w)
  /\ OnlyAt(w) /\ Of(w).mode = "random" /\ UNCHANGED Shared
  /\ \/ pc[w] = "random" /\ check_limit(w) /\ Went(w, "next", it[w])
     \/ pc[w] = "random" /\ Went(w, "idle", [it[w] EXCEPT !.ret = "none"])
     \/ /\ pc[w] = "next"
        /\ \E n \in Nat : \/ Went(w, "idle", [it[w] EXCEPT !.step = n, !.ret = "none"])
                          \/ Went(w, "next", [it[w] EXCEPT !.step = n])
                          \/ \E i \in Nat : \/ Went(w, "pick", [it[w] EXCEPT !.step = n, !.id = i])
                                            \/ Gave(w, <<i, 0>>, [it[w] EXCEPT !.step = n])
     \/ pc[w] = "pick" /\ \E s \in Nat : Gave(w, <<it[w].id, s>>, it[w])

(* A turn of a delete iterator.                                            *)
Deleting(w) ==
  /\ OnlyAt(w) /\ Of(w).mode = "delete" /\ pc[w] = "next" /\ ~hier
  /\ UNCHANGED <<made, cursor, deleting, late, touched, changes>>
  /\ \/ it[w].id >= it[w].last /\ Went(w, "idle", [it[w] EXCEPT !.ret = "none"]) /\ UNCHANGED <<bits, primary>>
     \/ /\ it[w].id < it[w].last /\ <<it[w].id, 0>> \notin bits
        /\ Went(w, "next", [it[w] EXCEPT !.id = @ + 1]) /\ UNCHANGED <<bits, primary>>
     \/ /\ it[w].id < it[w].last /\ <<it[w].id, 0>> \in bits
        /\ Gave(w, <<it[w].id, 0>>, [it[w] EXCEPT !.id = @ + 1])
        /\ bits' = bits \ {<<it[w].id, 0>>} /\ primary' = primary \ {it[w].id}

Subs(b) == Larger(Smaller(b.subHi, MaxSub), 1)

(* A writer takes the next pair.                                           *)
Fetching(w) ==
  /\ OnlyAt(w) /\ Of(w).mode = "write" /\ pc[w] = "next" /\ hier
  /\ UNCHANGED <<bits, made, primary, deleting, late, touched, changes>>
  /\ cursor' = IF Of(w).filter = "Set" THEN cursor ELSE (cursor + 1) % U
  /\ LET i == cursor \div Subs(Of(w))
         s == cursor % Subs(Of(w))
     IN  \/ (Of(w).filter = "Set" \/ i >= it[w].last) /\ Went(w, "idle", [it[w] EXCEPT !.ret = "none"])
         \/ Of(w).filter # "Set" /\ i < it[w].last /\ ~Contains(Of(w), i, s) /\ Went(w, "next", it[w])
         \/ /\ Of(w).filter # "Set" /\ i < it[w].last /\ Contains(Of(w), i, s)
            /\ Went(w, "claim", [it[w] EXCEPT !.id = i, !.sub = s])

(* A writer claims the pair it has taken.                                  *)
Claiming(w) ==
  /\ OnlyAt(w) /\ pc[w] = "claim"
  /\ UNCHANGED <<cursor, deleting, late, touched, changes>>
  /\ LET p == <<it[w].id, it[w].sub>>
     IN  \/ /\ p[2] >= SubCapacity /\ Went(w, "panicked", it[w])
            /\ made' = made \union {p[1]} /\ UNCHANGED <<bits, primary>>
         \/ /\ p \in bits /\ Of(w).filter = "Unset"
            /\ Went(w, "next", it[w]) /\ UNCHANGED <<bits, made, primary>>
         \/ (p \notin bits \/ Of(w).filter = "All")
            /\ Gave(w, p, it[w]) /\ bits' = bits \union {p}
            /\ made' = made \union {p[1]} /\ primary' \in {primary, primary \union {p[1]}}

(* Others add and remove.                                                  *)
Changing ==
  /\ Whole /\ (\A w \in Iter : Same(w)) /\ UNCHANGED <<cursor, deleting, late>>
  /\ changes < MaxChanges /\ changes' = changes + 1
  /\ \E p \in Items :
       /\ touched' = touched \union {p}
       /\ \/ /\ bits' = bits \union {p} /\ primary' = primary \union {p[1]}
             /\ made' = IF hier THEN made \union {p[1]} ELSE made
          \/ bits' = bits \ {p} /\ primary' = {q[1] : q \in bits'} /\ made' = made

(* A duration ends.                                                        *)
Expiring ==
  /\ Whole /\ (\A w \in Iter : Same(w)) /\ UNCHANGED <<bits, made, primary, cursor, deleting, touched, changes>>
  /\ \E w \in Iter : late' = [late EXCEPT ![w] = TRUE]

Kinds == \/ Building \/ Changing \/ Expiring
         \/ \E w \in Iter : \/ Refusing(w) \/ Calling(w) \/ Dropping(w) \/ Reading(w)
                            \/ Drawing(w) \/ Deleting(w) \/ Fetching(w) \/ Claiming(w)

(* Building one iterator that is no deleter.                               *)
LEMMA OneBuilt ==
  ASSUME TypeInv, NEW w \in Iter, NEW mode, mode # "delete", NEW lo, NEW last, NEW offset \in Nat,
         Start(w, mode, Built(Of(w), lo, last, offset)), lo = First(Of(w)), last = End(Of(w)),
         cursor' \in {0, cursor}, deleting' = deleting
  PROVE  Building
<1>1. OnlyAt(w) /\ BuiltNow(w) /\ Of(w).mode = mode
  BY StartAt DEF TypeInv
<1>2. UNCHANGED <<bits, made, primary, late, touched, changes>>
  BY DEF Start, tracker
<1> QED BY <1>1, <1>2 DEF Building, OnlyAt, Whole

(* Building any of them.                                                   *)
LEMMA BuildKinds ==
  ASSUME TypeInv, NEW w \in Iter, BuildIter(w)
  PROVE  setup' = setup /\ (Building \/ Refusing(w))
<1> DEFINE b == Of(w)
<1>0. setup \in Setups /\ TypeOK /\ b \in Build
  BY SetupFacts DEF TypeInv
<1>1. b.mode # "partition" => First(b) = b.lo /\ End(b) = Last(b)
  BY DEF First, End
<1>2. b.mode = "partition" => First(b) = PartRange(b)[1] /\ End(b) = PartRange(b)[2]
  BY DEF First, End
<1>3. CASE BuildSequential(w)
  <2>1. /\ Start(w, "sequential", Built(b, b.lo, Last(b), 0)) /\ cursor' = cursor /\ deleting' = deleting
        /\ b.mode = "sequential" /\ setup' = setup
    BY <1>3 DEF BuildSequential, Start
  <2> HIDE DEF b
  <2> QED BY <1>1, <2>1, OneBuilt DEF b
<1>4. CASE BuildRandom(w)
  <2>1. PICK offset \in 0 .. Larger(Size(b), 1) - 1 :
          /\ Start(w, "random", Built(b, b.lo, Last(b), offset)) /\ cursor' = cursor /\ deleting' = deleting
          /\ b.mode = "random" /\ setup' = setup
    BY <1>4 DEF BuildRandom, Start
  <2>2. offset \in Nat
    OBVIOUS
  <2> HIDE DEF b
  <2> QED BY <1>1, <2>1, <2>2, OneBuilt DEF b
<1>5. CASE BuildPartition(w)
  <2>1. /\ Start(w, "partition", Built(b, PartRange(b)[1], PartRange(b)[2], 0)) /\ cursor' = cursor
        /\ deleting' = deleting /\ b.mode = "partition" /\ setup' = setup
    BY <1>5 DEF BuildPartition, BuildPart, Start
  <2> HIDE DEF b
  <2> QED BY <1>2, <2>1, OneBuilt DEF b
<1>6. CASE BuildWrite(w)
  <2>1. /\ Start(w, "write", Built(b, b.lo, Last(b), 0)) /\ cursor' \in {0, cursor} /\ deleting' = deleting
        /\ b.mode = "write" /\ setup' = setup
    BY <1>6 DEF BuildWrite, Start
  <2> HIDE DEF b
  <2> QED BY <1>1, <2>1, OneBuilt DEF b
<1>7. CASE BuildDelete(w)
  <2>1. CASE ~deleting /\ Start(w, "delete", Built(b, b.lo, Last(b), 0)) /\ deleting' = TRUE /\ cursor' = cursor
    <3>1. b.mode = "delete" /\ setup' = setup /\ UNCHANGED <<bits, made, primary, late, touched, changes>>
      BY <2>1 DEF Start, tracker
    <3>2. OnlyAt(w) /\ BuiltNow(w)
      BY <1>0, <1>1, <2>1, <3>1, StartAt
    <3>3. Building
      BY <2>1, <3>1, <3>2 DEF Building, OnlyAt, Whole
    <3> QED BY <3>1, <3>3
  <2>2. CASE /\ deleting /\ pc[w] = "unbuilt" /\ b.mode = "delete" /\ pc' = [pc EXCEPT ![w] = "refused"]
             /\ UNCHANGED <<setup, tracker, cursor, deleting, it, given, late, touched, changes>>
    <3>1. OnlyAt(w) /\ Refused(w)
      BY <1>0, <2>2 DEF TypeOK, OnlyAt, Refused, Went, Same
    <3> QED BY <2>2, <3>1 DEF Refusing, Shared, tracker
  <2> QED BY <1>7, <2>1, <2>2 DEF BuildDelete
<1> QED BY <1>3, <1>4, <1>5, <1>6, <1>7 DEF BuildIter

(* All parts at once.                                                      *)
LEMMA PartsBuilt ==
  ASSUME TypeInv, BuildPartitioned
  PROVE  setup' = setup /\ Building
<1> DEFINE parts == {w \in Iter : Of(w).mode = "partition"}
<1>0. /\ \A w \in parts : pc[w] = "unbuilt"
      /\ it' = [w \in Iter |-> IF w \in parts THEN BuildPart(Of(w)) ELSE it[w]]
      /\ pc' = [w \in Iter |-> IF w \in parts THEN "idle" ELSE pc[w]]
      /\ UNCHANGED <<setup, tracker, cursor, deleting, given, late, touched, changes>>
  BY DEF BuildPartitioned
<1>1. ASSUME NEW w \in Iter
      PROVE  Same(w) \/ (BuiltNow(w) /\ Of(w).mode # "delete")
  <2>1. CASE w \in parts
    <3>1. Went(w, "idle", BuildPart(Of(w))) /\ pc[w] = "unbuilt" /\ Of(w).mode = "partition"
      BY <1>0, <2>1 DEF Went
    <3>2. BuildPart(Of(w)) = Built(Of(w), First(Of(w)), End(Of(w)), 0)
      BY <3>1 DEF BuildPart, First, End
    <3>3. 0 \in Nat
      OBVIOUS
    <3>4. BuiltNow(w)
      BY <3>1, <3>2, <3>3 DEF BuiltNow
    <3> QED BY <3>1, <3>4
  <2>2. CASE w \notin parts
    BY <1>0, <2>2 DEF Same
  <2> QED BY <2>1, <2>2
<1>2. Whole
  BY <1>0 DEF TypeInv, TypeOK, Whole
<1> QED BY <1>0, <1>1, <1>2 DEF Building, tracker

(* Readers.                                                                *)
LEMMA ReadKinds ==
  ASSUME TypeInv, NEW w \in Iter,
         SequentialSimple(w) \/ SequentialHierarchical(w) \/ PartitionSimple(w) \/ PartitionHierarchical(w)
  PROVE  setup' = setup /\ Reading(w)
<1>1. w \in Readers
  BY DEF SequentialSimple, SequentialHierarchical, PartitionSimple, PartitionHierarchical, Simple, Hierarchical, Readers
<1>2. Reads(w)
  BY DEF SequentialSimple, SequentialHierarchical, PartitionSimple, PartitionHierarchical
<1>3. \/ pc[w] = "next" /\ ~hier /\ (FindStep(w) \/ TestStep(w))
      \/ hier /\ ((pc[w] = "next" /\ SeekStep(w)) \/ (pc[w] = "sub" /\ SubStep(w)))
  BY DEF SequentialSimple, SequentialHierarchical, PartitionSimple, PartitionHierarchical, Simple, Hierarchical
<1>4. Turned(w) /\ pc[w] \in {"next", "sub"}
  BY <1>1, <1>3, FindTurn, TestTurn, SeekTurn, SubTurn
<1> QED BY <1>1, <1>2, <1>4 DEF Reading, Reads, Shared, tracker

(* Random iterators.                                                       *)
LEMMA RandomKinds ==
  ASSUME TypeInv, NEW w \in Iter, RandomCheck(w) \/ RandomStep(w) \/ RandomPick(w)
  PROVE  setup' = setup /\ Drawing(w)
<1> DEFINE b == Of(w)
           me == it[w]
<1>0. TypeOK /\ setup \in Setups /\ b \in Build
  BY SetupFacts DEF TypeInv
<1>1. me \in IterType /\ me.id \in Nat /\ me.step \in Nat /\ me.offset \in Nat
  BY <1>0, IterFields
<1>2. CASE RandomCheck(w)
  <2>1. /\ pc[w] = "random" /\ b.mode = "random" /\ setup' = setup /\ UNCHANGED Shared
        /\ IF check_limit(w) THEN Goto(w, "next", me) ELSE NoMore(w)
    BY <1>2 DEF RandomCheck, Reads, Shared, tracker
  <2>2. CASE check_limit(w) /\ Goto(w, "next", me)
    <3>1. OnlyAt(w) /\ Went(w, "next", me)
      BY <1>0, <2>2, GotoAt
    <3> QED BY <2>1, <2>2, <3>1 DEF Drawing
  <2>3. CASE NoMore(w)
    <3>1. OnlyAt(w) /\ Went(w, "idle", [me EXCEPT !.ret = "none"])
      BY <1>0, <2>3, GotoAt DEF NoMore
    <3> QED BY <2>1, <3>1 DEF Drawing
  <2> QED BY <2>1, <2>2, <2>3
<1>3. CASE RandomStep(w)
  <2> DEFINE step == IF me.step >= MaxSteps(b) THEN 0 ELSE me.step
             n == step + 1
             Skip == Goto(w, "next", [me EXCEPT !.step = n])
  <2>1. step \in Nat /\ n \in Nat
    BY <1>1
  <2>2. pc[w] = "next" /\ b.mode = "random" /\ setup' = setup /\ UNCHANGED Shared
    BY <1>3 DEF RandomStep, Reads, Shared, tracker
  <2>3. \/ NoMore(w)
        \/ Goto(w, "idle", [me EXCEPT !.step = n, !.ret = "none"])
        \/ Skip
        \/ /\ Size(b) > 0 \/ b.dist # "Uniform"
           /\ \E index \in Indices(b, step, me.offset) :
                \/ Goto(w, "pick", [me EXCEPT !.step = n, !.id = b.lo + index])
                \/ Hand(w, <<b.lo + index, 0>>, [me EXCEPT !.step = n])
    BY <1>3 DEF RandomStep
  <2> HIDE DEF step, n
  <2>4. CASE NoMore(w)
    <3>1. OnlyAt(w) /\ Went(w, "idle", [me EXCEPT !.ret = "none"])
      BY <1>0, <2>4, GotoAt DEF NoMore
    <3>2. [me EXCEPT !.ret = "none"] = [me EXCEPT !.step = me.step, !.ret = "none"]
      BY <1>1 DEF IterType
    <3>3. Went(w, "idle", [me EXCEPT !.step = me.step, !.ret = "none"])
      BY <3>1, <3>2
    <3> QED BY <1>1, <2>2, <3>1, <3>3 DEF Drawing
  <2>5. CASE Goto(w, "idle", [me EXCEPT !.step = n, !.ret = "none"])
    <3>1. OnlyAt(w) /\ Went(w, "idle", [me EXCEPT !.step = n, !.ret = "none"])
      BY <1>0, <2>5, GotoAt
    <3> QED BY <2>1, <2>2, <3>1 DEF Drawing
  <2>6. CASE Skip
    <3>1. OnlyAt(w) /\ Went(w, "next", [me EXCEPT !.step = n])
      BY <1>0, <2>6, GotoAt
    <3> QED BY <2>1, <2>2, <3>1 DEF Drawing
  <2>7. ASSUME Size(b) > 0 \/ b.dist # "Uniform", NEW index \in Indices(b, step, me.offset),
               Goto(w, "pick", [me EXCEPT !.step = n, !.id = b.lo + index])
        PROVE  Drawing(w)
    <3>1. index \in Nat
      BY <1>0, <1>1, <2>1, <2>7, IndexType
    <3>2. b.lo + index \in Nat
      BY <1>0, <3>1, BuildFields
    <3>3. OnlyAt(w) /\ Went(w, "pick", [me EXCEPT !.step = n, !.id = b.lo + index])
      BY <1>0, <2>7, GotoAt
    <3> QED BY <2>1, <2>2, <3>2, <3>3 DEF Drawing
  <2>8. ASSUME Size(b) > 0 \/ b.dist # "Uniform", NEW index \in Indices(b, step, me.offset),
               Hand(w, <<b.lo + index, 0>>, [me EXCEPT !.step = n])
        PROVE  Drawing(w)
    <3>1. index \in Nat
      BY <1>0, <1>1, <2>1, <2>8, IndexType
    <3>2. b.lo + index \in Nat
      BY <1>0, <3>1, BuildFields
    <3>3. OnlyAt(w) /\ Gave(w, <<b.lo + index, 0>>, [me EXCEPT !.step = n])
      BY <1>0, <2>8, HandAt
    <3> QED BY <2>1, <2>2, <3>2, <3>3 DEF Drawing
  <2> QED BY <2>2, <2>3, <2>4, <2>5, <2>6, <2>7, <2>8
<1>4. CASE RandomPick(w)
  <2> DEFINE subs == {p[2] : p \in {q \in bits : q[1] = me.id}}
             s == IF subs = {} THEN 0 ELSE Least(subs)
  <2>1. pc[w] = "pick" /\ setup' = setup /\ UNCHANGED Shared /\ Hand(w, <<me.id, s>>, me)
    BY <1>4 DEF RandomPick, Reads, Shared, tracker
  <2>2. subs \in SUBSET Nat
    BY <1>0 DEF TypeOK
  <2>3. s \in Nat
    BY <2>2, LeastOf
  <2> HIDE DEF s
  <2>4. OnlyAt(w) /\ Gave(w, <<me.id, s>>, me)
    BY <1>0, <2>1, HandAt
  <2>5. b.mode = "random"
    BY <2>1 DEF TypeInv, Shape
  <2> QED BY <2>1, <2>3, <2>4, <2>5 DEF Drawing
<1> QED BY <1>2, <1>3, <1>4

(* Delete iterators.                                                       *)
LEMMA DeleteKinds ==
  ASSUME TypeInv, NEW w \in Iter, DeleteSimple(w)
  PROVE  setup' = setup /\ Deleting(w)
<1> DEFINE me == it[w]
           q == <<me.id, 0>>
<1>0. TypeOK
  BY DEF TypeInv
<1>1. /\ Of(w).mode = "delete" /\ pc[w] = "next" /\ ~hier
      /\ UNCHANGED <<setup, cursor, deleting, late, touched, changes>>
      /\ \/ me.id >= me.last /\ NoMore(w) /\ UNCHANGED tracker
         \/ /\ me.id < me.last /\ q \notin bits
            /\ Goto(w, "next", [me EXCEPT !.id = @ + 1]) /\ UNCHANGED tracker
         \/ /\ me.id < me.last /\ q \in bits
            /\ Hand(w, q, [me EXCEPT !.id = @ + 1])
            /\ bits' = bits \ {q} /\ primary' = primary \ {me.id}
            /\ UNCHANGED made
  BY DEF DeleteSimple
<1>2. CASE me.id >= me.last /\ NoMore(w) /\ UNCHANGED tracker
  <2>1. OnlyAt(w) /\ Went(w, "idle", [me EXCEPT !.ret = "none"])
    BY <1>0, <1>2, GotoAt DEF NoMore
  <2> QED BY <1>1, <1>2, <2>1 DEF Deleting, tracker
<1>3. CASE me.id < me.last /\ q \notin bits /\ Goto(w, "next", [me EXCEPT !.id = @ + 1]) /\ UNCHANGED tracker
  <2>1. OnlyAt(w) /\ Went(w, "next", [me EXCEPT !.id = @ + 1])
    BY <1>0, <1>3, GotoAt
  <2> QED BY <1>1, <1>3, <2>1 DEF Deleting, tracker
<1>4. CASE /\ me.id < me.last /\ q \in bits /\ Hand(w, q, [me EXCEPT !.id = @ + 1])
           /\ bits' = bits \ {q} /\ primary' = primary \ {me.id} /\ UNCHANGED made
  <2>1. OnlyAt(w) /\ Gave(w, q, [me EXCEPT !.id = @ + 1])
    BY <1>0, <1>4, HandAt
  <2> QED BY <1>1, <1>4, <2>1 DEF Deleting
<1> QED BY <1>1, <1>2, <1>3, <1>4

(* Write iterators.                                                        *)
LEMMA WriteKinds ==
  ASSUME TypeInv, NEW w \in Iter, WriteFetch(w) \/ WriteClaim(w)
  PROVE  setup' = setup /\ (Fetching(w) \/ Claiming(w))
<1> DEFINE me == it[w]
<1>0. TypeOK
  BY DEF TypeInv
<1>1. CASE WriteFetch(w)
  <2> DEFINE i == cursor \div Subs(Of(w))
             s == cursor % Subs(Of(w))
  <2>1. /\ pc[w] = "next" /\ hier /\ Of(w).mode = "write"
        /\ cursor' = IF Of(w).filter = "Set" THEN cursor ELSE (cursor + 1) % U
        /\ \/ (Of(w).filter = "Set" \/ i >= me.last) /\ NoMore(w)
           \/ Of(w).filter # "Set" /\ i < me.last /\ ~Contains(Of(w), i, s) /\ Goto(w, "next", me)
           \/ /\ Of(w).filter # "Set" /\ i < me.last /\ Contains(Of(w), i, s)
              /\ Goto(w, "claim", [me EXCEPT !.id = i, !.sub = s])
        /\ UNCHANGED <<setup, bits, made, primary, deleting, late, touched, changes>>
    BY <1>1 DEF WriteFetch, Subs, tracker
  <2>2. /\ OnlyAt(w)
        /\ \/ (Of(w).filter = "Set" \/ i >= me.last) /\ Went(w, "idle", [me EXCEPT !.ret = "none"])
           \/ Of(w).filter # "Set" /\ i < me.last /\ ~Contains(Of(w), i, s) /\ Went(w, "next", me)
           \/ /\ Of(w).filter # "Set" /\ i < me.last /\ Contains(Of(w), i, s)
              /\ Went(w, "claim", [me EXCEPT !.id = i, !.sub = s])
    <3> HIDE DEF i, s
    <3> QED BY <1>0, <2>1, GotoAt DEF NoMore
  <2> QED BY <2>1, <2>2 DEF Fetching
<1>2. CASE WriteClaim(w)
  <2> DEFINE p == <<me.id, me.sub>>
  <2>1. /\ pc[w] = "claim" /\ UNCHANGED <<setup, cursor, deleting, late, touched, changes>>
        /\ \/ /\ p[2] >= SubCapacity /\ Goto(w, "panicked", me)
              /\ made' = made \union {p[1]} /\ UNCHANGED <<bits, primary>>
           \/ /\ p \in bits /\ Of(w).filter = "Unset" /\ Goto(w, "next", me) /\ UNCHANGED <<bits, made, primary>>
           \/ (p \notin bits \/ Of(w).filter = "All") /\ Hand(w, p, me) /\ Insert(p[1], p[2])
    BY <1>2 DEF WriteClaim, tracker
  <2>2. p[1] = me.id /\ p[2] = me.sub /\ p = <<p[1], p[2]>>
    OBVIOUS
  <2> HIDE DEF p, me
  <2>3. CASE p[2] >= SubCapacity /\ Goto(w, "panicked", me) /\ made' = made \union {p[1]} /\ UNCHANGED <<bits, primary>>
    <3>1. OnlyAt(w) /\ Went(w, "panicked", me)
      BY <1>0, <2>3, GotoAt
    <3> QED BY <2>1, <2>3, <3>1 DEF Claiming, p, me
  <2>4. CASE p \in bits /\ Of(w).filter = "Unset" /\ Goto(w, "next", me) /\ UNCHANGED <<bits, made, primary>>
    <3>1. OnlyAt(w) /\ Went(w, "next", me)
      BY <1>0, <2>4, GotoAt
    <3> QED BY <2>1, <2>4, <3>1 DEF Claiming, p, me
  <2>5. CASE (p \notin bits \/ Of(w).filter = "All") /\ Hand(w, p, me) /\ Insert(p[1], p[2])
    <3>1. OnlyAt(w) /\ Gave(w, p, me)
      BY <1>0, <2>5, HandAt
    <3>2. /\ bits' = bits \union {p} /\ made' = made \union {p[1]}
          /\ primary' \in {primary, primary \union {p[1]}}
      BY <2>2, <2>5 DEF Insert
    <3> QED BY <2>1, <2>5, <3>1, <3>2 DEF Claiming, p, me
  <2> QED BY <2>1, <2>3, <2>4, <2>5
<1> QED BY <1>1, <1>2

(* Every step is of one of the kinds.                                      *)
LEMMA NextKinds ==
  ASSUME TypeInv, Next
  PROVE  setup' = setup /\ Kinds
<1>0. TypeOK
  BY DEF TypeInv
<1>1. ASSUME NEW w \in Iter, BuildIter(w)
      PROVE  setup' = setup /\ Kinds
  BY <1>1, BuildKinds DEF Kinds
<1>2. ASSUME NEW w \in Iter, Call(w)
      PROVE  setup' = setup /\ Kinds
  <2> DEFINE new == [it[w] EXCEPT !.calls = @ + 1, !.wasLate = Of(w).timed /\ late[w]]
             label == IF Of(w).mode = "random" THEN "random" ELSE "next"
  <2>1. /\ pc[w] = "idle" /\ it[w].calls < MaxCalls /\ pc' = [pc EXCEPT ![w] = label]
        /\ it' = [it EXCEPT ![w].calls = @ + 1, ![w].wasLate = Of(w).timed /\ late[w]]
        /\ UNCHANGED <<setup, tracker, cursor, deleting, given, late, touched, changes>>
    BY <1>2 DEF Call
  <2>2. it' = [it EXCEPT ![w] = new]
    BY <1>0, <2>1 DEF TypeOK, IterType
  <2> HIDE DEF new, label
  <2>3. OnlyAt(w) /\ Went(w, label, new)
    BY <1>0, <2>1, <2>2 DEF TypeOK, OnlyAt, Went, Same
  <2>4. Calling(w)
    BY <2>1, <2>3 DEF Calling, Called, new, label, Shared, tracker
  <2> QED BY <2>1, <2>4 DEF Kinds
<1>3. ASSUME NEW w \in Iter, Step(w)
      PROVE  setup' = setup /\ Kinds
  <2>1. CASE SequentialSimple(w) \/ SequentialHierarchical(w) \/ PartitionSimple(w) \/ PartitionHierarchical(w)
    BY <2>1, ReadKinds DEF Kinds
  <2>2. CASE RandomCheck(w) \/ RandomStep(w) \/ RandomPick(w)
    BY <2>2, RandomKinds DEF Kinds
  <2>3. CASE DeleteSimple(w)
    BY <2>3, DeleteKinds DEF Kinds
  <2>4. CASE WriteFetch(w) \/ WriteClaim(w)
    BY <2>4, WriteKinds DEF Kinds
  <2> QED BY <1>3, <2>1, <2>2, <2>3, <2>4 DEF Step
<1>4. ASSUME NEW w \in Iter, DropDelete(w)
      PROVE  setup' = setup /\ Kinds
  <2>1. /\ pc[w] = "idle" /\ Of(w).mode = "delete" /\ pc' = [pc EXCEPT ![w] = "gone"] /\ deleting' = FALSE
        /\ UNCHANGED <<setup, tracker, cursor, it, given, late, touched, changes>>
    BY <1>4 DEF DropDelete
  <2>2. OnlyAt(w) /\ Dropped(w)
    BY <1>0, <2>1 DEF TypeOK, OnlyAt, Dropped, Went, Same
  <2>3. Dropping(w)
    BY <2>1, <2>2 DEF Dropping, tracker
  <2> QED BY <2>1, <2>3 DEF Kinds
<1>5. ASSUME NEW w \in Iter, Expire(w)
      PROVE  setup' = setup /\ Kinds
  <2>1. late' = [late EXCEPT ![w] = TRUE] /\ UNCHANGED <<setup, tracker, cursor, deleting, pc, it, given, touched, changes>>
    BY <1>5 DEF Expire
  <2>2. Whole /\ \A v \in Iter : Same(v)
    BY <1>0, <2>1 DEF TypeOK, Whole, Same
  <2>3. Expiring
    BY <2>1, <2>2 DEF Expiring, tracker
  <2> QED BY <2>1, <2>3 DEF Kinds
<1>6. ASSUME BuildPartitioned
      PROVE  setup' = setup /\ Kinds
  BY <1>6, PartsBuilt DEF Kinds
<1>7. ASSUME NEW p \in Items, Add(p) \/ Remove(p)
      PROVE  setup' = setup /\ Kinds
  <2>1. /\ changes < MaxChanges /\ changes' = changes + 1 /\ UNCHANGED <<setup, cursor, deleting, pc, it, given, late>>
        /\ touched' = touched \union {p}
        /\ \/ /\ bits' = bits \union {p} /\ primary' = primary \union {p[1]}
              /\ made' = IF hier THEN made \union {p[1]} ELSE made
           \/ bits' = bits \ {p} /\ primary' = {q[1] : q \in bits'} /\ made' = made
    BY <1>7 DEF Add, Remove, Other
  <2>2. Whole /\ \A v \in Iter : Same(v)
    BY <1>0, <2>1 DEF TypeOK, Whole, Same
  <2>3. Changing
    BY <2>1, <2>2 DEF Changing
  <2> QED BY <2>1, <2>3 DEF Kinds
<1> QED BY <1>1, <1>2, <1>3, <1>4, <1>5, <1>6, <1>7 DEF Next

-----------------------------------------------------------------------------
(* Type correctness                                                        *)

(* What can happen to one iterator.                                        *)
OneMove(w) ==
  \/ Same(w) \/ BuiltNow(w) \/ Refused(w) \/ Called(w) \/ Dropped(w)
  \/ Reading(w) \/ Drawing(w) \/ Deleting(w) \/ Fetching(w) \/ Claiming(w)

(* A step is such a move of each.                                          *)
LEMMA OneMoves ==
  ASSUME Kinds
  PROVE  Whole /\ \A w \in Iter : OneMove(w)
<1>1. CASE Building \/ Changing \/ Expiring
  BY <1>1 DEF Building, Changing, Expiring, OneMove, OnlyAt, Whole
<1>2. ASSUME NEW w \in Iter,
             \/ Refusing(w) \/ Calling(w) \/ Dropping(w) \/ Reading(w)
             \/ Drawing(w) \/ Deleting(w) \/ Fetching(w) \/ Claiming(w)
      PROVE  Whole /\ \A v \in Iter : OneMove(v)
  <2>1. OnlyAt(w)
    BY <1>2 DEF Refusing, Calling, Dropping, Reading, Turned, Drawing, Deleting, Fetching, Claiming
  <2>2. OneMove(w)
    BY <1>2 DEF OneMove, Refusing, Calling, Dropping
  <2> QED BY <2>1, <2>2 DEF OnlyAt, Whole, OneMove
<1> QED BY <1>1, <1>2 DEF Kinds

Typed(w) == pc[w] \in Labels /\ it[w] \in IterType /\ given[w] \in Seq(Nat \X Nat)

(* An iterator that has gone on, or returned an item, is still typed.      *)
LEMMA WentTyped ==
  ASSUME NEW w \in Iter, NEW label \in Labels, NEW new \in IterType, Typed(w), Went(w, label, new)
  PROVE  Typed(w)'
BY DEF Typed, Went

(* So is one that has returned an item.                                    *)
LEMMA GaveTyped ==
  ASSUME NEW w \in Iter, NEW q \in Nat \X Nat, NEW new \in IterType, Typed(w), Gave(w, q, new)
  PROVE  Typed(w)'
<1>1. [new EXCEPT !.ret = "some", !.yielded = @ + 1] \in IterType
  <2> DEFINE y == new.yielded + 1
  <2>1. y \in Nat
    BY DEF IterType
  <2> HIDE DEF y
  <2>2. [new EXCEPT !.ret = "some", !.yielded = y] \in IterType
    BY <2>1 DEF IterType
  <2> QED BY <2>2 DEF y
<1>2. Append(given[w], q) \in Seq(Nat \X Nat)
  BY DEF Typed
<1> QED BY <1>1, <1>2 DEF Gave, Typed, Labels

(* What its fields are then.                                               *)
LEMMA GaveFields ==
  ASSUME NEW w \in Iter, NEW q, NEW new \in IterType, Gave(w, q, new)
  PROVE  /\ pc'[w] = "idle" /\ given'[w] = Append(given[w], q)
         /\ it'[w].id = new.id /\ it'[w].sub = new.sub /\ it'[w].last = new.last
         /\ it'[w].ret = "some" /\ it'[w].yielded = new.yielded + 1 /\ it'[w].wasLate = new.wasLate
BY DEF Gave, IterType

(* An iterator that has returned None.                                     *)
LEMMA NoneFields ==
  ASSUME NEW x \in IterType
  PROVE  LET y == [x EXCEPT !.ret = "none"]
         IN  /\ y \in IterType /\ y.ret = "none" /\ y.id = x.id /\ y.sub = x.sub
             /\ y.last = x.last /\ y.yielded = x.yielded /\ y.wasLate = x.wasLate
BY DEF IterType

(* A random iterator at another step.                                      *)
LEMMA StepFields ==
  ASSUME NEW x \in IterType, NEW n \in Nat
  PROVE  /\ LET y == [x EXCEPT !.step = n]
            IN  /\ y \in IterType /\ y.last = x.last /\ y.yielded = x.yielded
                /\ y.wasLate = x.wasLate /\ y.ret = x.ret
         /\ LET y == [x EXCEPT !.step = n, !.ret = "none"]
            IN  /\ y \in IterType /\ y.last = x.last /\ y.yielded = x.yielded
                /\ y.wasLate = x.wasLate /\ y.ret = "none"
BY DEF IterType

(* A random iterator at another step and id.                               *)
LEMMA PickFields ==
  ASSUME NEW x \in IterType, NEW n \in Nat, NEW i \in Nat
  PROVE  LET y == [x EXCEPT !.step = n, !.id = i]
         IN  /\ y \in IterType /\ y.last = x.last /\ y.yielded = x.yielded
             /\ y.wasLate = x.wasLate /\ y.ret = x.ret
BY DEF IterType

(* What building makes of an iterator.                                     *)
LEMMA BuiltAt ==
  ASSUME setup \in Setups, NEW w \in Iter, BuiltNow(w)
  PROVE  /\ pc'[w] = "idle" /\ given'[w] = given[w] /\ it'[w] \in IterType
         /\ it'[w].id = First(Of(w)) /\ it'[w].sub = Of(w).subLo /\ it'[w].last = End(Of(w))
         /\ it'[w].yielded = 0 /\ it'[w].ret = "fresh" /\ ~it'[w].wasLate
<1> DEFINE lo == First(Of(w))
           last == End(Of(w))
           s == Of(w).subLo
           x == it'[w]
<1>1. lo \in Nat /\ last \in Nat /\ s \in Nat
  BY SetupFacts, EndsFacts, BuildFields
<1>2. PICK offset \in Nat : Went(w, "idle", Built(Of(w), lo, last, offset))
  BY DEF BuiltNow
<1>3. pc'[w] = "idle" /\ given'[w] = given[w]
      /\ x = [Unbuilt EXCEPT !.id = lo, !.sub = s, !.last = last, !.offset = offset]
  BY <1>2 DEF Went, Built
<1> HIDE DEF lo, last, s, x
<1>4. x = [id |-> lo, sub |-> s, last |-> last, step |-> 0, offset |-> offset, yielded |-> 0,
           calls |-> 0, ret |-> "fresh", wasLate |-> FALSE]
  BY <1>3 DEF Unbuilt
<1>5. x \in IterType
  BY <1>1, <1>4, IterAssumption DEF IterType
<1>6. x.id = lo /\ x.sub = s /\ x.last = last /\ x.yielded = 0 /\ x.ret = "fresh" /\ ~x.wasLate
  BY <1>4
<1> QED BY <1>3, <1>5, <1>6 DEF x, lo, last, s

(* What a call makes of them.                                              *)
LEMMA CalledFields ==
  ASSUME NEW x \in IterType, x.calls < MaxCalls, NEW l \in BOOLEAN
  PROVE  /\ [x EXCEPT !.calls = @ + 1, !.wasLate = l] \in IterType
         /\ [x EXCEPT !.calls = @ + 1, !.wasLate = l].id = x.id /\ [x EXCEPT !.calls = @ + 1, !.wasLate = l].sub = x.sub
         /\ [x EXCEPT !.calls = @ + 1, !.wasLate = l].last = x.last
         /\ [x EXCEPT !.calls = @ + 1, !.wasLate = l].yielded = x.yielded
         /\ [x EXCEPT !.calls = @ + 1, !.wasLate = l].ret = x.ret
         /\ [x EXCEPT !.calls = @ + 1, !.wasLate = l].wasLate = l
<1>1. x.calls + 1 \in 0 .. MaxCalls
  BY IterAssumption DEF IterType
<1> QED BY <1>1 DEF IterType

(* The type invariant by its parts.                                        *)
LEMMA TypeParts ==
  TypeInv <=> /\ setup \in Setups
              /\ bits \subseteq Nat \X Nat /\ touched \subseteq Nat \X Nat
              /\ made \subseteq Nat /\ primary \subseteq Nat
              /\ cursor \in 0 .. U - 1 /\ deleting \in BOOLEAN /\ late \in [Iter -> BOOLEAN]
              /\ changes \in 0 .. MaxChanges
              /\ pc = [v \in Iter |-> pc[v]] /\ it = [v \in Iter |-> it[v]] /\ given = [v \in Iter |-> given[v]]
              /\ \A w \in Iter : Typed(w) /\ Shape(w)
BY DEF TypeInv, TypeOK, Typed, Labels

(* The shape of an iterator that has not gone anywhere special.            *)
LEMMA PlainShape ==
  ASSUME NEW w \in Iter, setup' = setup, pc'[w] \in {"idle", "next"}, it'[w].last = End(Of(w))
  PROVE  Shape(w)'
<1>1. End(Of(w))' = End(Of(w))
  BY DEF End, PartRange, Last, Size, Of, CeilDiv, Smaller, Larger
<1> QED BY <1>1 DEF Shape, BuiltOnes

(* An iterator that is neither unbuilt nor refused is built.               *)
LEMMA LastOf ==
  ASSUME TypeInv, NEW w \in Iter, pc[w] \notin {"unbuilt", "refused"}
  PROVE  it[w].last = End(Of(w))
BY DEF TypeInv, Shape, BuiltOnes

(* A reader stays typed.                                                   *)
LEMMA TurnTyped ==
  ASSUME TypeInv, NEW w \in Iter, setup' = setup, Reading(w)
  PROVE  Typed(w)' /\ Shape(w)'
<1> DEFINE me == it[w]
           b == Of(w)
<1>0. Typed(w) /\ me \in IterType /\ b \in Build /\ w \in Readers /\ pc[w] \in {"next", "sub"} /\ me.last = End(b)
  BY SetupFacts, TypeParts, LastOf DEF Typed, TypeInv, Reading
<1>1. b.lo \in Nat /\ b.subLo \in Nat
  BY <1>0, BuildFields
<1>2. hier' = hier /\ Readers' = Readers /\ End(b)' = End(b)
  BY DEF hier, Readers, Of, End, PartRange, Last, Size, CeilDiv, Smaller, Larger
<1>3. Rewound(w) \/ Ended(w) \/ Moved(w) \/ Returned(w)
  BY DEF Reading, Turned
<1> HIDE DEF b
<1>4. CASE Rewound(w)
  <2> DEFINE new == [me EXCEPT !.id = b.lo, !.sub = b.subLo]
  <2>1. Went(w, "next", new)
    BY <1>4 DEF Rewound, b
  <2>2. new \in IterType /\ new.last = me.last
    BY <1>0, <1>1 DEF IterType
  <2> HIDE DEF new
  <2>3. Typed(w)'
    BY <1>0, <2>1, <2>2, WentTyped DEF Labels, Running
  <2>4. pc'[w] = "next" /\ it'[w].last = End(b)
    BY <1>0, <2>1, <2>2 DEF Went
  <2> QED BY <2>3, <2>4, PlainShape DEF b
<1>5. CASE Ended(w)
  <2> DEFINE new == [me EXCEPT !.ret = "none"]
  <2>1. Went(w, "idle", new)
    BY <1>5 DEF Ended
  <2>2. new \in IterType /\ new.last = me.last
    BY <1>0, NoneFields
  <2> HIDE DEF new
  <2>3. Typed(w)'
    BY <1>0, <2>1, <2>2, WentTyped DEF Labels, Running
  <2>4. pc'[w] = "idle" /\ it'[w].last = End(b)
    BY <1>0, <2>1, <2>2 DEF Went
  <2> QED BY <2>3, <2>4, PlainShape DEF b
<1>6. CASE Moved(w)
  <2>1. PICK i \in Nat, s \in Nat, label \in {"next", "sub"} :
          /\ Went(w, label, [me EXCEPT !.id = i, !.sub = s])
          /\ label = "sub" => hier /\ i = me.id /\ i < me.last
    BY <1>6 DEF Moved
  <2> DEFINE new == [me EXCEPT !.id = i, !.sub = s]
  <2>2. new \in IterType /\ new.last = me.last /\ new.id = i
    BY <1>0 DEF IterType
  <2>3. Went(w, label, new)
    BY <2>1
  <2> HIDE DEF new
  <2>4. Typed(w)'
    BY <1>0, <2>2, <2>3, WentTyped DEF Labels, Running
  <2>5. pc'[w] = label /\ it'[w].last = End(b) /\ it'[w].id = i
    BY <1>0, <2>2, <2>3 DEF Went
  <2>6. CASE label = "next"
    BY <2>4, <2>5, <2>6, PlainShape DEF b
  <2>7. CASE label = "sub"
    <3>1. it'[w].id < it'[w].last
      BY <1>0, <2>1, <2>5, <2>7
    <3> QED BY <1>0, <1>2, <2>1, <2>4, <2>5, <2>7, <3>1 DEF Shape, b, BuiltOnes, Of
  <2> QED BY <2>6, <2>7
<1>7. CASE Returned(w)
  <2>1. PICK i \in Nat, s \in Nat, q \in Places : Gave(w, q, [me EXCEPT !.id = i, !.sub = s])
    BY <1>7 DEF Returned
  <2> DEFINE new == [me EXCEPT !.id = i, !.sub = s]
  <2>2. new \in IterType /\ new.last = me.last
    BY <1>0 DEF IterType
  <2>3. Gave(w, q, new) /\ q \in Nat \X Nat
    BY <2>1 DEF Places
  <2> HIDE DEF new
  <2>4. Typed(w)'
    BY <1>0, <2>2, <2>3, GaveTyped
  <2>5. pc'[w] = "idle" /\ it'[w].last = End(b)
    BY <1>0, <2>2, <2>3, GaveFields
  <2> QED BY <2>4, <2>5, PlainShape DEF b
<1> QED BY <1>3, <1>4, <1>5, <1>6, <1>7

(* A random iterator stays typed.                                          *)
LEMMA DrawTyped ==
  ASSUME TypeInv, NEW w \in Iter, setup' = setup, Drawing(w)
  PROVE  Typed(w)' /\ Shape(w)'
<1> DEFINE me == it[w]
           b == Of(w)
<1>0. /\ Typed(w) /\ me \in IterType /\ b \in Build /\ pc[w] \in {"random", "next", "pick"} /\ me.last = End(b)
      /\ b.mode = "random" /\ me.id \in Nat
  BY SetupFacts, TypeParts, LastOf, IterFields DEF Typed, TypeInv, Drawing
<1>1. End(b)' = End(b) /\ Of(w)' = Of(w)
  BY DEF Of, End, PartRange, Last, Size, CeilDiv, Smaller, Larger
<1> HIDE DEF b
<1>2. ASSUME NEW label \in {"idle", "next", "pick"}, NEW new \in IterType, Went(w, label, new), new.last = me.last
      PROVE  Typed(w)' /\ Shape(w)'
  <2>1. Typed(w)'
    BY <1>0, <1>2, WentTyped DEF Labels, Running
  <2>2. pc'[w] = label /\ it'[w].last = End(b)
    BY <1>0, <1>2 DEF Went
  <2>3. CASE label # "pick"
    BY <2>1, <2>2, <2>3, PlainShape DEF b
  <2>4. CASE label = "pick"
    BY <1>0, <1>1, <2>1, <2>2, <2>4 DEF Shape, b, BuiltOnes
  <2> QED BY <2>3, <2>4
<1>3. ASSUME NEW q \in Nat \X Nat, NEW new \in IterType, Gave(w, q, new), new.last = me.last
      PROVE  Typed(w)' /\ Shape(w)'
  <2>1. Typed(w)'
    BY <1>0, <1>3, GaveTyped
  <2>2. pc'[w] = "idle" /\ it'[w].last = End(b)
    BY <1>0, <1>3, GaveFields
  <2> QED BY <2>1, <2>2, PlainShape DEF b
<1>4. \/ pc[w] = "random" /\ check_limit(w) /\ Went(w, "next", it[w])
      \/ pc[w] = "random" /\ Went(w, "idle", [it[w] EXCEPT !.ret = "none"])
      \/ /\ pc[w] = "next"
         /\ \E n \in Nat : \/ Went(w, "idle", [it[w] EXCEPT !.step = n, !.ret = "none"])
                           \/ Went(w, "next", [it[w] EXCEPT !.step = n])
                           \/ \E i \in Nat : \/ Went(w, "pick", [it[w] EXCEPT !.step = n, !.id = i])
                                             \/ Gave(w, <<i, 0>>, [it[w] EXCEPT !.step = n])
      \/ pc[w] = "pick" /\ \E s \in Nat : Gave(w, <<it[w].id, s>>, it[w])
  BY DEF Drawing
<1> HIDE DEF me
<1>5. ASSUME NEW n \in Nat, NEW i \in Nat
      PROVE  /\ [me EXCEPT !.ret = "none"] \in IterType /\ [me EXCEPT !.ret = "none"].last = me.last
             /\ [me EXCEPT !.step = n, !.ret = "none"] \in IterType /\ [me EXCEPT !.step = n, !.ret = "none"].last = me.last
             /\ [me EXCEPT !.step = n] \in IterType /\ [me EXCEPT !.step = n].last = me.last
             /\ [me EXCEPT !.step = n, !.id = i] \in IterType /\ [me EXCEPT !.step = n, !.id = i].last = me.last
  BY <1>0, NoneFields, StepFields, PickFields
<1>6. CASE Went(w, "next", me)
  BY <1>0, <1>2, <1>6
<1>7. CASE Went(w, "idle", [me EXCEPT !.ret = "none"])
  <2>1. 0 \in Nat
    OBVIOUS
  <2> QED BY <1>2, <1>5, <1>7, <2>1
<1>8. ASSUME NEW n \in Nat, Went(w, "idle", [me EXCEPT !.step = n, !.ret = "none"])
      PROVE  Typed(w)' /\ Shape(w)'
  BY <1>2, <1>5, <1>8
<1>9. ASSUME NEW n \in Nat, Went(w, "next", [me EXCEPT !.step = n])
      PROVE  Typed(w)' /\ Shape(w)'
  BY <1>2, <1>5, <1>9
<1>10. ASSUME NEW n \in Nat, NEW i \in Nat, Went(w, "pick", [me EXCEPT !.step = n, !.id = i])
      PROVE  Typed(w)' /\ Shape(w)'
  BY <1>2, <1>5, <1>10
<1>11. ASSUME NEW n \in Nat, NEW i \in Nat, Gave(w, <<i, 0>>, [me EXCEPT !.step = n])
      PROVE  Typed(w)' /\ Shape(w)'
  BY <1>3, <1>5, <1>11
<1>12. ASSUME NEW s \in Nat, Gave(w, <<me.id, s>>, me)
      PROVE  Typed(w)' /\ Shape(w)'
  BY <1>0, <1>3, <1>12
<1> QED BY <1>4, <1>6, <1>7, <1>8, <1>9, <1>10, <1>11, <1>12 DEF me

(* A deleter stays typed.                                                  *)
LEMMA DeleteTyped ==
  ASSUME TypeInv, NEW w \in Iter, setup' = setup, Deleting(w)
  PROVE  Typed(w)' /\ Shape(w)'
<1> DEFINE me == it[w]
           there == [me EXCEPT !.id = @ + 1]
           none == [me EXCEPT !.ret = "none"]
<1>0. /\ Typed(w) /\ me \in IterType /\ me.last = End(Of(w)) /\ me.id \in Nat
  BY TypeParts, LastOf, IterFields DEF Typed, TypeInv, Deleting
<1>1. /\ there \in IterType /\ there.last = me.last /\ none \in IterType /\ none.last = me.last
  BY <1>0 DEF IterType
<1>2. Went(w, "idle", none) \/ Went(w, "next", there) \/ Gave(w, <<me.id, 0>>, there)
  BY DEF Deleting
<1> HIDE DEF there, none
<1>3. CASE Went(w, "idle", none)
  <2>1. Typed(w)'
    BY <1>0, <1>1, <1>3, WentTyped DEF Labels, Running
  <2>2. pc'[w] = "idle" /\ it'[w].last = End(Of(w))
    BY <1>0, <1>1, <1>3 DEF Went
  <2> QED BY <2>1, <2>2, PlainShape
<1>4. CASE Went(w, "next", there)
  <2>1. Typed(w)'
    BY <1>0, <1>1, <1>4, WentTyped DEF Labels, Running
  <2>2. pc'[w] = "next" /\ it'[w].last = End(Of(w))
    BY <1>0, <1>1, <1>4 DEF Went
  <2> QED BY <2>1, <2>2, PlainShape
<1>5. CASE Gave(w, <<me.id, 0>>, there)
  <2>1. Typed(w)'
    BY <1>0, <1>1, <1>5, GaveTyped
  <2>2. pc'[w] = "idle" /\ it'[w].last = End(Of(w))
    BY <1>0, <1>1, <1>5, GaveFields
  <2> QED BY <2>1, <2>2, PlainShape
<1> QED BY <1>2, <1>3, <1>4, <1>5

(* What a writer divides the cursor by.                                    *)
LEMMA SubsType ==
  ASSUME NEW b \in Build
  PROVE  Subs(b) \in Nat \ {0}
<1>1. b.subHi \in Nat /\ MaxSub \in Nat
  BY BuildFields, IterAssumption
<1> QED BY <1>1 DEF Subs, Larger, Smaller

(* A writer stays typed when it takes the next pair, ...                   *)
LEMMA FetchTyped ==
  ASSUME TypeInv, NEW w \in Iter, setup' = setup, Fetching(w)
  PROVE  Typed(w)' /\ Shape(w)'
<1> DEFINE me == it[w]
           i == cursor \div Subs(Of(w))
           s == cursor % Subs(Of(w))
           none == [me EXCEPT !.ret = "none"]
           at == [me EXCEPT !.id = i, !.sub = s]
<1>0. /\ Typed(w) /\ me \in IterType /\ me.last = End(Of(w)) /\ Of(w) \in Build /\ cursor \in Nat
      /\ hier /\ Of(w).mode = "write"
  <2>1. hier /\ Of(w).mode = "write" /\ pc[w] = "next"
    BY DEF Fetching
  <2>2. me.last = End(Of(w))
    BY <2>1, LastOf
  <2>3. Typed(w) /\ cursor \in 0 .. U - 1 /\ setup \in Setups
    BY TypeParts
  <2> QED BY <2>1, <2>2, <2>3, SetupFacts, IterAssumption DEF Typed
<1>1. i \in Nat /\ s \in Nat
  <2>1. Subs(Of(w)) \in Nat \ {0}
    BY <1>0, SubsType
  <2> QED BY <1>0, <2>1, Divided
<1>2. \/ Went(w, "idle", none) \/ Went(w, "next", me)
      \/ Went(w, "claim", at) /\ Contains(Of(w), i, s) /\ Of(w).filter # "Set" /\ i < me.last
  BY DEF Fetching
<1> HIDE DEF i, s
<1>3. /\ none \in IterType /\ none.last = me.last /\ at \in IterType /\ at.last = me.last /\ at.id = i /\ at.sub = s
  BY <1>0, <1>1 DEF IterType
<1> HIDE DEF none, at
<1>4. CASE Went(w, "idle", none)
  <2>1. Typed(w)'
    BY <1>0, <1>3, <1>4, WentTyped DEF Labels, Running
  <2>2. pc'[w] = "idle" /\ it'[w].last = End(Of(w))
    BY <1>0, <1>3, <1>4 DEF Went
  <2> QED BY <2>1, <2>2, PlainShape
<1>5. CASE Went(w, "next", me)
  <2>1. Typed(w)'
    BY <1>0, <1>3, <1>5, WentTyped DEF Labels, Running
  <2>2. pc'[w] = "next" /\ it'[w].last = End(Of(w))
    BY <1>0, <1>5 DEF Went
  <2> QED BY <2>1, <2>2, PlainShape
<1>6. CASE Went(w, "claim", at) /\ Contains(Of(w), i, s) /\ Of(w).filter # "Set" /\ i < me.last
  <2>1. Typed(w)'
    BY <1>0, <1>3, <1>6, WentTyped DEF Labels, Running
  <2>2. pc'[w] = "claim" /\ it'[w].last = End(Of(w)) /\ it'[w].id = i /\ it'[w].sub = s
        /\ it'[w].id < it'[w].last
    BY <1>0, <1>3, <1>6 DEF Went
  <2>3. Of(w)' = Of(w) /\ End(Of(w))' = End(Of(w)) /\ hier'
    BY <1>0 DEF Of, End, PartRange, Last, Size, CeilDiv, Smaller, Larger, hier
  <2>4. Contains(Of(w), it'[w].id, it'[w].sub)
    BY <1>6, <2>2
  <2>5. Contains(Of(w), it[w].id, it[w].sub)'
    BY <2>3, <2>4 DEF Contains
  <2> QED BY <1>0, <1>6, <2>1, <2>2, <2>3, <2>5 DEF Shape, BuiltOnes
<1> QED BY <1>2, <1>4, <1>5, <1>6

(* ... and when it claims it.                                              *)
LEMMA ClaimTyped ==
  ASSUME TypeInv, NEW w \in Iter, setup' = setup, Claiming(w)
  PROVE  Typed(w)' /\ Shape(w)'
<1> DEFINE me == it[w]
<1>0. /\ Typed(w) /\ me \in IterType /\ me.last = End(Of(w)) /\ me.id \in Nat /\ me.sub \in Nat
      /\ Of(w).mode = "write"
  BY TypeParts, LastOf, IterFields DEF Typed, TypeInv, Claiming, Shape
<1>1. Went(w, "panicked", me) \/ Went(w, "next", me) \/ Gave(w, <<me.id, me.sub>>, me)
  BY DEF Claiming
<1>2. CASE Went(w, "panicked", me)
  <2>1. Typed(w)'
    BY <1>0, <1>2, WentTyped DEF Labels
  <2>2. pc'[w] = "panicked" /\ it'[w].last = End(Of(w))
    BY <1>0, <1>2 DEF Went
  <2>3. Of(w)' = Of(w) /\ End(Of(w))' = End(Of(w))
    BY DEF Of, End, PartRange, Last, Size, CeilDiv, Smaller, Larger
  <2> QED BY <1>0, <2>1, <2>2, <2>3 DEF Shape, BuiltOnes
<1>3. CASE Went(w, "next", me)
  <2>1. Typed(w)'
    BY <1>0, <1>3, WentTyped DEF Labels, Running
  <2>2. pc'[w] = "next" /\ it'[w].last = End(Of(w))
    BY <1>0, <1>3 DEF Went
  <2> QED BY <2>1, <2>2, PlainShape
<1>4. CASE Gave(w, <<me.id, me.sub>>, me)
  <2>1. Typed(w)'
    BY <1>0, <1>4, GaveTyped
  <2>2. pc'[w] = "idle" /\ it'[w].last = End(Of(w))
    BY <1>0, <1>4, GaveFields
  <2> QED BY <2>1, <2>2, PlainShape
<1> QED BY <1>1, <1>2, <1>3, <1>4

(* Whatever happens to an iterator, it stays typed.                        *)
LEMMA OneTyped ==
  ASSUME TypeInv, NEW w \in Iter, setup' = setup, OneMove(w)
  PROVE  Typed(w)' /\ Shape(w)'
<1>0. Typed(w) /\ Shape(w) /\ Of(w) \in Build
  BY TypeParts, SetupFacts DEF TypeInv
<1>1. Of(w)' = Of(w) /\ End(Of(w))' = End(Of(w)) /\ hier' = hier /\ Readers' = Readers
  BY DEF Of, End, PartRange, Last, Size, CeilDiv, Smaller, Larger, hier, Readers
<1>2. CASE Same(w)
  BY <1>0, <1>1, <1>2 DEF Same, Typed, Shape, BuiltOnes, Contains
<1>3. CASE BuiltNow(w)
  <2>1. pc'[w] = "idle" /\ given'[w] = given[w] /\ it'[w] \in IterType /\ it'[w].last = End(Of(w))
    BY <1>3, BuiltAt DEF TypeInv
  <2>2. Typed(w)'
    BY <1>0, <2>1 DEF Typed, Labels
  <2> QED BY <2>1, <2>2, PlainShape
<1>4. CASE Refused(w)
  <2>1. Typed(w)'
    BY <1>0, <1>4, WentTyped DEF Labels, Refused, Typed
  <2>2. pc[w] = "unbuilt" /\ Of(w).mode = "delete" /\ pc'[w] = "refused" /\ it'[w] = it[w] /\ given'[w] = given[w]
    BY <1>4 DEF Refused, Went
  <2> QED BY <1>0, <1>1, <2>1, <2>2 DEF Shape, BuiltOnes
<1>5. CASE Called(w)
  <2> DEFINE l == Of(w).timed /\ late[w]
             new == [it[w] EXCEPT !.calls = @ + 1, !.wasLate = l]
             label == IF Of(w).mode = "random" THEN "random" ELSE "next"
  <2>1. Went(w, label, new) /\ it[w].calls < MaxCalls /\ pc[w] = "idle"
    BY <1>5 DEF Called
  <2>2. l \in BOOLEAN /\ it[w] \in IterType
    BY <1>0 DEF Typed
  <2> HIDE DEF l
  <2>3. new \in IterType /\ new.last = it[w].last
    BY <2>1, <2>2, CalledFields
  <2> HIDE DEF new
  <2>4. label \in Labels
    BY DEF Labels, Running
  <2>5. Typed(w)'
    BY <1>0, <2>1, <2>3, <2>4, WentTyped
  <2>6. pc'[w] = label /\ it'[w].last = End(Of(w))
    BY <1>0, <2>1, <2>3 DEF Went, Shape, BuiltOnes
  <2>7. CASE label = "next"
    BY <2>5, <2>6, <2>7, PlainShape
  <2>8. CASE label = "random"
    <3>1. Of(w).mode = "random"
      BY <2>8
    <3> QED BY <1>1, <2>5, <2>6, <2>8, <3>1 DEF Shape, BuiltOnes
  <2> QED BY <2>7, <2>8
<1>6. CASE Dropped(w)
  <2>1. Typed(w)'
    BY <1>0, <1>6, WentTyped DEF Labels, Dropped, Typed
  <2>2. pc[w] = "idle" /\ Of(w).mode = "delete" /\ pc'[w] = "gone" /\ it'[w] = it[w] /\ given'[w] = given[w]
    BY <1>6 DEF Dropped, Went
  <2> QED BY <1>0, <1>1, <2>1, <2>2 DEF Shape, BuiltOnes
<1> QED BY <1>2, <1>3, <1>4, <1>5, <1>6, TurnTyped, DrawTyped, DeleteTyped, FetchTyped, ClaimTyped DEF OneMove

(* It holds at first.                                                      *)
LEMMA TypeInit ==
  ASSUME Init
  PROVE  TypeInv
<1>1. setup \in Setups /\ setup.start \subseteq Nat \X Nat /\ hier \in BOOLEAN
  BY SetupFacts DEF Init
<1>2. /\ bits \subseteq Nat \X Nat /\ primary \subseteq Nat /\ made \subseteq Nat /\ touched \subseteq Nat \X Nat
      /\ cursor \in 0 .. U - 1 /\ deleting \in BOOLEAN /\ late \in [Iter -> BOOLEAN] /\ changes \in 0 .. MaxChanges
  <2>1. bits \subseteq Nat \X Nat
    BY <1>1 DEF Init
  <2>2. primary \subseteq Nat
    BY <2>1 DEF Init
  <2>3. made \subseteq Nat
    BY <2>2 DEF Init
  <2>4. touched = {} /\ cursor = 0 /\ deleting = FALSE /\ late = [w \in Iter |-> FALSE] /\ changes = 0
    BY DEF Init
  <2>5. cursor \in 0 .. U - 1 /\ changes \in 0 .. MaxChanges
    BY <2>4, IterAssumption
  <2> QED BY <2>1, <2>2, <2>3, <2>4, <2>5
<1>3. Unbuilt \in IterType
  BY IterAssumption DEF Unbuilt, IterType
<1>4. /\ pc = [v \in Iter |-> pc[v]] /\ it = [v \in Iter |-> it[v]] /\ given = [v \in Iter |-> given[v]]
      /\ \A w \in Iter : pc[w] = "unbuilt" /\ it[w] = Unbuilt /\ given[w] = <<>>
  BY DEF Init
<1>5. \A w \in Iter : Typed(w) /\ Shape(w)
  <2>1. \A w \in Iter : Typed(w)
    <3>1. <<>> \in Seq(Nat \X Nat)
      OBVIOUS
    <3> QED BY <1>3, <1>4, <3>1 DEF Typed, Labels
  <2>2. \A w \in Iter : Shape(w)
    BY <1>4 DEF Shape, BuiltOnes
  <2> QED BY <2>1, <2>2
<1> QED BY <1>1, <1>2, <1>4, <1>5, TypeParts

(* Every step keeps it.                                                    *)
LEMMA TypeStep ==
  ASSUME TypeInv, [Next]_vars
  PROVE  TypeInv'
<1>0. /\ setup \in Setups /\ bits \subseteq Nat \X Nat /\ touched \subseteq Nat \X Nat
      /\ made \subseteq Nat /\ primary \subseteq Nat
      /\ cursor \in 0 .. U - 1 /\ deleting \in BOOLEAN /\ late \in [Iter -> BOOLEAN] /\ changes \in 0 .. MaxChanges
  BY TypeParts
<1>1. CASE UNCHANGED vars
  <2>1. /\ setup' = setup /\ bits' = bits /\ touched' = touched /\ made' = made /\ primary' = primary
        /\ cursor' = cursor /\ deleting' = deleting /\ late' = late /\ changes' = changes
        /\ pc' = pc /\ it' = it /\ given' = given
    BY <1>1 DEF vars
  <2>2. \A w \in Iter : Typed(w)' /\ Shape(w)'
    BY <2>1, OneTyped DEF OneMove, Same
  <2>3. /\ pc' = [v \in Iter |-> pc'[v]] /\ it' = [v \in Iter |-> it'[v]] /\ given' = [v \in Iter |-> given'[v]]
    BY <2>1, TypeParts
  <2> QED BY <1>0, <2>1, <2>2, <2>3 DEF TypeInv, TypeOK, Typed, Labels
<1>2. CASE Next
  <2>1. setup' = setup /\ Kinds
    BY <1>2, NextKinds
  <2>2. Whole /\ \A w \in Iter : Typed(w)' /\ Shape(w)'
    BY <2>1, OneMoves, OneTyped
  <2>3. /\ bits' \subseteq Nat \X Nat /\ touched' \subseteq Nat \X Nat /\ made' \subseteq Nat /\ primary' \subseteq Nat
        /\ cursor' \in 0 .. U - 1 /\ deleting' \in BOOLEAN /\ late' \in [Iter -> BOOLEAN] /\ changes' \in 0 .. MaxChanges
    <3>1. CASE Building
      <4>1. cursor' \in {0, cursor} /\ deleting' \in {deleting, TRUE} /\ UNCHANGED <<bits, made, primary, late, touched, changes>>
        BY <3>1 DEF Building
      <4>2. cursor' \in 0 .. U - 1
        BY <1>0, <4>1, IterAssumption
      <4> QED BY <1>0, <4>1, <4>2
    <3>2. CASE Changing
      <4>1. Items \subseteq Nat \X Nat
        BY IterAssumption DEF Items, Smaller
      <4>2. PICK p \in Items :
               /\ touched' = touched \union {p}
               /\ \/ /\ bits' = bits \union {p} /\ primary' = primary \union {p[1]}
                     /\ made' = IF hier THEN made \union {p[1]} ELSE made
                  \/ bits' = bits \ {p} /\ primary' = {q[1] : q \in bits'} /\ made' = made
        BY <3>2 DEF Changing
      <4>3. p \in Nat \X Nat /\ p[1] \in Nat
        BY <4>1
      <4>4. bits' \subseteq Nat \X Nat /\ touched' \subseteq Nat \X Nat /\ made' \subseteq Nat
        BY <1>0, <4>2, <4>3
      <4>5. primary' \subseteq Nat
        <5> DEFINE B == bits'
        <5>1. B \subseteq Nat \X Nat
          BY <4>4
        <5> HIDE DEF B
        <5>2. {q[1] : q \in B} \subseteq Nat
          BY <5>1
        <5>3. primary' = primary \union {p[1]} \/ primary' = {q[1] : q \in B}
          BY <4>2 DEF B
        <5> QED BY <1>0, <4>3, <5>2, <5>3
      <4>6. UNCHANGED <<cursor, deleting, late>> /\ changes' \in 0 .. MaxChanges
        BY <1>0, <3>2, IterAssumption DEF Changing
      <4> QED BY <1>0, <4>4, <4>5, <4>6
    <3>3. CASE Expiring
      BY <1>0, <3>3 DEF Expiring
    <3>4. ASSUME NEW w \in Iter, Refusing(w) \/ Calling(w) \/ Dropping(w) \/ Reading(w) \/ Drawing(w)
          PROVE  /\ UNCHANGED <<bits, touched, made, primary, cursor, late, changes>> /\ deleting' \in {deleting, FALSE}
      BY <3>4 DEF Refusing, Calling, Dropping, Reading, Drawing, Shared
    <3>5. ASSUME NEW w \in Iter, Deleting(w)
          PROVE  /\ UNCHANGED <<touched, made, cursor, deleting, late, changes>>
                 /\ bits' \subseteq bits /\ primary' \subseteq primary
      BY <3>5 DEF Deleting
    <3>6. ASSUME NEW w \in Iter, Fetching(w)
          PROVE  /\ UNCHANGED <<bits, made, primary, deleting, late, touched, changes>> /\ cursor' \in 0 .. U - 1
      BY <1>0, <3>6, IterAssumption DEF Fetching
    <3>7. ASSUME NEW w \in Iter, Claiming(w)
          PROVE  /\ UNCHANGED <<cursor, deleting, late, touched, changes>>
                 /\ bits' \subseteq Nat \X Nat /\ made' \subseteq Nat /\ primary' \subseteq Nat
      <4>1. it[w].id \in Nat /\ it[w].sub \in Nat
        BY IterFields DEF TypeInv
      <4> DEFINE p == <<it[w].id, it[w].sub>>
      <4>2. p \in Nat \X Nat /\ p[1] \in Nat
        BY <4>1
      <4>3. UNCHANGED <<cursor, deleting, late, touched, changes>>
        BY <3>7 DEF Claiming
      <4>4. /\ bits' \in {bits, bits \union {p}} /\ made' \in {made, made \union {p[1]}}
            /\ primary' \in {primary, primary \union {p[1]}}
        BY <3>7 DEF Claiming
      <4> HIDE DEF p
      <4> QED BY <1>0, <4>2, <4>3, <4>4
    <3> QED BY <1>0, <2>1, <3>1, <3>2, <3>3, <3>4, <3>5, <3>6, <3>7 DEF Kinds
  <2>4. setup' \in Setups
    BY <1>0, <2>1
  <2>5. pc' \in [Iter -> Labels] /\ it' \in [Iter -> IterType] /\ given' \in [Iter -> Seq(Nat \X Nat)]
    BY <2>2 DEF Whole, Typed
  <2> QED BY <2>2, <2>3, <2>4, <2>5 DEF TypeInv, TypeOK, Labels
<1> QED BY <1>1, <1>2

(* The types hold.                                                         *)
THEOREM TypeCorrect == Spec => []TypeOK
<1>1. TypeInv => TypeOK
  BY DEF TypeInv
<1> QED BY <1>1, TypeInit, TypeStep, PTL DEF Spec

-----------------------------------------------------------------------------
(* What readers return                                                     *)

Kept(w) == /\ it'[w].yielded = it[w].yielded /\ it'[w].wasLate = it[w].wasLate /\ given'[w] = given[w]

(* A turn of a reader by the fields of the iterator.                       *)
Rewinds(w) == Wraps(Of(w)) /\ pc'[w] = "next" /\ it'[w].id = Of(w).lo /\ it'[w].sub = Of(w).subLo /\ Kept(w)
Ends(w) ==
  /\ pc'[w] = "idle" /\ it'[w].id = it[w].id /\ it'[w].sub = it[w].sub /\ it'[w].ret = "none" /\ Kept(w)
  /\ ~check_limit(w) \/ \A p \in Places : it[w].id <= p[1] /\ p[1] < it[w].last => Passed(w, p)
Moves(w) ==
  /\ pc'[w] \in {"next", "sub"} /\ it[w].id <= it'[w].id /\ Kept(w)
  /\ it'[w].sub >= it[w].sub \/ it'[w].sub = Of(w).subLo
  /\ \A p \in Places : /\ Before(p, it[w].id, it[w].sub) => Before(p, it'[w].id, it'[w].sub)
                       /\ Before(p, it'[w].id, it'[w].sub) /\ ~Before(p, it[w].id, it[w].sub) => Passed(w, p)
Hands(w, q) ==
  /\ pc'[w] = "idle" /\ it'[w].ret = "some" /\ it'[w].wasLate = it[w].wasLate
  /\ it'[w].yielded = it[w].yielded + 1 /\ given'[w] = Append(given[w], q) /\ check_limit(w)
  /\ it[w].id <= it'[w].id /\ it'[w].sub >= it[w].sub
  /\ it[w].id <= q[1] /\ q[1] < it[w].last /\ (hier => it[w].sub <= q[2] /\ q[2] < SubEnd(Of(w)))
  /\ Before(q, it'[w].id, it'[w].sub) /\ ~Before(q, it[w].id, it[w].sub)
  /\ \A p \in Places : /\ Before(p, it[w].id, it[w].sub) => Before(p, it'[w].id, it'[w].sub)
                       /\ Before(p, it'[w].id, it'[w].sub) /\ ~Before(p, it[w].id, it[w].sub) => p = q \/ Passed(w, p)

(* A turn of a reader is one of these.                                     *)
LEMMA TurnFields ==
  ASSUME TypeInv, NEW w \in Iter, Reading(w)
  PROVE  Rewinds(w) \/ Ends(w) \/ Moves(w) \/ \E q \in Places : Hands(w, q)
<1> DEFINE me == it[w]
           b == Of(w)
<1>0. me \in IterType /\ b \in Build
  BY SetupFacts, TypeParts DEF Typed, TypeInv
<1>1. b.lo \in Nat /\ b.subLo \in Nat
  BY <1>0, BuildFields
<1>2. Rewound(w) \/ Ended(w) \/ Moved(w) \/ Returned(w)
  BY DEF Reading, Turned
<1> HIDE DEF b
<1>3. CASE Rewound(w)
  <2>1. pc'[w] = "next" /\ it'[w] = [me EXCEPT !.id = b.lo, !.sub = b.subLo] /\ given'[w] = given[w] /\ Wraps(b)
    BY <1>3 DEF Rewound, b, Went
  <2>2. it'[w].id = b.lo /\ it'[w].sub = b.subLo /\ it'[w].yielded = me.yielded /\ it'[w].wasLate = me.wasLate
    BY <1>0, <2>1 DEF IterType
  <2> QED BY <2>1, <2>2 DEF Rewinds, Kept, b
<1>4. CASE Ended(w)
  <2>1. pc'[w] = "idle" /\ it'[w] = [me EXCEPT !.ret = "none"] /\ given'[w] = given[w]
    BY <1>4 DEF Ended, Went
  <2>2. /\ it'[w].id = me.id /\ it'[w].sub = me.sub /\ it'[w].yielded = me.yielded /\ it'[w].wasLate = me.wasLate
        /\ it'[w].ret = "none"
    BY <1>0, <2>1 DEF IterType
  <2> QED BY <1>4, <2>1, <2>2 DEF Ends, Kept, Ended
<1>5. CASE Moved(w)
  <2>1. PICK i \in Nat, s \in Nat, label \in {"next", "sub"} :
          /\ Went(w, label, [it[w] EXCEPT !.id = i, !.sub = s])
          /\ it[w].id <= i /\ (s >= it[w].sub \/ s = Of(w).subLo)
          /\ \A p \in Places : /\ Before(p, it[w].id, it[w].sub) => Before(p, i, s)
                               /\ Before(p, i, s) /\ ~Before(p, it[w].id, it[w].sub) => Passed(w, p)
    BY <1>5 DEF Moved
  <2>2. pc'[w] = label /\ it'[w] = [me EXCEPT !.id = i, !.sub = s] /\ given'[w] = given[w]
    BY <2>1 DEF Went
  <2>3. it'[w].id = i /\ it'[w].sub = s /\ it'[w].yielded = me.yielded /\ it'[w].wasLate = me.wasLate
    BY <1>0, <2>2 DEF IterType
  <2> QED BY <2>1, <2>2, <2>3 DEF Moves, Kept
<1>6. CASE Returned(w)
  <2>1. PICK i \in Nat, s \in Nat, q \in Places :
          /\ Gave(w, q, [it[w] EXCEPT !.id = i, !.sub = s])
          /\ check_limit(w)
          /\ it[w].id <= i /\ s >= it[w].sub
          /\ it[w].id <= q[1] /\ q[1] < it[w].last /\ (hier => it[w].sub <= q[2] /\ q[2] < SubEnd(Of(w)))
          /\ Before(q, i, s) /\ ~Before(q, it[w].id, it[w].sub)
          /\ \A p \in Places : /\ Before(p, it[w].id, it[w].sub) => Before(p, i, s)
                               /\ Before(p, i, s) /\ ~Before(p, it[w].id, it[w].sub) => p = q \/ Passed(w, p)
    BY <1>6 DEF Returned
  <2> DEFINE new == [me EXCEPT !.id = i, !.sub = s]
  <2>2. new \in IterType /\ new.id = i /\ new.sub = s /\ new.yielded = me.yielded /\ new.wasLate = me.wasLate
    BY <1>0 DEF IterType
  <2>3. Gave(w, q, new)
    BY <2>1
  <2> HIDE DEF new
  <2>4. /\ pc'[w] = "idle" /\ it'[w].id = i /\ it'[w].sub = s /\ it'[w].yielded = me.yielded + 1
        /\ it'[w].wasLate = me.wasLate /\ it'[w].ret = "some" /\ given'[w] = Append(given[w], q)
    BY <2>2, <2>3, GaveFields
  <2>5. Hands(w, q)
    BY <2>1, <2>4 DEF Hands
  <2> QED BY <2>5
<1> QED BY <1>2, <1>3, <1>4, <1>5, <1>6

(* Whether an iterator has returned an item.                               *)
Got(w, p) == \E k \in DOMAIN given[w] : given[w][k] = p

(* How often is none at all if it has not.                                 *)
LEMMA TimesGot ==
  ASSUME TypeOK, NEW w \in Iter, NEW p
  PROVE  /\ Times(w, p) \in Nat /\ (Times(w, p) = 0 <=> ~Got(w, p))
         /\ (\A j, k \in DOMAIN given[w] : given[w][j] = p /\ given[w][k] = p => j = k) /\ Got(w, p) => Times(w, p) = 1
<1> DEFINE S == {k \in DOMAIN given[w] : given[w][k] = p}
<1>1. given[w] \in Seq(Nat \X Nat)
  BY IterFields
<1>2. DOMAIN given[w] = 1 .. Len(given[w]) /\ Len(given[w]) \in Nat
  BY <1>1
<1>3. IsFiniteSet(S)
  <2> DEFINE n == Len(given[w])
  <2>1. n \in Int /\ 1 \in Int
    BY <1>2
  <2>2. S \subseteq 1 .. n
    BY <1>2
  <2> HIDE DEF n, S
  <2>3. IsFiniteSet(1 .. n)
    BY <2>1, FS_Interval
  <2> QED BY <2>2, <2>3, FS_Subset
<1>4. Times(w, p) = Cardinality(S)
  BY DEF Times
<1>5. Cardinality(S) \in Nat
  BY <1>3, FS_CardinalityType
<1>6. Cardinality(S) = 0 <=> S = {}
  BY <1>3, FS_EmptySet
<1>7. S = {} <=> ~Got(w, p)
  BY DEF Got
<1>8. ASSUME \A j, k \in DOMAIN given[w] : given[w][j] = p /\ given[w][k] = p => j = k, Got(w, p)
      PROVE  Times(w, p) = 1
  <2>1. PICK k \in DOMAIN given[w] : given[w][k] = p
    BY <1>8 DEF Got
  <2>2. S = {k}
    BY <1>8, <2>1
  <2>3. Cardinality({k}) = 1
    BY FS_Singleton
  <2> QED BY <1>4, <2>2, <2>3
<1> QED BY <1>4, <1>5, <1>6, <1>7, <1>8

(* A sequence with one more element.                                       *)
LEMMA Appended ==
  ASSUME NEW S, NEW s \in Seq(S), NEW q \in S, NEW t, t = Append(s, q)
  PROVE  /\ Len(s) \in Nat /\ DOMAIN s = 1 .. Len(s) /\ DOMAIN t = 1 .. Len(s) + 1
         /\ \A k \in DOMAIN s : t[k] = s[k]
         /\ t[Len(s) + 1] = q
         /\ \A k \in DOMAIN t : k \in DOMAIN s \/ k = Len(s) + 1
OBVIOUS

(* An iterator returns nothing, or one item more.                          *)
LEMMA OneGiven ==
  ASSUME TypeInv, NEW w \in Iter, OneMove(w)
  PROVE  given'[w] = given[w] \/ \E q \in Nat \X Nat : given'[w] = Append(given[w], q) /\ pc'[w] = "idle"
<1>0. it[w].id \in Nat /\ it[w].sub \in Nat
  BY IterFields DEF TypeInv
<1>1. ASSUME NEW i \in Nat, NEW s \in Nat, NEW new, Gave(w, <<i, s>>, new)
      PROVE  \E q \in Nat \X Nat : given'[w] = Append(given[w], q) /\ pc'[w] = "idle"
  <2>1. given'[w] = Append(given[w], <<i, s>>) /\ pc'[w] = "idle" /\ <<i, s>> \in Nat \X Nat
    BY <1>1 DEF Gave
  <2> QED BY <2>1
<1>2. CASE Same(w) \/ BuiltNow(w) \/ Refused(w) \/ Called(w) \/ Dropped(w)
  BY <1>2 DEF Same, BuiltNow, Refused, Called, Dropped, Went
<1>3. CASE Reading(w)
  <2>1. Places \subseteq Nat \X Nat
    BY DEF Places
  <2> QED BY <1>3, <2>1, TurnFields DEF Rewinds, Ends, Moves, Hands, Kept
<1>4. CASE Drawing(w)
  <2>1. \/ given'[w] = given[w]
        \/ \E n \in Nat, i \in Nat : Gave(w, <<i, 0>>, [it[w] EXCEPT !.step = n])
        \/ \E s \in Nat : Gave(w, <<it[w].id, s>>, it[w])
    BY <1>4 DEF Drawing, Went
  <2> QED BY <1>0, <1>1, <2>1
<1>5. CASE Deleting(w)
  <2>1. given'[w] = given[w] \/ Gave(w, <<it[w].id, 0>>, [it[w] EXCEPT !.id = @ + 1])
    BY <1>5 DEF Deleting, Went
  <2> QED BY <1>0, <1>1, <2>1
<1>6. CASE Fetching(w)
  BY <1>6 DEF Fetching, Went
<1>7. CASE Claiming(w)
  <2>1. given'[w] = given[w] \/ Gave(w, <<it[w].id, it[w].sub>>, it[w])
    BY <1>7 DEF Claiming, Went
  <2> QED BY <1>0, <1>1, <2>1
<1> QED BY <1>2, <1>3, <1>4, <1>5, <1>6, <1>7 DEF OneMove

(* What has been returned stays so.                                        *)
LEMMA GotGrows ==
  ASSUME TypeInv, NEW w \in Iter, OneMove(w), NEW p, Got(w, p)
  PROVE  Got(w, p)'
<1>1. given[w] \in Seq(Nat \X Nat)
  BY IterFields DEF TypeInv
<1>2. CASE given'[w] = given[w]
  BY <1>2 DEF Got
<1>3. ASSUME NEW q \in Nat \X Nat, given'[w] = Append(given[w], q)
      PROVE  Got(w, p)'
  <2> DEFINE s == given[w]
             t == given'[w]
  <2>1. /\ DOMAIN s \subseteq DOMAIN t /\ \A k \in DOMAIN s : t[k] = s[k]
    <3>1. t = Append(s, q) /\ s \in Seq(Nat \X Nat)
      BY <1>1, <1>3
    <3> HIDE DEF s, t
    <3>2. /\ Len(s) \in Nat /\ DOMAIN s = 1 .. Len(s) /\ DOMAIN t = 1 .. Len(s) + 1
          /\ \A k \in DOMAIN s : t[k] = s[k]
      BY <3>1, Appended
    <3> QED BY <3>2
  <2> QED BY <2>1 DEF Got
<1> QED BY <1>2, <1>3, OneGiven

(* The item it has just returned among them, and no other.                 *)
LEMMA GotOne ==
  ASSUME TypeInv, NEW w \in Iter, NEW q \in Nat \X Nat, given'[w] = Append(given[w], q)
  PROVE  \A p : Got(w, p)' <=> Got(w, p) \/ p = q
<1> DEFINE s == given[w]
           t == given'[w]
<1>1. t = Append(s, q) /\ s \in Seq(Nat \X Nat)
  BY IterFields DEF TypeInv
<1> HIDE DEF s, t
<1>2. /\ Len(s) \in Nat /\ DOMAIN s = 1 .. Len(s) /\ DOMAIN t = 1 .. Len(s) + 1
      /\ \A k \in DOMAIN s : t[k] = s[k]
      /\ t[Len(s) + 1] = q
      /\ \A k \in DOMAIN t : k \in DOMAIN s \/ k = Len(s) + 1
  BY <1>1, Appended
<1>3. \A p : (\E k \in DOMAIN t : t[k] = p) <=> (\E k \in DOMAIN s : s[k] = p) \/ p = q
  BY <1>2
<1> QED BY <1>3 DEF Got, s, t

(* Items nobody has changed are as they were at the start.                 *)
Untouched(p) == p \notin touched /\ \A v \in Changers : ~Got(v, p)

StateInv ==
  /\ \A p \in Nat \X Nat : Untouched(p) => (p \in bits <=> p \in setup.start)
  /\ hier => \A p \in setup.start : p[1] \in made
  /\ ~hier => bits \subseteq Nat \X {0}
  /\ \A w \in Iter : (hier /\ Of(w).mode = "delete") \/ (~hier /\ Of(w).mode = "write") =>
       given[w] = <<>> /\ it[w].ret = "fresh"

(* It holds in the initial states.                                         *)
LEMMA StateInit ==
  ASSUME Init
  PROVE  StateInv
<1>1. setup \in Setups /\ bits = setup.start /\ primary = {p[1] : p \in bits} /\ made = IF hier THEN primary ELSE {}
  BY DEF Init
<1>2. ~hier => bits \subseteq Nat \X {0}
  BY <1>1, SetupFacts
<1>3. hier => \A p \in setup.start : p[1] \in made
  BY <1>1
<1>4. \A w \in Iter : given[w] = <<>> /\ it[w].ret = "fresh"
  BY DEF Init, Unbuilt
<1> QED BY <1>1, <1>2, <1>3, <1>4 DEF StateInv

(* What a step does not touch it leaves alone.                             *)
LEMMA Unseen ==
  ASSUME TypeInv, setup' = setup, Kinds, NEW p \in Nat \X Nat, Untouched(p)'
  PROVE  Untouched(p) /\ (p \in bits' <=> p \in bits)
<1>0. \A w \in Iter : OneMove(w)
  BY OneMoves
<1>1. Changers' = Changers
  BY DEF Changers, Of
<1>2. p \notin touched' /\ \A v \in Changers : ~Got(v, p)'
  BY <1>1 DEF Untouched
<1>3. touched \subseteq touched'
  BY DEF Kinds, Building, Changing, Expiring, Refusing, Calling, Dropping, Reading, Drawing, Deleting, Fetching, Claiming, Shared
<1>4. Untouched(p)
  BY <1>0, <1>2, <1>3, GotGrows DEF Untouched, Changers
<1>5. CASE bits' = bits
  BY <1>4, <1>5
<1>6. CASE Changing
  <2>1. PICK q \in Items : touched' = touched \union {q} /\ (bits' = bits \union {q} \/ bits' = bits \ {q})
    BY <1>6 DEF Changing
  <2> QED BY <1>2, <1>4, <2>1
<1>7. ASSUME NEW w \in Changers, NEW q \in Nat \X Nat, given'[w] = Append(given[w], q),
             bits' = bits \union {q} \/ bits' = bits \ {q}
      PROVE  p \in bits' <=> p \in bits
  <2>1. Got(w, q)'
    BY <1>7, GotOne DEF Changers
  <2>2. p # q
    BY <1>2, <2>1
  <2> QED BY <1>7, <2>2
<1>8. ASSUME NEW w \in Iter, Deleting(w), bits' # bits
      PROVE  p \in bits' <=> p \in bits
  <2>1. Of(w).mode = "delete" /\ Gave(w, <<it[w].id, 0>>, [it[w] EXCEPT !.id = @ + 1]) /\ bits' = bits \ {<<it[w].id, 0>>}
    BY <1>8 DEF Deleting
  <2>2. w \in Changers /\ it[w].id \in Nat
    BY <2>1, IterFields DEF Changers, TypeInv
  <2>3. <<it[w].id, 0>> \in Nat \X Nat /\ given'[w] = Append(given[w], <<it[w].id, 0>>)
    BY <2>1, <2>2 DEF Gave
  <2> QED BY <1>7, <2>1, <2>2, <2>3
<1>9. ASSUME NEW w \in Iter, Claiming(w), bits' # bits
      PROVE  p \in bits' <=> p \in bits
  <2> DEFINE q == <<it[w].id, it[w].sub>>
  <2>1. Gave(w, q, it[w]) /\ bits' = bits \union {q} /\ pc[w] = "claim"
    BY <1>9 DEF Claiming
  <2>2. w \in Changers /\ it[w].id \in Nat /\ it[w].sub \in Nat
    BY <2>1, IterFields DEF Changers, TypeInv, Shape
  <2>3. q \in Nat \X Nat /\ given'[w] = Append(given[w], q)
    BY <2>1, <2>2 DEF Gave
  <2> QED BY <1>7, <2>1, <2>2, <2>3
<1>10. \/ bits' = bits \/ Changing \/ \E w \in Iter : Deleting(w) \/ Claiming(w)
  BY DEF Kinds, Building, Expiring, Refusing, Calling, Dropping, Reading, Drawing, Fetching, Shared
<1> QED BY <1>4, <1>5, <1>6, <1>8, <1>9, <1>10

(* Every step keeps it.                                                    *)
LEMMA StateStep ==
  ASSUME TypeInv, StateInv, setup' = setup, Kinds
  PROVE  StateInv'
<1>0. \A w \in Iter : OneMove(w)
  BY OneMoves
<1>1. hier' = hier /\ \A w \in Iter : Of(w)' = Of(w)
  BY DEF hier, Of
<1>2. \A p \in Nat \X Nat : Untouched(p)' => (p \in bits' <=> p \in setup'.start)
  BY Unseen DEF StateInv
<1>3. made \subseteq made'
  BY DEF Kinds, Building, Changing, Expiring, Refusing, Calling, Dropping, Reading, Drawing, Deleting, Fetching, Claiming, Shared
<1>4. hier => \A p \in setup.start : p[1] \in made'
  BY <1>3 DEF StateInv
<1>5. ~hier => bits' \subseteq Nat \X {0}
  <2> SUFFICES ASSUME ~hier PROVE bits' \subseteq Nat \X {0}
    OBVIOUS
  <2>1. bits \subseteq Nat \X {0}
    BY DEF StateInv
  <2>2. CASE Changing
    <3>1. Items \subseteq Nat \X {0}
      BY IterAssumption DEF Items
    <3> QED BY <2>1, <2>2, <3>1 DEF Changing
  <2>3. ASSUME NEW w \in Iter, Claiming(w)
        PROVE  FALSE
    BY <2>3 DEF Claiming, TypeInv, Shape
  <2>4. bits' \subseteq bits \/ Changing \/ \E w \in Iter : Claiming(w)
    BY DEF Kinds, Building, Expiring, Refusing, Calling, Dropping, Reading, Drawing, Deleting, Fetching, Shared
  <2> QED BY <2>1, <2>2, <2>3, <2>4
<1>6. ASSUME NEW w \in Iter, (hier /\ Of(w).mode = "delete") \/ (~hier /\ Of(w).mode = "write")
      PROVE  given'[w] = <<>> /\ it'[w].ret = "fresh"
  <2>1. given[w] = <<>> /\ it[w].ret = "fresh" /\ it[w] \in IterType
    BY <1>6, IterFields DEF StateInv, TypeInv
  <2>2. CASE Same(w) \/ Refused(w) \/ Dropped(w)
    BY <2>1, <2>2 DEF Same, Refused, Dropped, Went
  <2>3. CASE BuiltNow(w)
    BY <2>1, <2>3, BuiltAt DEF TypeInv
  <2>4. CASE Called(w)
    <3> DEFINE l == Of(w).timed /\ late[w]
    <3>1. it[w].calls < MaxCalls /\ it'[w] = [it[w] EXCEPT !.calls = @ + 1, !.wasLate = l] /\ given'[w] = given[w]
      BY <2>4 DEF Called, Went
    <3> HIDE DEF l
    <3> QED BY <2>1, <3>1 DEF IterType
  <2>5. ~Reading(w) /\ ~Drawing(w)
    BY <1>6 DEF Reading, Drawing, Readers
  <2>6. ~Deleting(w) /\ ~Fetching(w) /\ ~Claiming(w)
    BY <1>6 DEF Deleting, Fetching, Claiming, TypeInv, Shape
  <2> QED BY <1>0, <2>2, <2>3, <2>4, <2>5, <2>6 DEF OneMove
<1> QED BY <1>1, <1>2, <1>4, <1>5, <1>6 DEF StateInv

-----------------------------------------------------------------------------
(* The range of an iterator                                                *)

(* Everything an iterator has returned lies in its range, and it is not    *)
(* before its first id.                                                    *)
RangeOK(w) ==
  /\ w \in BuiltOnes /\ Of(w).mode \in {"sequential", "partition", "delete"} => First(Of(w)) <= it[w].id
  /\ w \in BuiltOnes /\ w \in Readers => Of(w).subLo <= it[w].sub
  /\ Of(w).mode # "random" =>
       \A k \in DOMAIN given[w] : LET g == given[w][k] IN First(Of(w)) <= g[1] /\ g[1] < End(Of(w)) /\ Within(Of(w), g)

(* What a step does not change about an iterator's builder.                *)
LEMMA SameBuilder ==
  ASSUME setup' = setup
  PROVE  /\ hier' = hier /\ Readers' = Readers /\ Changers' = Changers
         /\ \A w \in Iter : /\ Of(w)' = Of(w) /\ First(Of(w))' = First(Of(w)) /\ End(Of(w))' = End(Of(w))
                            /\ Plain(Of(w))' = Plain(Of(w)) /\ Wraps(Of(w))' = Wraps(Of(w))
                            /\ Limit(Of(w))' = Limit(Of(w))
BY DEF hier, Readers, Changers, Of, First, End, PartRange, Last, Size, CeilDiv, Smaller, Larger, Plain, Wraps,
       Limit

(* The step of an iterator that returns nothing new.                       *)
LEMMA RangeKept ==
  ASSUME TypeInv, NEW w \in Iter, setup' = setup, RangeOK(w), given'[w] = given[w],
         w \in BuiltOnes' /\ Of(w).mode \in {"sequential", "partition", "delete"} => First(Of(w)) <= it'[w].id,
         w \in BuiltOnes' /\ w \in Readers => Of(w).subLo <= it'[w].sub
  PROVE  RangeOK(w)'
<1>1. /\ Of(w)' = Of(w) /\ First(Of(w))' = First(Of(w)) /\ End(Of(w))' = End(Of(w)) /\ Readers' = Readers
      /\ hier' = hier
  BY SameBuilder
<1>2. Of(w).mode # "random" =>
        \A k \in DOMAIN given[w] : First(Of(w)) <= given[w][k][1] /\ given[w][k][1] < End(Of(w)) /\ Within(Of(w), given[w][k])
  BY DEF RangeOK
<1> QED BY <1>1, <1>2 DEF RangeOK, Within

(* The step of an iterator that returns an item of its range.              *)
LEMMA RangeGrown ==
  ASSUME TypeInv, NEW w \in Iter, setup' = setup, RangeOK(w), NEW q \in Nat \X Nat, given'[w] = Append(given[w], q),
         Of(w).mode # "random" => First(Of(w)) <= q[1] /\ q[1] < End(Of(w)) /\ Within(Of(w), q),
         Of(w).mode \in {"sequential", "partition", "delete"} => First(Of(w)) <= it'[w].id,
         w \in Readers => Of(w).subLo <= it'[w].sub
  PROVE  RangeOK(w)'
<1>1. /\ Of(w)' = Of(w) /\ First(Of(w))' = First(Of(w)) /\ End(Of(w))' = End(Of(w)) /\ Readers' = Readers
      /\ hier' = hier
  BY SameBuilder
<1> DEFINE Fine(g) == First(Of(w)) <= g[1] /\ g[1] < End(Of(w)) /\ Within(Of(w), g)
           s == given[w]
           t == given'[w]
<1>2. Of(w).mode # "random" => \A k \in DOMAIN s : Fine(s[k])
  BY DEF RangeOK
<1>3. t = Append(s, q) /\ s \in Seq(Nat \X Nat)
  BY IterFields DEF TypeInv
<1>4. Of(w).mode # "random" => Fine(q)
  OBVIOUS
<1> HIDE DEF Fine, s, t
<1>5. Of(w).mode # "random" => \A k \in DOMAIN t : Fine(t[k])
  <2>1. /\ \A k \in DOMAIN s : t[k] = s[k]
        /\ t[Len(s) + 1] = q
        /\ \A k \in DOMAIN t : k \in DOMAIN s \/ k = Len(s) + 1
    BY <1>3, Appended
  <2> QED BY <1>2, <1>4, <2>1
<1> QED BY <1>1, <1>5 DEF RangeOK, Within, Fine, t

(* Nobody has an item in the initial states.                               *)
LEMMA RangeInit ==
  ASSUME Init, NEW w \in Iter
  PROVE  RangeOK(w)
BY DEF Init, RangeOK, BuiltOnes

(* Every step keeps it.                                                    *)
LEMMA RangeStep ==
  ASSUME TypeInv, StateInv, NEW w \in Iter, setup' = setup, RangeOK(w), OneMove(w)
  PROVE  RangeOK(w)'
<1> DEFINE b == Of(w)
           me == it[w]
<1>0. /\ b \in Build /\ me.id \in Nat /\ me.sub \in Nat /\ me.last \in Nat /\ Typed(w)' /\ me \in IterType
      /\ First(b) \in Nat /\ End(b) \in Nat /\ b.subLo \in Nat /\ b.lo <= First(b) /\ End(b) <= Last(b)
      /\ b.lo \in Nat /\ b.hi \in Nat /\ b.subHi \in Nat
  BY SetupFacts, IterFields, EndsFacts, BuildFields, OneTyped DEF TypeInv
<1>1. it'[w].id \in Nat /\ it'[w].sub \in Nat
  BY <1>0 DEF Typed, IterType
<1>2. b.mode # "partition" => First(b) = b.lo
  BY DEF First
<1>3. Last(b) \in Nat /\ Last(b) <= b.hi
  BY <1>0, RangeFacts
<1>4. CASE Same(w)
  BY <1>4, RangeKept DEF Same, RangeOK, BuiltOnes
<1>5. CASE BuiltNow(w)
  <2>1. it'[w].id = First(b) /\ it'[w].sub = b.subLo /\ given'[w] = given[w]
    BY <1>5, BuiltAt DEF TypeInv
  <2> QED BY <1>0, <2>1, RangeKept
<1>6. CASE Refused(w)
  <2>1. w \notin BuiltOnes' /\ given'[w] = given[w]
    BY <1>6 DEF Refused, Went, BuiltOnes
  <2> QED BY <2>1, RangeKept
<1>7. CASE Dropped(w)
  <2>1. w \in BuiltOnes /\ given'[w] = given[w] /\ it'[w] = it[w]
    BY <1>7 DEF Dropped, Went, BuiltOnes
  <2> QED BY <2>1, RangeKept DEF RangeOK
<1>8. CASE Called(w)
  <2> DEFINE l == Of(w).timed /\ late[w]
  <2>1. pc[w] = "idle" /\ it'[w] = [me EXCEPT !.calls = @ + 1, !.wasLate = l] /\ given'[w] = given[w]
    BY <1>8 DEF Called, Went
  <2>2. it'[w].id = me.id /\ it'[w].sub = me.sub
    <3> HIDE DEF l, me
    <3> QED BY <1>0, <2>1 DEF IterType
  <2>3. w \in BuiltOnes
    BY <2>1 DEF BuiltOnes
  <2> QED BY <2>1, <2>2, <2>3, RangeKept DEF RangeOK
<1>9. CASE Reading(w)
  <2>0. w \in BuiltOnes /\ w \in Readers /\ me.last = End(b) /\ b.mode \in {"sequential", "partition"}
    BY <1>9, LastOf DEF Reading, BuiltOnes, Readers
  <2>1. First(b) <= me.id /\ b.subLo <= me.sub
    BY <2>0 DEF RangeOK
  <2>2. CASE Rewinds(w)
    BY <1>0, <1>2, <2>2, RangeKept DEF Rewinds, Kept, Wraps
  <2>3. CASE Ends(w)
    BY <2>1, <2>3, RangeKept DEF Ends, Kept
  <2>4. CASE Moves(w)
    BY <1>0, <1>1, <2>1, <2>4, RangeKept DEF Moves, Kept
  <2>5. ASSUME NEW q \in Places, Hands(w, q)
        PROVE  RangeOK(w)'
    <3>1. q \in Nat \X Nat
      BY DEF Places
    <3>2. /\ me.id <= q[1] /\ q[1] < me.last /\ (hier => me.sub <= q[2] /\ q[2] < SubEnd(b))
          /\ me.id <= it'[w].id /\ it'[w].sub >= me.sub /\ given'[w] = Append(given[w], q)
      BY <2>5 DEF Hands
    <3>3. hier => q[2] < b.subHi
      <4>1. SubEnd(b) <= b.subHi /\ SubEnd(b) \in Nat
        BY <1>0, IterAssumption DEF SubEnd, Smaller
      <4> QED BY <1>0, <3>1, <3>2, <4>1
    <3>4. First(b) <= q[1] /\ q[1] < End(b) /\ Within(b, q)
      BY <1>0, <1>3, <2>0, <2>1, <3>1, <3>2, <3>3 DEF Within
    <3>5. First(b) <= it'[w].id /\ b.subLo <= it'[w].sub
      BY <1>0, <1>1, <2>1, <3>2
    <3> QED BY <3>1, <3>2, <3>4, <3>5, RangeGrown
  <2> QED BY <1>9, <2>2, <2>3, <2>4, <2>5, TurnFields
<1>10. CASE Drawing(w)
  <2>1. b.mode = "random" /\ w \notin Readers
    BY <1>10 DEF Drawing, Readers
  <2>2. CASE given'[w] = given[w]
    BY <2>1, <2>2, RangeKept
  <2>3. ASSUME NEW q \in Nat \X Nat, given'[w] = Append(given[w], q)
        PROVE  RangeOK(w)'
    BY <2>1, <2>3, RangeGrown
  <2> QED BY <2>2, <2>3, OneGiven DEF OneMove
<1>11. CASE Deleting(w)
  <2>0. /\ w \in BuiltOnes /\ b.mode = "delete" /\ w \notin Readers /\ me.last = End(b) /\ ~hier
    BY <1>11, LastOf DEF Deleting, BuiltOnes, Readers
  <2>1. First(b) <= me.id
    BY <2>0 DEF RangeOK
  <2> DEFINE there == [me EXCEPT !.id = @ + 1]
             q == <<me.id, 0>>
  <2>2. there \in IterType /\ there.id = me.id + 1
    BY <1>0 DEF IterType
  <2>3. \/ Went(w, "idle", [me EXCEPT !.ret = "none"]) \/ Went(w, "next", there)
        \/ me.id < me.last /\ Gave(w, q, there)
    BY <1>11 DEF Deleting
  <2>4. CASE Went(w, "idle", [me EXCEPT !.ret = "none"])
    <3>1. it'[w].id = me.id /\ given'[w] = given[w]
      BY <1>0, <2>4 DEF Went, IterType
    <3> QED BY <2>0, <2>1, <3>1, RangeKept
  <2>5. CASE Went(w, "next", there)
    <3>1. it'[w].id = me.id + 1 /\ given'[w] = given[w]
      BY <2>2, <2>5 DEF Went
    <3>2. First(b) <= it'[w].id
      BY <1>0, <2>1, <3>1
    <3> QED BY <2>0, <3>1, <3>2, RangeKept
  <2>6. CASE me.id < me.last /\ Gave(w, q, there)
    <3> HIDE DEF there
    <3>1. it'[w].id = me.id + 1 /\ given'[w] = Append(given[w], q) /\ q \in Nat \X Nat /\ q[1] = me.id
      BY <1>0, <2>2, <2>6, GaveFields
    <3>2. First(b) <= it'[w].id /\ First(b) <= q[1] /\ q[1] < End(b) /\ Within(b, q)
      BY <1>0, <1>3, <2>0, <2>1, <2>6, <3>1 DEF Within
    <3> QED BY <2>0, <3>1, <3>2, RangeGrown
  <2> QED BY <2>3, <2>4, <2>5, <2>6
<1>12. CASE Fetching(w)
  <2>1. w \notin Readers /\ b.mode = "write" /\ given'[w] = given[w]
    BY <1>12 DEF Fetching, Went, Readers
  <2> QED BY <2>1, RangeKept
<1>13. CASE Claiming(w)
  <2> DEFINE q == <<me.id, me.sub>>
  <2>1. /\ w \notin Readers /\ b.mode = "write" /\ me.last = End(b) /\ hier /\ me.id < me.last
        /\ Contains(b, me.id, me.sub)
    BY <1>13, LastOf DEF Claiming, Readers, TypeInv, Shape
  <2>2. First(b) <= q[1] /\ q[1] < End(b) /\ Within(b, q) /\ q \in Nat \X Nat
    BY <1>0, <1>2, <2>1 DEF Contains, Within
  <2>3. given'[w] = given[w] \/ given'[w] = Append(given[w], q)
    BY <1>13 DEF Claiming, Went, Gave
  <2> HIDE DEF q
  <2>4. CASE given'[w] = given[w]
    BY <2>1, <2>4, RangeKept
  <2>5. CASE given'[w] = Append(given[w], q)
    BY <2>1, <2>2, <2>5, RangeGrown
  <2> QED BY <2>3, <2>4, <2>5
<1> QED BY <1>4, <1>5, <1>6, <1>7, <1>8, <1>9, <1>10, <1>11, <1>12, <1>13 DEF OneMove

-----------------------------------------------------------------------------
(* The order of what a reader returns                                      *)

(* The order of items.                                                     *)
Earlier(p, q) == p[1] < q[1] \/ (p[1] = q[1] /\ p[2] < q[2])

(* Items come in ascending order, and those returned are behind.           *)
InOrder(w) ==
  w \in Readers /\ ~Wraps(Of(w)) =>
    /\ \A j, k \in DOMAIN given[w] : j < k => Earlier(given[w][j], given[w][k])
    /\ \A k \in DOMAIN given[w] : given[w][k] \in Places /\ Before(given[w][k], it[w].id, it[w].sub)

(* The order holds in the initial states.                                  *)
LEMMA OrderInit ==
  ASSUME Init, NEW w \in Iter
  PROVE  InOrder(w)
BY DEF Init, InOrder

(* An iterator that returns nothing and does not go back.                  *)
LEMMA OrderKept ==
  ASSUME NEW w \in Iter, setup' = setup, InOrder(w), given'[w] = given[w],
         w \in Readers /\ ~Wraps(Of(w)) =>
           \A p \in Places : Before(p, it[w].id, it[w].sub) => Before(p, it'[w].id, it'[w].sub)
  PROVE  InOrder(w)'
<1>1. Wraps(Of(w))' = Wraps(Of(w)) /\ Readers' = Readers /\ hier' = hier
  BY SameBuilder
<1> QED BY <1>1 DEF InOrder, Earlier, Before, Places

(* Every step keeps it.                                                    *)
LEMMA OrderStep ==
  ASSUME TypeInv, StateInv, NEW w \in Iter, setup' = setup, InOrder(w), OneMove(w)
  PROVE  InOrder(w)'
<1> DEFINE b == Of(w)
           me == it[w]
<1>0. b \in Build /\ me.id \in Nat /\ me.sub \in Nat /\ me \in IterType
  BY SetupFacts, IterFields DEF TypeInv
<1>1. CASE w \notin Readers \/ Wraps(b)
  <2>1. Wraps(b)' = Wraps(b) /\ Readers' = Readers
    BY SameBuilder
  <2> QED BY <1>1, <2>1 DEF InOrder
<1>2. CASE w \in Readers /\ ~Wraps(b)
  <2>1. CASE Same(w) \/ Refused(w) \/ Dropped(w)
    BY <2>1, OrderKept DEF Same, Refused, Dropped, Went
  <2>2. CASE BuiltNow(w)
    <3>1. given'[w] = <<>>
      BY <2>2, BuiltAt DEF TypeInv, Shape, BuiltNow
    <3> QED BY <3>1 DEF InOrder
  <2>3. CASE Called(w)
    <3> DEFINE l == Of(w).timed /\ late[w]
    <3>1. it'[w] = [me EXCEPT !.calls = @ + 1, !.wasLate = l] /\ given'[w] = given[w]
      BY <2>3 DEF Called, Went
    <3>2. it'[w].id = me.id /\ it'[w].sub = me.sub
      <4> HIDE DEF l, me
      <4> QED BY <1>0, <3>1 DEF IterType
    <3> QED BY <3>1, <3>2, OrderKept
  <2>4. CASE Reading(w)
    <3>1. ~Rewinds(w)
      BY <1>2 DEF Rewinds
    <3>2. CASE Ends(w)
      BY <3>2, OrderKept DEF Ends, Kept
    <3>3. CASE Moves(w)
      BY <3>3, OrderKept DEF Moves, Kept
    <3>4. ASSUME NEW q \in Places, Hands(w, q)
          PROVE  InOrder(w)'
      <4> DEFINE s == given[w]
                 t == given'[w]
                 Was(p) == p \in Places /\ Before(p, me.id, me.sub)
                 Is(p) == p \in Places /\ Before(p, it'[w].id, it'[w].sub)
      <4>1. /\ \A j, k \in DOMAIN s : j < k => Earlier(s[j], s[k])
            /\ \A k \in DOMAIN s : Was(s[k])
        BY <1>2 DEF InOrder
      <4>2. t = Append(s, q) /\ s \in Seq(Nat \X Nat) /\ q \in Nat \X Nat
        BY <3>4, IterFields DEF Hands, TypeInv, Places
      <4>3. (\A p : Was(p) => Is(p)) /\ Is(q)
        BY <3>4 DEF Hands
      <4>4. \A p : Was(p) => Earlier(p, q)
        <5>1. ~Before(q, me.id, me.sub) /\ me.id <= q[1] /\ (hier => me.sub <= q[2])
          BY <3>4 DEF Hands
        <5> QED BY <1>0, <5>1 DEF Before, Places, Earlier
      <4> HIDE DEF s, t, Was, Is
      <4>5. /\ Len(s) \in Nat /\ DOMAIN s = 1 .. Len(s) /\ DOMAIN t = 1 .. Len(s) + 1
            /\ \A k \in DOMAIN s : t[k] = s[k]
            /\ t[Len(s) + 1] = q
            /\ \A k \in DOMAIN t : k \in DOMAIN s \/ k = Len(s) + 1
        BY <4>2, Appended
      <4>6. \A k \in DOMAIN t : Is(t[k])
        BY <4>1, <4>3, <4>5
      <4>7. ASSUME NEW j \in DOMAIN t, NEW k \in DOMAIN t, j < k
            PROVE  Earlier(t[j], t[k])
        <5>1. j \in DOMAIN s
          BY <4>5, <4>7
        <5>2. CASE k \in DOMAIN s
          BY <4>1, <4>5, <4>7, <5>1, <5>2
        <5>3. CASE k = Len(s) + 1
          BY <4>1, <4>4, <4>5, <5>1, <5>3
        <5> QED BY <4>5, <5>2, <5>3
      <4>8. hier' = hier
        BY SameBuilder
      <4>9. \A k \in DOMAIN given'[w] : (given[w][k] \in Places /\ Before(given[w][k], it[w].id, it[w].sub))'
        BY <4>6, <4>8 DEF t, Is, Places, Before
      <4> QED BY <4>7, <4>9 DEF InOrder, t, Earlier
    <3> QED BY <2>4, <3>1, <3>2, <3>3, <3>4, TurnFields
  <2>5. ~Drawing(w) /\ ~Deleting(w) /\ ~Fetching(w) /\ ~Claiming(w)
    BY <1>2 DEF Drawing, Deleting, Fetching, Claiming, Readers, TypeInv, Shape
  <2> QED BY <2>1, <2>2, <2>3, <2>4, <2>5 DEF OneMove
<1> QED BY <1>1, <1>2

-----------------------------------------------------------------------------
(* What a reader does not miss                                             *)

(* Steady, by what has been returned.                                      *)
Firm(b) ==
  {p \in Items : /\ Untouched(p) /\ Within(b, p) /\ matches_filter(b, p \in setup.start) = {TRUE}
                 /\ hier => p[1] \in {q[1] : q \in setup.start}}

(* What steadily matches and is behind, or at None in range, was returned. *)
Complete(w) ==
  w \in Readers /\ Plain(Of(w)) /\ w \in BuiltOnes =>
    \A p \in Firm(Of(w)) : /\ First(Of(w)) <= p[1] /\ p[1] < End(Of(w))
                           /\ Before(p, it[w].id, it[w].sub) \/ Done(w)
                           => Got(w, p)

(* Items are pairs of numbers, of a simple tracker with sub_id 0.          *)
LEMMA ItemFacts ==
  Items \subseteq Places /\ Items \subseteq Nat \X Nat
  /\ \A p \in Items : p[1] < MaxId /\ (hier => p[2] < MaxSub /\ p[2] < SubCapacity)
BY IterAssumption DEF Items, Places, Smaller

(* What steadily matches is not passed over.                               *)
LEMMA NotPassed ==
  ASSUME TypeInv, StateInv, NEW w \in Readers, Plain(Of(w)), NEW p \in Firm(Of(w))
  PROVE  ~Passed(w, p)
<1> DEFINE b == Of(w)
<1>0. w \in Iter /\ b \in Build
  BY SetupFacts DEF Readers, TypeInv
<1>1. b.subLo \in Nat /\ b.subHi \in Nat /\ MaxSub \in Nat /\ SubCapacity \in Nat
  BY <1>0, BuildFields, IterAssumption
<1>2. p \in Items /\ p \in Nat \X Nat /\ Untouched(p)
  BY ItemFacts DEF Firm
<1>3. p \in bits <=> p \in setup.start
  BY <1>2 DEF StateInv
<1>4. matches_filter(b, p \in bits) = {TRUE}
  <2>1. (p \in bits) = (p \in setup.start)
    BY <1>3
  <2>2. matches_filter(b, p \in setup.start) = {TRUE}
    BY DEF Firm
  <2> DEFINE x == p \in bits
             y == p \in setup.start
  <2>3. x = y /\ matches_filter(b, y) = {TRUE}
    BY <2>1, <2>2
  <2> HIDE DEF x, y, b
  <2>4. matches_filter(b, x) = {TRUE}
    BY <2>3
  <2> QED BY <2>4 DEF x
<1>5. hier => p[1] \in made /\ b.subLo <= p[2] /\ p[2] < SubEnd(b)
  <2> SUFFICES ASSUME hier PROVE p[1] \in made /\ b.subLo <= p[2] /\ p[2] < SubEnd(b)
    OBVIOUS
  <2>1. p[1] \in made
    BY DEF Firm, StateInv
  <2>2. b.subLo <= p[2] /\ p[2] < b.subHi /\ p[2] < MaxSub /\ p[2] < SubCapacity
    BY <1>2, ItemFacts DEF Firm, Within
  <2> QED BY <1>1, <2>1, <2>2 DEF SubEnd, Smaller
<1>6. hier => ~(p[1] \notin made \/ p[2] >= SubEnd(b) \/ p[2] < b.subLo)
  <2>1. p[2] \in Nat /\ SubEnd(b) \in Nat
    BY <1>1, <1>2 DEF SubEnd, Smaller
  <2> QED BY <1>1, <1>5, <2>1
<1> QED BY <1>4, <1>6 DEF Passed

(* No step makes an item firm.                                             *)
LEMMA FirmShrinks ==
  ASSUME TypeInv, setup' = setup, Kinds, NEW w \in Iter
  PROVE  Firm(Of(w))' \subseteq Firm(Of(w))
<1>1. hier' = hier /\ Of(w)' = Of(w)
  BY SameBuilder
<1>2. Items' = Items
  BY <1>1 DEF Items
<1>3. ASSUME NEW p \in Items, Untouched(p)'
      PROVE  Untouched(p)
  <2>1. p \in Nat \X Nat
    BY ItemFacts
  <2> QED BY <1>3, <2>1, Unseen
<1>4. ASSUME NEW p
      PROVE  matches_filter(Of(w), p \in setup.start)' = matches_filter(Of(w), p \in setup.start)
  BY <1>1 DEF matches_filter
<1>5. ASSUME NEW p, Within(Of(w), p)'
      PROVE  Within(Of(w), p)
  BY <1>1, <1>5 DEF Within
<1> SUFFICES ASSUME NEW p \in Firm(Of(w))' PROVE p \in Firm(Of(w))
  OBVIOUS
<1>6. /\ p \in Items /\ Untouched(p)' /\ Within(Of(w), p)'
      /\ hier => p[1] \in {q[1] : q \in setup.start}
  BY <1>1, <1>2 DEF Firm
<1>7. matches_filter(Of(w), p \in setup.start)' = {TRUE}
  BY DEF Firm
<1>8. matches_filter(Of(w), p \in setup.start) = {TRUE}
  BY <1>4, <1>7
<1> QED BY <1>3, <1>5, <1>6, <1>8 DEF Firm

(* A plain reader has no limit and no duration, and does not wrap around.  *)
LEMMA PlainFacts ==
  ASSUME NEW w \in Iter, Plain(Of(w))
  PROVE  check_limit(w) /\ ~Wraps(Of(w))
BY DEF Plain, check_limit, Limit, Wraps

(* Nothing is passed in the initial states.                                *)
LEMMA CompleteInit ==
  ASSUME Init, NEW w \in Iter
  PROVE  Complete(w)
BY DEF Init, Complete, BuiltOnes

(* Every step keeps it.                                                    *)
LEMMA CompleteStep ==
  ASSUME TypeInv, StateInv, NEW w \in Iter, setup' = setup, Kinds, Complete(w)
  PROVE  Complete(w)'
<1> DEFINE b == Of(w)
           me == it[w]
<1>1. hier' = hier /\ Readers' = Readers /\ Of(w)' = b /\ Plain(b)' = Plain(b) /\ First(b)' = First(b) /\ End(b)' = End(b)
  BY SameBuilder
<1> SUFFICES ASSUME w \in Readers, Plain(b), w \in BuiltOnes', NEW p \in Firm(b)', First(b) <= p[1], p[1] < End(b),
                    Before(p, it'[w].id, it'[w].sub) \/ Done(w)'
             PROVE  Got(w, p)'
  BY <1>1 DEF Complete, Before
<1>2. OneMove(w)
  BY OneMoves
<1>3. p \in Firm(b) /\ p \in Places /\ p \in Nat \X Nat /\ Within(b, p)
  <2>1. p \in Firm(b)
    BY FirmShrinks
  <2> QED BY <2>1, ItemFacts DEF Firm
<1>4. ~Passed(w, p)
  BY <1>3, NotPassed
<1>5. Got(w, p) => Got(w, p)'
  BY <1>2, GotGrows
<1>6. w \in BuiltOnes => (Before(p, me.id, me.sub) \/ Done(w) => Got(w, p))
  BY <1>3 DEF Complete
<1>7. check_limit(w) /\ ~Wraps(b)
  BY PlainFacts
<1>8. b \in Build /\ me.id \in Nat /\ me.sub \in Nat /\ me \in IterType
  BY SetupFacts, IterFields DEF TypeInv
<1>9. CASE Same(w)
  BY <1>5, <1>6, <1>9 DEF Same, BuiltOnes, Done
<1>10. CASE BuiltNow(w)
  <2>1. it'[w].id = First(b) /\ it'[w].sub = b.subLo /\ it'[w].ret = "fresh"
    BY <1>10, BuiltAt DEF TypeInv
  <2>2. Before(p, First(b), b.subLo)
    BY <2>1 DEF Done
  <2>3. First(b) \in Nat /\ b.subLo \in Nat
    BY <1>8, EndsFacts, BuildFields
  <2> QED BY <1>3, <2>2, <2>3 DEF Before, Within
<1>11. CASE Refused(w) \/ Dropped(w)
  BY <1>11 DEF Refused, Dropped, Readers
<1>12. CASE Called(w)
  <2> DEFINE l == Of(w).timed /\ late[w]
  <2>1. pc'[w] # "idle" /\ it'[w] = [me EXCEPT !.calls = @ + 1, !.wasLate = l] /\ pc[w] = "idle"
    BY <1>12 DEF Called, Went
  <2>2. it'[w].id = me.id /\ it'[w].sub = me.sub
    <3> HIDE DEF l, me
    <3> QED BY <1>8, <2>1 DEF IterType
  <2> QED BY <1>5, <1>6, <2>1, <2>2 DEF BuiltOnes, Done
<1>13. CASE Reading(w)
  <2>0. w \in BuiltOnes /\ me.last = End(b)
    BY <1>13, LastOf DEF Reading, BuiltOnes
  <2>1. CASE Rewinds(w)
    BY <1>7, <2>1 DEF Rewinds
  <2>2. CASE Ends(w)
    <3>1. \A q \in Places : me.id <= q[1] /\ q[1] < me.last => Passed(w, q)
      BY <1>7, <2>2 DEF Ends
    <3>2. ~(me.id <= p[1])
      BY <1>3, <1>4, <2>0, <3>1
    <3>3. Before(p, me.id, me.sub)
      BY <1>3, <1>8, <3>2 DEF Before
    <3> QED BY <1>5, <1>6, <2>0, <3>3
  <2>3. CASE Moves(w)
    <3>1. pc'[w] # "idle"
      BY <2>3 DEF Moves
    <3>2. Before(p, it'[w].id, it'[w].sub)
      BY <3>1 DEF Done
    <3>3. Before(p, me.id, me.sub)
      BY <1>3, <1>4, <2>3, <3>2 DEF Moves
    <3> QED BY <1>5, <1>6, <2>0, <3>3
  <2>4. ASSUME NEW q \in Places, Hands(w, q)
        PROVE  Got(w, p)'
    <3>1. it'[w].ret = "some" /\ given'[w] = Append(given[w], q) /\ q \in Nat \X Nat
      BY <2>4 DEF Hands, Places
    <3>2. Before(p, it'[w].id, it'[w].sub)
      BY <3>1 DEF Done
    <3>3. Before(p, me.id, me.sub) \/ p = q
      BY <1>3, <1>4, <2>4, <3>2 DEF Hands
    <3>4. CASE p = q
      BY <3>1, <3>4, GotOne
    <3>5. CASE Before(p, me.id, me.sub)
      BY <1>5, <1>6, <2>0, <3>5
    <3> QED BY <3>3, <3>4, <3>5
  <2> QED BY <1>13, <2>1, <2>2, <2>3, <2>4, TurnFields
<1>14. ~Drawing(w) /\ ~Deleting(w) /\ ~Fetching(w) /\ ~Claiming(w)
  BY DEF Drawing, Deleting, Fetching, Claiming, Readers, TypeInv, Shape
<1> QED BY <1>2, <1>9, <1>10, <1>11, <1>12, <1>13, <1>14 DEF OneMove

(* The invariant of the scans.                                             *)
ScanInv == TypeInv /\ StateInv /\ \A w \in Iter : RangeOK(w) /\ InOrder(w) /\ Complete(w)

(* It holds in the initial states.                                         *)
LEMMA ScanInit ==
  ASSUME Init
  PROVE  ScanInv
BY TypeInit, StateInit, RangeInit, OrderInit, CompleteInit DEF ScanInv

(* Every step keeps it.                                                    *)
LEMMA ScanStep ==
  ASSUME ScanInv, [Next]_vars
  PROVE  ScanInv'
<1>1. CASE Next
  <2>1. setup' = setup /\ Kinds
    BY <1>1, NextKinds DEF ScanInv
  <2>2. \A w \in Iter : OneMove(w)
    BY <2>1, OneMoves
  <2>3. TypeInv' /\ StateInv'
    BY <1>1, <2>1, TypeStep, StateStep DEF ScanInv
  <2>4. \A w \in Iter : RangeOK(w)' /\ InOrder(w)' /\ Complete(w)'
    BY <2>1, <2>2, RangeStep, OrderStep, CompleteStep DEF ScanInv
  <2> QED BY <2>3, <2>4 DEF ScanInv
<1>2. CASE UNCHANGED vars
  <2>1. TypeInv'
    BY TypeStep DEF ScanInv
  <2>2. /\ setup' = setup /\ bits' = bits /\ touched' = touched /\ made' = made
        /\ pc' = pc /\ it' = it /\ given' = given /\ late' = late
    BY <1>2 DEF vars
  <2>3. StateInv'
    BY <2>2 DEF ScanInv, StateInv, hier, Of, Untouched, Changers, Got
  <2>4. ASSUME NEW w \in Iter
        PROVE  RangeOK(w)' /\ InOrder(w)' /\ Complete(w)'
    <3>1. OneMove(w)
      BY <2>2 DEF OneMove, Same
    <3>2. RangeOK(w)' /\ InOrder(w)'
      BY <2>2, <3>1, RangeStep, OrderStep DEF ScanInv
    <3>3. hier' = hier /\ Readers' = Readers /\ Of(w)' = Of(w) /\ Plain(Of(w))' = Plain(Of(w)) /\ First(Of(w))' = First(Of(w))
          /\ End(Of(w))' = End(Of(w))
      BY <2>2, SameBuilder
    <3>4. Firm(Of(w))' = Firm(Of(w)) /\ BuiltOnes' = BuiltOnes /\ Done(w)' = Done(w)
      BY <2>2 DEF Firm, BuiltOnes, Done, Items, hier, Of, Untouched, Changers, Got, Within, matches_filter
    <3>5. \A p : Got(w, p)' <=> Got(w, p)
      BY <2>2 DEF Got
    <3>6. Complete(w)'
      BY <2>2, <3>3, <3>4, <3>5 DEF ScanInv, Complete, Before
    <3> QED BY <3>2, <3>6
  <2> QED BY <2>1, <2>3, <2>4 DEF ScanInv
<1> QED BY <1>1, <1>2

(* Steady is firm.                                                         *)
LEMMA SteadyFirm ==
  ASSUME TypeInv, NEW b
  PROVE  Steady(b) = Firm(b)
<1>1. \A p : (\A v \in Changers : Times(v, p) = 0) <=> (\A v \in Changers : ~Got(v, p))
  BY TimesGot DEF Changers, TypeInv
<1> QED BY <1>1 DEF Steady, Firm, Untouched

(* A part with a smaller number ends before one with a larger begins.      *)
LEMMA FamilyApart ==
  ASSUME TypeInv, NEW v \in Iter, NEW w \in Iter, Splits(Of(w)), v \in Family(w), Of(v).part # Of(w).part
  PROVE  End(Of(v)) <= First(Of(w)) \/ End(Of(w)) <= First(Of(v))
<1> DEFINE b == Of(w)
           c == Of(v)
<1>1. b \in Build /\ c \in Build /\ Splits(c) /\ [c EXCEPT !.part = b.part] = b
  BY SetupFacts DEF Family, TypeInv
<1>2. [b EXCEPT !.part = c.part] = c
  BY <1>1, PartsAlike
<1>3. b.part \in Nat /\ c.part \in Nat
  BY <1>1, BuildFields
<1>4. CASE b.part < c.part
  BY <1>1, <1>2, <1>4, PartsApart
<1>5. CASE c.part < b.part
  BY <1>1, <1>5, PartsApart
<1> QED BY <1>3, <1>4, <1>5

(* The invariant says that the scans are complete.                         *)
LEMMA ScansHold ==
  ASSUME ScanInv
  PROVE  ScansComplete
<1>0. TypeInv /\ TypeOK /\ setup \in Setups
  BY DEF ScanInv, TypeInv
<1>1. ASSUME NEW w \in Iter, Of(w).mode # "random", NEW k \in DOMAIN given[w]
      PROVE  given[w][k][1] < MaxId /\ Within(Of(w), given[w][k])
  <2>1. Of(w) \in Build /\ given[w][k] \in Nat \X Nat
    BY <1>0, <1>1, SetupFacts, IterFields
  <2>2. given[w][k][1] < End(Of(w)) /\ Within(Of(w), given[w][k])
    BY <1>1 DEF ScanInv, RangeOK
  <2>3. End(Of(w)) \in Nat /\ End(Of(w)) <= MaxId
    BY <2>1, EndsFacts, RangeFacts, IterAssumption
  <2>4. given[w][k][1] \in Nat
    BY <2>1
  <2> QED BY <2>2, <2>3, <2>4, IterAssumption
<1>2. ASSUME NEW w \in Iter, Of(w).mode \in {"sequential", "partition"}, ~Wraps(Of(w))
      PROVE  Ordered(w)
  BY <1>2 DEF ScanInv, InOrder, Earlier, Readers, Ordered
<1>3. ASSUME NEW w \in Readers, Plain(Of(w)), Done(w), NEW p \in Steady(Of(w)), First(Of(w)) <= p[1], p[1] < End(Of(w))
      PROVE  Times(w, p) = 1
  <2>1. w \in Iter /\ ~Wraps(Of(w)) /\ w \in BuiltOnes /\ given[w] \in Seq(Nat \X Nat)
    BY <1>0, <1>3, PlainFacts, IterFields DEF Readers, Done, BuiltOnes
  <2>2. Got(w, p)
    BY <1>0, <1>3, <2>1, SteadyFirm DEF ScanInv, Complete
  <2>3. \A j, k \in DOMAIN given[w] : given[w][j] = p /\ given[w][k] = p => j = k
    <3>1. \A j, k \in DOMAIN given[w] : j < k => Earlier(given[w][j], given[w][k])
      BY <1>3, <2>1 DEF ScanInv, InOrder
    <3>2. p \in Nat \X Nat
      BY <1>3, ItemFacts DEF Steady
    <3>3. ~Earlier(p, p)
      BY <3>2 DEF Earlier
    <3>4. \A j \in DOMAIN given[w] : j \in Nat
      BY <2>1
    <3> QED BY <3>1, <3>3, <3>4
  <2> QED BY <1>0, <2>1, <2>2, <2>3, TimesGot
<1>4. ASSUME NEW w \in Iter, Of(w).mode = "sequential", Plain(Of(w)), Done(w), NEW p \in Steady(Of(w))
      PROVE  Times(w, p) = 1
  <2>1. Of(w) \in Build /\ p[1] < MaxId /\ p[1] \in Nat /\ Within(Of(w), p)
    BY <1>0, <1>4, SetupFacts, ItemFacts DEF Steady
  <2>2. First(Of(w)) <= p[1] /\ p[1] < End(Of(w))
    BY <1>4, <2>1, RangeFacts DEF First, End, Within
  <2> QED BY <1>3, <1>4, <2>2 DEF Readers
<1>5. ASSUME NEW w \in Iter, Splits(Of(w)), NEW v \in Family(w), NEW p \in Items, Of(v).part # Of(w).part,
             Times(v, p) # 0, Times(w, p) # 0
      PROVE  FALSE
  <2>1. v \in Iter /\ Of(v).mode = "partition" /\ Of(w).mode = "partition"
    BY <1>5 DEF Family, Splits
  <2>2. Got(v, p) /\ Got(w, p)
    BY <1>0, <1>5, <2>1, TimesGot
  <2>3. First(Of(v)) <= p[1] /\ p[1] < End(Of(v)) /\ First(Of(w)) <= p[1] /\ p[1] < End(Of(w))
    BY <2>1, <2>2 DEF ScanInv, RangeOK, Got
  <2>4. p[1] \in Nat /\ First(Of(v)) \in Nat /\ End(Of(v)) \in Nat /\ First(Of(w)) \in Nat /\ End(Of(w)) \in Nat
    BY <1>0, <2>1, SetupFacts, EndsFacts, ItemFacts
  <2> QED BY <1>0, <1>5, <2>1, <2>3, <2>4, FamilyApart
<1>6. ASSUME NEW w \in Iter, Splits(Of(w)), Plain(Of(w)), \A v \in Family(w) : Done(v),
             {Of(v).part : v \in Family(w)} = 0 .. Of(w).parts - 1, NEW p \in Steady(Of(w))
      PROVE  \E v \in Family(w) : Times(v, p) = 1
  <2> DEFINE b == Of(w)
  <2>1. b \in Build /\ p[1] < MaxId /\ p[1] \in Nat /\ Within(b, p)
    BY <1>0, <1>6, SetupFacts, ItemFacts DEF Steady
  <2>2. b.lo <= p[1] /\ p[1] < Last(b)
    BY <2>1, RangeFacts DEF Within
  <2>3. PICK k \in 0 .. b.parts - 1 :
          \A c \in Build : c.part = k /\ [c EXCEPT !.part = b.part] = b => First(c) <= p[1] /\ p[1] < End(c)
    BY <1>6, <2>1, <2>2, PartsCover
  <2>4. PICK v \in Family(w) : Of(v).part = k
    BY <1>6, <2>3
  <2>5. v \in Iter /\ Of(v) \in Build /\ Splits(Of(v)) /\ [Of(v) EXCEPT !.part = b.part] = b
    BY <1>0, SetupFacts DEF Family
  <2>6. First(Of(v)) <= p[1] /\ p[1] < End(Of(v))
    BY <2>3, <2>4, <2>5
  <2>7. Plain(Of(v)) /\ Steady(Of(v)) = Steady(b)
    <3> DEFINE c == Of(v)
    <3>1. c.filter = b.filter /\ c.lo = b.lo /\ c.hi = b.hi
          /\ c.subLo = b.subLo /\ c.subHi = b.subHi /\ c.limit = b.limit /\ c.timed = b.timed
          /\ c.wrap = b.wrap /\ c.wants = b.wants /\ c.passes = b.passes
      BY <2>1, <2>5, PartsAlike
    <3> HIDE DEF b, c
    <3>2. Plain(b)
      BY <1>6 DEF b
    <3>3. Plain(c)
      BY <3>1, <3>2 DEF Plain
    <3>4. Steady(c) = Steady(b)
      BY <3>1 DEF Steady, Within, matches_filter
    <3> QED BY <3>3, <3>4 DEF c
  <2>8. v \in Readers /\ Done(v)
    BY <1>6, <2>5 DEF Readers, Splits
  <2>9. Times(v, p) = 1
    BY <1>3, <1>6, <2>6, <2>7, <2>8
  <2> QED BY <2>9
<1>7. \A w \in Iter : Splits(Of(w)) =>
        /\ \A v \in Family(w), p \in Items : Of(v).part # Of(w).part => Times(v, p) = 0 \/ Times(w, p) = 0
        /\ Plain(Of(w)) /\ (\A v \in Family(w) : Done(v)) /\ {Of(v).part : v \in Family(w)} = 0 .. Of(w).parts - 1 =>
             \A p \in Steady(Of(w)) : \E v \in Family(w) : Times(v, p) = 1
  BY <1>5, <1>6
<1> QED BY <1>1, <1>2, <1>4, <1>7 DEF ScansComplete

(* Scans keep to their range and their order, and miss nothing that        *)
(* matched all the time, alone or as the parts of one range.               *)
THEOREM ScansAreComplete == Spec => []ScansComplete
BY ScanInit, ScanStep, ScansHold, PTL DEF Spec

-----------------------------------------------------------------------------
(* Limits and durations                                                    *)

(* The iterators that look at a limit.                                     *)
Limited == {w \in Iter : Of(w).mode \in {"sequential", "random", "partition"}}

(* The count of a reader is right and within its limit, and it returns     *)
(* nothing if its duration was over when it was called.  A random iterator *)
(* looks at both before its turns, not at each.                            *)
LimitInv(w) ==
  w \in Limited =>
    /\ it[w].yielded = Len(given[w])
    /\ Limit(Of(w)) # None => it[w].yielded <= Limit(Of(w))
    /\ it[w].wasLate => Of(w).timed /\ late[w]
    /\ pc[w] = "idle" /\ it[w].ret = "some" => ~it[w].wasLate
    /\ Of(w).mode = "random" /\ pc[w] \in {"next", "pick"} =>
         ~it[w].wasLate /\ (Limit(Of(w)) # None => it[w].yielded < Limit(Of(w)))

(* A share of the limit is no more than the limit, and the shares of all   *)
(* parts are fewer than the number of parts over it.                       *)
LEMMA LimitFacts ==
  ASSUME NEW b \in Build
  PROVE  /\ Limit(b) \in Nat \union {None} /\ (Limit(b) = None <=> b.limit = None)
         /\ b.limit # None => Limit(b) \in Nat /\ b.limit \in Nat /\ Limit(b) <= b.limit
         /\ b.limit # None /\ Splits(b) => Limit(b) * b.parts < b.limit + b.parts
<1> DEFINE c == CeilDiv(b.limit, b.parts)
<1>1. b.limit \in Nat \union {None} /\ b.parts \in Nat \ {0} /\ None \notin Nat
  BY BuildFields DEF None
<1>2. b.limit # None => c \in Nat /\ c <= b.limit /\ c * b.parts < b.limit + b.parts
  BY <1>1, RoundedUp
<1>3. Limit(b) = IF b.mode = "partition" /\ ~b.overlap /\ b.limit # None THEN c ELSE b.limit
  BY DEF Limit
<1> HIDE DEF c
<1>4. b.limit # None /\ Splits(b) => Limit(b) = c
  BY <1>3 DEF Splits
<1> QED BY <1>1, <1>2, <1>3, <1>4

(* No duration begins again.                                               *)
LEMMA LateStays ==
  ASSUME TypeInv, Kinds, NEW w \in Iter, late[w]
  PROVE  late'[w]
<1>1. late \in [Iter -> BOOLEAN]
  BY TypeParts
<1>2. late' = late \/ \E v \in Iter : late' = [late EXCEPT ![v] = TRUE]
  BY DEF Kinds, Building, Changing, Expiring, Refusing, Calling, Dropping, Reading, Drawing, Deleting, Fetching, Claiming,
         Shared
<1> QED BY <1>1, <1>2

(* No iterator has returned anything at first.                             *)
LEMMA LimitInit ==
  ASSUME Init, NEW w \in Iter
  PROVE  LimitInv(w)
<1>1. Of(w) \in Build
  BY SetupFacts DEF Init
<1>2. pc[w] = "unbuilt" /\ it[w] = Unbuilt /\ given[w] = <<>>
  BY DEF Init
<1>3. it[w].yielded = 0 /\ ~it[w].wasLate
  BY <1>2 DEF Unbuilt
<1>4. Len(given[w]) = 0
  BY <1>2
<1>5. Limit(Of(w)) # None => 0 <= Limit(Of(w))
  BY <1>1, LimitFacts
<1> QED BY <1>2, <1>3, <1>4, <1>5 DEF LimitInv

(* A step that leaves the count as it is.                                  *)
LEMMA LimitSame ==
  ASSUME TypeInv, Kinds, setup' = setup, NEW w \in Iter, LimitInv(w),
         it'[w].yielded = it[w].yielded, given'[w] = given[w],
         it'[w].wasLate => it[w].wasLate \/ (Of(w).timed /\ late[w]),
         pc'[w] = "idle" /\ it'[w].ret = "some" => ~it'[w].wasLate,
         Of(w).mode = "random" /\ pc'[w] \in {"next", "pick"} =>
           ~it'[w].wasLate /\ (Limit(Of(w)) # None => it'[w].yielded < Limit(Of(w)))
  PROVE  LimitInv(w)'
<1>1. Of(w)' = Of(w) /\ Limit(Of(w))' = Limit(Of(w)) /\ Limited' = Limited
  BY SameBuilder DEF Limited, Of
<1>2. w \in Limited =>
        /\ it[w].yielded = Len(given[w])
        /\ Limit(Of(w)) # None => it[w].yielded <= Limit(Of(w))
        /\ it[w].wasLate => Of(w).timed /\ late[w]
  BY DEF LimitInv
<1>3. late[w] => late'[w]
  BY LateStays
<1>4. w \in Limited => it'[w].yielded = Len(given'[w])
  BY <1>2
<1> QED BY <1>1, <1>2, <1>3, <1>4 DEF LimitInv

(* A step that returns an item within the limit.                           *)
LEMMA LimitMore ==
  ASSUME TypeInv, Kinds, setup' = setup, NEW w \in Limited, LimitInv(w), pc'[w] = "idle",
         NEW q \in Nat \X Nat, given'[w] = Append(given[w], q),
         it'[w].yielded = it[w].yielded + 1, it'[w].wasLate = it[w].wasLate, ~it[w].wasLate,
         Limit(Of(w)) # None => it[w].yielded < Limit(Of(w))
  PROVE  LimitInv(w)'
<1>0. w \in Iter
  BY DEF Limited
<1>1. Of(w)' = Of(w) /\ Limit(Of(w))' = Limit(Of(w)) /\ Limited' = Limited
  BY <1>0, SameBuilder DEF Limited, Of
<1>2. it[w].yielded = Len(given[w])
  BY DEF LimitInv
<1>3. it[w].yielded \in Nat /\ given[w] \in Seq(Nat \X Nat) /\ Limit(Of(w)) \in Nat \union {None} /\ None \notin Nat
  BY <1>0, IterFields, SetupFacts, LimitFacts DEF TypeInv, None
<1>4. Len(given'[w]) = Len(given[w]) + 1
  BY <1>3
<1>5. it'[w].yielded = Len(given'[w]) /\ (Limit(Of(w)) # None => it'[w].yielded <= Limit(Of(w)))
  BY <1>2, <1>3, <1>4
<1> QED BY <1>1, <1>5 DEF LimitInv

(* Every step keeps it.                                                    *)
LEMMA LimitStep ==
  ASSUME TypeInv, Kinds, setup' = setup, NEW w \in Iter, LimitInv(w)
  PROVE  LimitInv(w)'
<1> DEFINE b == Of(w)
           me == it[w]
<1>0. me \in IterType /\ me.id \in Nat /\ b \in Build
  BY SetupFacts, IterFields DEF TypeInv
<1>1. CASE w \notin Limited
  <2>1. Limited' = Limited
    BY DEF Limited, Of
  <2> QED BY <1>1, <2>1 DEF LimitInv
<1>2. CASE w \in Limited
  <2>0. /\ me.wasLate => b.timed /\ late[w]
        /\ pc[w] = "idle" /\ me.ret = "some" => ~me.wasLate
        /\ b.mode = "random" /\ pc[w] \in {"next", "pick"} =>
             ~me.wasLate /\ (Limit(b) # None => me.yielded < Limit(b))
    BY <1>2 DEF LimitInv
  <2>1. OneMove(w)
    BY OneMoves
  <2>2. CASE Same(w)
    BY <2>0, <2>2, LimitSame DEF Same
  <2>3. CASE BuiltNow(w)
    <3>1. /\ pc'[w] = "idle" /\ given'[w] = given[w] /\ it'[w].yielded = 0 /\ it'[w].ret = "fresh" /\ ~it'[w].wasLate
      BY <2>3, BuiltAt DEF TypeInv
    <3>2. it[w] = Unbuilt
      BY <2>3 DEF BuiltNow, TypeInv, Shape
    <3>3. it[w].yielded = 0
      BY <3>2 DEF Unbuilt
    <3> QED BY <3>1, <3>3, LimitSame
  <2>4. ~Refused(w) /\ ~Dropped(w) /\ ~Deleting(w) /\ ~Fetching(w) /\ ~Claiming(w)
    BY <1>2 DEF Refused, Dropped, Deleting, Fetching, Claiming, Limited, TypeInv, Shape
  <2>5. CASE Called(w)
    <3> DEFINE l == b.timed /\ late[w]
    <3>1. /\ me.calls < MaxCalls /\ it'[w] = [me EXCEPT !.calls = @ + 1, !.wasLate = l] /\ given'[w] = given[w]
          /\ pc'[w] = IF b.mode = "random" THEN "random" ELSE "next"
      BY <2>5 DEF Called, Went
    <3>2. l \in BOOLEAN
      BY <1>0, BuildFields DEF TypeInv, TypeOK
    <3> HIDE DEF l, me
    <3> DEFINE new == [me EXCEPT !.calls = @ + 1, !.wasLate = l]
    <3>3. new.yielded = me.yielded /\ new.wasLate = l
      BY <1>0, <3>1, <3>2, CalledFields DEF me
    <3>4. it'[w].yielded = me.yielded /\ it'[w].wasLate = l
      BY <3>1, <3>3
    <3> QED BY <3>1, <3>4, LimitSame DEF l, me
  <2>6. CASE Reading(w)
    <3>0. b.mode # "random"
      BY <2>6 DEF Reading, Readers
    <3>1. CASE Rewinds(w)
      BY <3>0, <3>1, LimitSame DEF Rewinds, Kept
    <3>2. CASE Ends(w)
      BY <3>0, <3>2, LimitSame DEF Ends, Kept
    <3>3. CASE Moves(w)
      BY <3>0, <3>3, LimitSame DEF Moves, Kept
    <3>4. ASSUME NEW q \in Places, Hands(w, q)
          PROVE  LimitInv(w)'
      <4>1. /\ pc'[w] = "idle" /\ it'[w].wasLate = me.wasLate /\ it'[w].yielded = me.yielded + 1
            /\ given'[w] = Append(given[w], q) /\ check_limit(w) /\ q \in Nat \X Nat
        BY <3>4 DEF Hands, Places
      <4>2. (Limit(b) # None => me.yielded < Limit(b)) /\ ~me.wasLate
        BY <2>0, <4>1 DEF check_limit
      <4> QED BY <1>2, <4>1, <4>2, LimitMore
    <3> QED BY <2>6, <3>1, <3>2, <3>3, <3>4, TurnFields
  <2>7. CASE Drawing(w)
    <3>0. /\ b.mode = "random"
          /\ \/ pc[w] = "random" /\ check_limit(w) /\ Went(w, "next", me)
             \/ pc[w] = "random" /\ Went(w, "idle", [me EXCEPT !.ret = "none"])
             \/ /\ pc[w] = "next"
                /\ \E n \in Nat : \/ Went(w, "idle", [me EXCEPT !.step = n, !.ret = "none"])
                                  \/ Went(w, "next", [me EXCEPT !.step = n])
                                  \/ \E i \in Nat : \/ Went(w, "pick", [me EXCEPT !.step = n, !.id = i])
                                                    \/ Gave(w, <<i, 0>>, [me EXCEPT !.step = n])
             \/ pc[w] = "pick" /\ \E s \in Nat : Gave(w, <<me.id, s>>, me)
      BY <2>7 DEF Drawing
    <3>1. ASSUME NEW label, NEW new \in IterType, Went(w, label, new), new.yielded = me.yielded, new.wasLate = me.wasLate,
                 label = "idle" => new.ret # "some",
                 label \in {"next", "pick"} => ~me.wasLate /\ (Limit(b) # None => me.yielded < Limit(b))
          PROVE  LimitInv(w)'
      <4>1. /\ pc'[w] = label /\ given'[w] = given[w] /\ it'[w].yielded = me.yielded /\ it'[w].wasLate = me.wasLate
            /\ it'[w].ret = new.ret
        BY <3>1 DEF Went
      <4> QED BY <3>1, <4>1, LimitSame
    <3>2. ASSUME NEW q \in Nat \X Nat, NEW new \in IterType, Gave(w, q, new), new.yielded = me.yielded,
                 new.wasLate = me.wasLate, pc[w] \in {"next", "pick"}
          PROVE  LimitInv(w)'
      <4>1. /\ pc'[w] = "idle" /\ it'[w].wasLate = me.wasLate /\ it'[w].yielded = me.yielded + 1
            /\ given'[w] = Append(given[w], q)
        BY <3>2, GaveFields
      <4> QED BY <1>2, <2>0, <3>0, <3>2, <4>1, LimitMore
    <3> HIDE DEF me
    <3>3. CASE pc[w] = "random" /\ check_limit(w) /\ Went(w, "next", me)
      <4>1. ~me.wasLate /\ (Limit(b) # None => me.yielded < Limit(b))
        BY <2>0, <3>3 DEF check_limit, me
      <4> QED BY <1>0, <3>1, <3>3, <4>1
    <3>4. CASE Went(w, "idle", [me EXCEPT !.ret = "none"])
      <4> DEFINE new == [me EXCEPT !.ret = "none"]
      <4>1. new \in IterType /\ new.yielded = me.yielded /\ new.wasLate = me.wasLate /\ new.ret = "none"
        BY <1>0, NoneFields
      <4> HIDE DEF new
      <4>2. Went(w, "idle", new)
        BY <3>4 DEF new
      <4> QED BY <3>1, <4>1, <4>2
    <3>5. ASSUME NEW n \in Nat, pc[w] = "next"
          PROVE  /\ Went(w, "idle", [me EXCEPT !.step = n, !.ret = "none"]) => LimitInv(w)'
                 /\ Went(w, "next", [me EXCEPT !.step = n]) => LimitInv(w)'
                 /\ \A i \in Nat : Went(w, "pick", [me EXCEPT !.step = n, !.id = i]) => LimitInv(w)'
                 /\ \A i \in Nat : Gave(w, <<i, 0>>, [me EXCEPT !.step = n]) => LimitInv(w)'
      <4>0. ~me.wasLate /\ (Limit(b) # None => me.yielded < Limit(b))
        BY <2>0, <3>0, <3>5 DEF me
      <4> DEFINE ended == [me EXCEPT !.step = n, !.ret = "none"]
                 moved == [me EXCEPT !.step = n]
                 picked(i) == [me EXCEPT !.step = n, !.id = i]
      <4>1. /\ ended \in IterType /\ ended.yielded = me.yielded /\ ended.wasLate = me.wasLate /\ ended.ret = "none"
            /\ moved \in IterType /\ moved.yielded = me.yielded /\ moved.wasLate = me.wasLate
            /\ \A i \in Nat : picked(i) \in IterType /\ picked(i).yielded = me.yielded /\ picked(i).wasLate = me.wasLate
        BY <1>0, StepFields, PickFields
      <4> HIDE DEF ended, moved, picked
      <4>2. Went(w, "idle", ended) => LimitInv(w)'
        BY <3>1, <4>1
      <4>3. Went(w, "next", moved) => LimitInv(w)'
        BY <3>1, <4>0, <4>1
      <4>4. \A i \in Nat : Went(w, "pick", picked(i)) => LimitInv(w)'
        BY <3>1, <4>0, <4>1
      <4>5. \A i \in Nat : Gave(w, <<i, 0>>, moved) => LimitInv(w)'
        <5>1. \A i \in Nat : <<i, 0>> \in Nat \X Nat
          OBVIOUS
        <5> QED BY <3>2, <3>5, <4>1, <5>1
      <4> QED BY <4>2, <4>3, <4>4, <4>5 DEF ended, moved, picked
    <3>6. ASSUME NEW s \in Nat, pc[w] = "pick", Gave(w, <<me.id, s>>, me)
          PROVE  LimitInv(w)'
      <4>1. <<me.id, s>> \in Nat \X Nat
        BY <1>0 DEF me
      <4> QED BY <1>0, <3>2, <3>6, <4>1
    <3>7. \/ pc[w] = "random" /\ check_limit(w) /\ Went(w, "next", me)
          \/ Went(w, "idle", [me EXCEPT !.ret = "none"])
          \/ /\ pc[w] = "next"
             /\ \E n \in Nat : \/ Went(w, "idle", [me EXCEPT !.step = n, !.ret = "none"])
                               \/ Went(w, "next", [me EXCEPT !.step = n])
                               \/ \E i \in Nat : \/ Went(w, "pick", [me EXCEPT !.step = n, !.id = i])
                                                 \/ Gave(w, <<i, 0>>, [me EXCEPT !.step = n])
          \/ pc[w] = "pick" /\ \E s \in Nat : Gave(w, <<me.id, s>>, me)
      BY <3>0 DEF me
    <3> QED BY <3>3, <3>4, <3>5, <3>6, <3>7
  <2> QED BY <2>1, <2>2, <2>3, <2>4, <2>5, <2>6, <2>7 DEF OneMove
<1> QED BY <1>1, <1>2

(* Parts with different numbers are no more than there are parts.          *)
LEMMA FamilySize ==
  ASSUME setup \in Setups, NEW w \in Iter, \A u, v \in Family(w) : u # v => Of(u).part # Of(v).part
  PROVE  IsFiniteSet(Family(w)) /\ Cardinality(Family(w)) \in Nat /\ Cardinality(Family(w)) <= Of(w).parts
<1> DEFINE n == Of(w).parts
           F == Family(w)
           T == 0 .. n - 1
           f == [v \in F |-> Of(v).part]
<1>1. n \in Nat \ {0} /\ Of(w) \in Build
  BY SetupFacts, BuildFields
<1>2. ASSUME NEW v \in F
      PROVE  Of(v).part \in T
  <2>1. v \in Iter /\ [Of(v) EXCEPT !.part = Of(w).part] = Of(w)
    BY <1>2 DEF Family
  <2>2. Of(v) \in Build /\ Of(v).part < Of(v).parts /\ Of(v).part \in Nat
    BY <2>1, SetupFacts, BuildFields
  <2>3. Of(v).parts = n
    BY <1>1, <2>1, <2>2, PartsAlike
  <2> QED BY <1>1, <2>2, <2>3
<1>3. f \in [F -> T]
  BY <1>2
<1>4. \A u, v \in F : f[u] = f[v] => u = v
  OBVIOUS
<1> HIDE DEF f, F, n
<1>5. f \in Injection(F, T)
  BY <1>3, <1>4 DEF Injection, IsInjective
<1>6. IsFiniteSet(T) /\ Cardinality(T) = n
  <2>1. 0 \in Int /\ n - 1 \in Int /\ ~(0 > n - 1) /\ n - 1 - 0 + 1 = n
    BY <1>1
  <2> DEFINE m == n - 1
  <2>2. 0 \in Int /\ m \in Int /\ ~(0 > m) /\ m - 0 + 1 = n
    BY <2>1
  <2> HIDE DEF m
  <2>3. IsFiniteSet(0 .. m) /\ Cardinality(0 .. m) = IF 0 > m THEN 0 ELSE m - 0 + 1
    BY <2>2, FS_Interval
  <2> QED BY <2>2, <2>3 DEF m
<1> HIDE DEF T
<1>7. IsFiniteSet(F) /\ Cardinality(F) <= n
  BY <1>5, <1>6, FS_Injection
<1> QED BY <1>7, FS_CardinalityType DEF F, n

(* The invariant says that limits are kept.                                *)
LEMMA LimitsHold ==
  ASSUME TypeInv, \A w \in Iter : LimitInv(w)
  PROVE  LimitKept
<1>0. setup \in Setups /\ TypeOK
  BY DEF TypeInv
<1>1. ASSUME NEW w \in Limited
      PROVE  /\ pc[w] = "idle" /\ it[w].ret = "some" => ~it[w].wasLate
             /\ Of(w).limit # None =>
                  Len(given[w]) <= Limit(Of(w)) /\ Len(given[w]) <= Of(w).limit /\ Len(given[w]) \in Nat
  <2>1. w \in Iter /\ Of(w) \in Build /\ LimitInv(w)
    BY <1>0, SetupFacts DEF Limited
  <2>2. it[w].yielded \in Nat /\ it[w].yielded = Len(given[w])
    BY <1>0, <2>1, IterFields DEF LimitInv
  <2> QED BY <2>1, <2>2, LimitFacts DEF LimitInv
<1>2. ASSUME NEW w \in Iter, Splits(Of(w)), Of(w).limit # None,
             \A u, v \in Family(w) : u # v => Of(u).part # Of(v).part
      PROVE  Cardinality(UNION {{v} \X DOMAIN given[v] : v \in Family(w)}) < Of(w).limit + Of(w).parts
  <2> DEFINE b == Of(w)
             c == Limit(b)
             F == Family(w)
             S == UNION {{v} \X DOMAIN given[v] : v \in F}
  <2>1. b \in Build /\ b.parts \in Nat \ {0} /\ b.limit \in Nat /\ c \in Nat /\ c * b.parts < b.limit + b.parts
    BY <1>0, <1>2, SetupFacts, BuildFields, LimitFacts
  <2>2. IsFiniteSet(F) /\ Cardinality(F) \in Nat /\ Cardinality(F) <= b.parts
    BY <1>0, <1>2, FamilySize
  <2>3. ASSUME NEW v \in F
        PROVE  DOMAIN given[v] \subseteq 1 .. c
    <3>1. v \in Iter /\ Splits(Of(v)) /\ [Of(v) EXCEPT !.part = b.part] = b
      BY <2>3 DEF Family
    <3>2. Of(v) \in Build /\ v \in Limited /\ given[v] \in Seq(Nat \X Nat)
      BY <1>0, <3>1, SetupFacts, IterFields DEF Limited, Splits
    <3>3. b.limit = Of(v).limit /\ b.mode = Of(v).mode /\ b.overlap = Of(v).overlap /\ b.parts = Of(v).parts
      BY <2>1, <3>1, <3>2, PartsAlike
    <3>4. Limit(Of(v)) = c
      BY <3>3 DEF Limit
    <3>5. Len(given[v]) <= c /\ Len(given[v]) \in Nat
      BY <1>1, <1>2, <3>2, <3>3, <3>4
    <3>6. DOMAIN given[v] = 1 .. Len(given[v])
      BY <3>2
    <3> QED BY <2>1, <3>5, <3>6
  <2>4. S \subseteq F \X (1 .. c)
    BY <2>3
  <2> HIDE DEF S, F, c, b
  <2>5. IsFiniteSet(1 .. c) /\ Cardinality(1 .. c) = c
    <3>1. 1 \in Int /\ c \in Int /\ (IF 1 > c THEN 0 ELSE c - 1 + 1) = c
      BY <2>1
    <3> QED BY <3>1, FS_Interval
  <2>6. IsFiniteSet(F \X (1 .. c)) /\ Cardinality(F \X (1 .. c)) = Cardinality(F) * c
    BY <2>2, <2>5, FS_Product
  <2>7. Cardinality(S) <= Cardinality(F) * c
    BY <2>4, <2>6, FS_Subset
  <2>8. IsFiniteSet(S) /\ Cardinality(S) \in Nat
    BY <2>4, <2>6, FS_Subset, FS_CardinalityType
  <2>9. Cardinality(F) * c <= b.parts * c /\ Cardinality(F) * c \in Nat /\ b.parts * c \in Nat
    BY <2>1, <2>2, Multiples
  <2>10. b.parts * c = c * b.parts
    BY <2>1
  <2> DEFINE x == Cardinality(F) * c
             y == b.parts * c
             z == Cardinality(S)
  <2>11. z \in Nat /\ x \in Nat /\ y \in Nat /\ z <= x /\ x <= y /\ y < b.limit + b.parts
    BY <2>1, <2>7, <2>8, <2>9, <2>10
  <2> HIDE DEF x, y, z
  <2>12. z < b.limit + b.parts
    BY <2>1, <2>11
  <2> QED BY <2>12 DEF z, b, S, F
<1> QED BY <1>1, <1>2 DEF LimitKept, Limited

(* Nothing is returned past the limit, or by a call after the duration;    *)
(* the parts of one range share the limit.                                 *)
THEOREM LimitsAreKept == Spec => []LimitKept
<1> DEFINE Inv == TypeInv /\ \A w \in Iter : LimitInv(w)
<1>1. Init => Inv
  BY TypeInit, LimitInit
<1>2. Inv /\ [Next]_vars => Inv'
  <2> SUFFICES ASSUME Inv, [Next]_vars PROVE Inv'
    OBVIOUS
  <2>1. TypeInv'
    BY TypeStep
  <2>2. CASE Next
    <3>1. setup' = setup /\ Kinds
      BY <2>2, NextKinds
    <3> QED BY <2>1, <3>1, LimitStep
  <2>3. CASE UNCHANGED vars
    <3>1. setup' = setup /\ pc' = pc /\ it' = it /\ given' = given /\ late' = late
      BY <2>3 DEF vars
    <3>2. \A w \in Iter : LimitInv(w)'
      BY <3>1 DEF LimitInv, Limited, Limit, Of, CeilDiv
    <3> QED BY <2>1, <3>2
  <2> QED BY <2>2, <2>3
<1>3. Inv => LimitKept
  BY LimitsHold
<1> QED BY <1>1, <1>2, <1>3, PTL DEF Spec

-----------------------------------------------------------------------------
(* Delete iterators                                                        *)

Deleters == {w \in Iter : Of(w).mode = "delete"}
Active(w) == pc[w] \in Running \union {"idle"}

(* An item is returned by no two calls of an iterator.                     *)
Once(w, p) == \A j, k \in DOMAIN given[w] : given[w][j] = p /\ given[w][k] = p => j = k

(* An active delete iterator holds the flag, alone; ...                    *)
AloneInv ==
  \A w \in Deleters : Active(w) => deleting /\ \A v \in Deleters : Active(v) => v = w

(* ... what it returned, and nobody else touched, was there from the start *)
(* and is gone, ...                                                        *)
GoneInv ==
  \A w \in Deleters, p \in Nat \X Nat : p \notin touched /\ Got(w, p) =>
    /\ p \in setup.start /\ p \notin bits /\ Once(w, p)
    /\ \A v \in Deleters : Got(v, p) => v = w

(* ... and nothing is left behind it, at None in all its range.            *)
SweptInv ==
  \A w \in Deleters :
    /\ ~hier /\ w \in BuiltOnes => \A p \in bits : First(Of(w)) <= p[1] /\ p[1] < it[w].id => p \in touched
    /\ Done(w) => it[w].id >= it[w].last

(* A turn of a delete iterator by its fields.                              *)
LEMMA DeleteFields ==
  ASSUME TypeInv, NEW w \in Iter, Deleting(w)
  PROVE  /\ it'[w].last = it[w].last
         /\ \/ /\ pc'[w] = "idle" /\ it'[w].ret = "none" /\ it'[w].id = it[w].id /\ it[w].id >= it[w].last
               /\ given'[w] = given[w] /\ bits' = bits
            \/ /\ pc'[w] = "next" /\ it'[w].id = it[w].id + 1 /\ <<it[w].id, 0>> \notin bits
               /\ given'[w] = given[w] /\ bits' = bits
            \/ /\ pc'[w] = "idle" /\ it'[w].ret = "some" /\ it'[w].id = it[w].id + 1 /\ <<it[w].id, 0>> \in bits
               /\ given'[w] = Append(given[w], <<it[w].id, 0>>) /\ bits' = bits \ {<<it[w].id, 0>>}
<1> DEFINE me == it[w]
           there == [me EXCEPT !.id = @ + 1]
           none == [me EXCEPT !.ret = "none"]
<1>0. me \in IterType
  BY IterFields DEF TypeInv
<1>1. /\ there \in IterType /\ there.id = me.id + 1 /\ there.last = me.last
      /\ none.id = me.id /\ none.last = me.last /\ none.ret = "none"
  BY <1>0 DEF IterType
<1> HIDE DEF there, none
<1>2. CASE me.id >= me.last /\ Went(w, "idle", none) /\ bits' = bits
  BY <1>1, <1>2 DEF Went
<1>3. CASE <<me.id, 0>> \notin bits /\ Went(w, "next", there) /\ bits' = bits
  BY <1>1, <1>3 DEF Went
<1>4. CASE <<me.id, 0>> \in bits /\ Gave(w, <<me.id, 0>>, there) /\ bits' = bits \ {<<me.id, 0>>}
  BY <1>1, <1>4, GaveFields
<1>5. \/ me.id >= me.last /\ Went(w, "idle", none) /\ bits' = bits
      \/ <<me.id, 0>> \notin bits /\ Went(w, "next", there) /\ bits' = bits
      \/ <<me.id, 0>> \in bits /\ Gave(w, <<me.id, 0>>, there) /\ bits' = bits \ {<<me.id, 0>>}
  BY DEF Deleting, there, none
<1> QED BY <1>2, <1>3, <1>4, <1>5

(* How a delete iterator can move.                                         *)
LEMMA DeleterMoves ==
  ASSUME TypeInv, NEW w \in Deleters, OneMove(w)
  PROVE  \/ Same(w) \/ BuiltNow(w) \/ Refused(w) \/ Called(w) \/ Dropped(w) \/ Deleting(w)
BY DEF OneMove, Reading, Readers, Drawing, Fetching, Claiming, TypeInv, Shape, Deleters

(* A call changes the label and what the call is known by.                 *)
LEMMA CallFields ==
  ASSUME TypeInv, NEW w \in Iter, Called(w)
  PROVE  /\ pc[w] = "idle" /\ pc'[w] \in {"random", "next"} /\ given'[w] = given[w]
         /\ it'[w].id = it[w].id /\ it'[w].sub = it[w].sub /\ it'[w].last = it[w].last
<1> DEFINE me == it[w]
           l == Of(w).timed /\ late[w]
           new == [me EXCEPT !.calls = @ + 1, !.wasLate = l]
<1>0. me \in IterType
  BY IterFields DEF TypeInv
<1>1. pc[w] = "idle" /\ pc'[w] \in {"random", "next"} /\ given'[w] = given[w] /\ it'[w] = new
  BY DEF Called, Went
<1> HIDE DEF me, l
<1>2. new.id = me.id /\ new.sub = me.sub /\ new.last = me.last
  BY <1>0 DEF IterType
<1> QED BY <1>1, <1>2 DEF me

(* There is one delete iterator at a time.                                 *)
LEMMA AloneStep ==
  ASSUME TypeInv, Kinds, setup' = setup, AloneInv
  PROVE  AloneInv'
<1>0. Deleters' = Deleters
  BY DEF Deleters, Of
<1> SUFFICES ASSUME NEW w \in Deleters, NEW v \in Deleters, Active(w)', Active(v)'
             PROVE  deleting' /\ v = w
  BY <1>0 DEF AloneInv
<1>1. w \in Iter /\ v \in Iter /\ Of(w).mode = "delete" /\ Of(v).mode = "delete"
  BY DEF Deleters
<1>2. CASE Building
  <2>1. CASE (\A u \in Iter : Same(u) \/ (BuiltNow(u) /\ Of(u).mode # "delete")) /\ deleting' = deleting
    <3>1. Same(w) /\ Same(v)
      BY <1>1, <2>1
    <3> QED BY <2>1, <3>1 DEF Same, Active, AloneInv
  <2>2. CASE ~deleting /\ deleting' = TRUE /\ \E u \in Iter : OnlyAt(u) /\ BuiltNow(u) /\ Of(u).mode = "delete"
    <3>1. PICK u \in Iter : OnlyAt(u)
      BY <2>2
    <3>2. ~Active(w) /\ ~Active(v)
      BY <2>2 DEF AloneInv
    <3>3. ~Same(w) /\ ~Same(v)
      BY <3>2 DEF Same, Active
    <3>4. w = u /\ v = u
      BY <1>1, <3>1, <3>3 DEF OnlyAt
    <3> QED BY <2>2, <3>4
  <2> QED BY <1>2, <2>1, <2>2 DEF Building
<1>3. CASE Changing \/ Expiring
  <2>1. Same(w) /\ Same(v) /\ deleting' = deleting
    BY <1>1, <1>3 DEF Changing, Expiring
  <2> QED BY <2>1 DEF Same, Active, AloneInv
<1>4. ASSUME NEW u \in Iter, Dropping(u)
      PROVE  FALSE
  <2>1. OnlyAt(u) /\ pc[u] = "idle" /\ pc'[u] = "gone" /\ u \in Deleters
    BY <1>4 DEF Dropping, Dropped, Went, Deleters
  <2>2. w # u
    BY <2>1 DEF Active, Running
  <2>3. Same(w)
    BY <1>1, <2>1, <2>2 DEF OnlyAt
  <2>4. Active(w) /\ Active(u)
    BY <2>1, <2>3 DEF Active, Same
  <2> QED BY <2>1, <2>2, <2>4 DEF AloneInv
<1>5. ASSUME NEW u \in Iter, Refusing(u) \/ Calling(u) \/ Reading(u) \/ Drawing(u) \/ Deleting(u) \/ Fetching(u) \/ Claiming(u)
      PROVE  deleting' /\ v = w
  <2>1. deleting' = deleting /\ OnlyAt(u)
    BY <1>5 DEF Refusing, Calling, Reading, Drawing, Deleting, Fetching, Claiming, Shared, Turned
  <2>2. ASSUME NEW x \in Deleters, Active(x)'
        PROVE  Active(x)
    <3>1. CASE x # u
      BY <2>1, <2>2, <3>1 DEF OnlyAt, Same, Active, Deleters
    <3>2. CASE x = u
      <4>1. ~Refusing(u)
        BY <2>2, <3>2 DEF Refusing, Refused, Went, Active, Running
      <4>2. Calling(u) \/ Deleting(u)
        BY <1>5, <3>2, <4>1 DEF Deleters, Reading, Readers, Drawing, Fetching, Claiming, TypeInv, Shape
      <4>3. pc[u] \in {"idle", "next"}
        BY <4>2 DEF Calling, Called, Deleting
      <4> QED BY <3>2, <4>3 DEF Active, Running
    <3> QED BY <3>1, <3>2
  <2>3. Active(w) /\ Active(v)
    BY <2>2
  <2> QED BY <2>1, <2>3 DEF AloneInv
<1> QED BY <1>2, <1>3, <1>4, <1>5 DEF Kinds

(* What an iterator has returned once it has, if it does not return it     *)
(* again.                                                                  *)
LEMMA OnceKept ==
  ASSUME TypeInv, NEW w \in Iter, OneMove(w), NEW p,
         Got(w, p) => Once(w, p) /\ given'[w] # Append(given[w], p)
  PROVE  Once(w, p)'
<1> DEFINE s == given[w]
           t == given'[w]
<1>1. CASE t = s
  <2>1. Got(w, p) => Once(w, p)
    OBVIOUS
  <2> QED BY <1>1, <2>1 DEF Once, Got
<1>2. ASSUME NEW q \in Nat \X Nat, t = Append(s, q)
      PROVE  Once(w, p)'
  <2>1. s \in Seq(Nat \X Nat)
    BY IterFields DEF TypeInv
  <2>2. p = q => ~Got(w, p)
    BY <1>2
  <2>3. Got(w, p) => \A j, k \in DOMAIN s : s[j] = p /\ s[k] = p => j = k
    BY DEF Once
  <2>4. (\E k \in DOMAIN s : s[k] = p) => Got(w, p)
    BY DEF Got
  <2> HIDE DEF s, t
  <2>5. /\ \A k \in DOMAIN s : t[k] = s[k]
        /\ t[Len(s) + 1] = q
        /\ \A k \in DOMAIN t : k \in DOMAIN s \/ k = Len(s) + 1
    BY <1>2, <2>1, Appended
  <2>6. CASE p = q
    <3>1. \A k \in DOMAIN t : t[k] = p => k = Len(s) + 1
      BY <2>2, <2>4, <2>5, <2>6
    <3> QED BY <3>1 DEF Once, t
  <2>7. CASE p # q
    <3>1. \A k \in DOMAIN t : t[k] = p => k \in DOMAIN s /\ s[k] = p
      BY <2>5, <2>7
    <3> QED BY <2>3, <2>4, <3>1 DEF Once, t
  <2> QED BY <2>6, <2>7
<1> QED BY <1>1, <1>2, OneGiven

(* What others do not touch does not come back.                            *)
LEMMA GoneStep ==
  ASSUME TypeInv, StateInv, Kinds, setup' = setup, GoneInv
  PROVE  GoneInv'
<1>0. Deleters' = Deleters
  BY DEF Deleters, Of
<1>1. \A w \in Iter : OneMove(w)
  BY OneMoves
<1>2. touched \subseteq touched'
  BY DEF Kinds, Building, Changing, Expiring, Refusing, Calling, Dropping, Reading, Drawing, Deleting, Fetching, Claiming, Shared
<1>3. ASSUME NEW w \in Deleters, NEW p \in Nat \X Nat, ~Got(w, p), Got(w, p)'
      PROVE  p \in bits /\ p \notin bits' /\ given'[w] = Append(given[w], p) /\ Deleting(w) /\ ~hier
  <2>0. w \in Iter /\ OneMove(w)
    BY <1>1 DEF Deleters
  <2>1. given'[w] # given[w]
    BY <1>3 DEF Got
  <2>2. Deleting(w)
    BY <2>0, <2>1, DeleterMoves, CallFields DEF Same, BuiltNow, Refused, Dropped, Went
  <2> DEFINE q == <<it[w].id, 0>>
  <2>3. q \in bits /\ given'[w] = Append(given[w], q) /\ bits' = bits \ {q}
    BY <2>0, <2>1, <2>2, DeleteFields
  <2>4. q \in Nat \X Nat
    BY <2>0, IterFields DEF TypeInv
  <2> HIDE DEF q
  <2>5. p = q
    BY <1>3, <2>0, <2>3, <2>4, GotOne
  <2>6. ~hier
    BY <2>2 DEF Deleting
  <2> QED BY <2>2, <2>3, <2>5, <2>6
<1>4. ASSUME NEW w \in Deleters, NEW p \in Nat \X Nat, p \notin touched', Got(w, p)
      PROVE  p \in setup.start /\ p \notin bits'
  <2>1. p \in setup.start /\ p \notin bits
    BY <1>2, <1>4 DEF GoneInv
  <2>2. given[w] # <<>>
    BY <1>4 DEF Got
  <2>3. ~hier
    BY <2>2 DEF StateInv, Deleters
  <2>4. \A u \in Iter : ~Claiming(u)
    BY <2>3 DEF Claiming, TypeInv, Shape
  <2>5. bits' \subseteq bits \/ Changing
    BY <2>4 DEF Kinds, Building, Expiring, Refusing, Calling, Dropping, Reading, Drawing, Deleting, Fetching, Shared
  <2>6. ASSUME Changing
        PROVE  p \notin bits'
    <3>1. PICK q \in Items : touched' = touched \union {q} /\ (bits' = bits \union {q} \/ bits' = bits \ {q})
      BY <2>6 DEF Changing
    <3> QED BY <1>4, <2>1, <3>1
  <2> QED BY <2>1, <2>5, <2>6
<1>5. ASSUME NEW w \in Deleters, NEW p \in Nat \X Nat, p \notin touched', ~Got(w, p), Got(w, p)'
      PROVE  /\ p \in setup.start /\ p \notin bits' /\ \A v \in Deleters : ~Got(v, p)
  <2>1. p \in bits /\ p \notin bits' /\ ~hier /\ p \notin touched
    BY <1>2, <1>3, <1>5
  <2>2. \A v \in Deleters : ~Got(v, p)
    BY <2>1 DEF GoneInv
  <2>3. \A v \in Changers \ Deleters : ~Got(v, p)
    <3>1. \A v \in Changers \ Deleters : given[v] = <<>>
      BY <2>1 DEF StateInv, Changers, Deleters
    <3> QED BY <3>1 DEF Got
  <2>4. Untouched(p)
    BY <2>1, <2>2, <2>3 DEF Untouched
  <2> QED BY <2>1, <2>2, <2>4 DEF StateInv
<1>6. ASSUME NEW w \in Deleters, NEW p \in Nat \X Nat, p \notin touched', Got(w, p)'
      PROVE  Once(w, p)'
  <2>0. w \in Iter /\ OneMove(w)
    BY <1>1 DEF Deleters
  <2>1. ASSUME Got(w, p), given'[w] = Append(given[w], p)
        PROVE  FALSE
    <3> DEFINE s == given[w]
               t == given'[w]
               x == <<it[w].id, 0>>
    <3>1. p \notin bits
      BY <1>2, <1>6, <2>1 DEF GoneInv
    <3>2. s \in Seq(Nat \X Nat) /\ x \in Nat \X Nat /\ t = Append(s, p)
      BY <2>0, <2>1, IterFields DEF TypeInv
    <3>3. t # s
      <4> HIDE DEF s, t
      <4> QED BY <3>2
    <3>4. Deleting(w)
      BY <2>0, <3>3, DeleterMoves, CallFields DEF Same, BuiltNow, Refused, Dropped, Went
    <3>5. x \in bits /\ t = Append(s, x)
      BY <2>0, <3>3, <3>4, DeleteFields
    <3> HIDE DEF s, t, x
    <3>6. t[Len(s) + 1] = p
      BY <3>2, Appended
    <3>7. t[Len(s) + 1] = x
      BY <3>2, <3>5, Appended
    <3> QED BY <3>1, <3>5, <3>6, <3>7
  <2>2. Got(w, p) => Once(w, p)
    BY <1>2, <1>6 DEF GoneInv
  <2> QED BY <2>0, <2>1, <2>2, OnceKept
<1>7. ASSUME NEW w \in Deleters, NEW p \in Nat \X Nat, p \notin touched', Got(w, p)', NEW v \in Deleters, Got(v, p)', v # w
      PROVE  FALSE
  <2>1. CASE Got(w, p) /\ Got(v, p)
    BY <1>2, <1>7, <2>1 DEF GoneInv
  <2>2. CASE ~Got(w, p) /\ ~Got(v, p)
    <3>1. Deleting(w) /\ given'[v] # given[v]
      BY <1>3, <1>7, <2>2 DEF Got
    <3>2. Same(v)
      BY <1>7, <3>1 DEF Deleting, OnlyAt, Deleters
    <3> QED BY <3>1, <3>2 DEF Same
  <2>3. CASE Got(w, p) /\ ~Got(v, p)
    <3>1. \A x \in Deleters : ~Got(x, p)
      BY <1>5, <1>7, <2>3
    <3> QED BY <2>3, <3>1
  <2>4. CASE ~Got(w, p) /\ Got(v, p)
    <3>1. \A x \in Deleters : ~Got(x, p)
      BY <1>5, <1>7, <2>4
    <3> QED BY <2>4, <3>1
  <2> QED BY <2>1, <2>2, <2>3, <2>4
<1>8. ASSUME NEW w \in Deleters, NEW p \in Nat \X Nat, p \notin touched', Got(w, p)'
      PROVE  p \in setup.start /\ p \notin bits'
  BY <1>4, <1>5, <1>8
<1> QED BY <1>0, <1>6, <1>7, <1>8 DEF GoneInv

(* Nothing comes back behind a delete iterator.                            *)
LEMMA SweptStep ==
  ASSUME TypeInv, TypeInv', StateInv, Kinds, setup' = setup, SweptInv
  PROVE  SweptInv'
<1>0. Deleters' = Deleters /\ hier' = hier /\ \A w \in Deleters : First(Of(w))' = First(Of(w))
  BY SameBuilder DEF Deleters, Of
<1>1. touched \subseteq touched'
  BY DEF Kinds, Building, Changing, Expiring, Refusing, Calling, Dropping, Reading, Drawing, Deleting, Fetching, Claiming, Shared
<1>2. ASSUME ~hier, NEW p \in bits', p \notin touched'
      PROVE  p \in bits
  <2>1. \A u \in Iter : ~Claiming(u)
    BY <1>2 DEF Claiming, TypeInv, Shape
  <2>2. bits' \subseteq bits \/ Changing
    BY <2>1 DEF Kinds, Building, Expiring, Refusing, Calling, Dropping, Reading, Drawing, Deleting, Fetching, Shared
  <2>3. ASSUME Changing
        PROVE  p \in bits
    <3>1. PICK q \in Items : touched' = touched \union {q} /\ (bits' = bits \union {q} \/ bits' = bits \ {q})
      BY <2>3 DEF Changing
    <3> QED BY <1>2, <3>1
  <2> QED BY <1>2, <2>2, <2>3
<1>3. ASSUME NEW w \in Deleters
      PROVE  /\ ~hier /\ w \in BuiltOnes' =>
                  \A p \in bits' : First(Of(w)) <= p[1] /\ p[1] < it'[w].id => p \in touched'
             /\ Done(w)' => it'[w].id >= it'[w].last
  <2>0. w \in Iter /\ OneMove(w) /\ it[w].id \in Nat
    BY OneMoves, IterFields DEF Deleters, TypeInv
  <2>1. ~hier /\ w \in BuiltOnes => \A p \in bits : First(Of(w)) <= p[1] /\ p[1] < it[w].id => p \in touched
    BY DEF SweptInv
  <2>2. Done(w) => it[w].id >= it[w].last
    BY DEF SweptInv
  <2>3. ASSUME it'[w].id = it[w].id, w \in BuiltOnes' => w \in BuiltOnes
        PROVE  ~hier /\ w \in BuiltOnes' =>
                 \A p \in bits' : First(Of(w)) <= p[1] /\ p[1] < it'[w].id => p \in touched'
    BY <1>1, <1>2, <2>1, <2>3
  <2>4. CASE Same(w)
    BY <2>2, <2>3, <2>4 DEF Same, BuiltOnes, Done
  <2>5. CASE BuiltNow(w)
    <3>1. it'[w].id = First(Of(w)) /\ it'[w].ret = "fresh"
      BY <2>0, <2>5, BuiltAt DEF TypeInv
    <3>2. \A p \in bits' : p[1] \in Nat
      <4>1. bits' \subseteq Nat \X Nat
        BY DEF TypeInv, TypeOK
      <4> QED BY <4>1
    <3>3. First(Of(w)) \in Nat
      BY <2>0, SetupFacts, EndsFacts DEF TypeInv
    <3>4. ~Done(w)'
      BY <3>1 DEF Done
    <3>5. ASSUME ~hier, NEW p \in bits', First(Of(w)) <= p[1], p[1] < it'[w].id
          PROVE  FALSE
      <4>1. p[1] \in Nat
        BY <3>2, <3>5
      <4> QED BY <3>1, <3>3, <3>5, <4>1
    <3> QED BY <3>4, <3>5
  <2>6. CASE Refused(w)
    <3>1. w \notin BuiltOnes' /\ pc'[w] = "refused"
      BY <2>6 DEF Refused, Went, BuiltOnes
    <3> QED BY <3>1 DEF Done
  <2>7. CASE Called(w)
    <3>1. it'[w].id = it[w].id /\ w \in BuiltOnes /\ pc'[w] # "idle"
      BY <2>0, <2>7, CallFields DEF BuiltOnes
    <3> QED BY <2>3, <3>1 DEF Done
  <2>8. CASE Dropped(w)
    <3>1. it'[w] = it[w] /\ w \in BuiltOnes /\ pc'[w] # "idle"
      BY <2>0, <2>8 DEF Dropped, Went, BuiltOnes
    <3> QED BY <2>3, <3>1 DEF Done
  <2>9. CASE Deleting(w)
    <3> DEFINE i == it[w].id
    <3>0. w \in BuiltOnes /\ ~hier /\ bits \subseteq Nat \X {0}
      BY <2>0, <2>9 DEF Deleting, BuiltOnes, StateInv
    <3>1. CASE it'[w].id = i
      <4>1. it[w].id >= it[w].last /\ it'[w].last = it[w].last
        <5>1. i # i + 1
          BY <2>0
        <5> QED BY <2>0, <2>9, <3>1, <5>1, DeleteFields
      <4> QED BY <2>3, <3>0, <3>1, <4>1
    <3>2. CASE it'[w].id = i + 1
      <4>1. ~Done(w)' /\ bits' \subseteq bits /\ <<i, 0>> \notin bits'
        <5>1. i # i + 1
          BY <2>0
        <5> QED BY <2>0, <2>9, <3>2, <5>1, DeleteFields DEF Done
      <4>2. ASSUME NEW p \in bits', First(Of(w)) <= p[1], p[1] < i + 1
            PROVE  p \in touched'
        <5>1. p \in bits /\ p = <<p[1], 0>> /\ p[1] \in Nat
          BY <3>0, <4>1
        <5>2. p[1] # i
          BY <4>1, <5>1
        <5>3. p[1] < i
          BY <2>0, <4>2, <5>1, <5>2
        <5> QED BY <1>1, <2>1, <3>0, <4>2, <5>1, <5>3
      <4> QED BY <3>2, <4>1, <4>2
    <3> QED BY <2>0, <2>9, <3>1, <3>2, DeleteFields
  <2> QED BY <2>0, <2>4, <2>5, <2>6, <2>7, <2>8, <2>9, DeleterMoves
<1> QED BY <1>0, <1>3 DEF SweptInv

(* The invariant of the delete iterators.                                  *)
DeleteInv == TypeInv /\ StateInv /\ AloneInv /\ GoneInv /\ SweptInv

(* At first there are no delete iterators.                                 *)
LEMMA DeleteInit ==
  ASSUME Init
  PROVE  DeleteInv
<1>1. \A w \in Iter : pc[w] = "unbuilt" /\ given[w] = <<>>
  BY DEF Init
<1>2. \A w \in Iter : \A p : ~Got(w, p)
  BY <1>1 DEF Got
<1>3. AloneInv /\ SweptInv
  BY <1>1 DEF AloneInv, SweptInv, Active, Running, Done, BuiltOnes, Deleters
<1>4. GoneInv
  BY <1>2 DEF GoneInv, Deleters
<1> QED BY <1>3, <1>4, TypeInit, StateInit DEF DeleteInv

(* Every step keeps the invariant.                                         *)
LEMMA DeleteStep ==
  ASSUME DeleteInv, [Next]_vars
  PROVE  DeleteInv'
<1>1. CASE Next
  <2>1. setup' = setup /\ Kinds
    BY <1>1, NextKinds DEF DeleteInv
  <2> QED BY <1>1, <2>1, TypeStep, StateStep, AloneStep, GoneStep, SweptStep DEF DeleteInv
<1>2. CASE UNCHANGED vars
  <2>1. TypeInv'
    BY TypeStep DEF DeleteInv
  <2>2. /\ setup' = setup /\ bits' = bits /\ touched' = touched /\ made' = made /\ deleting' = deleting
        /\ pc' = pc /\ it' = it /\ given' = given
    BY <1>2 DEF vars
  <2>3. StateInv'
    BY <2>2 DEF DeleteInv, StateInv, hier, Of, Untouched, Changers, Got
  <2>4. AloneInv' /\ GoneInv'
    BY <2>2 DEF DeleteInv, AloneInv, GoneInv, Active, Deleters, Of, Got, Once
  <2>5. SweptInv'
    <3>1. hier' = hier /\ Deleters' = Deleters /\ BuiltOnes' = BuiltOnes /\ \A w \in Deleters : First(Of(w))' = First(Of(w))
      BY <2>2, SameBuilder DEF Deleters, Of, BuiltOnes
    <3> QED BY <2>2, <3>1 DEF DeleteInv, SweptInv, Done
  <2> QED BY <2>1, <2>3, <2>4, <2>5 DEF DeleteInv
<1> QED BY <1>1, <1>2

(* The invariant says that deletes are complete.                           *)
LEMMA DeletesHold ==
  ASSUME DeleteInv
  PROVE  DeletesComplete
<1>0. TypeInv /\ TypeOK /\ setup \in Setups /\ StateInv
  BY DEF DeleteInv, TypeInv
<1>1. Cardinality({w \in Deleters : Active(w)}) <= 1
  <2> DEFINE S == {w \in Deleters : Active(w)}
  <2>1. \A v, w \in S : v = w
    BY DEF DeleteInv, AloneInv
  <2> HIDE DEF S
  <2>2. CASE S = {}
    <3>1. Cardinality(S) = 0
      BY <2>2, FS_EmptySet
    <3> QED BY <3>1 DEF S
  <2>3. ASSUME NEW w \in S
        PROVE  Cardinality(S) <= 1
    <3>1. S = {w}
      BY <2>1, <2>3
    <3>2. Cardinality({w}) = 1
      BY FS_Singleton
    <3> QED BY <3>1, <3>2
  <2> QED BY <2>2, <2>3 DEF S
<1>2. ASSUME NEW w \in Deleters, NEW p \in Items \ touched, Times(w, p) > 0
      PROVE  /\ Times(w, p) = 1 /\ p \in setup.start \ bits
             /\ \A v \in Deleters \ {w} : Times(v, p) = 0
  <2>0. \A v \in Deleters : v \in Iter
    BY DEF Deleters
  <2>1. p \in Nat \X Nat
    BY ItemFacts
  <2>2. Got(w, p)
    BY <1>0, <1>2, <2>0, TimesGot
  <2>3. p \in setup.start /\ p \notin bits /\ Once(w, p) /\ \A v \in Deleters : Got(v, p) => v = w
    BY <2>1, <2>2 DEF DeleteInv, GoneInv
  <2>4. Times(w, p) = 1
    BY <1>0, <2>0, <2>2, <2>3, TimesGot DEF Once
  <2>5. \A v \in Deleters \ {w} : Times(v, p) = 0
    BY <1>0, <2>0, <2>3, TimesGot
  <2> QED BY <2>3, <2>4, <2>5
<1>3. ASSUME NEW w \in Deleters, Done(w), NEW p \in bits, p[1] < MaxId, Within(Of(w), p)
      PROVE  p \in touched
  <2>1. w \in Iter /\ Of(w) \in Build /\ Of(w).mode = "delete" /\ p[1] \in Nat /\ it[w].ret = "none" /\ pc[w] = "idle"
    BY <1>0, <1>3, SetupFacts DEF Deleters, TypeOK, Done
  <2>2. ~hier
    BY <1>0, <2>1 DEF StateInv
  <2>3. First(Of(w)) = Of(w).lo /\ End(Of(w)) = Last(Of(w))
    BY <2>1 DEF First, End
  <2>4. First(Of(w)) <= p[1] /\ p[1] < End(Of(w))
    BY <1>3, <2>1, <2>3, RangeFacts DEF Within
  <2>5. it[w].last = End(Of(w)) /\ w \in BuiltOnes
    BY <1>0, <2>1, LastOf DEF BuiltOnes
  <2>6. it[w].id >= it[w].last /\ it[w].id \in Nat /\ it[w].last \in Nat
    BY <1>0, <1>3, <2>1, IterFields DEF DeleteInv, SweptInv
  <2>7. p[1] < it[w].id
    BY <2>1, <2>4, <2>5, <2>6
  <2> QED BY <2>2, <2>4, <2>5, <2>7 DEF DeleteInv, SweptInv
<1> QED BY <1>1, <1>2, <1>3 DEF DeletesComplete, Deleters, Active

(* Of a simple tracker there is one delete iterator at a time, it returns  *)
(* what was there once, and leaves nothing that was.                       *)
THEOREM DeletesAreComplete == Spec => []DeletesComplete
BY DeleteInit, DeleteStep, DeletesHold, PTL DEF Spec

-----------------------------------------------------------------------------
(* Write iterators of a hierarchical tracker                               *)

Writers == {w \in Iter : Of(w).mode = "write" /\ Of(w).filter # "Set"}
RangeOf(b) == <<b.lo, b.hi, b.subLo, b.subHi>>
OneRange == \A v, w \in Writers : RangeOf(Of(v)) = RangeOf(Of(w))

(* What writers that take only absent pairs returned is there, unless      *)
(* others touched it, and was returned once.                               *)
ClaimInv ==
  \A w \in Writers, p \in Nat \X Nat : Of(w).filter = "Unset" /\ p \notin touched /\ Got(w, p) =>
    /\ p \in bits /\ Once(w, p)
    /\ \A v \in Writers : Of(v).filter = "Unset" /\ Got(v, p) => v = w

(* A pair is there, or others have touched it, or it is being claimed.     *)
Covered(p) ==
  p \in bits \/ p \in touched \/ \E v \in Writers : pc[v] = "claim" /\ it[v].id = p[1] /\ it[v].sub = p[2]

(* The value of the cursor that is the pair p.                             *)
Number(b, p) == p[1] * Subs(b) + p[2]

(* Every pair of the range behind the cursor is; so are all at None.       *)
CoverInv ==
  hier /\ OneRange => \A w \in Writers, p \in Items :
    Within(Of(w), p) /\ (Number(Of(w), p) < cursor \/ Done(w)) => Covered(p)

(* A fetch by the fields of the iterator.                                  *)
LEMMA FetchFields ==
  ASSUME TypeInv, NEW w \in Iter, Fetching(w)
  PROVE  LET i == cursor \div Subs(Of(w))
             s == cursor % Subs(Of(w))
         IN  /\ given'[w] = given[w]
             /\ \/ (Of(w).filter = "Set" \/ i >= it[w].last) /\ pc'[w] = "idle" /\ it'[w].ret = "none"
                \/ Of(w).filter # "Set" /\ i < it[w].last /\ ~Contains(Of(w), i, s) /\ pc'[w] = "next"
                \/ /\ Of(w).filter # "Set" /\ i < it[w].last /\ Contains(Of(w), i, s)
                   /\ pc'[w] = "claim" /\ it'[w].id = i /\ it'[w].sub = s
<1> DEFINE me == it[w]
           i == cursor \div Subs(Of(w))
           s == cursor % Subs(Of(w))
           none == [me EXCEPT !.ret = "none"]
           at == [me EXCEPT !.id = i, !.sub = s]
<1>0. me \in IterType
  BY IterFields DEF TypeInv
<1>1. \/ (Of(w).filter = "Set" \/ i >= me.last) /\ Went(w, "idle", none)
      \/ Of(w).filter # "Set" /\ i < me.last /\ ~Contains(Of(w), i, s) /\ Went(w, "next", me)
      \/ Of(w).filter # "Set" /\ i < me.last /\ Contains(Of(w), i, s) /\ Went(w, "claim", at)
  BY DEF Fetching
<1> HIDE DEF i, s
<1>2. none.ret = "none" /\ at.id = i /\ at.sub = s
  BY <1>0 DEF IterType
<1> HIDE DEF none, at
<1> QED BY <1>1, <1>2 DEF Went, i, s

(* A claim by the fields of the iterator.                                  *)
LEMMA ClaimFields ==
  ASSUME TypeInv, NEW w \in Iter, Claiming(w)
  PROVE  LET p == <<it[w].id, it[w].sub>>
         IN  /\ p \in Nat \X Nat
             /\ \/ p[2] >= SubCapacity /\ pc'[w] = "panicked" /\ given'[w] = given[w] /\ bits' = bits
                \/ p \in bits /\ pc'[w] = "next" /\ given'[w] = given[w] /\ bits' = bits
                \/ /\ p \notin bits \/ Of(w).filter = "All"
                   /\ pc'[w] = "idle" /\ it'[w].ret = "some"
                   /\ given'[w] = Append(given[w], p) /\ bits' = bits \union {p}
<1> DEFINE me == it[w]
           p == <<me.id, me.sub>>
<1>0. me \in IterType /\ p \in Nat \X Nat
  BY IterFields DEF TypeInv
<1>1. \/ p[2] >= SubCapacity /\ Went(w, "panicked", me) /\ bits' = bits
      \/ p \in bits /\ Went(w, "next", me) /\ bits' = bits
      \/ (p \notin bits \/ Of(w).filter = "All") /\ Gave(w, p, me) /\ bits' = bits \union {p}
  BY DEF Claiming
<1> HIDE DEF p
<1>2. Gave(w, p, me) => pc'[w] = "idle" /\ it'[w].ret = "some" /\ given'[w] = Append(given[w], p)
  BY <1>0, GaveFields
<1> QED BY <1>0, <1>1, <1>2 DEF Went, p

(* How a write iterator can move.                                          *)
LEMMA WriterMoves ==
  ASSUME TypeInv, NEW w \in Iter, Of(w).mode = "write", OneMove(w)
  PROVE  Same(w) \/ BuiltNow(w) \/ Called(w) \/ Fetching(w) \/ Claiming(w)
BY DEF OneMove, Refused, Dropped, Reading, Readers, Drawing, Deleting

(* With other callers, only a claim adds, and only a delete takes away.    *)
LEMMA BitsChange ==
  ASSUME Kinds, NEW p
  PROVE  /\ touched \subseteq touched'
         /\ p \in bits' /\ p \notin bits => p \in touched' \/ \E u \in Iter : Claiming(u)
         /\ p \in bits /\ p \notin bits' => p \in touched' \/ ~hier
<1>1. touched \subseteq touched'
  BY DEF Kinds, Building, Changing, Expiring, Refusing, Calling, Dropping, Reading, Drawing, Deleting, Fetching, Claiming, Shared
<1>2. CASE Changing
  <2>1. PICK q \in Items : touched' = touched \union {q} /\ (bits' = bits \union {q} \/ bits' = bits \ {q})
    BY <1>2 DEF Changing
  <2> QED BY <2>1
<1>3. ASSUME NEW u \in Iter, Deleting(u)
      PROVE  bits' \subseteq bits /\ ~hier
  BY <1>3 DEF Deleting
<1>4. ASSUME NEW u \in Iter, Claiming(u)
      PROVE  bits \subseteq bits'
  BY <1>4 DEF Claiming
<1>5. bits' = bits \/ Changing \/ \E u \in Iter : Deleting(u) \/ Claiming(u)
  BY DEF Kinds, Building, Expiring, Refusing, Calling, Dropping, Reading, Drawing, Fetching, Shared
<1> QED BY <1>1, <1>2, <1>3, <1>4, <1>5

(* No pair is claimed twice.                                               *)
LEMMA ClaimStep ==
  ASSUME TypeInv, StateInv, Kinds, setup' = setup, ClaimInv
  PROVE  ClaimInv'
<1> DEFINE Takers == {w \in Writers : Of(w).filter = "Unset"}
<1>0. /\ \A w \in Takers : w \in Iter /\ Of(w).mode = "write" /\ Of(w).filter = "Unset" /\ OneMove(w)
      /\ \A w \in Iter : Of(w)' = Of(w)
  BY OneMoves DEF Writers, Of
<1>1. Writers' = Writers
  BY DEF Writers, Of
<1>2. ASSUME NEW w \in Takers, NEW p \in Nat \X Nat, p \notin touched, Got(w, p)
      PROVE  p \in bits /\ Once(w, p) /\ \A v \in Takers : Got(v, p) => v = w
  BY <1>2 DEF ClaimInv
<1>3. touched \subseteq touched'
  BY BitsChange
<1>4. ASSUME NEW w \in Takers, NEW q, given'[w] = Append(given[w], q)
      PROVE  Claiming(w) /\ q \in Nat \X Nat /\ q \notin bits /\ q \in bits'
  <2> DEFINE s == given[w]
             t == given'[w]
             x == <<it[w].id, it[w].sub>>
  <2>1. s \in Seq(Nat \X Nat)
    BY <1>0, IterFields DEF TypeInv
  <2>2. t = Append(s, q)
    BY <1>4
  <2>3. t # s
    <3> HIDE DEF s, t
    <3>1. Len(t) = Len(s) + 1 /\ Len(s) \in Nat
      BY <2>1, <2>2
    <3> QED BY <3>1
  <2>4. Claiming(w)
    BY <1>0, <2>3, WriterMoves, CallFields, FetchFields DEF Same, BuiltNow, Went
  <2>5. x \in Nat \X Nat /\ x \notin bits /\ t = Append(s, x) /\ bits' = bits \union {x}
    BY <1>0, <2>3, <2>4, ClaimFields
  <2> HIDE DEF s, t, x
  <2>6. t[Len(s) + 1] = x
    BY <2>1, <2>5, Appended
  <2>7. t[Len(s) + 1] = q
    BY <2>1, <2>2
  <2> QED BY <2>4, <2>5, <2>6, <2>7
<1>5. ASSUME NEW w \in Takers, NEW p \in Nat \X Nat, ~Got(w, p), Got(w, p)'
      PROVE  given'[w] = Append(given[w], p) /\ Claiming(w) /\ p \notin bits /\ p \in bits'
  <2>1. given'[w] # given[w]
    BY <1>5 DEF Got
  <2>2. PICK q \in Nat \X Nat : given'[w] = Append(given[w], q)
    BY <1>0, <2>1, OneGiven
  <2>3. p = q
    BY <1>0, <1>5, <2>2, GotOne
  <2> QED BY <1>4, <2>2, <2>3
<1>6. ASSUME NEW w \in Takers, NEW p \in Nat \X Nat, p \notin touched', Got(w, p)'
      PROVE  p \in bits' /\ Once(w, p)' /\ \A v \in Takers : Got(v, p)' => v = w
  <2>1. hier
    <3>1. given'[w] # <<>>
      BY <1>6 DEF Got
    <3>2. StateInv' /\ hier' = hier
      BY StateStep DEF hier
    <3> QED BY <1>0, <3>1, <3>2 DEF StateInv
  <2>2. p \in bits'
    <3>1. CASE Got(w, p)
      BY <1>2, <1>3, <1>6, <2>1, <3>1, BitsChange
    <3>2. CASE ~Got(w, p)
      BY <1>5, <1>6, <3>2
    <3> QED BY <3>1, <3>2
  <2>3. Once(w, p)'
    <3>1. Got(w, p) => Once(w, p) /\ given'[w] # Append(given[w], p)
      BY <1>2, <1>3, <1>4, <1>6
    <3> QED BY <1>0, <3>1, OnceKept
  <2>4. ASSUME NEW v \in Takers, Got(v, p)', v # w
        PROVE  FALSE
    <3>1. CASE Got(w, p) /\ Got(v, p)
      BY <1>2, <1>3, <1>6, <2>4, <3>1
    <3>2. CASE ~Got(w, p) /\ Got(v, p)
      BY <1>2, <1>3, <1>5, <1>6, <3>2
    <3>3. CASE Got(w, p) /\ ~Got(v, p)
      BY <1>2, <1>3, <1>5, <1>6, <2>4, <3>3
    <3>4. CASE ~Got(w, p) /\ ~Got(v, p)
      <4>1. Claiming(w) /\ given'[v] # given[v]
        BY <1>5, <1>6, <2>4, <3>4 DEF Got
      <4>2. Same(v)
        BY <1>0, <2>4, <4>1 DEF Claiming, OnlyAt
      <4> QED BY <4>1, <4>2 DEF Same
    <3> QED BY <3>1, <3>2, <3>3, <3>4
  <2> QED BY <2>2, <2>3, <2>4
<1>7. ASSUME NEW w \in Writers, NEW p \in Nat \X Nat, Of(w).filter = "Unset", p \notin touched', Got(w, p)'
      PROVE  /\ p \in bits' /\ Once(w, p)'
             /\ \A v \in Writers : Of(v).filter = "Unset" /\ Got(v, p)' => v = w
  BY <1>6, <1>7
<1>8. \A w \in Writers : Of(w)' = Of(w)
  BY <1>0 DEF Writers
<1> QED BY <1>1, <1>7, <1>8 DEF ClaimInv

(* The cursor numbers the pairs of a range, one after another.             *)
LEMMA Numbers ==
  ASSUME NEW b \in Build, NEW p \in Items, hier, Within(b, p), NEW n \in Nat
  PROVE  LET i == n \div Subs(b)
             s == n % Subs(b)
         IN  /\ Number(b, p) \in Nat /\ i \in Nat /\ s \in Nat
             /\ p[1] < i => Number(b, p) < n
             /\ Number(b, p) = n => p[1] = i /\ p[2] = s /\ Contains(b, i, s)
<1> DEFINE m == Subs(b)
           i == n \div m
           s == n % m
           x == p[1]
           y == p[2]
<1>1. m \in Nat \ {0}
  BY SubsType
<1>2. x \in Nat /\ y \in Nat /\ y < MaxSub /\ y < b.subHi /\ b.lo <= x /\ x < b.hi /\ b.subLo <= y
  BY ItemFacts DEF Within
<1>3. y \in 0 .. m - 1
  BY <1>1, <1>2, BuildFields, IterAssumption DEF Subs, Larger, Smaller
<1>4. Number(b, p) = x * m + y
  BY DEF Number
<1> HIDE DEF m, x, y
<1>5. i \in Nat /\ s \in 0 .. m - 1 /\ n = i * m + s
  BY <1>1, Divided
<1> HIDE DEF i, s
<1>6. x * m \in Nat /\ i * m \in Nat
  BY <1>1, <1>2, <1>5
<1>7. x < i => x * m + y < n
  <2> SUFFICES ASSUME x < i PROVE x * m + y < n
    OBVIOUS
  <2>1. x + 1 \in Nat /\ x + 1 <= i
    BY <1>2, <1>5
  <2>2. (x + 1) * m <= i * m /\ (x + 1) * m = x * m + m
    BY <1>1, <1>2, <1>5, <2>1, Multiples
  <2> QED BY <1>1, <1>3, <1>5, <1>6, <2>2
<1>8. x * m + y = n => x = i /\ y = s
  BY <1>1, <1>2, <1>3, <1>5, OneQuotient
<1>9. x = i /\ y = s => Contains(b, i, s)
  BY <1>2 DEF Contains
<1>10. x * m + y \in Nat /\ s \in Nat
  BY <1>2, <1>5, <1>6
<1> QED BY <1>4, <1>5, <1>7, <1>8, <1>9, <1>10 DEF i, s, m, x, y

(* A pair that is covered stays so.                                        *)
LEMMA CoveredStays ==
  ASSUME TypeInv, Kinds, setup' = setup, hier, NEW p \in Items, Covered(p)
  PROVE  Covered(p)'
<1>0. Writers' = Writers
  BY DEF Writers, Of
<1>1. p \in Nat \X Nat /\ p = <<p[1], p[2]>> /\ p[2] < SubCapacity
  BY ItemFacts
<1>2. p \in bits \/ p \in touched => p \in bits' \/ p \in touched'
  BY BitsChange
<1>3. ASSUME NEW v \in Writers, pc[v] = "claim", it[v].id = p[1], it[v].sub = p[2]
      PROVE  Covered(p)'
  <2>1. v \in Iter /\ Of(v).mode = "write" /\ OneMove(v)
    BY OneMoves DEF Writers
  <2>2. Same(v) \/ Claiming(v)
    BY <1>3, <2>1, WriterMoves DEF BuiltNow, Called, Fetching
  <2>3. CASE Same(v)
    BY <1>0, <1>3, <2>3 DEF Same, Covered
  <2>4. CASE Claiming(v)
    <3> DEFINE q == <<it[v].id, it[v].sub>>
    <3>1. q = p
      BY <1>1, <1>3
    <3>2. q \in bits' \/ q[2] >= SubCapacity
      BY <2>1, <2>4, ClaimFields
    <3>3. ~(p[2] >= SubCapacity)
      BY <1>1, IterAssumption
    <3>4. p \in bits'
      BY <3>1, <3>2, <3>3
    <3> QED BY <3>4 DEF Covered
  <2> QED BY <2>2, <2>3, <2>4
<1> QED BY <1>2, <1>3 DEF Covered

(* A write iterator that has just returned None had fetched past its end.  *)
LEMMA NewlyDone ==
  ASSUME TypeInv, NEW w \in Writers, OneMove(w), Done(w)'
  PROVE  Done(w) \/ (Fetching(w) /\ (cursor \div Subs(Of(w))) >= it[w].last)
<1>0. w \in Iter /\ Of(w).mode = "write" /\ Of(w).filter # "Set"
  BY DEF Writers
<1>1. pc'[w] = "idle" /\ it'[w].ret = "none"
  BY DEF Done
<1>2. CASE Same(w)
  BY <1>1, <1>2 DEF Same, Done
<1>3. ~BuiltNow(w)
  BY <1>0, <1>1, BuiltAt DEF TypeInv
<1>4. ~Called(w)
  BY <1>0, <1>1, CallFields
<1>5. ~Claiming(w)
  BY <1>0, <1>1, ClaimFields
<1>6. CASE Fetching(w)
  BY <1>0, <1>1, <1>6, FetchFields
<1> QED BY <1>0, <1>2, <1>3, <1>4, <1>5, <1>6, WriterMoves

(* The cursor leaves nothing behind.                                       *)
LEMMA CoverStep ==
  ASSUME TypeInv, StateInv, Kinds, setup' = setup, CoverInv
  PROVE  CoverInv'
<1>0. /\ hier' = hier /\ Writers' = Writers /\ Items' = Items
      /\ \A w \in Writers : w \in Iter /\ Of(w) \in Build /\ Of(w)' = Of(w)
  BY SetupFacts DEF hier, Writers, Of, Items, TypeInv
<1>1. OneRange' = OneRange
  BY <1>0 DEF OneRange, RangeOf
<1>2. ASSUME NEW w \in Writers, NEW p
      PROVE  Within(Of(w), p)' = Within(Of(w), p) /\ Number(Of(w), p)' = Number(Of(w), p)
  BY <1>0, <1>2 DEF Within, Number, Subs, Larger, Smaller
<1> SUFFICES ASSUME hier, OneRange, NEW w \in Writers, NEW p \in Items, Within(Of(w), p),
                    Number(Of(w), p) < cursor' \/ Done(w)'
             PROVE  Covered(p)'
  BY <1>0, <1>1, <1>2 DEF CoverInv
<1> DEFINE b == Of(w)
           n == Number(b, p)
<1>3. n < cursor \/ Done(w) => Covered(p)'
  BY CoveredStays DEF CoverInv
<1>4. cursor \in Nat /\ U \in Nat \ {0} /\ n \in Nat /\ b \in Build
  <2>1. cursor \in Nat
    BY IterAssumption DEF TypeInv, TypeOK
  <2> QED BY <1>0, <2>1, Numbers, IterAssumption
<1>5. ASSUME Done(w)', ~Done(w)
      PROVE  Covered(p)'
  <2>1. Fetching(w) /\ (cursor \div Subs(b)) >= it[w].last
    BY <1>0, <1>5, OneMoves, NewlyDone
  <2>2. it[w].last = End(b) /\ b.mode = "write"
    BY <1>0, <2>1, LastOf DEF Fetching
  <2>3. p[1] < End(b) /\ p[1] \in Nat /\ End(b) \in Nat
    BY <1>4, <2>2, ItemFacts, RangeFacts DEF Within, End
  <2> DEFINE i == cursor \div Subs(b)
  <2>4. i \in Nat /\ (p[1] < i => n < cursor)
    BY <1>4, Numbers
  <2> HIDE DEF i, n
  <2>5. p[1] < i
    BY <2>1, <2>2, <2>3, <2>4 DEF i
  <2> QED BY <1>3, <2>4, <2>5
<1>6. ASSUME n < cursor', ~(n < cursor)
      PROVE  Covered(p)'
  <2>1. PICK u \in Iter : Fetching(u)
    <3>1. CASE Building
      <4>1. cursor' \in {0, cursor}
        BY <3>1 DEF Building
      <4> HIDE DEF n
      <4> QED BY <1>4, <1>6, <4>1
    <3>2. cursor' # cursor
      BY <1>6
    <3> QED BY <3>1, <3>2 DEF Kinds, Changing, Expiring, Refusing, Calling, Dropping, Reading, Drawing, Deleting, Claiming, Shared
  <2>2. u \in Writers /\ cursor' = (cursor + 1) % U
    BY <1>6, <2>1 DEF Fetching, Writers
  <2>3. n = cursor
    <3> HIDE DEF n
    <3>1. (cursor + 1) % U <= cursor + 1
      BY <1>4
    <3> QED BY <1>4, <1>6, <2>2, <3>1
  <2>4. /\ Of(u).lo = b.lo /\ Of(u).hi = b.hi /\ Of(u).subLo = b.subLo /\ Of(u).subHi = b.subHi
    BY <2>2 DEF OneRange, RangeOf
  <2>5. Subs(Of(u)) = Subs(b) /\ Last(Of(u)) = Last(b)
    BY <2>4 DEF Subs, Last
  <2> DEFINE i == cursor \div Subs(b)
             s == cursor % Subs(b)
  <2>6. p[1] = i /\ p[2] = s /\ Contains(b, i, s)
    BY <1>4, <2>3, Numbers
  <2>7. Contains(Of(u), i, s)
    BY <2>4, <2>6 DEF Contains
  <2>8. it[u].last = Last(b)
    <3>1. it[u].last = End(Of(u)) /\ Of(u).mode = "write"
      BY <2>1, LastOf DEF Fetching
    <3> QED BY <2>5, <3>1 DEF End
  <2>9. i < it[u].last
    BY <1>4, <2>6, <2>8, ItemFacts, RangeFacts DEF Within
  <2>10. /\ \/ (Of(u).filter = "Set" \/ i >= it[u].last) /\ pc'[u] = "idle" /\ it'[u].ret = "none"
            \/ Of(u).filter # "Set" /\ i < it[u].last /\ ~Contains(Of(u), i, s) /\ pc'[u] = "next"
            \/ pc'[u] = "claim" /\ it'[u].id = i /\ it'[u].sub = s
    BY <2>1, <2>5, FetchFields
  <2>11. ~(i >= it[u].last)
    <3>1. i \in Nat /\ it[u].last \in Nat
      BY <1>4, Numbers, IterFields DEF TypeInv
    <3> HIDE DEF i
    <3> QED BY <2>9, <3>1
  <2>12. pc'[u] = "claim" /\ it'[u].id = i /\ it'[u].sub = s
    BY <2>2, <2>7, <2>10, <2>11 DEF Writers
  <2> QED BY <1>0, <2>2, <2>6, <2>12 DEF Covered
<1> QED BY <1>3, <1>5, <1>6

(* The invariant of the write iterators.                                   *)
WriteInv == TypeInv /\ StateInv /\ ClaimInv /\ CoverInv

(* At first nothing is claimed.                                            *)
LEMMA WriteInit ==
  ASSUME Init
  PROVE  WriteInv
<1>0. TypeInv /\ StateInv
  BY TypeInit, StateInit
<1>1. (\A w \in Iter : pc[w] = "unbuilt" /\ given[w] = <<>>) /\ cursor = 0
  BY DEF Init
<1>2. ClaimInv
  BY <1>1 DEF ClaimInv, Writers, Got
<1>3. ASSUME NEW w \in Writers, NEW p \in Items, hier, Within(Of(w), p)
      PROVE  ~(Number(Of(w), p) < cursor) /\ ~Done(w)
  <2>1. w \in Iter /\ Of(w) \in Build
    BY <1>0, SetupFacts DEF Writers, TypeInv
  <2>2. Number(Of(w), p) \in Nat
    <3>1. 0 \in Nat
      OBVIOUS
    <3> QED BY <1>3, <2>1, <3>1, Numbers
  <2> QED BY <1>1, <2>1, <2>2 DEF Done
<1>4. CoverInv
  BY <1>3 DEF CoverInv
<1> QED BY <1>0, <1>2, <1>4 DEF WriteInv

(* Every step keeps the invariant.                                         *)
LEMMA WriteStep ==
  ASSUME WriteInv, [Next]_vars
  PROVE  WriteInv'
<1>1. CASE Next
  <2>1. setup' = setup /\ Kinds
    BY <1>1, NextKinds DEF WriteInv
  <2> QED BY <1>1, <2>1, TypeStep, StateStep, ClaimStep, CoverStep DEF WriteInv
<1>2. CASE UNCHANGED vars
  <2>1. TypeInv'
    BY TypeStep DEF WriteInv
  <2>2. /\ setup' = setup /\ bits' = bits /\ touched' = touched /\ made' = made /\ cursor' = cursor
        /\ pc' = pc /\ it' = it /\ given' = given
    BY <1>2 DEF vars
  <2>3. StateInv'
    BY <2>2 DEF WriteInv, StateInv, hier, Of, Untouched, Changers, Got
  <2>4. ClaimInv'
    BY <2>2 DEF WriteInv, ClaimInv, Writers, Of, Got, Once
  <2>5. CoverInv'
    <3>1. /\ hier' = hier /\ Writers' = Writers /\ Items' = Items /\ OneRange' = OneRange
          /\ \A p : Covered(p)' = Covered(p)
          /\ \A w \in Writers : Done(w)' = Done(w)
          /\ \A w \in Writers : \A p : Within(Of(w), p)' = Within(Of(w), p) /\ Number(Of(w), p)' = Number(Of(w), p)
      BY <2>2 DEF hier, Writers, Of, Items, OneRange, RangeOf, Covered, Within, Number, Subs, Larger, Smaller, Done
    <3> QED BY <2>2, <3>1 DEF WriteInv, CoverInv
  <2> QED BY <2>1, <2>3, <2>4, <2>5 DEF WriteInv
<1> QED BY <1>1, <1>2

(* The invariant says that writers claim each pair once.                   *)
LEMMA WritesHold ==
  ASSUME WriteInv
  PROVE  WritersClaimOnce
<1>0. TypeInv /\ TypeOK /\ StateInv /\ setup \in Setups /\ \A w \in Writers : w \in Iter
  BY DEF WriteInv, TypeInv, Writers
<1>1. ASSUME NEW v \in Writers, NEW w \in Writers, NEW p \in Items \ touched, Of(v).filter = "Unset", Of(w).filter = "Unset"
      PROVE  Times(w, p) <= 1 /\ (v # w => Times(v, p) = 0 \/ Times(w, p) = 0)
  <2>0. p \in Nat \X Nat
    BY ItemFacts
  <2>1. CASE ~Got(w, p)
    <3>1. Times(w, p) = 0
      BY <1>0, <2>1, TimesGot
    <3> QED BY <3>1
  <2>2. CASE Got(w, p)
    <3>1. Once(w, p) /\ \A u \in Writers : Of(u).filter = "Unset" /\ Got(u, p) => u = w
      BY <1>1, <2>0, <2>2 DEF WriteInv, ClaimInv
    <3>2. Times(w, p) = 1
      BY <1>0, <2>2, <3>1, TimesGot DEF Once
    <3>3. v # w => Times(v, p) = 0
      BY <1>0, <1>1, <3>1, TimesGot
    <3> QED BY <3>2, <3>3
  <2> QED BY <2>1, <2>2
<1>2. ASSUME \A v, w \in Writers : Done(w) /\ RangeOf(Of(v)) = RangeOf(Of(w)),
             NEW w \in Writers, NEW p \in Items, Within(Of(w), p)
      PROVE  p \in bits \union touched
  <2>1. \A v \in Writers : Done(v) /\ pc[v] = "idle"
    BY <1>2 DEF Done
  <2>2. hier
    <3>1. Of(w).mode = "write" /\ it[w].ret = "none" /\ w \in Iter
      BY <2>1 DEF Writers, Done
    <3>2. hier \/ it[w].ret = "fresh"
      BY <1>0, <3>1 DEF StateInv
    <3> QED BY <3>1, <3>2
  <2>3. Covered(p)
    BY <1>2, <2>1, <2>2 DEF WriteInv, CoverInv, OneRange
  <2> QED BY <2>1, <2>3 DEF Covered
<1> QED BY <1>1, <1>2 DEF WritersClaimOnce, Writers, RangeOf

(* Of a hierarchical tracker no two writers are handed the same pair, and  *)
(* the cursor they share passes over none.                                 *)
THEOREM WritersClaimApart == Spec => []WritersClaimOnce
BY WriteInit, WriteStep, WritesHold, PTL DEF Spec

-----------------------------------------------------------------------------
(* Divisors                                                                *)

Positive == Nat \ {0}
Divides(d, n) == \E e \in Nat : n = e * d
Commons(x, y) == {d \in Positive : Divides(d, x) /\ Divides(d, y)}
Coprime(x, y) == \A d \in Commons(x, y) : d = 1

(* What has no remainder is divided.                                       *)
LEMMA NoRemainder ==
  ASSUME NEW d \in Positive, NEW n \in Nat
  PROVE  n % d = 0 <=> Divides(d, n)
<1>1. n \div d \in Nat /\ (n % d) \in 0 .. d - 1 /\ n = (n \div d) * d + (n % d)
  BY Divided DEF Positive
<1>2. n % d = 0 => Divides(d, n)
  <2> SUFFICES ASSUME n % d = 0 PROVE Divides(d, n)
    OBVIOUS
  <2> DEFINE q == n \div d
  <2>0. q * d \in Nat
    BY <1>1 DEF Positive
  <2>1. q \in Nat /\ n = q * d
    BY <1>1, <2>0
  <2> QED BY <2>1 DEF Divides
<1>3. ASSUME NEW e \in Nat, n = e * d
      PROVE  n % d = 0
  <2>1. e * d + 0 = (n \div d) * d + (n % d) /\ 0 \in 0 .. d - 1
    BY <1>1, <1>3 DEF Positive
  <2> HIDE <1>3
  <2> DEFINE q == n \div d
             r == n % d
  <2>2. q \in Nat /\ r \in 0 .. d - 1 /\ e * d + 0 = q * d + r
    BY <1>1, <2>1
  <2> HIDE DEF q, r
  <2>3. 0 = r
    BY <2>1, <2>2, OneQuotient DEF Positive
  <2> QED BY <2>3 DEF r
<1> QED BY <1>2, <1>3 DEF Divides

(* A divisor is no larger, and divides what its multiples divide.          *)
LEMMA DivisorBound ==
  ASSUME NEW d \in Positive, NEW n \in Positive, Divides(d, n)
  PROVE  d <= n
<1>1. PICK e \in Nat : n = e * d
  BY DEF Divides
<1>2. e >= 1
  BY <1>1 DEF Positive
<1>3. 1 * d <= e * d
  BY <1>1, <1>2, Multiples DEF Positive
<1> QED BY <1>1, <1>3 DEF Positive

(* A divisor of a divisor divides.                                         *)
LEMMA DividesOn ==
  ASSUME NEW a \in Nat, NEW b \in Nat, NEW c \in Nat, Divides(a, b), Divides(b, c)
  PROVE  Divides(a, c)
<1>1. PICK e \in Nat : b = e * a
  BY DEF Divides
<1>2. PICK f \in Nat : c = f * b
  BY DEF Divides
<1>3. c = (f * e) * a /\ f * e \in Nat
  BY <1>1, <1>2
<1> QED BY <1>3 DEF Divides

(* Of a sum and its terms, a divisor of two divides the third.             *)
LEMMA DividesSum ==
  ASSUME NEW d \in Positive, NEW a \in Nat, NEW b \in Nat, Divides(d, a)
  PROVE  Divides(d, b) <=> Divides(d, a + b)
<1>1. PICK e \in Nat : a = e * d
  BY DEF Divides
<1>2. ASSUME NEW f \in Nat, b = f * d
      PROVE  Divides(d, a + b)
  <2>1. a + b = (e + f) * d /\ e + f \in Nat
    BY <1>1, <1>2 DEF Positive
  <2> QED BY <2>1 DEF Divides
<1>3. ASSUME NEW f \in Nat, a + b = f * d
      PROVE  Divides(d, b)
  <2>1. e <= f
    <3> SUFFICES ASSUME f < e PROVE FALSE
      BY <1>1
    <3>1. PICK g \in Nat : e = f + 1 + g
      <4>1. e - f - 1 \in Nat /\ e = f + 1 + (e - f - 1)
        BY <1>1, <1>3
      <4> QED BY <4>1
    <3>2. e * d = f * d + d + g * d /\ g * d \in Nat /\ f * d \in Nat
      BY <1>3, <3>1 DEF Positive
    <3> QED BY <1>1, <1>3, <3>2 DEF Positive
  <2>2. PICK g \in Nat : f = e + g
    <3>1. f - e \in Nat /\ f = e + (f - e)
      BY <1>1, <1>3, <2>1
    <3> QED BY <3>1
  <2>3. f * d = e * d + g * d /\ e * d \in Nat /\ g * d \in Nat
    BY <1>1, <2>2 DEF Positive
  <2>4. b = g * d
    BY <1>1, <1>3, <2>3
  <2> QED BY <2>4 DEF Divides
<1> QED BY <1>2, <1>3 DEF Divides

(* An odd number that divides twice a number divides the number.           *)
LEMMA OddHalf ==
  ASSUME NEW d \in Positive, d % 2 = 1, NEW w \in Nat, Divides(d, 2 * w)
  PROVE  Divides(d, w)
<1>1. PICK e \in Nat : 2 * w = e * d
  BY DEF Divides
<1>2. PICK q \in Nat : d = 2 * q + 1
  <2>1. d \div 2 \in Nat /\ d = 2 * (d \div 2) + 1
    BY DEF Positive
  <2> QED BY <2>1
<1>3. e * d = 2 * (e * q) + e /\ e * q \in Nat
  BY <1>1, <1>2
<1> DEFINE g == e * q
<1>4. g \in Nat /\ 2 * w = 2 * g + e
  BY <1>1, <1>3
<1> HIDE DEF g
<1>5. w - g \in Nat /\ e = 2 * (w - g)
  BY <1>1, <1>4
<1> DEFINE h == w - g
<1>6. h \in Nat /\ e = 2 * h
  BY <1>5
<1> HIDE DEF h
<1>7. e * d = 2 * (h * d) /\ h * d \in Nat
  BY <1>6 DEF Positive
<1>8. w = h * d
  BY <1>1, <1>7
<1> QED BY <1>6, <1>8 DEF Divides

(* Divisors of odd numbers are odd.                                        *)
LEMMA OddDivisor ==
  ASSUME NEW d \in Positive, NEW n \in Nat, n % 2 = 1, Divides(d, n)
  PROVE  d % 2 = 1
<1>1. PICK e \in Nat : n = e * d
  BY DEF Divides
<1> SUFFICES ASSUME d % 2 # 1 PROVE FALSE
  OBVIOUS
<1>2. PICK q \in Nat : d = 2 * q
  <2>1. d \div 2 \in Nat /\ d = 2 * (d \div 2)
    BY DEF Positive
  <2> QED BY <2>1
<1>3. n = 2 * (e * q) /\ e * q \in Nat
  BY <1>1, <1>2
<1> DEFINE g == e * q
<1>4. n = 2 * g /\ g \in Nat
  BY <1>3
<1> HIDE DEF g
<1> QED BY <1>4

(* A set of numbers up to some bound has a greatest one.                   *)
LEMMA GreatestOf ==
  ASSUME NEW S \in SUBSET Nat, S # {}, NEW n \in Nat, \A i \in S : i <= n
  PROVE  \E i \in S : \A j \in S : j <= i
<1> DEFINE T == {k \in Nat : \A j \in S : j <= k}
<1>1. T \in SUBSET Nat /\ n \in T
  OBVIOUS
<1>2. Least(T) \in T /\ \A k \in T : Least(T) <= k
  BY <1>1, LeastOf
<1> DEFINE m == Least(T)
<1>3. m \in Nat /\ (\A j \in S : j <= m) /\ \A k \in T : m <= k
  BY <1>2
<1> HIDE DEF m
<1>4. m \in S
  <2> SUFFICES ASSUME m \notin S PROVE FALSE
    OBVIOUS
  <2>1. \A j \in S : j \in Nat /\ j < m
    BY <1>3
  <2>2. m > 0
    <3>1. PICK j \in S : TRUE
      OBVIOUS
    <3> QED BY <1>3, <2>1, <3>1
  <2>3. m - 1 \in T
    BY <1>3, <2>1, <2>2
  <2> QED BY <1>3, <2>3
<1> QED BY <1>3, <1>4

(* What OddPart is.                                                        *)
LEMMA OddPartFacts ==
  ASSUME NEW n \in Positive
  PROVE  /\ OddPart(n) \in Positive /\ OddPart(n) % 2 = 1 /\ Divides(OddPart(n), n)
         /\ \A d \in Positive : d % 2 = 1 /\ Divides(d, n) => d <= OddPart(n)
<1> DEFINE odd == {d \in 1 .. n : d % 2 = 1 /\ n % d = 0}
<1>1. odd \in SUBSET Nat /\ \A i \in odd : i <= n
  BY DEF Positive
<1>2. 1 \in odd
  BY DEF Positive
<1>3. \E i \in odd : \A j \in odd : j <= i
  BY <1>1, <1>2, GreatestOf DEF Positive
<1>4. OddPart(n) = CHOOSE d \in odd : \A e \in odd : e <= d
  BY DEF OddPart
<1>5. OddPart(n) \in odd /\ \A e \in odd : e <= OddPart(n)
  BY <1>3, <1>4
<1>6. ASSUME NEW d \in Positive, Divides(d, n), d % 2 = 1
      PROVE  d <= OddPart(n)
  <2>1. d \in 1 .. n
    BY <1>6, DivisorBound DEF Positive
  <2>2. n % d = 0
    BY <1>6, NoRemainder DEF Positive
  <2> QED BY <1>5, <1>6, <2>1, <2>2
<1>7. OddPart(n) \in Positive
  BY <1>5 DEF Positive
<1>8. Divides(OddPart(n), n)
  BY <1>5, <1>7, NoRemainder DEF Positive
<1> QED BY <1>5, <1>6, <1>7, <1>8

(* The odd divisors of a number divide its odd part.                       *)
LEMMA OddDivides ==
  ASSUME NEW n \in Positive, NEW d \in Positive, d % 2 = 1, Divides(d, n)
  PROVE  Divides(d, OddPart(n))
<1> DEFINE o == OddPart(n)
           S == {z \in Positive : Divides(d, z) /\ Divides(o, z) /\ Divides(z, n)}
           z == Least(S)
<1>1. o \in Positive /\ o % 2 = 1 /\ Divides(o, n) /\ \A x \in Positive : x % 2 = 1 /\ Divides(x, n) => x <= o
  BY OddPartFacts
<1> HIDE DEF o
<1>2. n \in S
  <2>1. n = 1 * n
    BY DEF Positive
  <2> QED BY <1>1, <2>1 DEF Divides
<1>3. z \in S /\ \A x \in S : z <= x
  BY <1>2, LeastOf DEF Positive
<1>4. z \in Positive /\ Divides(d, z) /\ Divides(o, z) /\ Divides(z, n)
  BY <1>3
<1> HIDE DEF z
<1>5. z % 2 = 1
  <2> SUFFICES ASSUME z % 2 # 1 PROVE FALSE
    OBVIOUS
  <2>1. PICK w \in Positive : z = 2 * w
    <3>1. z \div 2 \in Positive /\ z = 2 * (z \div 2)
      BY <1>4 DEF Positive
    <3> QED BY <3>1
  <2>2. Divides(d, w) /\ Divides(o, w)
    BY <1>1, <1>4, <2>1, OddHalf DEF Positive
  <2>3. Divides(w, z)
    BY <2>1 DEF Divides, Positive
  <2>4. Divides(w, n)
    BY <1>4, <2>1, <2>3, DividesOn DEF Positive
  <2>5. w \in S /\ w < z
    BY <2>1, <2>2, <2>4 DEF Positive
  <2> QED BY <1>3, <1>4, <2>5 DEF Positive
<1>6. z <= o
  BY <1>1, <1>4, <1>5
<1>7. o <= z
  BY <1>1, <1>4, DivisorBound
<1>8. z = o
  BY <1>1, <1>4, <1>6, <1>7 DEF Positive
<1> QED BY <1>4, <1>8 DEF o
-----------------------------------------------------------------------------
(* binary_gcd                                                              *)

GreatestCommon(x, y) == CHOOSE d \in Commons(x, y) : \A e \in Commons(x, y) : e <= d

(* Two numbers have a greatest common divisor.                             *)
LEMMA GreatestFacts ==
  ASSUME NEW x \in Positive, NEW y \in Positive
  PROVE  /\ GreatestCommon(x, y) \in Commons(x, y)
         /\ \A e \in Commons(x, y) : e <= GreatestCommon(x, y)
<1>1. Commons(x, y) \in SUBSET Nat /\ \A d \in Commons(x, y) : d <= x
  BY DivisorBound DEF Commons, Positive
<1>2. 1 \in Commons(x, y)
  <2>1. x = x * 1 /\ y = y * 1
    BY DEF Positive
  <2> QED BY <2>1 DEF Commons, Divides, Positive
<1>3. \E i \in Commons(x, y) : \A j \in Commons(x, y) : j <= i
  BY <1>1, <1>2, GreatestOf DEF Positive
<1> QED BY <1>3 DEF GreatestCommon

(* That of a number and itself is the number.                              *)
LEMMA GreatestSelf ==
  ASSUME NEW x \in Positive
  PROVE  GreatestCommon(x, x) = x
<1>1. x = 1 * x
  BY DEF Positive
<1>2. x \in Commons(x, x)
  BY <1>1 DEF Commons, Divides
<1>3. GreatestCommon(x, x) \in Commons(x, x) /\ x <= GreatestCommon(x, x)
  BY <1>2, GreatestFacts
<1>4. GreatestCommon(x, x) \in Positive /\ GreatestCommon(x, x) <= x
  BY <1>3, DivisorBound DEF Commons
<1> QED BY <1>3, <1>4 DEF Positive

(* A turn of the loop: what two numbers have in common, one of them odd,   *)
(* the smaller has in common with the odd part of their difference.        *)
LEMMA LoopTurn ==
  ASSUME NEW x \in Positive, NEW z \in Positive, z % 2 = 1, x # z
  PROVE  /\ Smaller(x, z) \in Positive /\ Larger(x, z) - Smaller(x, z) \in Positive
         /\ Smaller(x, z) + (Larger(x, z) - Smaller(x, z)) = Larger(x, z)
         /\ Commons(Smaller(x, z), OddPart(Larger(x, z) - Smaller(x, z))) = Commons(x, z)
<1> DEFINE a == Smaller(x, z)
           b == Larger(x, z) - Smaller(x, z)
<1>1. a \in Positive /\ b \in Positive /\ {a, a + b} = {x, z} /\ a + b = Larger(x, z)
  BY DEF Smaller, Larger, Positive
<1>2. OddPart(b) \in Positive /\ OddPart(b) % 2 = 1 /\ Divides(OddPart(b), b)
  BY <1>1, OddPartFacts
<1> HIDE DEF a, b
<1>3. ASSUME NEW d \in Positive
      PROVE  Divides(d, x) /\ Divides(d, z) <=> Divides(d, a) /\ Divides(d, a + b)
  BY <1>1
<1>4. ASSUME NEW d \in Commons(x, z)
      PROVE  d \in Commons(a, OddPart(b))
  <2>1. d \in Positive /\ Divides(d, a) /\ Divides(d, a + b) /\ Divides(d, z)
    BY <1>3, <1>4 DEF Commons
  <2>2. Divides(d, b)
    BY <1>1, <2>1, DividesSum DEF Positive
  <2>3. d % 2 = 1
    BY <2>1, OddDivisor DEF Positive
  <2> QED BY <1>1, <2>1, <2>2, <2>3, OddDivides DEF Commons
<1>5. ASSUME NEW d \in Commons(a, OddPart(b))
      PROVE  d \in Commons(x, z)
  <2>1. d \in Positive /\ Divides(d, a) /\ Divides(d, OddPart(b))
    BY <1>5 DEF Commons
  <2>2. Divides(d, b)
    BY <1>1, <1>2, <2>1, DividesOn DEF Positive
  <2>3. Divides(d, a + b)
    BY <1>1, <2>1, <2>2, DividesSum DEF Positive
  <2> QED BY <1>3, <2>1, <2>3 DEF Commons
<1>6. Commons(a, OddPart(b)) = Commons(x, z)
  BY <1>4, <1>5
<1> QED BY <1>1, <1>6 DEF a, b

(* What one turn of the loop computes.                                     *)
Pairs == (Nat \ {0}) \X (Nat \ {0})
LoopBody(f, p) ==
  IF p[1] = OddPart(p[2]) THEN p[1]
  ELSE f[<<Smaller(p[1], OddPart(p[2])), Larger(p[1], OddPart(p[2])) - Smaller(p[1], OddPart(p[2]))>>]

(* A recursive function is what its body says only if there is one such    *)
(* function: the greatest common divisors are one.                         *)
LEMMA LoopDefined == gcd_loop = [p \in Pairs |-> LoopBody(gcd_loop, p)]
<1> DEFINE f == [p \in Pairs |-> GreatestCommon(p[1], OddPart(p[2]))]
<1>1. ASSUME NEW p \in Pairs
      PROVE  GreatestCommon(p[1], OddPart(p[2])) = LoopBody(f, p)
  <2> DEFINE x == p[1]
             z == OddPart(p[2])
             a == Smaller(x, z)
             b == Larger(x, z) - Smaller(x, z)
  <2>0. x \in Positive
    BY DEF Pairs, Positive
  <2>1. z \in Positive /\ z % 2 = 1
    BY OddPartFacts DEF Pairs, Positive
  <2>2. LoopBody(f, p) = IF x = z THEN x ELSE f[<<a, b>>]
    BY DEF LoopBody
  <2> HIDE DEF x, z
  <2>3. CASE x = z
    BY <2>0, <2>2, <2>3, GreatestSelf DEF x, z
  <2>4. CASE x # z
    <3>1. a \in Positive /\ b \in Positive /\ Commons(a, OddPart(b)) = Commons(x, z)
      BY <2>0, <2>1, <2>4, LoopTurn
    <3>2. GreatestCommon(a, OddPart(b)) = GreatestCommon(x, z)
      BY <3>1 DEF GreatestCommon
    <3> HIDE DEF a, b
    <3>3. f[<<a, b>>] = GreatestCommon(a, OddPart(b))
      BY <3>1 DEF Positive, Pairs
    <3> QED BY <2>2, <2>4, <3>2, <3>3 DEF x, z
  <2> QED BY <2>3, <2>4
<1>2. f = [p \in Pairs |-> LoopBody(f, p)]
  BY <1>1
<1> HIDE DEF f
<1>3. \E g : g = [p \in Pairs |-> LoopBody(g, p)]
  BY <1>2
<1>4. gcd_loop = CHOOSE g : g = [p \in Pairs |-> LoopBody(g, p)]
  BY DEF gcd_loop, LoopBody, Pairs
<1> QED BY <1>3, <1>4

(* What the loop computes from an odd number on.                           *)
LEMMA LoopValue ==
  ASSUME NEW x \in Positive, x % 2 = 1, NEW y \in Positive
  PROVE  gcd_loop[<<x, y>>] = GreatestCommon(x, OddPart(y))
<1> DEFINE Right(u, v) == gcd_loop[<<u, v>>] = GreatestCommon(u, OddPart(v))
           S == {n \in Nat : \E u, v \in Positive : u % 2 = 1 /\ n = u + v /\ ~Right(u, v)}
           n == Least(S)
<1> SUFFICES ASSUME ~Right(x, y) PROVE FALSE
  OBVIOUS
<1> HIDE DEF Right
<1>1. x + y \in S
  <2>1. x + y \in Nat
    BY DEF Positive
  <2> QED BY <2>1
<1>2. n \in S /\ \A m \in S : n <= m
  BY <1>1, LeastOf
<1> HIDE DEF n
<1>3. PICK u \in Positive, v \in Positive : u % 2 = 1 /\ n = u + v /\ ~Right(u, v)
  BY <1>2
<1> DEFINE z == OddPart(v)
           a == Smaller(u, z)
           b == Larger(u, z) - Smaller(u, z)
<1>4. z \in Positive /\ z % 2 = 1 /\ z <= v
  <2>1. Divides(OddPart(v), v)
    BY OddPartFacts
  <2> QED BY <2>1, OddPartFacts, DivisorBound
<1>5. gcd_loop[<<u, v>>] = IF u = z THEN u ELSE gcd_loop[<<a, b>>]
  <2>1. <<u, v>> \in Pairs
    BY DEF Pairs, Positive
  <2>2. gcd_loop[<<u, v>>] = LoopBody(gcd_loop, <<u, v>>)
    BY <2>1, LoopDefined
  <2> QED BY <2>2 DEF LoopBody
<1> HIDE DEF z
<1>6. CASE u = z
  BY <1>3, <1>5, <1>6, GreatestSelf DEF z, Right
<1>7. CASE u # z
  <2>1. /\ a \in Positive /\ b \in Positive /\ a + b = Larger(u, z)
        /\ Commons(a, OddPart(b)) = Commons(u, z)
    BY <1>4, <1>7, LoopTurn
  <2>2. a % 2 = 1
    BY <1>3, <1>4 DEF Smaller
  <2>3. a + b < n
    BY <1>3, <1>4, <2>1 DEF Larger, Positive
  <2>4. GreatestCommon(a, OddPart(b)) = GreatestCommon(u, z)
    BY <2>1 DEF GreatestCommon
  <2> HIDE DEF a, b
  <2>5. a + b \in Nat /\ a + b \notin S
    <3>1. a + b \in Nat /\ n \in Nat
      BY <1>2, <2>1 DEF Positive
    <3>2. ASSUME a + b \in S PROVE FALSE
      <4>1. n <= a + b
        BY <1>2, <3>2
      <4> QED BY <2>3, <3>1, <4>1
    <3> QED BY <3>1, <3>2
  <2>6. Right(a, b)
    BY <2>1, <2>2, <2>5
  <2> QED BY <1>3, <1>5, <1>7, <2>4, <2>6 DEF z, Right
<1> QED BY <1>6, <1>7

(* binary_gcd returns the greatest common divisor of its arguments, the    *)
(* first of which is odd, as every multiplier that find_coprime tries.     *)
THEOREM BinaryGcd ==
  ASSUME NEW a \in Nat \ {0}, a % 2 = 1, NEW b \in Nat \ {0}
  PROVE  binary_gcd(a, b) = GreatestCommon(a, b)
<1>0. a \in Positive /\ b \in Positive
  BY DEF Positive
<1>1. OddPart(a) = a
  <2>1. Divides(a, a)
    <3>1. a = 1 * a
      OBVIOUS
    <3> QED BY <3>1 DEF Divides
  <2>2. a <= OddPart(a) /\ OddPart(a) \in Positive /\ Divides(OddPart(a), a)
    BY <1>0, <2>1, OddPartFacts
  <2>3. OddPart(a) <= a
    BY <1>0, <2>2, DivisorBound
  <2> QED BY <2>2, <2>3 DEF Positive
<1>2. TwoPart(a) = 1
  BY <1>1 DEF TwoPart
<1>3. TwoPart(b) \in Positive
  <2>1. OddPart(b) \in Positive /\ Divides(OddPart(b), b)
    BY <1>0, OddPartFacts
  <2>2. OddPart(b) <= b
    BY <1>0, <2>1, DivisorBound
  <2> QED BY <2>1, <2>2 DEF TwoPart, Positive
<1>4. Smaller(TwoPart(a), TwoPart(b)) = 1
  BY <1>2, <1>3 DEF Smaller, Positive
<1>5. Commons(a, OddPart(b)) = Commons(a, b)
  <2>1. OddPart(b) \in Positive /\ Divides(OddPart(b), b)
    BY <1>0, OddPartFacts
  <2>2. ASSUME NEW d \in Commons(a, b)
        PROVE  d \in Commons(a, OddPart(b))
    <3>1. d \in Positive /\ Divides(d, a) /\ Divides(d, b)
      BY <2>2 DEF Commons
    <3>2. d % 2 = 1
      BY <3>1, OddDivisor
    <3> QED BY <1>0, <3>1, <3>2, OddDivides DEF Commons
  <2>3. ASSUME NEW d \in Commons(a, OddPart(b))
        PROVE  d \in Commons(a, b)
    BY <1>0, <2>1, <2>3, DividesOn DEF Commons, Positive
  <2> QED BY <2>2, <2>3
<1>6. gcd_loop[<<a, b>>] = GreatestCommon(a, b)
  BY <1>0, <1>5, LoopValue DEF GreatestCommon
<1>7. GreatestCommon(a, b) \in Positive
  BY <1>0, GreatestFacts DEF Commons
<1> QED BY <1>1, <1>4, <1>6, <1>7 DEF binary_gcd, Positive

(* What is shared with a power of two is even, or 1.                       *)
LEMMA PowerCoprime ==
  ASSUME NEW n \in Positive, is_power_of_two(n), NEW c \in Positive, c % 2 = 1
  PROVE  Coprime(c, n)
<1> SUFFICES ASSUME NEW d \in Commons(c, n)
             PROVE  d = 1
  BY DEF Coprime
<1>1. d \in Positive /\ Divides(d, c) /\ Divides(d, n)
  BY DEF Commons
<1>2. d % 2 = 1
  BY <1>1, OddDivisor DEF Positive
<1>3. d <= OddPart(n)
  BY <1>1, <1>2, OddPartFacts
<1> QED BY <1>1, <1>3 DEF is_power_of_two, Positive

(* find_coprime returns a number that is coprime to its argument, and not  *)
(* 0, whatever multipliers it has to try, all of them odd.                 *)
THEOREM FindsCoprime ==
  ASSUME NEW n \in Nat \ {0}
  PROVE  find_coprime(n) \in Nat \ {0} /\ Coprime(find_coprime(n), n)
<1> DEFINE good == {k \in DOMAIN Candidates : is_power_of_two(n) \/ binary_gcd(Candidates[k], n) = 1}
           odd == {c \in 3 .. n - 1 : c % 2 = 1 /\ binary_gcd(c, n) = 1}
           c == find_coprime(n)
<1>1. c = CASE n <= 1 -> 1
            [] n > 1 /\ good # {} -> Candidates[Least(good)]
            [] n > 1 /\ good = {} /\ odd # {} -> Least(odd)
            [] n > 1 /\ good = {} /\ odd = {} -> 1
  BY DEF find_coprime
<1>2. ASSUME NEW d \in Nat \ {0}, d % 2 = 1, binary_gcd(d, n) = 1
      PROVE  Coprime(d, n)
  <2>1. GreatestCommon(d, n) = 1
    BY <1>2, BinaryGcd
  <2>2. \A e \in Commons(d, n) : e <= 1
    BY <2>1, GreatestFacts DEF Positive
  <2> QED BY <2>2 DEF Coprime, Commons, Positive
<1>3. Coprime(1, n)
  <2>1. ASSUME NEW d \in Commons(1, n)
        PROVE  d = 1
    <3>1. d \in Positive /\ Divides(d, 1) /\ 1 \in Positive
      BY <2>1 DEF Commons, Positive
    <3>2. d <= 1
      BY <3>1, DivisorBound
    <3> QED BY <3>1, <3>2 DEF Positive
  <2> QED BY <2>1 DEF Coprime
<1> HIDE DEF good, odd, c
<1>4. CASE n > 1 /\ good # {}
  <2>1. good \in SUBSET Nat /\ good \subseteq DOMAIN Candidates
    BY IterAssumption DEF good
  <2>2. Least(good) \in good
    BY <1>4, <2>1, LeastOf
  <2> DEFINE m == Candidates[Least(good)]
  <2>3. m \in Nat \ {0} /\ m % 2 = 1
    <3> DEFINE k == Least(good)
    <3>1. k \in DOMAIN Candidates
      BY <2>1, <2>2
    <3> HIDE DEF k
    <3>2. Candidates[k] \in Nat \ {0}
      BY <3>1, IterAssumption
    <3>3. Candidates[k] % 2 = 1
      BY <3>1, WidthAssumption
    <3> QED BY <3>2, <3>3 DEF k
  <2>5. c = m
    BY <1>1, <1>4
  <2>4. is_power_of_two(n) \/ binary_gcd(m, n) = 1
    BY <2>2 DEF good
  <2> HIDE DEF m
  <2> QED BY <1>2, <2>3, <2>4, <2>5, PowerCoprime DEF c, Positive
<1>5. CASE n > 1 /\ good = {} /\ odd # {}
  <2>1. odd \in SUBSET Nat
    BY DEF odd
  <2>2. Least(odd) \in odd
    BY <1>5, <2>1, LeastOf
  <2>3. c \in odd
    BY <1>1, <1>5, <2>2
  <2>4. c \in Nat \ {0} /\ c % 2 = 1 /\ binary_gcd(c, n) = 1
    BY <2>3 DEF odd
  <2> QED BY <1>2, <2>4 DEF c
<1>6. CASE n <= 1 \/ (n > 1 /\ good = {} /\ odd = {})
  BY <1>1, <1>3, <1>6 DEF c
<1> QED BY <1>4, <1>5, <1>6
-----------------------------------------------------------------------------
(* The order of the ids                                                    *)

(* A number that divides a multiple of one it is coprime to divides the    *)
(* other factor: the least such factor divides all of them.                *)
LEMMA CoprimeFactor ==
  ASSUME NEW n \in Positive, NEW c \in Positive, Coprime(c, n), NEW k \in Nat, Divides(n, k * c)
  PROVE  Divides(n, k)
<1> DEFINE S == {m \in Positive : Divides(n, m * c)}
           m == Least(S)
<1>1. n \in S
  <2>1. n * c = c * n /\ c \in Nat
    BY DEF Positive
  <2> QED BY <2>1 DEF Divides
<1>2. m \in S /\ \A x \in S : m <= x
  BY <1>1, LeastOf DEF Positive
<1> HIDE DEF m
<1>3. m \in Positive /\ Divides(n, m * c) /\ m * c \in Nat
  BY <1>2 DEF Positive
<1>4. ASSUME NEW x \in Nat, Divides(n, x * c)
      PROVE  Divides(m, x)
  <2> DEFINE q == x \div m
             r == x % m
  <2>1. q \in Nat /\ r \in 0 .. m - 1 /\ x = q * m + r
    BY <1>3, Divided DEF Positive
  <2> HIDE DEF q, r
  <2>2. x * c = q * (m * c) + r * c /\ q * (m * c) \in Nat /\ r * c \in Nat
    BY <1>3, <2>1 DEF Positive
  <2>3. Divides(m * c, q * (m * c))
    BY <2>1 DEF Divides
  <2>4. Divides(n, q * (m * c))
    BY <1>3, <2>2, <2>3, DividesOn DEF Positive
  <2>5. Divides(n, r * c)
    BY <1>4, <2>2, <2>4, DividesSum
  <2>6. r = 0
    <3> SUFFICES ASSUME r # 0 PROVE FALSE
      OBVIOUS
    <3>1. r \in S
      BY <2>1, <2>5 DEF Positive
    <3>2. m <= r
      BY <1>2, <3>1
    <3> QED BY <1>3, <2>1, <3>2 DEF Positive
  <2>7. x = q * m
    BY <1>3, <2>1, <2>6 DEF Positive
  <2> QED BY <2>1, <2>7 DEF Divides
<1>5. Divides(m, n)
  <2>1. n \in Nat /\ Divides(n, n * c)
    BY <1>1 DEF Positive
  <2> QED BY <1>4, <2>1
<1>6. PICK t \in Nat : n = t * m
  BY <1>5 DEF Divides
<1>7. PICK e \in Nat : m * c = e * n
  BY <1>3 DEF Divides
<1>8. t \in Positive
  BY <1>3, <1>6 DEF Positive
<1>9. c = e * t
  <2>1. m * c = m * (e * t) /\ e * t \in Nat
    BY <1>3, <1>6, <1>7 DEF Positive
  <2> DEFINE f == e * t
  <2>2. m * c = m * f /\ f \in Nat
    BY <2>1
  <2> HIDE DEF f
  <2>3. c * m + 0 = f * m + 0 /\ 0 \in 0 .. m - 1
    BY <1>3, <2>2 DEF Positive
  <2>4. c = f
    BY <1>3, <2>2, <2>3, OneQuotient DEF Positive
  <2> QED BY <2>4 DEF f
<1>10. t \in Commons(c, n)
  <2>1. n = m * t /\ m \in Nat
    BY <1>3, <1>6 DEF Positive
  <2> QED BY <1>8, <1>9, <2>1 DEF Commons, Divides
<1>11. t = 1
  BY <1>10 DEF Coprime
<1>12. n = m
  BY <1>3, <1>6, <1>11 DEF Positive
<1> QED BY <1>4, <1>12

(* Half a power of two is one.                                             *)
LEMMA PowerHalf ==
  ASSUME NEW p \in Positive, is_power_of_two(p), p # 1
  PROVE  \E h \in Positive : p = 2 * h /\ is_power_of_two(h)
<1>1. \A d \in Positive : d % 2 = 1 /\ Divides(d, p) => d <= 1
  BY OddPartFacts DEF is_power_of_two
<1>2. Divides(p, p)
  <2>1. p = 1 * p
    BY DEF Positive
  <2> QED BY <2>1 DEF Divides
<1>3. p % 2 # 1
  BY <1>1, <1>2 DEF Positive
<1>4. PICK h \in Positive : p = 2 * h
  <2>1. p \div 2 \in Positive /\ p = 2 * (p \div 2)
    BY <1>3 DEF Positive
  <2> QED BY <2>1
<1>5. OddPart(h) \in Positive /\ OddPart(h) % 2 = 1 /\ Divides(OddPart(h), h)
  BY OddPartFacts
<1>6. Divides(h, p)
  BY <1>4 DEF Divides
<1>7. Divides(OddPart(h), p)
  BY <1>5, <1>6, DividesOn DEF Positive
<1>8. OddPart(h) <= 1
  BY <1>1, <1>5, <1>7
<1>9. is_power_of_two(h)
  BY <1>5, <1>8 DEF is_power_of_two, Positive
<1> QED BY <1>4, <1>9

(* Of two powers of two the smaller divides the larger.                    *)
LEMMA PowersDivide ==
  ASSUME NEW p \in Positive, NEW q \in Positive, is_power_of_two(p), is_power_of_two(q), p <= q
  PROVE  Divides(p, q)
<1> DEFINE Bad(x, y) == is_power_of_two(x) /\ is_power_of_two(y) /\ x <= y /\ ~Divides(x, y)
           S == {n \in Nat : \E x \in Positive : n \in Positive /\ Bad(x, n)}
           n == Least(S)
<1> SUFFICES ASSUME ~Divides(p, q) PROVE FALSE
  OBVIOUS
<1>1. q \in S
  BY DEF Positive
<1> HIDE DEF Bad
<1>2. n \in S /\ \A m \in S : n <= m
  BY <1>1, LeastOf
<1> HIDE DEF n
<1>3. PICK x \in Positive : n \in Positive /\ Bad(x, n)
  BY <1>2
<1>4. x # 1
  <2> SUFFICES ASSUME x = 1 PROVE FALSE
    OBVIOUS
  <2>1. n = n * x /\ n \in Nat
    BY <1>3 DEF Positive
  <2>2. Divides(x, n)
    BY <2>1 DEF Divides
  <2> QED BY <1>3, <2>2 DEF Bad
<1>5. PICK h \in Positive : x = 2 * h /\ is_power_of_two(h)
  BY <1>3, <1>4, PowerHalf DEF Bad
<1>6. n # 1
  BY <1>3, <1>4 DEF Bad, Positive
<1>7. PICK g \in Positive : n = 2 * g /\ is_power_of_two(g)
  BY <1>3, <1>6, PowerHalf DEF Bad
<1>8. h <= g
  BY <1>3, <1>5, <1>7 DEF Bad, Positive
<1>9. ~Divides(h, g)
  <2> SUFFICES ASSUME NEW e \in Nat, g = e * h PROVE FALSE
    BY DEF Divides
  <2>1. n = e * x
    BY <1>5, <1>7 DEF Positive
  <2> QED BY <1>3, <2>1 DEF Bad, Divides
<1>10. g \in S
  BY <1>5, <1>7, <1>8, <1>9 DEF Bad, Positive
<1> QED BY <1>2, <1>7, <1>10 DEF Positive

(* Two numbers with the same remainder differ by a multiple.               *)
LEMMA SameRemainder ==
  ASSUME NEW n \in Positive, NEW x \in Nat, NEW d \in Nat, x % n = (x + d) % n
  PROVE  Divides(n, d)
<1> DEFINE q == x \div n
           r == x % n
           f == (x + d) \div n
<1>1. q \in Nat /\ r \in 0 .. n - 1 /\ x = q * n + r
  BY Divided DEF Positive
<1>2. f \in Nat /\ x + d = f * n + r
  <2>1. x + d \in Nat
    OBVIOUS
  <2> QED BY <2>1, Divided DEF Positive
<1> HIDE DEF q, r, f
<1>3. q * n \in Nat /\ f * n \in Nat /\ f * n = q * n + d
  BY <1>1, <1>2 DEF Positive
<1>4. Divides(n, q * n) /\ Divides(n, q * n + d)
  BY <1>1, <1>2, <1>3 DEF Divides
<1> QED BY <1>3, <1>4, DividesSum

(* And the other way round.                                                *)
LEMMA RemainderOfSum ==
  ASSUME NEW n \in Positive, NEW x \in Nat, NEW d \in Nat, Divides(n, d)
  PROVE  (x + d) % n = x % n
<1> DEFINE q == x \div n
           r == x % n
           f == (x + d) \div n
           g == (x + d) % n
<1>1. q \in Nat /\ r \in 0 .. n - 1 /\ x = q * n + r
  BY Divided DEF Positive
<1>2. f \in Nat /\ g \in 0 .. n - 1 /\ x + d = f * n + g
  <2>1. x + d \in Nat
    OBVIOUS
  <2> QED BY <2>1, Divided DEF Positive
<1>3. PICK e \in Nat : d = e * n
  BY DEF Divides
<1> HIDE DEF q, r, f, g
<1>4. x + d = (q + e) * n + r /\ q + e \in Nat
  BY <1>1, <1>3 DEF Positive
<1>5. r = g
  <2> DEFINE h == q + e
  <2>1. h \in Nat /\ f * n + g = h * n + r
    BY <1>2, <1>4
  <2> HIDE DEF h
  <2> QED BY <1>1, <1>2, <2>1, OneQuotient DEF Positive
<1> QED BY <1>5 DEF r, g

(* No sum of a step is wrapped, or wrapping does no harm.                  *)
Unwrapped(b, offset) == is_power_of_two(Size(b)) \/ (Size(b) - 1) * find_coprime(Size(b)) + offset < U

(* The index of a step is then its sum, modulo the size of the range.      *)
LEMMA IndexOf ==
  ASSUME NEW b \in Build, NEW offset \in Nat, Unwrapped(b, offset), NEW s \in 0 .. Size(b) - 1
  PROVE  /\ s * find_coprime(Size(b)) + offset \in Nat
         /\ Permuted(b, s, offset) = (s * find_coprime(Size(b)) + offset) % Size(b)
<1> DEFINE n == Size(b)
           c == find_coprime(n)
           x == s * c + offset
<1>1. n \in Positive /\ n < U /\ U \in Positive
  <2>1. n \in Nat /\ n > 0
    BY RangeFacts
  <2>2. b.lo \in Nat /\ Last(b) \in Nat /\ Last(b) <= MaxId
    BY BuildFields, RangeFacts
  <2>3. n <= Last(b)
    BY <2>2 DEF Size, Larger, n
  <2> QED BY <2>1, <2>2, <2>3, IterAssumption, WidthAssumption DEF Positive
<1>2. c \in Positive
  BY <1>1, FindsCoprime DEF Positive
<1> HIDE DEF n, c
<1>3. x \in Nat /\ s \in Nat
  BY <1>2 DEF Positive
<1>4. Permuted(b, s, offset) = (x % U) % n
  BY DEF Permuted, n, c
<1>5. CASE is_power_of_two(n)
  <2>1. Divides(n, U)
    BY <1>1, <1>5, PowersDivide, WidthAssumption DEF Positive
  <2> DEFINE q == x \div U
             y == x % U
  <2>2. q \in Nat /\ y \in 0 .. U - 1 /\ x = q * U + y
    BY <1>1, <1>3, Divided DEF Positive
  <2> HIDE DEF q, y, x
  <2>3. q * U \in Nat /\ y \in Nat /\ x = y + q * U
    BY <1>1, <2>2 DEF Positive
  <2>4. Divides(U, q * U)
    BY <2>2 DEF Divides
  <2>5. Divides(n, q * U)
    BY <1>1, <2>1, <2>3, <2>4, DividesOn DEF Positive
  <2>6. x % n = y % n
    BY <1>1, <2>3, <2>5, RemainderOfSum
  <2> QED BY <1>3, <1>4, <2>6 DEF x, y, n, c
<1>6. CASE (n - 1) * c + offset < U
  <2>1. s * c <= (n - 1) * c /\ s * c \in Nat /\ (n - 1) * c \in Nat
    <3>1. n - 1 \in Nat /\ s <= n - 1
      BY <1>1, <1>3 DEF Positive, n
    <3> QED BY <1>2, <1>3, <3>1, Multiples DEF Positive
  <2>2. x < U
    BY <1>1, <1>6, <2>1 DEF Positive
  <2> HIDE DEF x
  <2>3. x % U = x
    BY <1>1, <1>3, <2>2 DEF Positive
  <2> QED BY <1>3, <1>4, <2>3 DEF x, n, c
<1> QED BY <1>5, <1>6 DEF Unwrapped, n, c

(* No two steps have the same index.                                       *)
LEMMA IndicesApart ==
  ASSUME NEW b \in Build, NEW offset \in Nat, Unwrapped(b, offset),
         NEW s \in 0 .. Size(b) - 1, NEW t \in 0 .. Size(b) - 1, s < t
  PROVE  Permuted(b, s, offset) # Permuted(b, t, offset)
<1> DEFINE n == Size(b)
           c == find_coprime(n)
           x == s * c + offset
           d == t - s
<1>1. n \in Positive
  BY RangeFacts DEF Positive
<1>2. c \in Positive /\ Coprime(c, n)
  BY <1>1, FindsCoprime DEF Positive
<1>3. x \in Nat /\ Permuted(b, s, offset) = x % n /\ Permuted(b, t, offset) = (t * c + offset) % n
  BY IndexOf
<1>4. d \in Nat /\ d > 0 /\ d < n
  BY <1>1 DEF Positive
<1> HIDE DEF n, c
<1>5. t * c + offset = x + d * c /\ d * c \in Nat
  BY <1>2, <1>3 DEF Positive
<1> HIDE DEF d, x
<1> SUFFICES ASSUME x % n = (x + d * c) % n PROVE FALSE
  BY <1>3, <1>5
<1>6. Divides(n, d * c)
  BY <1>1, <1>3, <1>5, SameRemainder
<1>7. Divides(n, d)
  BY <1>1, <1>2, <1>4, <1>6, CoprimeFactor
<1>8. n <= d
  BY <1>1, <1>4, <1>7, DivisorBound DEF Positive
<1> QED BY <1>1, <1>4, <1>8 DEF Positive

(* The indices of the steps of one cycle are a permutation of the range,   *)
(* if its size is a power of two or no product wraps.                      *)
THEOREM StepsPermute ==
  ASSUME NEW b \in Build, NEW offset \in Nat, Unwrapped(b, offset)
  PROVE  /\ \A s \in 0 .. Size(b) - 1 : Permuted(b, s, offset) \in 0 .. Size(b) - 1
         /\ \A s, t \in 0 .. Size(b) - 1 : Permuted(b, s, offset) = Permuted(b, t, offset) => s = t
         /\ \A i \in 0 .. Size(b) - 1 : \E s \in 0 .. Size(b) - 1 : Permuted(b, s, offset) = i
<1> DEFINE n == Size(b)
           N == 0 .. n - 1
           f == [s \in N |-> Permuted(b, s, offset)]
<1>1. ASSUME NEW s \in N
      PROVE  Permuted(b, s, offset) \in N
  <2>1. n \in Nat \ {0}
    BY RangeFacts
  <2>2. s * find_coprime(n) + offset \in Nat /\ Permuted(b, s, offset) = (s * find_coprime(n) + offset) % n
    BY <1>1, IndexOf
  <2> DEFINE x == s * find_coprime(n) + offset
  <2>3. x \in Nat
    BY <2>2
  <2> HIDE DEF x, n
  <2>4. (x % n) \in N
    BY <2>1, <2>3, Divided
  <2> QED BY <2>2, <2>4 DEF x
<1>2. ASSUME NEW s \in N, NEW t \in N, Permuted(b, s, offset) = Permuted(b, t, offset)
      PROVE  s = t
  <2>1. ~(s < t) /\ ~(t < s)
    BY <1>2, IndicesApart
  <2> QED BY <2>1, RangeFacts
<1>3. f \in Injection(N, N)
  BY <1>1, <1>2 DEF Injection, IsInjective
<1>4. IsFiniteSet(N)
  BY RangeFacts, FS_Interval
<1>5. f \in Surjection(N, N)
  BY <1>3, <1>4, FS_Injection
<1>6. ASSUME NEW i \in N
      PROVE  \E s \in N : Permuted(b, s, offset) = i
  <2>1. \E s \in N : f[s] = i
    BY <1>5, <1>6 DEF Surjection
  <2> QED BY <2>1
<1> QED BY <1>1, <1>2, <1>6

-----------------------------------------------------------------------------
(* What a random iterator visits                                           *)

(* Random iterators over the whole of a simple tracker, uniformly, and     *)
(* what they come to at a step.                                            *)
Visitors == {w \in Iter : Of(w).mode = "random" /\ Of(w).dist = "Uniform" /\ ~hier /\ Plain(Of(w))}
VisitAt(w, s) == <<Of(w).lo + Permuted(Of(w), s, it[w].offset), 0>>
Steps(w) == 0 .. it[w].step - 1

(* A simple tracker's primary bitmap is all there is of it.                *)
PrimaryInv == ~hier => \A i \in Nat : i \in primary <=> <<i, 0>> \in bits

(* A visitor has returned only what it came to, nothing twice, and, of     *)
(* what it came to, all that steadily matches; and it ends after the last  *)
(* step.                                                                   *)
VisitInv(w) ==
  w \in Visitors =>
    /\ it[w].step <= Size(Of(w)) /\ pc[w] # "pick"
    /\ Done(w) => it[w].step = Size(Of(w))
    /\ Unwrapped(Of(w), it[w].offset) =>
         /\ \A k \in DOMAIN given[w] : \E s \in Steps(w) : given[w][k] = VisitAt(w, s)
         /\ \A j, k \in DOMAIN given[w] : given[w][j] = given[w][k] => j = k
         /\ \A s \in Steps(w), p \in Firm(Of(w)) : p = VisitAt(w, s) => Got(w, p)

(* The bitmap holds in the initial states.                                 *)
LEMMA PrimaryInit ==
  ASSUME Init
  PROVE  PrimaryInv
<1>1. setup \in Setups /\ bits = setup.start /\ primary = {p[1] : p \in bits}
  BY DEF Init
<1> SUFFICES ASSUME ~hier, NEW i \in Nat PROVE i \in primary <=> <<i, 0>> \in bits
  BY DEF PrimaryInv
<1>2. \A p \in bits : p[2] = 0 /\ p = <<p[1], p[2]>>
  BY <1>1, SetupFacts
<1> QED BY <1>1, <1>2

(* Every step keeps it.                                                    *)
LEMMA PrimaryStep ==
  ASSUME TypeInv, StateInv, PrimaryInv, setup' = setup, Kinds
  PROVE  PrimaryInv'
<1>1. hier' = hier
  BY DEF hier
<1> SUFFICES ASSUME ~hier, NEW i \in Nat PROVE i \in primary' <=> <<i, 0>> \in bits'
  BY <1>1 DEF PrimaryInv
<1>2. i \in primary <=> <<i, 0>> \in bits
  BY DEF PrimaryInv
<1>3. bits' \subseteq Nat \X {0}
  <2>1. StateInv'
    BY StateStep
  <2> QED BY <1>1, <2>1 DEF StateInv
<1>4. CASE bits' = bits /\ primary' = primary
  BY <1>2, <1>4
<1>5. CASE Changing
  <2>1. PICK p \in Items : \/ bits' = bits \union {p} /\ primary' = primary \union {p[1]}
                           \/ bits' = bits \ {p} /\ primary' = {q[1] : q \in bits'}
    BY <1>5 DEF Changing
  <2>2. p \in Nat \X {0}
    BY ItemFacts DEF Places
  <2>3. CASE bits' = bits \union {p} /\ primary' = primary \union {p[1]}
    BY <1>2, <2>2, <2>3
  <2>4. CASE primary' = {q[1] : q \in bits'}
    <3>1. \A q \in bits' : q = <<q[1], 0>>
      BY <1>3
    <3> QED BY <2>4, <3>1
  <2> QED BY <2>1, <2>3, <2>4
<1>6. ASSUME NEW w \in Iter, Deleting(w), bits' # bits \/ primary' # primary
      PROVE  i \in primary' <=> <<i, 0>> \in bits'
  <2>1. bits' = bits \ {<<it[w].id, 0>>} /\ primary' = primary \ {it[w].id}
    BY <1>6 DEF Deleting
  <2> QED BY <1>2, <2>1
<1>7. ASSUME NEW w \in Iter, Claiming(w)
      PROVE  FALSE
  BY <1>7 DEF Claiming, TypeInv, Shape
<1>8. \/ bits' = bits /\ primary' = primary
      \/ Changing \/ \E w \in Iter : Deleting(w) \/ Claiming(w)
  BY DEF Kinds, Building, Expiring, Refusing, Calling, Dropping, Reading, Drawing, Fetching, Shared
<1> QED BY <1>4, <1>5, <1>6, <1>7, <1>8

(* The steps and the order of an iterator, by what has happened to it.     *)
LEMMA OrderFields ==
  ASSUME TypeInv, NEW w \in Iter
  PROVE  /\ BuiltNow(w) => /\ it[w].step = 0 /\ given[w] = <<>> /\ given'[w] = <<>>
                           /\ it'[w].step = 0 /\ it'[w].ret = "fresh" /\ pc'[w] = "idle"
         /\ Called(w) => /\ it'[w].step = it[w].step /\ it'[w].offset = it[w].offset
                         /\ given'[w] = given[w] /\ pc'[w] # "idle" /\ pc'[w] # "pick"
<1>0. it[w] \in IterType
  BY IterFields DEF TypeInv
<1>1. ASSUME BuiltNow(w)
      PROVE  /\ it[w].step = 0 /\ given[w] = <<>> /\ given'[w] = <<>>
             /\ it'[w].step = 0 /\ it'[w].ret = "fresh" /\ pc'[w] = "idle"
  <2>1. pc[w] = "unbuilt" /\ it[w] = Unbuilt /\ given[w] = <<>>
    BY <1>1 DEF BuiltNow, TypeInv, Shape
  <2>2. PICK offset \in Nat : Went(w, "idle", Built(Of(w), First(Of(w)), End(Of(w)), offset))
    BY <1>1 DEF BuiltNow
  <2> DEFINE lo == First(Of(w))
             last == End(Of(w))
             sub == Of(w).subLo
  <2>3. /\ it'[w] = [Unbuilt EXCEPT !.id = lo, !.sub = sub, !.last = last, !.offset = offset]
        /\ given'[w] = given[w] /\ pc'[w] = "idle"
    BY <2>2 DEF Went, Built
  <2> HIDE DEF lo, last, sub
  <2> QED BY <2>1, <2>3 DEF Unbuilt
<1>2. ASSUME Called(w)
      PROVE  /\ it'[w].step = it[w].step /\ it'[w].offset = it[w].offset
             /\ given'[w] = given[w] /\ pc'[w] # "idle" /\ pc'[w] # "pick"
  <2> DEFINE l == Of(w).timed /\ late[w]
  <2>1. /\ it'[w] = [it[w] EXCEPT !.calls = @ + 1, !.wasLate = l] /\ given'[w] = given[w]
        /\ pc'[w] \in {"random", "next"}
    BY <1>2 DEF Called, Went
  <2> HIDE DEF l
  <2> QED BY <1>0, <2>1 DEF IterType
<1> QED BY <1>1, <1>2

(* A turn of a visitor: the check, the end, or the next step, whose item   *)
(* it returns unless it may not match.                                     *)
VisitTurn(w) ==
  \/ pc[w] = "random" /\ Went(w, "next", it[w])
  \/ it[w].step >= Size(Of(w)) /\ Went(w, "idle", [it[w] EXCEPT !.ret = "none"])
  \/ /\ it[w].step < Size(Of(w))
     /\ \/ Gave(w, VisitAt(w, it[w].step), [it[w] EXCEPT !.step = @ + 1])
        \/ /\ VisitAt(w, it[w].step) \notin Firm(Of(w))
           /\ Went(w, "next", [it[w] EXCEPT !.step = @ + 1])

(* What an index is.                                                       *)
LEMMA IndexRange ==
  ASSUME NEW b \in Build, NEW s \in Nat, NEW offset \in Nat, Size(b) > 0
  PROVE  Permuted(b, s, offset) \in 0 .. Size(b) - 1
<1> DEFINE n == Size(b)
           x == (s * find_coprime(n) + offset) % U
<1>1. n \in Positive
  BY RangeFacts DEF Positive
<1>2. s * find_coprime(n) + offset \in Nat
  <2>1. find_coprime(n) \in Nat
    BY <1>1, FindsCoprime DEF Positive
  <2> QED BY <2>1
<1>3. x \in Nat
  BY <1>2, Divided, IterAssumption
<1> HIDE DEF n, x
<1>4. (x % n) \in 0 .. n - 1
  BY <1>1, <1>3, Divided DEF Positive
<1> QED BY <1>4 DEF Permuted, n, x

(* A visitor's turns are such turns.                                       *)
LEMMA VisitTurns ==
  ASSUME TypeInv, StateInv, PrimaryInv, NEW w \in Visitors, VisitInv(w), Drawing(w)
  PROVE  VisitTurn(w)
<1> DEFINE b == Of(w)
           me == it[w]
           n == me.step
           q == VisitAt(w, n)
           i == b.lo + Permuted(b, n, me.offset)
<1>0. /\ w \in Iter /\ b \in Build /\ b.dist = "Uniform" /\ ~hier /\ Plain(b) /\ TypeOK
      /\ me \in IterType /\ n \in Nat /\ me.offset \in Nat
  BY SetupFacts, IterFields DEF Visitors, TypeInv
<1>1. check_limit(w) /\ ~b.timed /\ b.limit = None /\ b.wants = {} /\ b.passes = {TRUE}
  BY <1>0, PlainFacts DEF Plain
<1>2. MaxSteps(b) = Size(b) /\ Size(b) \in Nat
  BY <1>0, <1>1, RangeFacts DEF MaxSteps
<1>3. CASE RandomCheck(w)
  <2>1. pc[w] = "random" /\ Goto(w, "next", me)
    BY <1>1, <1>3 DEF RandomCheck
  <2> QED BY <1>0, <2>1, GotoAt DEF VisitTurn
<1>4. CASE RandomPick(w)
  BY <1>4 DEF RandomPick, VisitInv
<1>5. CASE RandomStep(w)
  <2> DEFINE step == IF n >= MaxSteps(b) THEN 0 ELSE n
             next == [me EXCEPT !.step = step + 1]
             Drawn(index) ==
               \/ ~(b.lo <= b.lo + index /\ b.lo + index < b.hi) /\ Goto(w, "next", next)
               \/ \E m \in matches_filter(b, b.lo + index \in primary), p \in passes_sampling(b) :
                    \/ ~(m /\ p) /\ Goto(w, "next", next)
                    \/ m /\ p /\ hier
                    \/ m /\ p /\ ~hier /\ Hand(w, <<b.lo + index, 0>>, next)
  <2>0. \/ n >= MaxSteps(b) /\ ~b.timed /\ NoMore(w)
        \/ (n < MaxSteps(b) \/ b.timed) /\ Size(b) = 0
        \/ (n < MaxSteps(b) \/ b.timed) /\ \E index \in Indices(b, step, me.offset) : Drawn(index)
    BY <1>5 DEF RandomStep
  <2> HIDE DEF step, next, Drawn
  <2>1. CASE n >= Size(b)
    <3>1. NoMore(w)
      BY <1>0, <1>1, <1>2, <2>0, <2>1
    <3> QED BY <1>0, <2>1, <3>1, GotoAt DEF NoMore, VisitTurn
  <2>2. CASE n < Size(b)
    <3>0. Size(b) > 0
      BY <1>0, <1>2, <2>2
    <3> DEFINE new == [me EXCEPT !.step = n + 1]
    <3>1. step = n /\ next = new
      BY <1>0, <1>2, <2>2 DEF step, next
    <3>2. Drawn(Permuted(b, n, me.offset))
      <4>1. Indices(b, n, me.offset) = {Permuted(b, n, me.offset)}
        BY <1>0 DEF Indices
      <4> QED BY <1>0, <1>1, <1>2, <2>0, <2>2, <3>0, <3>1, <4>1
    <3>3. \/ ~(b.lo <= i /\ i < b.hi) /\ Goto(w, "next", new)
          \/ \E m \in matches_filter(b, i \in primary), p \in passes_sampling(b) :
               \/ ~(m /\ p) /\ Goto(w, "next", new)
               \/ m /\ p /\ Hand(w, <<i, 0>>, new)
      BY <1>0, <3>1, <3>2 DEF Drawn
    <3>4. q = <<i, 0>> /\ i \in Nat
      <4>1. Permuted(b, n, me.offset) \in 0 .. Size(b) - 1
        BY <1>0, <3>0, IndexRange
      <4>2. b.lo \in Nat
        BY <1>0, BuildFields
      <4> QED BY <1>2, <4>1, <4>2 DEF VisitAt
    <3> HIDE DEF new, i
    <3>5. CASE Hand(w, <<i, 0>>, new)
      <4>1. Gave(w, q, new)
        BY <1>0, <3>4, <3>5, HandAt
      <4> QED BY <2>2, <4>1 DEF VisitTurn, new
    <3>6. CASE q \notin Firm(b) /\ Goto(w, "next", new)
      <4>1. Went(w, "next", new)
        BY <1>0, <3>6, GotoAt
      <4> QED BY <2>2, <3>6, <4>1 DEF VisitTurn, new
    <3>7. ASSUME q \in Firm(b)
          PROVE  b.lo <= i /\ i < b.hi /\ matches_filter(b, i \in primary) = {TRUE}
      <4>1. q \in Nat \X Nat /\ Untouched(q) /\ Within(b, q) /\ matches_filter(b, q \in setup.start) = {TRUE}
        BY <3>7, ItemFacts DEF Firm
      <4>2. (i \in primary) <=> (q \in setup.start)
        BY <1>0, <3>4, <4>1 DEF PrimaryInv, StateInv
      <4>3. b.lo <= i /\ i < b.hi
        BY <3>4, <4>1 DEF Within
      <4> DEFINE x == i \in primary
                 y == q \in setup.start
      <4>0. (i \in primary) = (q \in setup.start)
        BY <4>2
      <4>4. x = y /\ matches_filter(b, y) = {TRUE}
        BY <4>1, <4>0
      <4> HIDE DEF x, y
      <4>5. matches_filter(b, x) = {TRUE}
        BY <4>4
      <4> QED BY <4>3, <4>5 DEF x
    <3>8. passes_sampling(b) = {TRUE}
      BY <1>1 DEF passes_sampling
    <3>9. CASE q \in Firm(b)
      <4> DEFINE M == matches_filter(b, i \in primary)
                 P == passes_sampling(b)
      <4>0. M = {TRUE} /\ P = {TRUE} /\ b.lo <= i /\ i < b.hi
        BY <3>7, <3>8, <3>9
      <4>2. \E m \in M, p \in P : \/ ~(m /\ p) /\ Goto(w, "next", new)
                                  \/ m /\ p /\ Hand(w, <<i, 0>>, new)
        BY <3>3, <4>0
      <4> HIDE DEF M, P
      <4>1. Hand(w, <<i, 0>>, new)
        BY <4>0, <4>2, Zenon
      <4> QED BY <3>5, <4>1
    <3>10. CASE q \notin Firm(b)
      <4>1. Goto(w, "next", new) \/ Hand(w, <<i, 0>>, new)
        BY <3>3
      <4> QED BY <3>5, <3>6, <3>10, <4>1
    <3> QED BY <3>9, <3>10
  <2> QED BY <1>0, <1>2, <2>1, <2>2
<1> QED BY <1>3, <1>4, <1>5 DEF Drawing

(* The invariant holds in the initial states.                              *)
LEMMA VisitInit ==
  ASSUME Init, NEW w \in Iter
  PROVE  VisitInv(w)
<1>1. it[w] = Unbuilt /\ pc[w] = "unbuilt" /\ given[w] = <<>> /\ setup \in Setups
  BY DEF Init
<1>2. it[w].step = 0 /\ Size(Of(w)) \in Nat /\ ~Done(w)
  BY <1>1, SetupFacts, RangeFacts DEF Unbuilt, Done
<1>3. Steps(w) = {} /\ DOMAIN given[w] = {}
  BY <1>1, <1>2 DEF Steps
<1> QED BY <1>1, <1>2, <1>3 DEF VisitInv

(* A visitor that only moves about keeps it.                               *)
LEMMA VisitKept ==
  ASSUME TypeInv, NEW w \in Iter, setup' = setup, Kinds, VisitInv(w),
         it'[w].step = it[w].step, it'[w].offset = it[w].offset, given'[w] = given[w],
         pc'[w] # "pick", Done(w)' => Done(w) \/ it[w].step = Size(Of(w))
  PROVE  VisitInv(w)'
<1>1. /\ Visitors' = Visitors /\ Size(Of(w))' = Size(Of(w)) /\ Steps(w)' = Steps(w)
      /\ \A s : VisitAt(w, s)' = VisitAt(w, s)
      /\ Unwrapped(Of(w), it[w].offset)' = Unwrapped(Of(w), it[w].offset)
      /\ \A p : Got(w, p)' <=> Got(w, p)
  BY DEF Visitors, hier, Of, Plain, Size, Last, Larger, Smaller, Steps, VisitAt, Permuted, Unwrapped, Got
<1>2. Firm(Of(w))' \subseteq Firm(Of(w))
  BY FirmShrinks
<1> QED BY <1>1, <1>2 DEF VisitInv

(* A visitor that has come to another item keeps it.                       *)
LEMMA VisitMore ==
  ASSUME TypeInv, NEW w \in Visitors, setup' = setup, Kinds, VisitInv(w),
         it[w].step < Size(Of(w)), it'[w].step = it[w].step + 1, it'[w].offset = it[w].offset,
         pc'[w] # "pick", ~Done(w)',
         \/ given'[w] = Append(given[w], VisitAt(w, it[w].step))
         \/ given'[w] = given[w] /\ VisitAt(w, it[w].step) \notin Firm(Of(w))
  PROVE  VisitInv(w)'
<1> DEFINE n == it[w].step
           q == VisitAt(w, n)
           b == Of(w)
           size == Size(b)
<1>0. w \in Iter /\ b \in Build /\ n \in Nat /\ it[w].offset \in Nat /\ size \in Nat /\ OneMove(w)
      /\ given[w] \in Seq(Nat \X Nat)
  BY SetupFacts, IterFields, RangeFacts, OneMoves DEF Visitors, TypeInv
<1>1. /\ Visitors' = Visitors /\ Size(b)' = size
      /\ \A s : VisitAt(w, s)' = VisitAt(w, s)
      /\ Unwrapped(b, it[w].offset)' = Unwrapped(b, it[w].offset)
      /\ \A p : Got(w, p)' <=> \E k \in DOMAIN given'[w] : given'[w][k] = p
  BY DEF Visitors, hier, Of, Plain, Size, Last, Larger, Smaller, VisitAt, Permuted, Unwrapped, Got
<1>2. Firm(b)' \subseteq Firm(b)
  BY <1>0, FirmShrinks
<1>3. Steps(w) = 0 .. n - 1 /\ Steps(w)' = Steps(w) \union {n}
  <2>1. Steps(w) = 0 .. n - 1 /\ Steps(w)' = 0 .. (n + 1) - 1
    BY DEF Steps
  <2> HIDE DEF n
  <2>2. 0 .. (n + 1) - 1 = 0 .. n - 1 \union {n}
    BY <1>0
  <2> QED BY <2>1, <2>2
<1>4. n + 1 <= size
  BY <1>0
<1>5. ASSUME Unwrapped(b, it[w].offset)
      PROVE  /\ \A k \in DOMAIN given'[w] : \E s \in Steps(w)' : given'[w][k] = VisitAt(w, s)
             /\ \A j, k \in DOMAIN given'[w] : given'[w][j] = given'[w][k] => j = k
             /\ \A s \in Steps(w)', p \in Firm(b)' : p = VisitAt(w, s) => Got(w, p)'
  <2>1. /\ \A k \in DOMAIN given[w] : \E s \in Steps(w) : given[w][k] = VisitAt(w, s)
        /\ \A j, k \in DOMAIN given[w] : given[w][j] = given[w][k] => j = k
        /\ \A s \in Steps(w), p \in Firm(b) : p = VisitAt(w, s) => Got(w, p)
    BY <1>5 DEF VisitInv
  <2>2. \A p : Got(w, p) => Got(w, p)'
    BY <1>0, GotGrows
  <2>3. \A s \in Steps(w) : VisitAt(w, s) # q
    <3> SUFFICES ASSUME NEW s \in Steps(w), VisitAt(w, s) = q PROVE FALSE
      OBVIOUS
    <3>1. s \in 0 .. size - 1 /\ n \in 0 .. size - 1 /\ s < n
      BY <1>0, <1>3, <1>4
    <3> DEFINE x == Permuted(b, s, it[w].offset)
               y == Permuted(b, n, it[w].offset)
    <3>2. b.lo + x = b.lo + y /\ b.lo \in Nat
      BY <1>0, BuildFields DEF VisitAt
    <3>3. x \in 0 .. size - 1 /\ y \in 0 .. size - 1 /\ (x = y => s = n)
      BY <1>0, <1>5, <3>1, StepsPermute
    <3> HIDE DEF x, y
    <3> QED BY <1>0, <3>1, <3>2, <3>3
  <2>4. CASE given'[w] = given[w] /\ q \notin Firm(b)
    <3>1. \A s \in Steps(w)', p \in Firm(b)' : p = VisitAt(w, s) => Got(w, p)'
      BY <1>2, <1>3, <2>1, <2>2, <2>4
    <3> QED BY <1>3, <2>1, <2>4, <3>1
  <2>5. CASE given'[w] = Append(given[w], q)
    <3>0. q \in Nat \X Nat
      <4>1. Permuted(b, n, it[w].offset) \in 0 .. size - 1
        <5>1. size > 0
          BY <1>0, <1>4
        <5> QED BY <1>0, <5>1, IndexRange
      <4>2. b.lo + Permuted(b, n, it[w].offset) \in Nat
        BY <1>0, <4>1, BuildFields
      <4> QED BY <4>2 DEF VisitAt
    <3> DEFINE s == given[w]
               t == given'[w]
    <3>1. t = Append(s, q) /\ s \in Seq(Nat \X Nat)
      BY <1>0, <2>5
    <3>2. /\ \A k \in DOMAIN s : \E a \in Steps(w) : s[k] = VisitAt(w, a)
          /\ \A j, k \in DOMAIN s : s[j] = s[k] => j = k
      BY <2>1
    <3> HIDE DEF s, t, q
    <3>3. /\ Len(s) \in Nat /\ DOMAIN s = 1 .. Len(s) /\ DOMAIN t = 1 .. Len(s) + 1
          /\ \A k \in DOMAIN s : t[k] = s[k]
          /\ t[Len(s) + 1] = q
          /\ \A k \in DOMAIN t : k \in DOMAIN s \/ k = Len(s) + 1
      BY <3>0, <3>1, Appended
    <3>4. \A k \in DOMAIN s : s[k] # q
      BY <2>3, <3>2
    <3>5. \A k \in DOMAIN t : \E a \in Steps(w)' : t[k] = VisitAt(w, a)
      <4>1. q = VisitAt(w, n)
        BY DEF q
      <4> QED BY <1>3, <3>2, <3>3, <4>1
    <3>6. \A j, k \in DOMAIN t : t[j] = t[k] => j = k
      BY <3>2, <3>3, <3>4
    <3>7. \A p : Got(w, p)' <=> Got(w, p) \/ p = q
      BY <1>0, <2>5, <3>0, GotOne
    <3>8. \A a \in Steps(w)', p \in Firm(b)' : p = VisitAt(w, a) => Got(w, p)'
      <4>1. q = VisitAt(w, n)
        BY DEF q
      <4> QED BY <1>2, <1>3, <2>1, <3>7, <4>1
    <3> QED BY <3>5, <3>6, <3>8 DEF t
  <2> QED BY <2>4, <2>5
<1> HIDE DEF n, b, size, q
<1>6. it'[w].step <= Size(b)' /\ it'[w].step = n + 1
  BY <1>1, <1>4 DEF n
<1> QED BY <1>1, <1>5, <1>6 DEF VisitInv, b

(* Every step keeps it.                                                    *)
LEMMA VisitStep ==
  ASSUME TypeInv, StateInv, PrimaryInv, NEW w \in Iter, setup' = setup, Kinds, VisitInv(w)
  PROVE  VisitInv(w)'
<1> DEFINE me == it[w]
           n == me.step
<1>0. /\ me \in IterType /\ n \in Nat /\ Size(Of(w)) \in Nat /\ OneMove(w) /\ Of(w) \in Build
      /\ Visitors' = Visitors /\ Size(Of(w))' = Size(Of(w))
  BY SetupFacts, IterFields, RangeFacts, OneMoves DEF TypeInv, Visitors, hier, Of, Plain, Size, Last, Larger, Smaller
<1> SUFFICES ASSUME w \in Visitors PROVE VisitInv(w)'
  BY <1>0 DEF VisitInv
<1>1. Of(w).mode = "random" /\ ~hier /\ pc[w] # "pick" /\ n <= Size(Of(w)) /\ (Done(w) => n = Size(Of(w)))
  BY DEF Visitors, VisitInv
<1>2. CASE Same(w)
  <2>1. /\ it'[w].step = n /\ it'[w].offset = me.offset /\ given'[w] = given[w] /\ pc'[w] # "pick"
        /\ Done(w)' => Done(w)
    BY <1>1, <1>2 DEF Same, Done
  <2> QED BY <2>1, VisitKept
<1>3. CASE BuiltNow(w)
  <2>1. /\ given'[w] = <<>> /\ it'[w].step = 0 /\ it'[w].ret = "fresh" /\ pc'[w] = "idle"
    BY <1>3, OrderFields
  <2>2. Steps(w)' = {} /\ DOMAIN given'[w] = {} /\ ~Done(w)'
    BY <2>1 DEF Steps, Done
  <2> QED BY <1>0, <2>1, <2>2 DEF VisitInv
<1>4. CASE Called(w)
  <2>1. /\ it'[w].step = n /\ it'[w].offset = me.offset /\ given'[w] = given[w] /\ pc'[w] # "idle" /\ pc'[w] # "pick"
    BY <1>4, OrderFields
  <2>2. ~Done(w)'
    BY <2>1 DEF Done
  <2> QED BY <2>1, <2>2, VisitKept
<1>5. CASE Drawing(w)
  <2>1. VisitTurn(w)
    BY <1>5, VisitTurns
  <2>2. CASE pc[w] = "random" /\ Went(w, "next", me)
    <3>1. /\ it'[w].step = n /\ it'[w].offset = me.offset /\ given'[w] = given[w] /\ pc'[w] # "pick" /\ ~Done(w)'
      BY <2>2 DEF Went, Done
    <3> QED BY <3>1, VisitKept
  <2>3. CASE n >= Size(Of(w)) /\ Went(w, "idle", [me EXCEPT !.ret = "none"])
    <3>1. it'[w] = [me EXCEPT !.ret = "none"] /\ given'[w] = given[w] /\ pc'[w] # "pick"
      BY <2>3 DEF Went
    <3>2. it'[w].step = n /\ it'[w].offset = me.offset
      BY <1>0, <3>1 DEF IterType
    <3>3. n = Size(Of(w))
      BY <1>0, <1>1, <2>3
    <3> QED BY <3>1, <3>2, <3>3, VisitKept
  <2>4. CASE n < Size(Of(w)) /\ Gave(w, VisitAt(w, n), [me EXCEPT !.step = @ + 1])
    <3> DEFINE m == n + 1
               y == me.yielded + 1
    <3>1. /\ it'[w] = [[me EXCEPT !.step = m] EXCEPT !.ret = "some", !.yielded = @ + 1]
          /\ given'[w] = Append(given[w], VisitAt(w, n)) /\ pc'[w] = "idle"
      BY <2>4 DEF Gave
    <3> HIDE DEF m
    <3>2. it'[w].step = m /\ it'[w].offset = me.offset /\ it'[w].ret = "some"
      BY <1>0, <3>1 DEF IterType
    <3>3. ~Done(w)'
      BY <3>2 DEF Done
    <3> QED BY <2>4, <3>1, <3>2, <3>3, VisitMore DEF m
  <2>5. CASE /\ n < Size(Of(w)) /\ VisitAt(w, n) \notin Firm(Of(w))
             /\ Went(w, "next", [me EXCEPT !.step = @ + 1])
    <3> DEFINE m == n + 1
    <3>1. it'[w] = [me EXCEPT !.step = m] /\ given'[w] = given[w] /\ pc'[w] = "next"
      BY <2>5 DEF Went
    <3> HIDE DEF m
    <3>2. it'[w].step = m /\ it'[w].offset = me.offset
      BY <1>0, <3>1 DEF IterType
    <3>3. ~Done(w)'
      BY <3>1 DEF Done
    <3> QED BY <2>5, <3>1, <3>2, <3>3, VisitMore DEF m
  <2> QED BY <2>1, <2>2, <2>3, <2>4, <2>5 DEF VisitTurn
<1>6. ~Refused(w) /\ ~Dropped(w) /\ ~Reading(w) /\ ~Deleting(w) /\ ~Fetching(w) /\ ~Claiming(w)
  BY <1>1 DEF Refused, Dropped, Reading, Readers, Deleting, Fetching, Claiming, TypeInv, Shape
<1> QED BY <1>0, <1>2, <1>3, <1>4, <1>5, <1>6 DEF OneMove

(* The invariant of the visits.                                            *)
RandomInv == TypeInv /\ StateInv /\ PrimaryInv /\ \A w \in Iter : VisitInv(w)

(* It holds in the initial states.                                         *)
LEMMA RandomInit ==
  ASSUME Init
  PROVE  RandomInv
BY TypeInit, StateInit, PrimaryInit, VisitInit DEF RandomInv

(* Every step keeps it.                                                    *)
LEMMA RandomKeeps ==
  ASSUME RandomInv, [Next]_vars
  PROVE  RandomInv'
<1>1. CASE Next
  <2>1. setup' = setup /\ Kinds
    BY <1>1, NextKinds DEF RandomInv
  <2>2. TypeInv' /\ StateInv' /\ PrimaryInv'
    BY <1>1, <2>1, TypeStep, StateStep, PrimaryStep DEF RandomInv
  <2>3. \A w \in Iter : VisitInv(w)'
    BY <2>1, VisitStep DEF RandomInv
  <2> QED BY <2>2, <2>3 DEF RandomInv
<1>2. CASE UNCHANGED vars
  <2>1. TypeInv'
    BY TypeStep DEF RandomInv
  <2>2. /\ setup' = setup /\ bits' = bits /\ touched' = touched /\ made' = made /\ primary' = primary
        /\ pc' = pc /\ it' = it /\ given' = given
    BY <1>2 DEF vars
  <2>3. StateInv' /\ PrimaryInv'
    BY <2>2 DEF RandomInv, StateInv, PrimaryInv, hier, Of, Untouched, Changers, Got
  <2>4. ASSUME NEW w \in Iter
        PROVE  VisitInv(w)'
    <3>1. VisitInv(w)
      BY DEF RandomInv
    <3>2. /\ Visitors' = Visitors /\ Size(Of(w))' = Size(Of(w)) /\ Steps(w)' = Steps(w)
          /\ \A s : VisitAt(w, s)' = VisitAt(w, s)
          /\ Unwrapped(Of(w), it[w].offset)' = Unwrapped(Of(w), it[w].offset)
          /\ \A p : Got(w, p)' <=> Got(w, p)
      BY <2>2 DEF Visitors, hier, Of, Plain, Size, Last, Larger, Smaller, Steps, VisitAt, Permuted, Unwrapped, Got
    <3>3. Firm(Of(w))' = Firm(Of(w)) /\ Done(w)' = Done(w)
      BY <2>2 DEF Firm, Done, Items, hier, Of, Untouched, Changers, Got, Within, matches_filter
    <3> QED BY <2>2, <3>1, <3>2, <3>3 DEF VisitInv
  <2> QED BY <2>1, <2>3, <2>4 DEF RandomInv
<1> QED BY <1>1, <1>2

(* The invariant says that each matching id is visited once.               *)
LEMMA VisitsHold ==
  ASSUME RandomInv
  PROVE  RandomVisitsOnce
<1>0. TypeInv /\ TypeOK /\ setup \in Setups
  BY DEF RandomInv, TypeInv
<1> SUFFICES ASSUME NEW w \in Iter, Of(w).mode = "random", Of(w).dist = "Uniform", ~hier, Plain(Of(w)), Done(w),
                    is_power_of_two(Size(Of(w))) \/ (Size(Of(w)) - 1) * find_coprime(Size(Of(w))) + it[w].offset < U,
                    NEW p \in Steady(Of(w))
             PROVE  Times(w, p) = 1
  BY DEF RandomVisitsOnce
<1> DEFINE b == Of(w)
           offset == it[w].offset
<1>1. w \in Visitors /\ Unwrapped(b, offset) /\ b \in Build /\ offset \in Nat
  BY <1>0, SetupFacts, IterFields DEF Visitors, Unwrapped
<1>2. p \in Firm(b) /\ p \in Items
  BY <1>0, SteadyFirm DEF Steady
<1>3. /\ it[w].step = Size(b)
      /\ \A j, k \in DOMAIN given[w] : given[w][j] = given[w][k] => j = k
      /\ \A s \in Steps(w), q \in Firm(b) : q = VisitAt(w, s) => Got(w, q)
  BY <1>1 DEF RandomInv, VisitInv
<1>4. b.lo \in Nat /\ p[1] \in Nat /\ b.lo <= p[1] /\ p[1] < Last(b) /\ p = <<p[1], 0>>
  <2>1. p \in Nat \X {0} /\ p[1] < MaxId /\ Within(b, p)
    BY <1>2, ItemFacts DEF Firm, Places
  <2>2. b.lo \in Nat /\ b.lo <= p[1] /\ p[1] < b.hi
    BY <1>1, <2>1, BuildFields DEF Within
  <2> QED BY <1>1, <2>1, <2>2, RangeFacts
<1>5. p[1] - b.lo \in 0 .. Size(b) - 1
  <2>1. Last(b) \in Nat /\ Size(b) \in Nat /\ (b.lo <= Last(b) => b.lo + Size(b) = Last(b))
    BY <1>1, RangeFacts
  <2> HIDE DEF b
  <2> QED BY <1>4, <2>1
<1>6. PICK s \in 0 .. Size(b) - 1 : Permuted(b, s, offset) = p[1] - b.lo
  BY <1>1, <1>5, StepsPermute
<1>7. VisitAt(w, s) = p
  BY <1>4, <1>6 DEF VisitAt
<1>8. Got(w, p)
  BY <1>2, <1>3, <1>6, <1>7 DEF Steps
<1> QED BY <1>0, <1>3, <1>8, TimesGot

(* A random iterator visits each matching id exactly once, unless a        *)
(* product wraps and the size of the range is no power of two.             *)
THEOREM RandomVisitsAll == Spec => []RandomVisitsOnce
BY RandomInit, RandomKeeps, VisitsHold, PTL DEF Spec
=============================================================================
