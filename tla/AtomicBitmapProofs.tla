------------------------- MODULE AtomicBitmapProofs -------------------------
(***************************************************************************)
(* Proofs about AtomicBitmap, for every number of threads, words and bits  *)
(* per word: typing, exact accounting of the counter, and the refinement   *)
(* of TalliedSet.                                                          *)
(***************************************************************************)
EXTENDS AtomicBitmap, FiniteSetTheorems, WellFoundedInduction, TLAPS

(* What a call in progress knows, by where it is. *)
CallOK(t) ==
  /\ pc[t] = "idle" => call[t].op = "none"
  /\ delta[t] # {} => pc[t] \in {"range", "settle"}
  /\ pc[t] \in {"load", "cas"} =>
       /\ call[t].op \in {"test_and_set", "test_and_clear"}
       /\ call[t].lo \in Index
  /\ pc[t] = "cas" =>
       /\ call[t].old \subseteq Word(WordOf(call[t].lo))
       /\ call[t].lo \in call[t].old <=> call[t].op = "test_and_clear"
  /\ pc[t] = "range" =>
       /\ call[t].op \in {"set_range", "clear_range"}
       /\ \A i \in delta[t] : WordOf(i) < call[t].word
  /\ pc[t] = "settle" => call[t].op \in Adds \union Removes
  /\ pc[t] \in {"scan", "load_count", "store_count", "return"} =>
       call[t].op \in OpsOf[t] \ (Adds \union Removes)
  /\ pc[t] \in {"load_count", "store_count"} => call[t].op \in {"snapshot", "verify_count"}
  /\ pc[t] = "store_count" => call[t].op = "verify_count"

CallInv == \A t \in Thread : CallOK(t)

-----------------------------------------------------------------------------
(* Facts about the operators                                               *)

(* The capacity and word numbers are natural, and a mask selects bits of   *)
(* its own word.                                                           *)
LEMMA WordFacts ==
  /\ Capacity \in Nat
  /\ \A i \in Nat : WordOf(i) \in Nat
  /\ \A k : Word(k) \subseteq Index
  /\ \A lo, hi, k : Mask(lo, hi, k) \subseteq Index /\ \A i \in Mask(lo, hi, k) : WordOf(i) = k
  /\ \A i \in Index : i \in Word(WordOf(i))
BY SizeAssumption DEF Capacity, WordOf, Word, Mask, Index

(* There are finitely many bits, and no set of them is larger than the     *)
(* capacity.                                                               *)
LEMMA IndexFinite ==
  /\ IsFiniteSet(Index)
  /\ \A S \in SUBSET Index : IsFiniteSet(S) /\ Cardinality(S) \in 0 .. Capacity
<1>1. IsFiniteSet(Index) /\ Cardinality(Index) = Capacity
  <2>1. Capacity - 1 \in Int /\ 0 \in Int
    BY WordFacts
  <2>2. /\ IsFiniteSet(0 .. Capacity - 1)
        /\ Cardinality(0 .. Capacity - 1) = IF 0 > Capacity - 1 THEN 0 ELSE Capacity - 1 - 0 + 1
    BY <2>1, FS_Interval
  <2> QED BY <2>2, WordFacts DEF Index
<1>2. ASSUME NEW S \in SUBSET Index
      PROVE  IsFiniteSet(S) /\ Cardinality(S) \in 0 .. Capacity
  BY <1>1, <1>2, FS_Subset, FS_CardinalityType, WordFacts
<1> QED BY <1>1, <1>2

(* A nonempty finite set of integers has a least element: the one whose    *)
(* set of elements up to it is minimal under inclusion.                    *)
LEMMA LeastFacts ==
  ASSUME NEW S \in SUBSET Int, IsFiniteSet(S), S # {}
  PROVE  Least(S) \in S /\ \A j \in S : Least(S) <= j
<1> DEFINE UpTo(i) == {j \in S : j <= i}
           Segments == {UpTo(i) : i \in S}
<1>1. Segments \subseteq FiniteSubsetsOf(S) /\ Segments # {}
  <2>1. ASSUME NEW i \in S
        PROVE  UpTo(i) \in SUBSET S /\ IsFiniteSet(UpTo(i))
    BY FS_Subset
  <2> QED BY <2>1 DEF FiniteSubsetsOf
<1>2. PICK m \in Segments : \A s \in Segments : <<s, m>> \notin StrictSubsetOrdering(S)
  <2> HIDE DEF Segments
  <2> QED BY <1>1, FS_StrictSubsetOrderingWellFounded, WFMin
<1>3. PICK i \in S : m = UpTo(i)
  BY <1>2
<1>4. \A j \in S : i <= j
  <2> SUFFICES ASSUME NEW j \in S, ~ (i <= j)
               PROVE  FALSE
    OBVIOUS
  <2>1. i \in Int /\ j \in Int /\ j < i
    OBVIOUS
  <2>2. \A x \in Int : x <= j => x <= i
    BY <2>1
  <2>3. UpTo(j) \subseteq UpTo(i) /\ UpTo(i) \subseteq S
    BY <2>2
  <2>4. i \in UpTo(i) /\ i \notin UpTo(j)
    BY <2>1
  <2>5. <<UpTo(j), UpTo(i)>> \in StrictSubsetOrdering(S)
    BY <2>3, <2>4 DEF StrictSubsetOrdering
  <2> QED BY <1>2, <1>3, <2>5
<1> QED BY <1>4 DEF Least

(* The result of an empty scan is a number.                                *)
LEMMA NoneType == None \in Int
BY DEF None

(* The result of a scan is a number.                                       *)
LEMMA BelowType ==
  ASSUME NEW S \in SUBSET Index, NEW hi
  PROVE  Below(S, hi) \in Int
<1>1. S \in SUBSET Int /\ IsFiniteSet(S)
  BY IndexFinite, WordFacts DEF Index
<1>2. CASE S = {}
  BY <1>2, NoneType DEF Below
<1>3. CASE S # {}
  <2>1. Least(S) \in Int
    BY <1>1, <1>3, LeastFacts
  <2> QED BY <2>1, NoneType DEF Below
<1> QED BY <1>2, <1>3

(* Sets of disjoint bits: their sizes add up.                              *)
LEMMA DisjointCardinality ==
  ASSUME NEW S, NEW T, IsFiniteSet(S), IsFiniteSet(T), S \intersect T = {}
  PROVE  Cardinality(S \union T) = Cardinality(S) + Cardinality(T)
<1>1. Cardinality(S \intersect T) = 0
  BY FS_EmptySet
<1>2. Cardinality(S) \in Nat /\ Cardinality(T) \in Nat
  BY FS_CardinalityType
<1>3. Cardinality(S \union T) = Cardinality(S) + Cardinality(T) - Cardinality(S \intersect T)
  BY FS_Union
<1> QED BY <1>1, <1>2, <1>3

(* One thread's bits, tagged with the thread, are as many as the bits.     *)
LEMMA TaggedCardinality ==
  ASSUME NEW t, NEW S, IsFiniteSet(S)
  PROVE  IsFiniteSet({t} \X S) /\ Cardinality({t} \X S) = Cardinality(S)
<1>1. IsFiniteSet({t}) /\ Cardinality({t}) = 1
  BY FS_Singleton
<1>2. Cardinality(S) \in Nat
  BY FS_CardinalityType
<1> QED BY <1>1, <1>2, FS_Product

(* The flips not yet counted are finitely many.                            *)
LEMMA UnsettledFinite ==
  ASSUME NEW ops
  PROVE  IsFiniteSet(Unsettled(ops)) /\ Cardinality(Unsettled(ops)) \in Nat
<1>1. IsFiniteSet(Thread \X Index)
  BY FS_Product, IndexFinite, ThreadAssumption
<1>2. Unsettled(ops) \in SUBSET (Thread \X Index)
  BY DEF Unsettled
<1> QED BY <1>1, <1>2, FS_Subset, FS_CardinalityType

(* And so they are after the step.                                         *)
LEMMA UnsettledFinitePrime ==
  ASSUME NEW ops
  PROVE  IsFiniteSet(Unsettled(ops)') /\ Cardinality(Unsettled(ops)') \in Nat
<1>1. IsFiniteSet(Thread \X Index)
  BY FS_Product, IndexFinite, ThreadAssumption
<1>2. Unsettled(ops)' \in SUBSET (Thread \X Index)
  BY DEF Unsettled
<1> QED BY <1>1, <1>2, FS_Subset, FS_CardinalityType

-----------------------------------------------------------------------------
(* How one step moves the three terms of Accounting                        *)

(* Thread t leaves the calls and the unsettled flips of the others alone.  *)
OthersKeep(t) == \A u \in Thread \ {t} : call'[u] = call[u] /\ delta'[u] = delta[u]

(* And it goes on with its own call as long as it has flips to settle.     *)
KeepsKind(t) == delta[t] # {} => call'[t].op = call[t].op

(* t sets the bits S, all unset until now.                                 *)
LEMMA GainKeepsAccounting ==
  ASSUME TypeOK, Accounting, NEW t \in Thread, OthersKeep(t), KeepsKind(t),
         NEW S \in SUBSET Index,
         S \intersect bits = {}, S \intersect delta[t] = {}, call'[t].op \in Adds,
         bits' = bits \union S, delta'[t] = delta[t] \union S, popcount' = popcount
  PROVE  Accounting'
<1>1. Cardinality(bits') = Cardinality(bits) + Cardinality(S)
  BY IndexFinite, DisjointCardinality DEF TypeOK
<1>2. Cardinality(Unsettled(Adds)') = Cardinality(Unsettled(Adds)) + Cardinality(S)
  <2>1. Unsettled(Adds)' = Unsettled(Adds) \union ({t} \X S)
    BY DEF Unsettled, OthersKeep, KeepsKind, TypeOK
  <2>2. Unsettled(Adds) \intersect ({t} \X S) = {}
    BY DEF Unsettled
  <2>3. IsFiniteSet({t} \X S) /\ Cardinality({t} \X S) = Cardinality(S)
    BY IndexFinite, TaggedCardinality
  <2> QED BY <2>1, <2>2, <2>3, UnsettledFinite, DisjointCardinality
<1>3. Unsettled(Removes)' = Unsettled(Removes)
  BY DEF Unsettled, OthersKeep, KeepsKind, Adds, Removes, TypeOK
<1>4. /\ Cardinality(bits) \in Nat /\ Cardinality(S) \in Nat
      /\ Cardinality(Unsettled(Adds)) \in Nat /\ Cardinality(Unsettled(Removes)) \in Nat
  BY IndexFinite, FS_CardinalityType, UnsettledFinite DEF TypeOK
<1> QED BY <1>1, <1>2, <1>3, <1>4 DEF Accounting, TypeOK

(* t clears the bits S, all set until now.                                 *)
LEMMA LossKeepsAccounting ==
  ASSUME TypeOK, Accounting, NEW t \in Thread, OthersKeep(t), KeepsKind(t),
         NEW S \in SUBSET Index,
         S \subseteq bits, S \intersect delta[t] = {}, call'[t].op \in Removes,
         bits' = bits \ S, delta'[t] = delta[t] \union S, popcount' = popcount
  PROVE  Accounting'
<1>1. Cardinality(bits') = Cardinality(bits) - Cardinality(S)
  <2>1. IsFiniteSet(bits) /\ bits \intersect S = S
    BY IndexFinite DEF TypeOK
  <2> QED BY <2>1, FS_Difference
<1>2. Cardinality(Unsettled(Removes)') = Cardinality(Unsettled(Removes)) + Cardinality(S)
  <2>1. Unsettled(Removes)' = Unsettled(Removes) \union ({t} \X S)
    BY DEF Unsettled, OthersKeep, KeepsKind, TypeOK
  <2>2. Unsettled(Removes) \intersect ({t} \X S) = {}
    BY DEF Unsettled
  <2>3. IsFiniteSet({t} \X S) /\ Cardinality({t} \X S) = Cardinality(S)
    BY IndexFinite, TaggedCardinality
  <2> QED BY <2>1, <2>2, <2>3, UnsettledFinite, DisjointCardinality
<1>3. Unsettled(Adds)' = Unsettled(Adds)
  BY DEF Unsettled, OthersKeep, KeepsKind, Adds, Removes, TypeOK
<1>4. /\ Cardinality(bits) \in Nat /\ Cardinality(S) \in Nat
      /\ Cardinality(Unsettled(Adds)) \in Nat /\ Cardinality(Unsettled(Removes)) \in Nat
  BY IndexFinite, FS_CardinalityType, UnsettledFinite DEF TypeOK
<1> QED BY <1>1, <1>2, <1>3, <1>4 DEF Accounting, TypeOK

(* t counts the flips of its call.                                         *)
LEMMA SettleKeepsAccounting ==
  ASSUME TypeOK, Accounting, CallInv, NEW t \in Thread, Settle(t)
  PROVE  Accounting'
<1>1. OthersKeep(t) /\ delta'[t] = {}
  BY DEF Settle, Finish, TypeOK, OthersKeep
<1>2. call[t].op \in Adds \union Removes /\ Adds \intersect Removes = {}
  BY DEF Settle, CallInv, CallOK, Adds, Removes
<1>3. IsFiniteSet({t} \X delta[t]) /\ Cardinality({t} \X delta[t]) = Cardinality(delta[t])
  BY IndexFinite, TaggedCardinality DEF TypeOK
<1>4. ASSUME NEW ops, call[t].op \in ops
      PROVE  Cardinality(Unsettled(ops)) = Cardinality(Unsettled(ops)') + Cardinality(delta[t])
  <2>1. Unsettled(ops) = Unsettled(ops)' \union ({t} \X delta[t])
    BY <1>1, <1>4 DEF Unsettled, OthersKeep, TypeOK
  <2>2. Unsettled(ops)' \intersect ({t} \X delta[t]) = {}
    BY <1>1 DEF Unsettled
  <2> QED BY <2>1, <2>2, <1>3, UnsettledFinitePrime, DisjointCardinality
<1>5. ASSUME NEW ops, call[t].op \notin ops
      PROVE  Unsettled(ops)' = Unsettled(ops)
  BY <1>1, <1>5 DEF Unsettled, OthersKeep
<1>6. /\ Cardinality(bits) \in Nat /\ Cardinality(delta[t]) \in Nat
      /\ Cardinality(Unsettled(Adds)) \in Nat /\ Cardinality(Unsettled(Removes)) \in Nat
      /\ Cardinality(Unsettled(Adds)') \in Nat /\ Cardinality(Unsettled(Removes)') \in Nat
  BY IndexFinite, FS_CardinalityType, UnsettledFinite, UnsettledFinitePrime DEF TypeOK
<1>7. CASE call[t].op \in Adds
  BY <1>2, <1>4, <1>5, <1>6, <1>7 DEF Accounting, Settle, TypeOK
<1>8. CASE call[t].op \in Removes
  BY <1>2, <1>4, <1>5, <1>6, <1>8 DEF Accounting, Settle, TypeOK
<1> QED BY <1>2, <1>7, <1>8

(* Steps that flip nothing and count nothing.                              *)
LEMMA QuietKeepsAccounting ==
  ASSUME TypeOK, Accounting, NEW t \in Thread, OthersKeep(t), KeepsKind(t),
         bits' = bits, popcount' = popcount, delta' = delta
  PROVE  Accounting'
<1>1. Unsettled(Adds)' = Unsettled(Adds) /\ Unsettled(Removes)' = Unsettled(Removes)
  BY DEF Unsettled, OthersKeep, KeepsKind
<1> QED BY <1>1 DEF Accounting

-----------------------------------------------------------------------------
(* Typing                                                                  *)

(* The state of a thread outside any call is typed.                        *)
LEMMA NoCallType == NoCall \in CallType
BY DEF NoCall, None, CallType

(* The bounds of a range are natural numbers and it begins at a bit.       *)
LEMMA RangesFacts ==
  \A r \in Ranges : r[1] \in Nat /\ r[2] \in Nat /\ r[1] \in Index /\ WordOf(r[1]) \in Nat
<1> SUFFICES ASSUME NEW r \in Ranges
             PROVE  r[1] \in Nat /\ r[2] \in Nat /\ r[1] \in Index /\ WordOf(r[1]) \in Nat
  OBVIOUS
<1>1. PICK lo \in 0 .. B * NWords, hi \in 0 .. B * NWords : r = <<lo, hi>> /\ lo < hi
  BY RangesAssumption
<1>2. B * NWords \in Nat
  BY SizeAssumption
<1>3. lo \in Nat /\ hi \in Nat /\ lo \in 0 .. B * NWords - 1
  BY <1>1, <1>2
<1> QED BY <1>1, <1>3, WordFacts DEF Index, Capacity

(* Writing a word keeps the bits and the history typed.                    *)
LEMMA WriteType ==
  ASSUME TypeOK, NEW S \in SUBSET Index, Write(S)
  PROVE  /\ bits' \subseteq Index
         /\ always' \in [Thread -> SUBSET Index]
         /\ ever' \in [Thread -> SUBSET Index]
BY DEF TypeOK, Write

(* A word of set_range or clear_range keeps the types.                     *)
LEMMA RangeWordType ==
  ASSUME TypeOK, NEW t \in Thread, NEW op \in OpName, NEW lo \in Nat, NEW hi \in Nat, NEW k \in Nat,
         RangeWord(t, op, lo, hi, k)
  PROVE  TypeOK'
<1>1. Mask(lo, hi, k) \subseteq Index
  BY WordFacts
<1>2. Written(op, Mask(lo, hi, k)) \in SUBSET Index /\ Flipped(op, Mask(lo, hi, k)) \in SUBSET Index
  BY <1>1 DEF Written, Flipped, TypeOK
<1>3. Write(Written(op, Mask(lo, hi, k)))
  BY DEF RangeWord
<1>4. [NoCall EXCEPT !.op = op, !.lo = lo, !.hi = hi, !.word = k + 1] \in CallType
  <2>1. k + 1 \in Nat
    OBVIOUS
  <2> QED BY <2>1, NoneType DEF NoCall, CallType
<1>5. call' \in [Thread -> CallType]
  BY <1>4 DEF RangeWord, TypeOK
<1>6. pc' \in [Thread -> {"idle", "load", "cas", "range", "settle", "scan",
                          "load_count", "store_count", "return"}]
  BY DEF RangeWord, TypeOK
<1>7. delta' \in [Thread -> SUBSET Index]
  BY <1>2 DEF RangeWord, TypeOK
<1> QED BY <1>2, <1>3, <1>5, <1>6, <1>7, WriteType DEF TypeOK, RangeWord

(* A word of count_range, snapshot or verify_count keeps the types.        *)
LEMMA CollectWordType ==
  ASSUME TypeOK, NEW t \in Thread, NEW op \in OpName, NEW lo \in Nat, NEW hi \in Nat, NEW k \in Nat,
         NEW seen \in SUBSET Index, CollectWord(t, op, lo, hi, k, seen),
         BeginHistory(t) \/ UNCHANGED history
  PROVE  TypeOK'
<1>1. seen \union (bits \intersect Mask(lo, hi, k)) \in SUBSET Index
  BY DEF TypeOK
<1>2. /\ always' \in [Thread -> SUBSET Index]
      /\ ever' \in [Thread -> SUBSET Index]
  BY DEF TypeOK, BeginHistory, history
<1>3. [NoCall EXCEPT !.op = op, !.lo = lo, !.hi = hi, !.word = k + 1,
                     !.seen = seen \union (bits \intersect Mask(lo, hi, k))] \in CallType
  <2>1. k + 1 \in Nat
    OBVIOUS
  <2> QED BY <1>1, <2>1, NoneType DEF NoCall, CallType
<1>4. call' \in [Thread -> CallType]
  BY <1>3 DEF CollectWord, TypeOK
<1> QED BY <1>2, <1>4 DEF TypeOK, CollectWord

(* The load of test_and_set and test_and_clear keeps the types.            *)
LEMMA LoadBitType ==
  ASSUME TypeOK, NEW t \in Thread, NEW op \in OpName, NEW i \in Nat, LoadBit(t, op, i),
         UNCHANGED <<bits, popcount, delta, history>>
  PROVE  TypeOK'
<1>1. [NoCall EXCEPT !.op = op, !.lo = i, !.old = bits \intersect Word(WordOf(i))] \in CallType
  BY NoneType DEF NoCall, CallType, TypeOK
<1>2. call' \in [Thread -> CallType]
  BY <1>1, NoCallType DEF LoadBit, Finish, TypeOK
<1> QED BY <1>2 DEF LoadBit, Finish, TypeOK, history

(* The first word of a scan keeps the types.                               *)
LEMMA FindType ==
  ASSUME TypeOK, NEW t \in Thread, NEW op \in OpName, NEW lo \in Nat, NEW hi \in Nat,
         BeginFind(t, op, lo, hi)
  PROVE  TypeOK'
<1>1. {i \in Wanted(op, WordOf(lo)) : lo <= i} \in SUBSET Index
  BY WordFacts DEF Wanted, TypeOK
<1>2. Below({i \in Wanted(op, WordOf(lo)) : lo <= i}, hi) \in Int
  BY <1>1, BelowType
<1>3. WordOf(lo) + 1 \in Nat
  BY WordFacts
<1>4. [NoCall EXCEPT !.op = op, !.lo = lo, !.hi = hi, !.word = WordOf(lo) + 1,
                     !.ret = Below({i \in Wanted(op, WordOf(lo)) : lo <= i}, hi)] \in CallType
  BY <1>2, <1>3, NoneType DEF NoCall, CallType
<1>5. call' \in [Thread -> CallType]
  BY <1>4 DEF BeginFind, TypeOK
<1> QED BY <1>5 DEF BeginFind, BeginHistory, TypeOK

(* The fields of a call have their types.                                  *)
LEMMA CallFields ==
  ASSUME TypeOK, NEW t \in Thread
  PROVE  /\ call[t] \in CallType
         /\ call[t].op \in OpName \union {"none"} /\ call[t].lo \in Nat /\ call[t].hi \in Nat
         /\ call[t].word \in Nat /\ call[t].old \in SUBSET Index
         /\ call[t].seen \in SUBSET Index /\ call[t].ret \in Int
<1>1. call[t] \in CallType
  BY DEF TypeOK
<1> QED BY <1>1 DEF CallType

(* Every step of an update keeps the types.                                *)
LEMMA UpdateType ==
  ASSUME TypeOK, CallInv, NEW t \in Thread, Update(t)
  PROVE  TypeOK'
<1> USE CallFields
<1>1. ASSUME NEW op \in {"set", "clear"}, NEW i \in Index, FetchBit(t, op, i)
      PROVE  TypeOK'
  <2>1. Written(op, {i}) \in SUBSET Index
    BY DEF Written, TypeOK
  <2>2. [NoCall EXCEPT !.op = op] \in CallType
    BY NoneType DEF NoCall, CallType, OpName
  <2> QED BY <1>1, <2>1, <2>2, WriteType DEF FetchBit, TypeOK
<1>2. ASSUME NEW op \in {"test_and_set", "test_and_clear"}, BeginTest(t, op)
      PROVE  TypeOK'
  <2>1. PICK i \in Index : LoadBit(t, op, i)
    BY <1>2 DEF BeginTest
  <2>2. op \in OpName /\ i \in Nat
    BY WordFacts DEF OpName, Index
  <2> QED BY <1>2, <2>1, <2>2, LoadBitType DEF BeginTest
<1>3. CASE Retry(t)
  <2>1. call[t].op \in OpName
    BY <1>3 DEF Retry, CallInv, CallOK, OpName
  <2> QED BY <1>3, <2>1, LoadBitType DEF Retry
<1>4. CASE CasSucceeds(t)
  <2> DEFINE word == Word(WordOf(call[t].lo))
             new == (bits \ word) \union (IF call[t].op \in Adds THEN call[t].old \union {call[t].lo}
                                          ELSE call[t].old \ {call[t].lo})
  <2>1. call[t].lo \in Index
    BY <1>4 DEF CasSucceeds, CallInv, CallOK
  <2>2. new \in SUBSET Index
    BY <2>1 DEF TypeOK
  <2>3. Write(new)
    BY <1>4 DEF CasSucceeds
  <2>4. bits' \subseteq Index /\ always' \in [Thread -> SUBSET Index] /\ ever' \in [Thread -> SUBSET Index]
    BY <2>2, <2>3, WriteType
  <2> QED BY <1>4, <2>1, <2>4 DEF CasSucceeds, TypeOK
<1>5. CASE CasFails(t)
  <2>1. [call[t] EXCEPT !.old = {}] \in CallType
    BY DEF CallType
  <2> QED BY <1>5, <2>1 DEF CasFails, TypeOK, history
<1>6. ASSUME NEW op \in {"set_range", "clear_range"}, BeginRange(t, op)
      PROVE  TypeOK'
  <2>1. PICK r \in Ranges : RangeWord(t, op, r[1], r[2], WordOf(r[1]))
    BY <1>6 DEF BeginRange
  <2>2. op \in OpName
    BY DEF OpName
  <2> QED BY <2>1, <2>2, RangesFacts, RangeWordType
<1>7. CASE NextRangeWord(t)
  <2>1. call[t].op \in OpName
    BY <1>7 DEF NextRangeWord, CallInv, CallOK, OpName
  <2> QED BY <1>7, <2>1, RangeWordType DEF NextRangeWord
<1>8. CASE Settle(t)
  <2>1. Cardinality(delta[t]) \in Int
    BY IndexFinite DEF TypeOK
  <2> QED BY <1>8, <2>1, NoCallType DEF Settle, Finish, TypeOK, history
<1> QED
  BY <1>1, <1>2, <1>3, <1>4, <1>5, <1>6, <1>7, <1>8
  DEF Update, Set, Clear, TestAndSet, TestAndClear, SetRange, ClearRange

(* Every step of a scan keeps the types.                                   *)
LEMMA ScanType ==
  ASSUME TypeOK, CallInv, NEW t \in Thread, Scan(t)
  PROVE  TypeOK'
<1> USE CallFields
<1>1. ASSUME NEW r \in Ranges, NEW op \in {"find_next_set", "find_next_unset"}, NEW hi \in Nat,
             BeginFind(t, op, r[1], hi)
      PROVE  TypeOK'
  BY <1>1, FindType, RangesFacts DEF OpName
<1>2. CASE FindWord(t)
  <2> DEFINE hits == call[t].seen \union Wanted(call[t].op, call[t].word)
  <2>1. hits \in SUBSET Index
    BY WordFacts DEF Wanted, TypeOK
  <2>2. Below(hits, call[t].hi) \in Int /\ None \in Int /\ call[t].word + 1 \in Nat
    BY <2>1, BelowType, NoneType
  <2>3. PICK ret \in Int : call' = [call EXCEPT ![t].seen = hits, ![t].word = call[t].word + 1,
                                              ![t].ret = ret]
    <3> HIDE DEF hits
    <3> QED BY <1>2, <2>2 DEF FindWord, hits
  <2>4. [call[t] EXCEPT !.seen = hits, !.word = call[t].word + 1, !.ret = ret] \in CallType
    <3> HIDE DEF hits
    <3> QED BY <2>1, <2>2 DEF CallType
  <2>5. call' \in [Thread -> CallType]
    <3> HIDE DEF hits
    <3> QED BY <2>3, <2>4 DEF TypeOK
  <2> QED BY <1>2, <2>5 DEF FindWord, TypeOK, history
<1>3. ASSUME NEW op \in {"count_range", "snapshot", "verify_count"}, NEW lo \in Nat, NEW hi \in Nat,
             BeginCollect(t, op, lo, hi)
      PROVE  TypeOK'
  <2>1. op \in OpName /\ WordOf(lo) \in Nat /\ {} \in SUBSET Index
    BY WordFacts DEF OpName
  <2> QED BY <1>3, <2>1, CollectWordType DEF BeginCollect
<1>4. CASE NextCollectWord(t)
  <2>1. call[t].op \in OpName
    BY <1>4 DEF NextCollectWord, OpName
  <2> QED BY <1>4, <2>1, CollectWordType DEF NextCollectWord
<1>5. CASE LoadCount(t)
  <2>1. Loaded(popcount) \in Int
    BY SizeAssumption, WordFacts DEF Loaded, TypeOK
  <2>2. [call[t] EXCEPT !.ret = Loaded(popcount)] \in CallType
    BY <2>1 DEF CallType
  <2>3. call' \in [Thread -> CallType]
    BY <1>5, <2>2 DEF LoadCount, TypeOK
  <2> QED BY <1>5, <2>3 DEF LoadCount, TypeOK, history
<1>6. CASE StoreCount(t)
  <2>1. Cardinality(call[t].seen) \in Int
    BY IndexFinite
  <2> QED BY <1>6, <2>1 DEF StoreCount, TypeOK, history
<1>7. CASE Return(t)
  BY <1>7, NoCallType DEF Return, Finish, TypeOK
<1>8. Capacity \in Nat /\ 0 \in Nat
  BY WordFacts
<1> QED
  BY <1>1, <1>2, <1>3, <1>4, <1>5, <1>6, <1>7, <1>8, RangesFacts
  DEF Scan, FindNextSet, FindNextUnset, CountRange, Snapshot, VerifyCount

-----------------------------------------------------------------------------
(* What calls in progress know is preserved                                *)

(* No step touches another thread's control state, call or flips.          *)
LEMMA StepIsLocal ==
  ASSUME TypeOK, NEW t \in Thread, Update(t) \/ Scan(t)
  PROVE  \A u \in Thread \ {t} : pc'[u] = pc[u] /\ call'[u] = call[u] /\ delta'[u] = delta[u]
BY DEF TypeOK, Update, Scan, Set, Clear, TestAndSet, TestAndClear, SetRange, ClearRange,
       FetchBit, BeginTest, LoadBit, Retry, CasSucceeds, CasFails, BeginRange, RangeWord,
       NextRangeWord, Settle, Finish, FindNextSet, FindNextUnset, BeginFind, FindWord,
       CountRange, Snapshot, VerifyCount, BeginCollect, CollectWord, NextCollectWord,
       LoadCount, StoreCount, Return

(* Every step of an update leaves its thread's call in order.              *)
LEMMA UpdateCall ==
  ASSUME TypeOK, CallInv, NEW t \in Thread, Update(t)
  PROVE  CallOK(t)'
<1> USE CallFields
<1>0. CallOK(t) /\ delta[t] \in SUBSET Index
  BY DEF CallInv, TypeOK
<1>1. ASSUME NEW op \in {"set", "clear"}, NEW i \in Index, FetchBit(t, op, i)
      PROVE  CallOK(t)'
  BY <1>0, <1>1 DEF FetchBit, CallOK, NoCall, Adds, Removes, TypeOK
<1>2. ASSUME NEW op \in {"test_and_set", "test_and_clear"}, NEW i \in Index, LoadBit(t, op, i),
             delta' = delta, delta[t] = {}
      PROVE  CallOK(t)'
  <2>1. CASE Flipped(op, {i}) = {}
    BY <1>2, <2>1 DEF LoadBit, Finish, CallOK, NoCall, TypeOK
  <2>2. CASE Flipped(op, {i}) # {}
    <3>1. i \in Word(WordOf(i)) /\ (i \in bits <=> op = "test_and_clear")
      BY <2>2, WordFacts DEF Flipped, Adds
    <3>2. pc'[t] = "cas" /\ call'[t].op = op /\ call'[t].lo = i
          /\ call'[t].old = bits \intersect Word(WordOf(i)) /\ delta'[t] = {}
      BY <1>2, <2>2 DEF LoadBit, NoCall, TypeOK
    <3> QED BY <3>1, <3>2 DEF CallOK
  <2> QED BY <2>1, <2>2
<1>3. ASSUME NEW op \in {"test_and_set", "test_and_clear"}, BeginTest(t, op)
      PROVE  CallOK(t)'
  BY <1>0, <1>2, <1>3 DEF BeginTest, Idle, CallOK
<1>4. CASE Retry(t)
  BY <1>0, <1>2, <1>4 DEF Retry, CallOK
<1>5. CASE CasSucceeds(t)
  BY <1>0, <1>5 DEF CasSucceeds, CallOK, Adds, Removes, TypeOK
<1>6. CASE CasFails(t)
  BY <1>0, <1>6 DEF CasFails, CallOK, TypeOK
<1>7. ASSUME NEW op \in {"set_range", "clear_range"}, NEW lo, NEW hi, NEW k \in Nat,
             RangeWord(t, op, lo, hi, k), \A i \in delta[t] : WordOf(i) < k
      PROVE  CallOK(t)'
  <2>1. \A i \in delta'[t] : WordOf(i) < k + 1
    <3>1. delta'[t] = delta[t] \union Flipped(op, Mask(lo, hi, k))
      BY <1>7 DEF RangeWord, TypeOK
    <3>2. \A i \in Flipped(op, Mask(lo, hi, k)) : WordOf(i) = k
      BY WordFacts DEF Flipped
    <3>3. \A i \in delta[t] : WordOf(i) \in Nat
      BY <1>0, WordFacts DEF Index
    <3> QED BY <1>7, <3>1, <3>2, <3>3
  <2>2. call'[t].op = op /\ call'[t].word = k + 1 /\ pc'[t] \in {"range", "settle"}
    BY <1>7 DEF RangeWord, NoCall, TypeOK
  <2> QED BY <2>1, <2>2 DEF CallOK, Adds, Removes
<1>8. ASSUME NEW op \in {"set_range", "clear_range"}, BeginRange(t, op)
      PROVE  CallOK(t)'
  <2>1. delta[t] = {}
    BY <1>0, <1>8 DEF BeginRange, Idle, CallOK
  <2> QED BY <1>7, <1>8, <2>1, RangesFacts DEF BeginRange
<1>9. CASE NextRangeWord(t)
  BY <1>0, <1>7, <1>9 DEF NextRangeWord, CallOK
<1>10. CASE Settle(t)
  BY <1>10 DEF Settle, Finish, CallOK, NoCall, TypeOK
<1> QED
  BY <1>1, <1>3, <1>4, <1>5, <1>6, <1>8, <1>9, <1>10
  DEF Update, Set, Clear, TestAndSet, TestAndClear, SetRange, ClearRange

(* Every step of a scan leaves its thread's call in order.                 *)
LEMMA ScanCall ==
  ASSUME TypeOK, CallInv, NEW t \in Thread, Scan(t)
  PROVE  CallOK(t)'
<1> USE CallFields
<1>0. CallOK(t)
  BY DEF CallInv
<1>1. ASSUME NEW op \in {"find_next_set", "find_next_unset"}, NEW lo, NEW hi, BeginFind(t, op, lo, hi)
      PROVE  CallOK(t)'
  <2>1. pc'[t] \in {"scan", "return"} /\ call'[t].op = op /\ delta'[t] = {} /\ op \in OpsOf[t]
    BY <1>0, <1>1 DEF BeginFind, Idle, NoCall, TypeOK, CallOK
  <2> QED BY <2>1 DEF CallOK, Adds, Removes
<1>2. CASE FindWord(t)
  <2>1. pc'[t] \in {"scan", "return"} /\ call'[t].op = call[t].op /\ delta'[t] = {}
    BY <1>0, <1>2 DEF FindWord, TypeOK, CallOK
  <2> QED BY <1>0, <1>2, <2>1 DEF FindWord, CallOK
<1>3. ASSUME NEW op \in {"count_range", "snapshot", "verify_count"}, NEW lo, NEW hi, NEW k, NEW seen,
             CollectWord(t, op, lo, hi, k, seen), op \in OpsOf[t], delta[t] = {}
      PROVE  CallOK(t)'
  <2>1. /\ pc'[t] \in {"scan", "return", "load_count"} /\ call'[t].op = op /\ delta'[t] = {}
        /\ pc'[t] = "load_count" => op # "count_range"
    BY <1>3 DEF CollectWord, NoCall, TypeOK
  <2> QED BY <1>3, <2>1 DEF CallOK, Adds, Removes
<1>4. ASSUME NEW op \in {"count_range", "snapshot", "verify_count"}, NEW lo, NEW hi,
             BeginCollect(t, op, lo, hi)
      PROVE  CallOK(t)'
  BY <1>0, <1>3, <1>4 DEF BeginCollect, Idle, CallOK
<1>5. CASE NextCollectWord(t)
  BY <1>0, <1>3, <1>5 DEF NextCollectWord, CallOK
<1>6. CASE LoadCount(t)
  BY <1>0, <1>6 DEF LoadCount, CallOK, TypeOK
<1>7. CASE StoreCount(t)
  BY <1>0, <1>7 DEF StoreCount, CallOK, TypeOK
<1>8. CASE Return(t)
  BY <1>0, <1>8 DEF Return, Finish, NoCall, CallOK, TypeOK
<1> QED
  BY <1>1, <1>2, <1>4, <1>5, <1>6, <1>7, <1>8
  DEF Scan, FindNextSet, FindNextUnset, CountRange, Snapshot, VerifyCount

-----------------------------------------------------------------------------
(* Every step gains bits, loses bits, settles, or is quiet                 *)

Gains(t) ==
  \E S \in SUBSET Index :
    /\ S \intersect bits = {} /\ S \intersect delta[t] = {}
    /\ call'[t].op \in Adds
    /\ bits' = bits \union S
    /\ delta' = [delta EXCEPT ![t] = @ \union S]
    /\ popcount' = popcount

Loses(t) ==
  \E S \in SUBSET Index :
    /\ S \subseteq bits /\ S \intersect delta[t] = {}
    /\ call'[t].op \in Removes
    /\ bits' = bits \ S
    /\ delta' = [delta EXCEPT ![t] = @ \union S]
    /\ popcount' = popcount

Quiet(t) == UNCHANGED <<bits, popcount, delta>>

(* Replacing one word by itself with a bit more, or less.                  *)
LEMMA PutBit ==
  ASSUME NEW S, NEW W, NEW i \in W
  PROVE  (S \ W) \union ((S \intersect W) \union {i}) = S \union {i}
OBVIOUS

(* And one bit less.                                                       *)
LEMMA DropBit ==
  ASSUME NEW S, NEW W, NEW i \in W
  PROVE  (S \ W) \union ((S \intersect W) \ {i}) = S \ {i}
OBVIOUS

(* Every step of an update counts the flips of its call, or sets bits that *)
(* were unset, or clears bits that were set, or changes neither.           *)
LEMMA UpdateEffect ==
  ASSUME TypeOK, CallInv, NEW t \in Thread, Update(t)
  PROVE  Settle(t) \/ (KeepsKind(t) /\ (Gains(t) \/ Loses(t) \/ Quiet(t)))
<1>0. CallOK(t) /\ delta[t] \in SUBSET Index /\ Adds \intersect Removes = {}
  BY DEF CallInv, TypeOK, Adds, Removes
<1>1. ASSUME NEW i \in Index, FetchBit(t, "set", i)
      PROVE  KeepsKind(t) /\ Gains(t)
  <2>1. {i} \in SUBSET Index /\ {i} \intersect bits = {} /\ delta[t] = {}
    BY <1>0, <1>1 DEF FetchBit, Flipped, Adds, Idle, CallOK
  <2>2. bits' = bits \union {i} /\ call'[t].op = "set" /\ "set" \in Adds
    BY <1>1 DEF FetchBit, Write, Written, Adds, NoCall, TypeOK
  <2>3. delta' = [delta EXCEPT ![t] = @ \union {i}]
    BY <1>1, <2>1 DEF FetchBit
  <2> QED BY <1>1, <2>1, <2>2, <2>3 DEF FetchBit, Gains, KeepsKind
<1>2. ASSUME NEW i \in Index, FetchBit(t, "clear", i)
      PROVE  KeepsKind(t) /\ Loses(t)
  <2>1. {i} \in SUBSET Index /\ {i} \subseteq bits /\ delta[t] = {}
    BY <1>0, <1>2 DEF FetchBit, Flipped, Adds, Idle, CallOK
  <2>2. bits' = bits \ {i} /\ call'[t].op = "clear" /\ "clear" \in Removes
    BY <1>2 DEF FetchBit, Write, Written, Adds, Removes, NoCall, TypeOK
  <2>3. delta' = [delta EXCEPT ![t] = @ \union {i}]
    BY <1>2, <2>1 DEF FetchBit
  <2> QED BY <1>2, <2>1, <2>2, <2>3 DEF FetchBit, Loses, KeepsKind
<1>3. ASSUME NEW op, BeginTest(t, op)
      PROVE  KeepsKind(t) /\ Quiet(t)
  BY <1>0, <1>3 DEF BeginTest, Idle, CallOK, KeepsKind, Quiet
<1>4. CASE Retry(t)
  BY <1>0, <1>4 DEF Retry, CallOK, KeepsKind, Quiet
<1>5. CASE CasSucceeds(t)
  <2> DEFINE c == call[t]
             i == c.lo
             word == Word(WordOf(i))
  <2>1. i \in Index /\ i \in word /\ bits \intersect word = c.old /\ delta[t] = {}
        /\ (i \in bits <=> c.op = "test_and_clear") /\ call' = call
        /\ c.op \in {"test_and_set", "test_and_clear"} /\ popcount' = popcount
    BY <1>0, <1>5, WordFacts DEF CasSucceeds, CallOK
  <2>2. delta' = [delta EXCEPT ![t] = @ \union {i}]
    BY <1>5, <2>1 DEF CasSucceeds
  <2>3. CASE c.op = "test_and_set"
    <3>0. bits' = (bits \ word) \union (c.old \union {i}) /\ c.op \in Adds
      BY <1>5, <2>3 DEF CasSucceeds, Write, Adds
    <3>1. bits' = bits \union {i}
      <4>1. bits' = (bits \ word) \union ((bits \intersect word) \union {i}) /\ i \in word
        BY <2>1, <3>0
      <4> HIDE DEF i, word
      <4> QED BY <4>1, PutBit
    <3>2. call'[t].op \in Adds
      BY <2>1, <3>0
    <3>3. {i} \in SUBSET Index /\ {i} \intersect bits = {} /\ {i} \intersect delta[t] = {}
      BY <2>1, <2>3
    <3>4. Gains(t)
      <4> HIDE DEF i
      <4> QED BY <2>1, <2>2, <3>1, <3>2, <3>3 DEF Gains
    <3> QED BY <2>1, <3>4 DEF KeepsKind
  <2>4. CASE c.op = "test_and_clear"
    <3>0. bits' = (bits \ word) \union (c.old \ {i}) /\ c.op \in Removes
      BY <1>5, <2>4 DEF CasSucceeds, Write, Adds, Removes
    <3>1. bits' = bits \ {i}
      <4>1. bits' = (bits \ word) \union ((bits \intersect word) \ {i}) /\ i \in word
        BY <2>1, <3>0
      <4> HIDE DEF i, word
      <4> QED BY <4>1, DropBit
    <3>2. call'[t].op \in Removes
      BY <2>1, <3>0
    <3>3. {i} \in SUBSET Index /\ {i} \subseteq bits /\ {i} \intersect delta[t] = {}
      BY <2>1, <2>4
    <3>4. Loses(t)
      <4> HIDE DEF i
      <4> QED BY <2>1, <2>2, <3>1, <3>2, <3>3 DEF Loses
    <3> QED BY <2>1, <3>4 DEF KeepsKind
  <2> QED BY <2>1, <2>3, <2>4
<1>6. CASE CasFails(t)
  BY <1>0, <1>6 DEF CasFails, CallOK, KeepsKind, Quiet
<1>7. ASSUME NEW op \in {"set_range", "clear_range"}, NEW lo, NEW hi, NEW k \in Nat,
             RangeWord(t, op, lo, hi, k), \A i \in delta[t] : WordOf(i) < k,
             delta[t] # {} => call[t].op = op
      PROVE  KeepsKind(t) /\ (Gains(t) \/ Loses(t))
  <2> DEFINE S == Flipped(op, Mask(lo, hi, k))
  <2>1. call'[t].op = op /\ delta' = [delta EXCEPT ![t] = @ \union S] /\ popcount' = popcount
    BY <1>7 DEF RangeWord, NoCall, TypeOK
  <2>2. S \in SUBSET Index /\ \A i \in S : WordOf(i) = k
    BY WordFacts DEF Flipped
  <2>3. S \intersect delta[t] = {}
    BY <1>7, <2>2
  <2>4. KeepsKind(t)
    BY <1>7, <2>1 DEF KeepsKind
  <2>5. CASE op = "set_range"
    <3>1. op \in Adds /\ S \intersect bits = {} /\ bits' = bits \union S
      BY <1>7, <2>5 DEF Adds, Flipped, RangeWord, Write, Written
    <3> QED BY <2>1, <2>2, <2>3, <2>4, <3>1 DEF Gains
  <2>6. CASE op = "clear_range"
    <3>1. op \in Removes /\ S \subseteq bits /\ bits' = bits \ S
      BY <1>7, <2>6 DEF Adds, Removes, Flipped, RangeWord, Write, Written
    <3> QED BY <2>1, <2>2, <2>3, <2>4, <3>1 DEF Loses
  <2> QED BY <2>5, <2>6
<1>8. ASSUME NEW op \in {"set_range", "clear_range"}, BeginRange(t, op)
      PROVE  KeepsKind(t) /\ (Gains(t) \/ Loses(t))
  <2>1. delta[t] = {}
    BY <1>0, <1>8 DEF BeginRange, Idle, CallOK
  <2> QED BY <1>7, <1>8, <2>1, RangesFacts DEF BeginRange
<1>9. CASE NextRangeWord(t)
  BY <1>0, <1>7, <1>9, CallFields DEF NextRangeWord, CallOK
<1> QED
  BY <1>1, <1>2, <1>3, <1>4, <1>5, <1>6, <1>8, <1>9
  DEF Update, Set, Clear, TestAndSet, TestAndClear, SetRange, ClearRange

(* A scan that does not store the counter changes neither bits nor         *)
(* counter.                                                                *)
LEMMA ScanEffect ==
  ASSUME TypeOK, CallInv, NEW t \in Thread, Scan(t), ~ StoreCount(t)
  PROVE  KeepsKind(t) /\ Quiet(t)
<1>1. CallOK(t)
  BY DEF CallInv
<1>2. Quiet(t)
  BY DEF Scan, FindNextSet, FindNextUnset, BeginFind, FindWord, CountRange, Snapshot, VerifyCount,
         BeginCollect, CollectWord, NextCollectWord, LoadCount, Return, Finish, Quiet
<1>3. pc[t] \notin {"range", "settle"}
  BY DEF Scan, FindNextSet, FindNextUnset, BeginFind, FindWord, CountRange, Snapshot, VerifyCount,
         BeginCollect, CollectWord, NextCollectWord, LoadCount, Return, Idle
<1> QED BY <1>1, <1>2, <1>3 DEF CallOK, KeepsKind

-----------------------------------------------------------------------------
(* Theorems                                                                *)

(* Nobody calls what overwrites the counter, or what goes past it.         *)
CountKept ==
  \A t \in Thread : OpsOf[t] \intersect {"verify_count", "word_fetch_or", "word_fetch_and"} = {}

(* A word_fetch_or or word_fetch_and keeps the types.                      *)
LEMMA FetchWordType ==
  ASSUME TypeOK, NEW t \in Thread, FetchWord(t)
  PROVE  TypeOK'
<1>1. PICK mask \in UNION {SUBSET Word(k) : k \in 0 .. NWords - 1} :
        Write(bits \union mask) \/ Write(bits \ mask)
  BY DEF FetchWord
<1>2. bits \union mask \in SUBSET Index /\ bits \ mask \in SUBSET Index
  BY WordFacts DEF TypeOK
<1>3. /\ bits' \subseteq Index
      /\ always' \in [Thread -> SUBSET Index]
      /\ ever' \in [Thread -> SUBSET Index]
  BY <1>1, <1>2, WriteType
<1> QED BY <1>3 DEF FetchWord, TypeOK

(* The initial state satisfies the whole invariant.                        *)
LEMMA InitInv == Init => TypeOK /\ CallInv /\ Accounting
<1> SUFFICES ASSUME Init PROVE TypeOK /\ CallInv /\ Accounting
  OBVIOUS
<1>1. TypeOK
  BY NoCallType DEF Init, TypeOK
<1>2. CallInv
  BY DEF Init, CallInv, CallOK, NoCall, Adds, Removes
<1>3. Accounting
  <2>1. Unsettled(Adds) = {} /\ Unsettled(Removes) = {}
    BY DEF Init, Unsettled
  <2> QED BY <2>1, FS_EmptySet DEF Init, Accounting
<1> QED BY <1>1, <1>2, <1>3

(* Every step keeps the types and the calls in order.                      *)
LEMMA StepInv == TypeOK /\ CallInv /\ [Next]_vars => (TypeOK /\ CallInv)'
<1> SUFFICES ASSUME TypeOK, CallInv, [Next]_vars PROVE (TypeOK /\ CallInv)'
  OBVIOUS
<1>1. ASSUME NEW t \in Thread, Update(t) \/ Scan(t)
      PROVE  (TypeOK /\ CallInv)'
  <2>1. TypeOK' /\ CallOK(t)'
    BY <1>1, UpdateType, ScanType, UpdateCall, ScanCall
  <2>2. \A u \in Thread \ {t} : CallOK(u)'
    BY <1>1, StepIsLocal DEF CallInv, CallOK
  <2> QED BY <2>1, <2>2 DEF CallInv
<1>2. CASE UNCHANGED vars
  BY <1>2 DEF vars, history, TypeOK, CallInv, CallOK
<1>3. ASSUME NEW t \in Thread, FetchWord(t)
      PROVE  (TypeOK /\ CallInv)'
  BY <1>3, FetchWordType DEF FetchWord, CallInv, CallOK
<1>4. CASE ClearAll
  BY <1>4 DEF ClearAll, history, TypeOK, CallInv, CallOK
<1> QED BY <1>1, <1>2, <1>3, <1>4 DEF Next

(* Every variable keeps to its type, whatever the threads do.              *)
THEOREM TypeCorrect == Spec => []TypeOK
<1>1. Init => TypeOK /\ CallInv
  BY InitInv
<1> QED BY <1>1, StepInv, PTL DEF Spec

(* Without verify_count nobody stores the counter.                         *)
LEMMA NoStoreStep ==
  ASSUME CountKept, CallInv, NEW t \in Thread
  PROVE  ~ StoreCount(t)
BY DEF CountKept, CallInv, CallOK, StoreCount

(* Without the uncounted word accesses no bit changes behind the counter's *)
(* back.                                                                   *)
LEMMA NoFetchStep ==
  ASSUME CountKept, NEW t \in Thread
  PROVE  ~ FetchWord(t)
BY DEF CountKept, FetchWord, Idle

(* Nobody is in a call when all bits are cleared.                          *)
LEMMA NothingOwed ==
  ASSUME CallInv, ClearAll
  PROVE  \A t \in Thread : delta[t] = {} /\ delta'[t] = {}
BY DEF CallInv, CallOK, ClearAll

(* Every step keeps the counter accounted for.                             *)
LEMMA StepAccounting ==
  ASSUME CountKept
  PROVE  TypeOK /\ CallInv /\ Accounting /\ [Next]_vars => Accounting'
<1> SUFFICES ASSUME TypeOK, CallInv, Accounting, [Next]_vars PROVE Accounting'
  OBVIOUS
<1>1. ASSUME NEW t \in Thread, Update(t) \/ Scan(t)
      PROVE  Accounting'
  <2>1. OthersKeep(t)
    BY <1>1, StepIsLocal DEF OthersKeep
  <2>2. Settle(t) \/ (KeepsKind(t) /\ (Gains(t) \/ Loses(t) \/ Quiet(t)))
    BY <1>1, UpdateEffect, ScanEffect, NoStoreStep
  <2>3. CASE Settle(t)
    BY <2>3, SettleKeepsAccounting
  <2>4. CASE KeepsKind(t) /\ Gains(t)
    <3>1. PICK S \in SUBSET Index :
            /\ S \intersect bits = {} /\ S \intersect delta[t] = {} /\ call'[t].op \in Adds
            /\ bits' = bits \union S /\ delta' = [delta EXCEPT ![t] = @ \union S]
            /\ popcount' = popcount
      BY <2>4 DEF Gains
    <3>2. delta'[t] = delta[t] \union S
      BY <3>1 DEF TypeOK
    <3> QED BY <2>1, <2>4, <3>1, <3>2, GainKeepsAccounting
  <2>5. CASE KeepsKind(t) /\ Loses(t)
    <3>1. PICK S \in SUBSET Index :
            /\ S \subseteq bits /\ S \intersect delta[t] = {} /\ call'[t].op \in Removes
            /\ bits' = bits \ S /\ delta' = [delta EXCEPT ![t] = @ \union S]
            /\ popcount' = popcount
      BY <2>5 DEF Loses
    <3>2. delta'[t] = delta[t] \union S
      BY <3>1 DEF TypeOK
    <3> QED BY <2>1, <2>5, <3>1, <3>2, LossKeepsAccounting
  <2>6. CASE KeepsKind(t) /\ Quiet(t)
    BY <2>1, <2>6, QuietKeepsAccounting DEF Quiet
  <2> QED BY <2>2, <2>3, <2>4, <2>5, <2>6
<1>2. CASE UNCHANGED vars
  BY <1>2 DEF vars, Accounting, Unsettled
<1>3. CASE ClearAll
  <2>1. Unsettled(Adds)' = {} /\ Unsettled(Removes)' = {}
    BY <1>3, NothingOwed DEF Unsettled
  <2>2. bits' = {} /\ popcount' = 0
    BY <1>3 DEF ClearAll
  <2> QED BY <2>1, <2>2, FS_EmptySet DEF Accounting
<1> QED BY <1>1, <1>2, <1>3, NoFetchStep DEF Next

(* For any threads running any updates and scans but verify_count and the  *)
(* uncounted word accesses, the counter is the number of set bits less the *)
(* flips not yet counted.                                                  *)
THEOREM CounterAccounts ==
  ASSUME CountKept
  PROVE  Spec => []Accounting
<1>1. TypeOK /\ CallInv /\ Accounting /\ [Next]_vars => (TypeOK /\ CallInv /\ Accounting)'
  BY StepInv, StepAccounting
<1> QED BY InitInv, <1>1, PTL DEF Spec

(* Whenever no flip is left to count, count() is the number of set bits.   *)
THEOREM CounterExactWhenQuiet ==
  ASSUME CountKept
  PROVE  Spec => []CountExactWhenQuiet
<1>1. TypeOK /\ Accounting => CountExactWhenQuiet
  <2> SUFFICES ASSUME TypeOK, Accounting, \A t \in Thread : delta[t] = {}
               PROVE  Loaded(popcount) = Cardinality(bits)
    BY DEF CountExactWhenQuiet
  <2>1. Unsettled(Adds) = {} /\ Unsettled(Removes) = {}
    BY DEF Unsettled
  <2>2. Cardinality(bits) \in 0 .. Capacity
    BY IndexFinite DEF TypeOK
  <2>3. popcount = Cardinality(bits)
    BY <2>1, <2>2, FS_EmptySet DEF Accounting, TypeOK
  <2>4. Capacity \in Nat /\ CountMod \in Nat /\ Capacity < CountMod
    BY SizeAssumption, WordFacts DEF Capacity
  <2> QED BY <2>2, <2>3, <2>4 DEF Loaded
<1> QED BY <1>1, TypeCorrect, CounterAccounts, PTL

-----------------------------------------------------------------------------
(* Refinement                                                              *)

GainedBy == [t \in Thread |-> IF call[t].op \in Adds THEN delta[t] ELSE {}]
LostBy   == [t \in Thread |-> IF call[t].op \in Removes THEN delta[t] ELSE {}]

(* The abstract specification's Cardinality is this module's.              *)
LEMMA TalliedCardinality == \A S : Tallied!Cardinality(S) = Cardinality(S)
BY DEF Cardinality, Tallied!Cardinality

(* Every step of the bitmap is a step of TalliedSet or a stutter.          *)
LEMMA StepRefines ==
  ASSUME CountKept, TypeOK, CallInv, [Next]_vars
  PROVE  [Tallied!Next]_(Tallied!avars)
<1> USE DEF Tallied!avars
<1>1. ASSUME NEW t \in Thread, Update(t) \/ Scan(t)
      PROVE  [Tallied!Next]_(Tallied!avars)
  <2>1. OthersKeep(t)
    BY <1>1, StepIsLocal DEF OthersKeep
  <2>2. Settle(t) \/ (KeepsKind(t) /\ (Gains(t) \/ Loses(t) \/ Quiet(t)))
    BY <1>1, UpdateEffect, ScanEffect, NoStoreStep
  <2>3. CASE Settle(t)
    <3>1. Tallied!Pay(t)
      <4>1. call[t].op \in Adds \union Removes /\ Adds \intersect Removes = {}
        BY <2>3 DEF Settle, CallInv, CallOK, Adds, Removes
      <4>2. Cardinality(delta[t]) \in Nat /\ Cardinality({}) = 0
        BY IndexFinite, WordFacts, FS_EmptySet DEF TypeOK
      <4>3. popcount' = popcount + Cardinality(GainedBy[t]) - Cardinality(LostBy[t])
        BY <2>3, <4>1, <4>2 DEF Settle, GainedBy, LostBy, TypeOK
      <4>4. delta'[t] = {}
        BY <2>3 DEF Settle, TypeOK
      <4>5. GainedBy' = [GainedBy EXCEPT ![t] = {}] /\ LostBy' = [LostBy EXCEPT ![t] = {}]
        BY <2>1, <4>4 DEF GainedBy, LostBy, OthersKeep
      <4>6. bits' = bits
        BY <2>3 DEF Settle
      <4> QED BY <4>3, <4>5, <4>6, TalliedCardinality DEF Tallied!Pay, GainedBy, LostBy
    <3> QED BY <3>1 DEF Tallied!Next
  <2>4. CASE KeepsKind(t) /\ Gains(t)
    <3>1. PICK S \in SUBSET Index :
            /\ S \intersect bits = {} /\ S \intersect delta[t] = {} /\ call'[t].op \in Adds
            /\ bits' = bits \union S /\ delta' = [delta EXCEPT ![t] = @ \union S]
            /\ popcount' = popcount
      BY <2>4 DEF Gains
    <3>2. delta'[t] = delta[t] \union S
      BY <3>1 DEF TypeOK
    <3>3. LostBy[t] = {} /\ LostBy' = LostBy
      BY <2>1, <2>4, <3>1 DEF LostBy, OthersKeep, KeepsKind, Adds, Removes
    <3>4. GainedBy[t] = delta[t]
      BY <2>4, <3>1 DEF GainedBy, KeepsKind
    <3>5. GainedBy' = [GainedBy EXCEPT ![t] = @ \union S]
      BY <2>1, <3>1, <3>2, <3>4 DEF GainedBy, OthersKeep
    <3>6. S \in SUBSET (Index \ bits) /\ \A i \in S : i \notin GainedBy[t]
      BY <3>1, <3>4
    <3>7. Tallied!Gain(t)
      BY <3>1, <3>3, <3>5, <3>6 DEF Tallied!Gain, GainedBy, LostBy
    <3> QED BY <3>7 DEF Tallied!Next
  <2>5. CASE KeepsKind(t) /\ Loses(t)
    <3>1. PICK S \in SUBSET Index :
            /\ S \subseteq bits /\ S \intersect delta[t] = {} /\ call'[t].op \in Removes
            /\ bits' = bits \ S /\ delta' = [delta EXCEPT ![t] = @ \union S]
            /\ popcount' = popcount
      BY <2>5 DEF Loses
    <3>2. delta'[t] = delta[t] \union S
      BY <3>1 DEF TypeOK
    <3>3. GainedBy[t] = {} /\ GainedBy' = GainedBy
      BY <2>1, <2>5, <3>1 DEF GainedBy, OthersKeep, KeepsKind, Adds, Removes
    <3>4. LostBy[t] = delta[t]
      BY <2>5, <3>1 DEF LostBy, KeepsKind
    <3>5. LostBy' = [LostBy EXCEPT ![t] = @ \union S]
      BY <2>1, <3>1, <3>2, <3>4 DEF LostBy, OthersKeep
    <3>6. S \in SUBSET bits /\ \A i \in S : i \notin LostBy[t]
      BY <3>1, <3>4
    <3>7. Tallied!Lose(t)
      BY <3>1, <3>3, <3>5, <3>6 DEF Tallied!Lose, GainedBy, LostBy
    <3> QED BY <3>7 DEF Tallied!Next
  <2>6. CASE KeepsKind(t) /\ Quiet(t)
    BY <2>1, <2>6 DEF Quiet, KeepsKind, OthersKeep
  <2> QED BY <2>2, <2>3, <2>4, <2>5, <2>6
<1>2. CASE UNCHANGED vars
  BY <1>2 DEF vars
<1>3. CASE ClearAll
  <2>1. Tallied!Empty
    BY <1>3, NothingOwed DEF ClearAll, Tallied!Empty
  <2> QED BY <2>1 DEF Tallied!Next
<1> QED BY <1>1, <1>2, <1>3, NoFetchStep DEF Next

(* The bitmap implements TalliedSet: every flip of a bit is credited to    *)
(* one call of one thread, which alone pays it into the counter.           *)
THEOREM BitmapImplementsTalliedSet ==
  ASSUME CountKept
  PROVE  Spec => ImplementsTalliedSet
<1>1. Init => Tallied!Init
  BY DEF Init, Tallied!Init
<1>2. TypeOK /\ CallInv /\ [Next]_vars => [Tallied!Next]_(Tallied!avars)
  BY StepRefines
<1>3. Init => TypeOK /\ CallInv
  BY InitInv
<1> QED BY <1>1, <1>2, <1>3, StepInv, PTL DEF Spec, ImplementsTalliedSet, Tallied!Spec
=============================================================================
