----------------------- MODULE AtomicBitmapScanProofs -----------------------
(***************************************************************************)
(* Proofs about the scans of AtomicBitmap, for every number of threads,    *)
(* words, bits per word and words per batch, and whatever the other        *)
(* threads do meanwhile: the finds and the collects are sound, and a       *)
(* verify_count that nothing overlaps repairs the counter.                 *)
(***************************************************************************)
EXTENDS AtomicBitmapProofs

Finds    == {"find_next_set", "find_next_unset"}
Collects == {"count_range", "snapshot", "verify_count"}

(* The bits that t's scan looks for: those that were so throughout it, and *)
(* those that were so at some moment of it.                                *)
Kept(t)    == IF call[t].op = "find_next_unset" THEN Index \ ever[t] ELSE always[t]
Sighted(t) == IF call[t].op = "find_next_unset" THEN Index \ always[t] ELSE ever[t]

(* The history brackets the bits of the moment. *)
HistoryOK(t) == Scanning(t) => always[t] \subseteq bits /\ bits \subseteq ever[t]

(* A find in progress has nothing to return from the words behind it but   *)
(* what it has seen, and has seen no word before its first.                *)
FindOK(t) ==
  pc[t] = "scan" /\ call[t].op \in Finds =>
    /\ WordOf(call[t].lo) < call[t].word /\ call[t].word < NWords
    /\ \A i \in call[t].seen : i \in Sighted(t) /\ call[t].lo <= i /\ WordOf(i) < call[t].word
    /\ \A i \in InRange(Kept(t), t) : WordOf(i) < call[t].word => i \in call[t].seen

(* A collect in progress has seen the words of its range behind it. *)
CollectOK(t) ==
  pc[t] = "scan" /\ call[t].op \in Collects =>
    /\ call[t].seen \subseteq InRange(ever[t], t)
    /\ \A i \in InRange(always[t], t) : WordOf(i) < call[t].word => i \in call[t].seen

(* What a scan that is over returns. *)
FoundOK(t) ==
  pc[t] = "return" /\ call[t].op \in Finds =>
    IF call[t].ret = None THEN InRange(Kept(t), t) = {}
    ELSE call[t].ret \in InRange(Sighted(t), t) /\ \A i \in InRange(Kept(t), t) : call[t].ret <= i

CollectedOK(t) ==
  pc[t] \in {"load_count", "store_count", "return"} /\ call[t].op \in Collects =>
    InRange(always[t], t) \subseteq call[t].seen /\ call[t].seen \subseteq InRange(ever[t], t)

(* snapshot and verify_count go through the whole bitmap. *)
WholeOK(t) ==
  Scanning(t) /\ call[t].op \in {"snapshot", "verify_count"} => call[t].lo = 0 /\ call[t].hi = Capacity

ScanOK(t) == HistoryOK(t) /\ FindOK(t) /\ CollectOK(t) /\ FoundOK(t) /\ CollectedOK(t) /\ WholeOK(t)

ScanInv == \A t \in Thread : ScanOK(t)

-----------------------------------------------------------------------------
(* Words                                                                   *)

(* An index lies between the bounds of its word.                           *)
LEMMA WordBounds ==
  ASSUME NEW i \in Nat
  PROVE  /\ WordOf(i) \in Nat
         /\ B * WordOf(i) <= i /\ i < B * WordOf(i) + B
BY SizeAssumption DEF WordOf

(* More words have more bits.                                              *)
LEMMA WordsGrow ==
  ASSUME NEW m \in Int, NEW n \in Int, m <= n
  PROVE  B * m <= B * n
<1> DEFINE d == n - m
<1>1. d \in Nat /\ n = m + d
  OBVIOUS
<1>2. B * d \in Nat
  BY <1>1, SizeAssumption
<1>3. B * n = B * m + B * d /\ B * m \in Int
  BY <1>1, SizeAssumption
<1> QED BY <1>2, <1>3

(* The words of a bitmap and of a range; a later word has the later bits.  *)
LEMMA WordOrder ==
  /\ \A i \in Index : i \in Nat /\ WordOf(i) < NWords
  /\ \A i, hi \in Nat : i < hi => WordOf(i) < EndWord(hi)
  /\ \A i, j \in Nat : WordOf(i) < WordOf(j) => i < j
<1>0. B \in Nat /\ B > 0 /\ NWords \in Nat /\ B * NWords \in Nat
  BY SizeAssumption
<1>1. ASSUME NEW i \in Index
      PROVE  i \in Nat /\ WordOf(i) < NWords
  <2>1. i \in Nat /\ i < B * NWords
    BY <1>0 DEF Index, Capacity
  <2>2. WordOf(i) \in Nat /\ B * WordOf(i) <= i /\ B * WordOf(i) \in Nat
    BY <2>1, <1>0, WordBounds
  <2>3. ~ (NWords <= WordOf(i))
    BY <2>1, <2>2, <1>0, WordsGrow
  <2> QED BY <2>1, <2>2, <2>3, <1>0
<1>2. ASSUME NEW i \in Nat, NEW hi \in Nat, i < hi
      PROVE  WordOf(i) < EndWord(hi)
  <2>1. hi + B - 1 \in Nat /\ EndWord(hi) = WordOf(hi + B - 1)
    BY <1>0 DEF EndWord, WordOf
  <2>2. WordOf(i) \in Nat /\ B * WordOf(i) <= i /\ B * WordOf(i) \in Nat
    BY <1>0, WordBounds
  <2>3. EndWord(hi) \in Nat /\ hi + B - 1 < B * EndWord(hi) + B /\ B * EndWord(hi) \in Nat
    BY <1>0, <2>1, WordBounds
  <2>4. ~ (EndWord(hi) <= WordOf(i))
    BY <1>0, <1>2, <2>2, <2>3, WordsGrow
  <2> QED BY <2>2, <2>3, <2>4
<1>3. ASSUME NEW i \in Nat, NEW j \in Nat, WordOf(i) < WordOf(j)
      PROVE  i < j
  <2>1. WordOf(i) \in Nat /\ i < B * WordOf(i) + B /\ B * WordOf(i) \in Nat
    BY <1>0, WordBounds
  <2>2. WordOf(j) \in Nat /\ B * WordOf(j) <= j /\ B * WordOf(j) \in Nat
    BY <1>0, WordBounds
  <2>3. B * (WordOf(i) + 1) <= B * WordOf(j)
    BY <1>3, <2>1, <2>2, WordsGrow
  <2>4. B * (WordOf(i) + 1) = B * WordOf(i) + B
    BY <1>0, <2>1
  <2> QED BY <2>1, <2>2, <2>3, <2>4, <1>0
<1> QED BY <1>1, <1>2, <1>3

(* The last word is always the last of a batch, or of the tail.            *)
LEMMA LastWordDecides ==
  ASSUME NEW lo \in Nat, WordOf(lo) < NWords - 1
  PROVE  BatchEnds(lo, NWords - 1)
<1> DEFINE base == WordOf(lo) + 1
           n == NWords - base
<1>1. base \in Nat /\ n \in Nat /\ NWords - 1 + 1 - base = n
  BY SizeAssumption, WordBounds
<1>2. n = Batch * (n \div Batch) + (n % Batch) /\ n % Batch \in Nat
  BY <1>1, SizeAssumption
<1>3. n % Batch # 0 => NWords - 1 >= base + Batch * (n \div Batch)
  <2> DEFINE q == Batch * (n \div Batch)
             m == n % Batch
  <2>1. q \in Nat
    BY <1>1, SizeAssumption
  <2> HIDE DEF q, m
  <2>2. n = q + m /\ m \in Nat
    BY <1>2 DEF q, m
  <2>3. m # 0 => NWords - 1 >= base + q
    BY <1>1, <2>1, <2>2, SizeAssumption
  <2> QED BY <2>3 DEF q, m
<1> QED BY <1>1, <1>3 DEF BatchEnds

-----------------------------------------------------------------------------
(* Steps of others                                                         *)

(* u's scan stands still while the history of it follows the bits. *)
Follows(u) ==
  /\ pc'[u] = pc[u] /\ call'[u] = call[u]
  /\ always'[u] = IF Scanning(u) THEN always[u] \intersect bits' ELSE always[u]
  /\ ever'[u] = IF Scanning(u) THEN ever[u] \union bits' ELSE ever[u]

(* A write of the bits is followed by every scan. *)
LEMMA WriteFollowed ==
  ASSUME TypeOK, NEW S, Write(S), NEW u \in Thread, pc'[u] = pc[u], call'[u] = call[u]
  PROVE  Follows(u)
BY DEF Write, Follows, TypeOK

(* And so is a step that changes no bit. *)
LEMMA StillFollowed ==
  ASSUME TypeOK, NEW u \in Thread, HistoryOK(u), pc'[u] = pc[u], call'[u] = call[u],
         bits' = bits, always'[u] = always[u], ever'[u] = ever[u]
  PROVE  Follows(u)
BY DEF HistoryOK, Follows, TypeOK

(* No step of a thread is missed by the history of another's scan. *)
LEMMA OthersFollow ==
  ASSUME TypeOK, ScanInv, NEW t \in Thread, Update(t) \/ Scan(t), NEW u \in Thread \ {t}
  PROVE  Follows(u)
<1>1. pc'[u] = pc[u] /\ call'[u] = call[u] /\ HistoryOK(u)
  BY StepIsLocal DEF ScanInv, ScanOK
<1>2. CASE Update(t)
  <2>1. (\E S : Write(S)) \/ (bits' = bits /\ always' = always /\ ever' = ever)
    BY <1>2 DEF Update, Set, Clear, TestAndSet, TestAndClear, SetRange, ClearRange, FetchBit, BeginTest,
                Retry, CasSucceeds, CasFails, BeginRange, RangeWord, NextRangeWord, Settle, history
  <2> QED BY <1>1, <2>1, WriteFollowed, StillFollowed
<1>3. CASE Scan(t)
  <2>1. bits' = bits /\ always'[u] = always[u] /\ ever'[u] = ever[u]
    BY <1>3 DEF Scan, FindNextSet, FindNextUnset, BeginFind, FindWord, CountRange, Snapshot, VerifyCount,
                BeginCollect, CollectWord, NextCollectWord, LoadCount, StoreCount, Return, BeginHistory,
                history, TypeOK
  <2> QED BY <1>1, <2>1, StillFollowed
<1> QED BY <1>2, <1>3

(* What a scan knows outlasts the steps of the others. *)
LEMMA FollowedKept ==
  ASSUME TypeOK, NEW u \in Thread, ScanOK(u), Follows(u)
  PROVE  ScanOK(u)'
<1>1. pc'[u] = pc[u] /\ call'[u] = call[u]
  BY DEF Follows
<1>2. /\ always'[u] \subseteq always[u] /\ ever[u] \subseteq ever'[u]
      /\ Scanning(u) => always'[u] \subseteq bits' /\ bits' \subseteq ever'[u]
  BY DEF Follows
<1>3. HistoryOK(u)' /\ WholeOK(u)'
  BY <1>1, <1>2 DEF ScanOK, HistoryOK, WholeOK, Scanning
<1>4. /\ InRange(Kept(u), u)' \subseteq InRange(Kept(u), u)
      /\ InRange(Sighted(u), u) \subseteq InRange(Sighted(u), u)'
      /\ Sighted(u) \subseteq Sighted(u)'
      /\ InRange(always[u], u)' \subseteq InRange(always[u], u)
      /\ InRange(ever[u], u) \subseteq InRange(ever[u], u)'
  BY <1>1, <1>2 DEF InRange, Kept, Sighted
<1>5. FindOK(u)' /\ FoundOK(u)'
  BY <1>1, <1>4 DEF ScanOK, FindOK, FoundOK
<1>6. CollectOK(u)' /\ CollectedOK(u)'
  BY <1>1, <1>4 DEF ScanOK, CollectOK, CollectedOK
<1> QED BY <1>3, <1>5, <1>6 DEF ScanOK

(* Nothing is known of a thread that is not in a scan. *)
LEMMA NoScanOK ==
  ASSUME NEW t \in Thread, pc'[t] \notin {"scan", "load_count", "store_count", "return"}
  PROVE  ScanOK(t)'
BY DEF ScanOK, HistoryOK, FindOK, CollectOK, FoundOK, CollectedOK, WholeOK, Scanning

-----------------------------------------------------------------------------
(* Finds                                                                   *)

(* The least of the hits, if it is below the limit. *)
LEMMA BelowFacts ==
  ASSUME NEW S \in SUBSET Index, NEW hi \in Nat
  PROVE  /\ Below(S, hi) # None => Below(S, hi) \in S /\ Below(S, hi) < hi /\ \A j \in S : Below(S, hi) <= j
         /\ Below(S, hi) = None => \A j \in S : hi <= j
<1>1. S \in SUBSET Int /\ IsFiniteSet(S)
  BY IndexFinite, WordFacts DEF Index
<1>2. CASE S = {}
  BY <1>2 DEF Below
<1>3. CASE S # {}
  <2>1. Least(S) \in S /\ \A j \in S : Least(S) <= j
    BY <1>1, <1>3, LeastFacts
  <2>2. Least(S) \in Nat
    BY <2>1, WordOrder
  <2> HIDE DEF Least
  <2> QED BY <1>1, <1>3, <2>1, <2>2 DEF Below, None
<1> QED BY <1>2, <1>3

(* Every bit that is wanted throughout a scan is wanted by each load, and  *)
(* what a load wants was there at that moment.                             *)
LEMMA WantedFacts ==
  ASSUME TypeOK, NEW t \in Thread, HistoryOK(t), Scanning(t), call[t].op \in Finds, NEW k
  PROVE  /\ Wanted(call[t].op, k) \subseteq Sighted(t)
         /\ \A i \in Kept(t) \intersect Index : WordOf(i) = k => i \in Wanted(call[t].op, k)
BY DEF HistoryOK, Wanted, Kept, Sighted, Finds, Word, TypeOK

(* The first word of a find. *)
LEMMA BeginFindOK ==
  ASSUME TypeOK, NEW t \in Thread, NEW op \in Finds, NEW r \in Ranges, NEW hi \in Nat,
         BeginFind(t, op, r[1], hi)
  PROVE  ScanOK(t)'
<1> DEFINE lo   == r[1]
           k    == WordOf(lo)
           hits == {i \in Wanted(op, k) : lo <= i}
           hit  == Below(hits, hi)
<1>1. lo \in Nat /\ lo \in Index /\ k \in Nat /\ k < NWords /\ hi \in Nat
  BY RangesFacts, WordOrder, WordFacts
<1>2. hits \in SUBSET Index
  BY WordFacts DEF Wanted, TypeOK
<1>3. /\ pc'[t] = IF hit = None /\ k + 1 < NWords THEN "scan" ELSE "return"
      /\ call'[t].op = op /\ call'[t].lo = lo /\ call'[t].hi = hi /\ call'[t].word = k + 1
      /\ call'[t].seen = {} /\ call'[t].ret = hit
      /\ always'[t] = bits /\ ever'[t] = bits /\ bits' = bits
  <2> HIDE DEF hit
  <2>1. BeginFind(t, op, lo, hi) /\ hit = Below({i \in Wanted(op, WordOf(lo)) : lo <= i}, hi)
    BY DEF hit
  <2> QED BY <2>1 DEF BeginFind, BeginHistory, NoCall, TypeOK
<1>4. \A i : i \in InRange(Kept(t), t)' =>
        /\ i \in Index /\ lo <= i /\ i < hi
        /\ WordOf(i) = k => i \in hits
  BY <1>3 DEF InRange, Kept, Wanted, Word, TypeOK, Finds
<1>5. \A i \in hits : i \in Sighted(t)' /\ lo <= i
  BY <1>3 DEF Sighted, Wanted, Word, TypeOK, Finds
<1>6. /\ hit # None => hit \in hits /\ hit < hi /\ \A j \in hits : hit <= j
      /\ hit = None => \A j \in hits : hi <= j
  BY <1>1, <1>2, BelowFacts
<1> HIDE DEF hits, hit, k, lo
<1>7. ASSUME NEW i \in InRange(Kept(t), t)', WordOf(i) <= k
      PROVE  i \in hits
  <2>1. i \in Nat /\ lo <= i /\ i \in Index
    BY <1>1, <1>4, WordOrder
  <2>2. WordOf(i) >= k
    <3>1. ~ (WordOf(i) < WordOf(lo))
      BY <1>1, <2>1, WordOrder
    <3> QED BY <1>1, <2>1, <3>1, WordFacts DEF k
  <2> QED BY <1>1, <1>4, <1>7, <2>1, <2>2, WordFacts
<1>8. HistoryOK(t)'
  BY <1>3 DEF HistoryOK
<1>9. FindOK(t)'
  <2> SUFFICES ASSUME pc'[t] = "scan"
               PROVE  /\ WordOf(lo) < k + 1 /\ k + 1 < NWords
                      /\ \A i \in InRange(Kept(t), t)' : WordOf(i) < k + 1 => FALSE
    BY <1>3 DEF FindOK
  <2>1. hit = None /\ k + 1 < NWords
    BY <1>3
  <2>2. ASSUME NEW i \in InRange(Kept(t), t)', WordOf(i) < k + 1
        PROVE  FALSE
    <3>1. i \in Index /\ i < hi /\ i \in Nat /\ WordOf(i) \in Nat
      BY <1>4, WordOrder, WordFacts
    <3>2. i \in hits
      BY <1>1, <1>7, <2>2, <3>1
    <3> QED BY <1>1, <1>6, <2>1, <3>1, <3>2
  <2> QED BY <1>1, <2>1, <2>2 DEF k
<1>10. FoundOK(t)'
  <2> SUFFICES ASSUME pc'[t] = "return"
               PROVE  IF hit = None THEN InRange(Kept(t), t)' = {}
                      ELSE hit \in InRange(Sighted(t), t)' /\ \A i \in InRange(Kept(t), t)' : hit <= i
    BY <1>3 DEF FoundOK
  <2>1. \A i \in InRange(Kept(t), t)' : i \in Index /\ i \in Nat /\ WordOf(i) \in Nat /\ WordOf(i) < NWords
    BY <1>4, WordOrder, WordFacts
  <2>2. CASE hit = None
    <3>1. NWords <= k + 1
      BY <1>1, <1>3, <2>2, SizeAssumption
    <3>2. \A i \in InRange(Kept(t), t)' : i \in hits /\ i < hi
      BY <1>1, <1>4, <1>7, <2>1, <3>1, SizeAssumption
    <3> QED BY <1>1, <1>6, <2>1, <2>2, <3>2
  <2>3. CASE hit # None
    <3>1. hit \in hits /\ hit < hi /\ hit \in Index /\ hit \in Nat /\ WordOf(hit) = k
      BY <1>2, <1>6, <2>3, WordOrder DEF hits, Wanted, Word
    <3>2. hit \in InRange(Sighted(t), t)'
      BY <1>3, <1>5, <3>1 DEF InRange
    <3>3. ASSUME NEW i \in InRange(Kept(t), t)'
          PROVE  hit <= i
      <4>1. CASE WordOf(i) <= k
        BY <1>6, <1>7, <2>3, <4>1
      <4>2. CASE ~ (WordOf(i) <= k)
        BY <1>1, <2>1, <3>1, <4>2, WordOrder
      <4> QED BY <4>1, <4>2
    <3> QED BY <2>3, <3>2, <3>3
  <2> QED BY <2>2, <2>3
<1>11. CollectOK(t)' /\ CollectedOK(t)' /\ WholeOK(t)'
  BY <1>3 DEF CollectOK, CollectedOK, WholeOK, Finds, Collects
<1> QED BY <1>8, <1>9, <1>10, <1>11 DEF ScanOK

(* The next word of a find, and what a decided find returns. *)
LEMMA FindWordOK ==
  ASSUME TypeOK, CallInv, NEW t \in Thread, ScanOK(t), FindWord(t)
  PROVE  ScanOK(t)'
<1> DEFINE c    == call[t]
           hits == c.seen \union Wanted(c.op, c.word)
           decided == BatchEnds(c.lo, c.word) /\ hits # {}
           found == Below(hits, c.hi)
<1>1. /\ c.lo \in Nat /\ c.hi \in Nat /\ c.word \in Nat /\ c.op \in Finds /\ pc[t] = "scan"
      /\ WordOf(c.lo) < c.word /\ c.word < NWords /\ WordOf(c.lo) \in Nat
  BY CallFields, WordFacts DEF FindWord, Finds, ScanOK, FindOK
<1>2. hits \in SUBSET Index
  BY CallFields, WordFacts DEF Wanted, TypeOK
<1>3. /\ pc'[t] = IF decided \/ c.word + 1 = NWords THEN "return" ELSE "scan"
      /\ call'[t].op = c.op /\ call'[t].lo = c.lo /\ call'[t].hi = c.hi /\ call'[t].word = c.word + 1
      /\ call'[t].seen = hits /\ call'[t].ret = IF decided THEN found ELSE None
      /\ always' = always /\ ever' = ever /\ bits' = bits
  <2> DEFINE ret == IF decided THEN found ELSE None
  <2>1. call' = [call EXCEPT ![t].seen = hits, ![t].word = c.word + 1, ![t].ret = ret]
    BY DEF FindWord
  <2> HIDE DEF ret, hits
  <2>2. call[t] \in CallType
    BY CallFields
  <2>3. /\ call'[t].op = c.op /\ call'[t].lo = c.lo /\ call'[t].hi = c.hi /\ call'[t].word = c.word + 1
        /\ call'[t].seen = hits /\ call'[t].ret = ret
    BY <2>1, <2>2 DEF CallType, TypeOK
  <2>4. pc'[t] = IF decided \/ c.word + 1 = NWords THEN "return" ELSE "scan"
    BY DEF FindWord, TypeOK, hits
  <2> QED BY <2>3, <2>4 DEF FindWord, history, ret
<1>4. HistoryOK(t) /\ Scanning(t)
  BY <1>1 DEF ScanOK, Scanning
<1>5. InRange(Kept(t), t)' = InRange(Kept(t), t) /\ Sighted(t)' = Sighted(t)
  BY <1>3 DEF InRange, Kept, Sighted
<1>6. \A i \in hits : i \in Sighted(t) /\ c.lo <= i
  <2>1. ASSUME NEW i \in Wanted(c.op, c.word)
        PROVE  i \in Sighted(t) /\ c.lo <= i
    <3>1. i \in Sighted(t)
      BY <1>1, <1>4, WantedFacts
    <3>2. i \in Index /\ WordOf(i) = c.word /\ i \in Nat
      BY <1>2, WordOrder DEF Wanted, Word
    <3>3. c.lo < i
      BY <1>1, <3>2, WordOrder
    <3> QED BY <1>1, <3>1, <3>2, <3>3
  <2> QED BY <1>1, <2>1 DEF ScanOK, FindOK
<1>7. ASSUME NEW i \in InRange(Kept(t), t), WordOf(i) < c.word + 1
      PROVE  i \in hits /\ i < c.hi
  <2>1. i \in Index /\ i \in Kept(t) /\ i < c.hi
    BY DEF InRange, Kept, TypeOK
  <2>2. WordOf(i) \in Nat
    BY <2>1, WordOrder, WordFacts
  <2>3. CASE WordOf(i) = c.word
    BY <1>1, <1>4, <2>1, <2>3, WantedFacts
  <2>4. CASE WordOf(i) < c.word
    BY <1>1, <2>1, <2>4 DEF ScanOK, FindOK
  <2> QED BY <1>1, <1>7, <2>1, <2>2, <2>3, <2>4
<1>8. /\ found # None => found \in hits /\ found < c.hi /\ \A j \in hits : found <= j
      /\ found = None => \A j \in hits : c.hi <= j
  BY <1>1, <1>2, BelowFacts
<1>9. \A i \in InRange(Kept(t), t) : i \in Index /\ i \in Nat /\ WordOf(i) \in Nat /\ WordOf(i) < NWords
  BY WordOrder, WordFacts DEF InRange, Kept, TypeOK
<1>10. \A i \in hits : i \in Index /\ i \in Nat /\ WordOf(i) \in Nat /\ WordOf(i) < c.word + 1
  <2>1. \A i \in hits : i \in Index /\ i \in Nat /\ WordOf(i) \in Nat
    BY <1>2, WordOrder, WordFacts
  <2>2. \A i \in Wanted(c.op, c.word) : WordOf(i) = c.word
    BY DEF Wanted, Word
  <2>3. \A i \in c.seen : WordOf(i) < c.word
    BY <1>1 DEF ScanOK, FindOK
  <2> QED BY <1>1, <2>1, <2>2, <2>3
<1> HIDE DEF hits, found, c
<1>11. FindOK(t)'
  <2>1. pc'[t] = "scan" => c.word + 1 < NWords
    BY <1>1, <1>3, SizeAssumption
  <2> QED BY <1>1, <1>3, <1>5, <1>6, <1>7, <1>10, <2>1 DEF FindOK
<1>12. FoundOK(t)'
  <2> SUFFICES ASSUME pc'[t] = "return"
               PROVE  IF call'[t].ret = None THEN InRange(Kept(t), t) = {}
                      ELSE call'[t].ret \in InRange(Sighted(t), t)' /\ \A i \in InRange(Kept(t), t) : call'[t].ret <= i
    BY <1>5 DEF FoundOK
  <2>1. CASE ~ decided
    <3>1. c.word = NWords - 1 /\ call'[t].ret = None
      BY <1>1, <1>3, <2>1
    <3>2. BatchEnds(c.lo, c.word)
      BY <1>1, <3>1, LastWordDecides
    <3>3. hits = {}
      BY <2>1, <3>2
    <3>4. c.word + 1 = NWords
      BY <3>1, SizeAssumption
    <3>5. InRange(Kept(t), t) = {}
      BY <1>7, <1>9, <3>3, <3>4
    <3> QED BY <3>1, <3>5
  <2>2. CASE decided /\ found = None
    <3>1. PICK j \in hits : TRUE
      BY <2>2
    <3>2. c.hi <= j /\ j \in Nat /\ WordOf(j) < c.word + 1 /\ WordOf(j) \in Nat
      BY <1>8, <1>10, <2>2
    <3>3. ASSUME NEW i \in InRange(Kept(t), t)
          PROVE  FALSE
      <4>1. i < c.hi /\ i \in Nat /\ WordOf(i) \in Nat
        BY <1>9 DEF InRange, c
      <4>2. CASE WordOf(i) < c.word + 1
        BY <1>1, <1>7, <1>8, <2>2, <4>1, <4>2
      <4>3. CASE ~ (WordOf(i) < c.word + 1)
        BY <1>1, <3>2, <4>1, <4>3, WordOrder
      <4> QED BY <4>2, <4>3
    <3> QED BY <1>3, <2>2, <3>3
  <2>3. CASE decided /\ found # None
    <3>1. call'[t].ret = found /\ found \in hits /\ found < c.hi /\ \A j \in hits : found <= j
      BY <1>3, <1>8, <2>3
    <3>2. found \in InRange(Sighted(t), t)'
      BY <1>3, <1>6, <1>5, <3>1 DEF InRange
    <3>3. ASSUME NEW i \in InRange(Kept(t), t)
          PROVE  found <= i
      <4>1. CASE WordOf(i) < c.word + 1
        BY <1>7, <3>1, <4>1
      <4>2. CASE ~ (WordOf(i) < c.word + 1)
        <5>1. WordOf(found) < WordOf(i)
          BY <1>1, <1>9, <1>10, <3>1, <4>2
        <5> QED BY <1>9, <1>10, <3>1, <5>1, WordOrder
      <4> QED BY <4>1, <4>2
    <3> QED BY <2>3, <3>1, <3>2, <3>3
  <2> QED BY <2>1, <2>2, <2>3
<1>13. HistoryOK(t)' /\ WholeOK(t)' /\ CollectOK(t)' /\ CollectedOK(t)'
  BY <1>1, <1>3, <1>4 DEF HistoryOK, WholeOK, CollectOK, CollectedOK, Finds, Collects, Scanning, c
<1> QED BY <1>11, <1>12, <1>13 DEF ScanOK

-----------------------------------------------------------------------------
(* Collects                                                                *)

(* A word of a collect, the first one or a later one. *)
LEMMA CollectWordOK ==
  ASSUME TypeOK, NEW t \in Thread, NEW op \in Collects, NEW lo \in Nat, NEW hi \in Nat,
         NEW k \in Nat, NEW seen \in SUBSET Index, CollectWord(t, op, lo, hi, k, seen),
         op # "count_range" => lo = 0 /\ hi = Capacity,
         always'[t] \subseteq bits /\ bits \subseteq ever'[t],
         \A i \in seen : i \in ever'[t] /\ lo <= i /\ i < hi,
         \A i \in always'[t] : lo <= i /\ i < hi /\ WordOf(i) < k => i \in seen
  PROVE  ScanOK(t)'
<1> DEFINE all == seen \union (bits \intersect Mask(lo, hi, k))
<1>1. /\ pc'[t] = IF k + 1 < EndWord(hi) THEN "scan" ELSE IF op = "count_range" THEN "return" ELSE "load_count"
      /\ call'[t].op = op /\ call'[t].lo = lo /\ call'[t].hi = hi /\ call'[t].word = k + 1
      /\ call'[t].seen = all /\ bits' = bits
  BY DEF CollectWord, NoCall, TypeOK
<1>2. always'[t] \subseteq Index
  BY DEF TypeOK
<1>3. \A i \in all : i \in ever'[t] /\ lo <= i /\ i < hi
  BY DEF Mask
<1>4. ASSUME NEW i \in always'[t], lo <= i, i < hi, WordOf(i) < k + 1
      PROVE  i \in all
  <2>1. WordOf(i) \in Nat /\ i \in Index
    BY <1>2, WordOrder, WordFacts
  <2>2. CASE WordOf(i) = k
    BY <1>4, <2>1, <2>2 DEF Mask, Word
  <2> QED BY <1>4, <2>1, <2>2
<1> HIDE DEF all
<1>5. CollectOK(t)'
  BY <1>1, <1>3, <1>4 DEF CollectOK, InRange
<1>6. CollectedOK(t)'
  <2> SUFFICES ASSUME pc'[t] # "scan"
               PROVE  InRange(always[t], t)' \subseteq all /\ all \subseteq InRange(ever[t], t)'
    BY <1>1 DEF CollectedOK
  <2>1. ASSUME NEW i \in InRange(always[t], t)'
        PROVE  i \in all
    <3>1. i \in always'[t] /\ lo <= i /\ i < hi /\ i \in Nat /\ hi \in Nat
      BY <1>1, <1>2, WordOrder, WordFacts DEF InRange
    <3>2. EndWord(hi) \in Int
      BY <3>1, SizeAssumption DEF EndWord
    <3>3. WordOf(i) < EndWord(hi) /\ WordOf(i) \in Nat
      BY <3>1, WordOrder, WordFacts
    <3>4. EndWord(hi) <= k + 1
      BY <1>1, <3>2
    <3> QED BY <1>4, <3>1, <3>2, <3>3, <3>4
  <2> QED BY <1>1, <1>3, <2>1 DEF InRange
<1>7. HistoryOK(t)' /\ WholeOK(t)' /\ FindOK(t)' /\ FoundOK(t)'
  BY <1>1 DEF HistoryOK, WholeOK, FindOK, FoundOK, Finds, Collects
<1> QED BY <1>5, <1>6, <1>7 DEF ScanOK

(* The first word. *)
LEMMA BeginCollectOK ==
  ASSUME TypeOK, NEW t \in Thread, NEW op \in Collects, NEW lo \in Nat, NEW hi \in Nat,
         op # "count_range" => lo = 0 /\ hi = Capacity, BeginCollect(t, op, lo, hi)
  PROVE  ScanOK(t)'
<1>1. CollectWord(t, op, lo, hi, WordOf(lo), {}) /\ always'[t] = bits /\ ever'[t] = bits
  BY DEF BeginCollect, BeginHistory, TypeOK
<1>2. ASSUME NEW i \in bits, lo <= i, WordOf(i) < WordOf(lo)
      PROVE  FALSE
  <2>1. i \in Nat
    BY WordOrder DEF TypeOK
  <2> QED BY <1>2, <2>1, WordOrder
<1>3. WordOf(lo) \in Nat /\ {} \in SUBSET Index
  BY WordFacts
<1> QED BY <1>1, <1>2, <1>3, CollectWordOK

(* A later word. *)
LEMMA NextCollectWordOK ==
  ASSUME TypeOK, NEW t \in Thread, ScanOK(t), NextCollectWord(t)
  PROVE  ScanOK(t)'
<1> DEFINE c == call[t]
<1>1. /\ CollectWord(t, c.op, c.lo, c.hi, c.word, c.seen) /\ pc[t] = "scan" /\ c.op \in Collects
      /\ always'[t] = always[t] /\ ever'[t] = ever[t]
  BY DEF NextCollectWord, history, Collects
<1>2. c.lo \in Nat /\ c.hi \in Nat /\ c.word \in Nat /\ c.seen \in SUBSET Index
  BY CallFields
<1>3. c.op # "count_range" => c.lo = 0 /\ c.hi = Capacity
  BY <1>1 DEF ScanOK, WholeOK, Scanning, Collects
<1>4. always'[t] \subseteq bits /\ bits \subseteq ever'[t]
  BY <1>1 DEF ScanOK, HistoryOK, Scanning
<1>5. /\ \A i \in c.seen : i \in ever'[t] /\ c.lo <= i /\ i < c.hi
      /\ \A i \in always'[t] : c.lo <= i /\ i < c.hi /\ WordOf(i) < c.word => i \in c.seen
  BY <1>1 DEF ScanOK, CollectOK, InRange
<1> QED BY <1>1, <1>2, <1>3, <1>4, <1>5, CollectWordOK

(* The counter is read, and overwritten. *)
LEMMA CountOK ==
  ASSUME TypeOK, CallInv, NEW t \in Thread, ScanOK(t), LoadCount(t) \/ StoreCount(t)
  PROVE  ScanOK(t)'
<1>1. /\ call'[t].op = call[t].op /\ call'[t].lo = call[t].lo /\ call'[t].hi = call[t].hi
      /\ call'[t].seen = call[t].seen
  BY CallFields DEF LoadCount, StoreCount, TypeOK, CallType
<1>2. /\ pc[t] \in {"load_count", "store_count"} /\ pc'[t] \in {"store_count", "return"}
      /\ call[t].op \in Collects
      /\ always' = always /\ ever' = ever /\ bits' = bits
  BY DEF LoadCount, StoreCount, TypeOK, history, CallInv, CallOK, Collects
<1>3. HistoryOK(t)' /\ WholeOK(t)' /\ FindOK(t)' /\ CollectOK(t)' /\ FoundOK(t)'
  BY <1>1, <1>2 DEF ScanOK, HistoryOK, WholeOK, FindOK, CollectOK, FoundOK, Finds, Collects, Scanning
<1>4. CollectedOK(t)'
  BY <1>1, <1>2 DEF ScanOK, CollectedOK, InRange
<1> QED BY <1>3, <1>4 DEF ScanOK

-----------------------------------------------------------------------------
(* Every step                                                              *)

(* A step of an update tells nothing about its thread's scans: it has none.*)
LEMMA UpdateScanOK ==
  ASSUME TypeOK, NEW t \in Thread, Update(t)
  PROVE  ScanOK(t)'
<1>1. pc'[t] \in {"idle", "load", "cas", "range", "settle"}
  BY DEF TypeOK, Update, Set, Clear, TestAndSet, TestAndClear, SetRange, ClearRange, FetchBit, BeginTest,
         LoadBit, Retry, CasSucceeds, CasFails, BeginRange, RangeWord, NextRangeWord, Settle, Finish
<1> QED BY <1>1, NoScanOK

(* A step of a scan. *)
LEMMA ScanScanOK ==
  ASSUME TypeOK, CallInv, NEW t \in Thread, ScanOK(t), Scan(t)
  PROVE  ScanOK(t)'
<1>1. Capacity \in Nat /\ \A r \in Ranges : r[1] \in Nat /\ r[2] \in Nat
  BY WordFacts, RangesFacts
<1>2. CASE FindNextSet(t) \/ FindNextUnset(t)
  BY <1>1, <1>2, BeginFindOK DEF FindNextSet, FindNextUnset, Finds
<1>3. CASE CountRange(t) \/ Snapshot(t) \/ VerifyCount(t)
  BY <1>1, <1>3, BeginCollectOK DEF CountRange, Snapshot, VerifyCount, Collects
<1>4. CASE Return(t)
  <2>1. pc'[t] = "idle"
    BY <1>4 DEF Return, Finish, TypeOK
  <2> QED BY <2>1, NoScanOK
<1> QED BY <1>2, <1>3, <1>4, FindWordOK, NextCollectWordOK, CountOK DEF Scan

(* Every step keeps what the scans in progress know. *)
LEMMA StepScan == TypeOK /\ CallInv /\ ScanInv /\ [Next]_vars => ScanInv'
<1> SUFFICES ASSUME TypeOK, CallInv, ScanInv, [Next]_vars, NEW u \in Thread
             PROVE  ScanOK(u)'
  BY DEF ScanInv
<1>0. ScanOK(u) /\ HistoryOK(u)
  BY DEF ScanInv, ScanOK
<1>1. ASSUME NEW t \in Thread, Update(t) \/ Scan(t)
      PROVE  ScanOK(u)'
  <2>1. CASE u = t
    BY <1>0, <1>1, <2>1, UpdateScanOK, ScanScanOK
  <2>2. CASE u # t
    BY <1>0, <1>1, <2>2, OthersFollow, FollowedKept
  <2> QED BY <2>1, <2>2
<1>2. ASSUME NEW t \in Thread, FetchWord(t)
      PROVE  ScanOK(u)'
  <2>1. pc'[u] = pc[u] /\ call'[u] = call[u] /\ \E S : Write(S)
    BY <1>2 DEF FetchWord
  <2> QED BY <1>0, <2>1, WriteFollowed, FollowedKept
<1>3. CASE ClearAll
  <2>1. pc'[u] = "idle"
    BY <1>3 DEF ClearAll
  <2> QED BY <2>1, NoScanOK
<1>4. CASE UNCHANGED vars
  <2>1. pc'[u] = pc[u] /\ call'[u] = call[u] /\ bits' = bits /\ always'[u] = always[u] /\ ever'[u] = ever[u]
    BY <1>4 DEF vars
  <2> QED BY <1>0, <2>1, StillFollowed, FollowedKept
<1> QED BY <1>1, <1>2, <1>3, <1>4 DEF Next

(* At first there is no scan. *)
LEMMA InitScan == Init => ScanInv
BY DEF Init, ScanInv, ScanOK, HistoryOK, FindOK, CollectOK, FoundOK, CollectedOK, WholeOK, Scanning

(* What the scans know holds in every state. *)
LEMMA ScansKnow == Spec => [](TypeOK /\ CallInv /\ ScanInv)
<1>1. Init => TypeOK /\ CallInv /\ ScanInv
  BY InitInv, InitScan
<1>2. TypeOK /\ CallInv /\ ScanInv /\ [Next]_vars => (TypeOK /\ CallInv /\ ScanInv)'
  BY StepInv, StepScan
<1> QED BY <1>1, <1>2, PTL DEF Spec

-----------------------------------------------------------------------------
(* Theorems                                                                *)

(* Whatever the other threads flip meanwhile, by counted calls or past the *)
(* counter, find_next_set and find_next_unset skip no bit that was as      *)
(* wanted throughout, and return one that was so at some moment.           *)
THEOREM FindsAreSound == Spec => []FindsSound
<1>1. ScanInv => FindsSound
  <2> SUFFICES ASSUME ScanInv, NEW t \in Thread, pc[t] = "return", call[t].op \in Finds
               PROVE  LET r       == call[t].ret
                          sets    == call[t].op = "find_next_set"
                          kept    == InRange(IF sets THEN always[t] ELSE Index \ ever[t], t)
                          sighted == InRange(IF sets THEN ever[t] ELSE Index \ always[t], t)
                      IN  IF r = None THEN kept = {} ELSE r \in sighted /\ \A i \in kept : r <= i
    BY DEF FindsSound, Finds
  <2>1. (call[t].op = "find_next_set") = (call[t].op # "find_next_unset")
    BY DEF Finds
  <2> QED BY <2>1 DEF ScanInv, ScanOK, FoundOK, Kept, Sighted
<1> QED BY <1>1, ScansKnow, PTL

(* And what count_range, snapshot and verify_count have collected when     *)
(* they end lies between the bits that were always and ever set.           *)
THEOREM CollectsAreSound == Spec => []CollectSound
<1>1. ScanInv => CollectSound
  BY DEF ScanInv, ScanOK, CollectedOK, CollectSound, Collects
<1> QED BY <1>1, ScansKnow, PTL

(* A verify_count that no flip overlaps leaves the counter exact.          *)
THEOREM VerifyCountRepairs == Spec => VerifyRepairs
<1> DEFINE Repairs ==
      \A t \in Thread :
        /\ pc[t] \in {"load_count", "store_count"} /\ pc'[t] = "return"
        /\ call[t].op = "verify_count" /\ always[t] = ever[t]
        /\ \A u \in Thread : delta[u] = {}
        => Loaded(popcount') = Cardinality(bits)
<1>1. TypeOK /\ CallInv /\ ScanInv /\ [Next]_vars => [Repairs]_vars
  <2> SUFFICES ASSUME TypeOK, CallInv, ScanInv, Next, NEW t \in Thread,
                      pc[t] \in {"load_count", "store_count"}, pc'[t] = "return",
                      call[t].op = "verify_count", always[t] = ever[t]
               PROVE  Loaded(popcount') = Cardinality(bits)
    OBVIOUS
  <2>1. bits = always[t] /\ always[t] \subseteq Index /\ bits = ever[t]
    BY DEF ScanInv, ScanOK, HistoryOK, Scanning, TypeOK
  <2>2. call[t].lo = 0 /\ call[t].hi = Capacity
    BY DEF ScanInv, ScanOK, WholeOK, Scanning
  <2>3. InRange(bits, t) = bits
    BY <2>1, <2>2, WordFacts DEF InRange, Index
  <2>4. call[t].seen = bits
    BY <2>1, <2>3 DEF ScanInv, ScanOK, CollectedOK, Collects
  <2>5. LoadCount(t) \/ StoreCount(t)
    <3>1. ASSUME NEW u \in Thread \ {t}, Update(u) \/ Scan(u)
          PROVE  FALSE
      BY <3>1, StepIsLocal
    <3>2. ~ Update(t)
      BY DEF Update, Set, Clear, TestAndSet, TestAndClear, SetRange, ClearRange, FetchBit, BeginTest, Idle,
             Retry, CasSucceeds, CasFails, BeginRange, NextRangeWord, Settle
    <3>3. ~ ClearAll /\ \A u \in Thread : ~ FetchWord(u)
      BY DEF ClearAll, FetchWord
    <3>4. Scan(t)
      BY <3>1, <3>2, <3>3 DEF Next
    <3> QED BY <3>4 DEF Scan, FindNextSet, FindNextUnset, BeginFind, FindWord, CountRange, Snapshot,
                        VerifyCount, BeginCollect, NextCollectWord, Return, Idle
  <2>6. CASE LoadCount(t)
    <3>1. popcount' = popcount /\ ~ (Loaded(popcount) # Cardinality(call[t].seen))
      BY <2>6 DEF LoadCount, TypeOK
    <3> QED BY <2>4, <3>1
  <2>7. CASE StoreCount(t)
    <3>1. popcount' = Cardinality(bits)
      BY <2>4, <2>7 DEF StoreCount
    <3>2. Cardinality(bits) \in 0 .. Capacity /\ Capacity \in Nat /\ CountMod \in Nat /\ Capacity < CountMod
      BY IndexFinite, SizeAssumption, WordFacts DEF TypeOK, Capacity
    <3> QED BY <3>1, <3>2 DEF Loaded
  <2> QED BY <2>5, <2>6, <2>7
<1>2. Spec => [][Repairs]_vars
  BY <1>1, ScansKnow, PTL DEF Spec
<1> QED BY <1>2 DEF VerifyRepairs
=============================================================================
