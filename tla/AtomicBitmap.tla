---------------------------- MODULE AtomicBitmap ----------------------------
(***************************************************************************)
(* The fixed-capacity concurrent bitmap of src/bitmap/mod.rs, one action   *)
(* per atomic memory access.  Threads share the words of the bitmap and a  *)
(* separate population counter; no operation touches both in one step.     *)
(*                                                                         *)
(* The words are one set of bit indices, `bits`; word k is the part of it  *)
(* inside Word(k), and no step reads or writes more than one word.  The    *)
(* counter is a u64: `popcount` holds its exact integer value, and every   *)
(* load of it sees that value modulo CountMod (additions commute with the  *)
(* reduction, so nothing else need be reduced).                            *)
(*                                                                         *)
(* A call that touches the shared state once is one action; a longer one   *)
(* starts with the action that does its first access and goes on by `pc`.  *)
(***************************************************************************)
EXTENDS Integers, FiniteSets

CONSTANTS
  Thread,     \* the threads that share the bitmap
  B,          \* bits per word: 64 in the code
  NWords,     \* words of the bitmap
  Batch,      \* words a scan loads before it looks at them: 4 or 8
  CountMod,   \* 2^64: the counter wraps at this value
  OpsOf,      \* which operations each thread calls
  Ranges,     \* the ranges <<start, end>> they are called with
  MaxDrift    \* bound: no uncounted access once the counter is off by this much

OpName == {"set", "clear", "test_and_set", "test_and_clear", "set_range", "clear_range",
           "find_next_set", "find_next_unset", "count_range", "snapshot", "verify_count",
           "word_fetch_or", "word_fetch_and"}

Capacity == B * NWords
Index    == 0 .. Capacity - 1

ASSUME SizeAssumption ==
  /\ B \in Nat \ {0} /\ NWords \in Nat \ {0} /\ Batch \in Nat \ {0}
  /\ CountMod \in Nat /\ B * NWords < CountMod
  /\ MaxDrift \in Nat
ASSUME ThreadAssumption == IsFiniteSet(Thread) /\ OpsOf \in [Thread -> SUBSET OpName]
ASSUME RangesAssumption ==
  \A r \in Ranges : \E lo, hi \in 0 .. B * NWords : r = <<lo, hi>> /\ lo < hi

VARIABLES
  bits,      \* the set bits, all words together
  popcount,  \* the population counter, before wrapping
  pc,        \* pc[t]: what thread t does next
  call,      \* call[t]: the arguments and local variables of t's current call
  delta,     \* delta[t]: bits t's call flipped and has not yet added to the counter
  always,    \* history: bits set at every moment of t's current scan
  ever       \* history: bits set at some moment of t's current scan

vars == <<bits, popcount, pc, call, delta, always, ever>>
history == <<always, ever>>

-----------------------------------------------------------------------------
(* Words and ranges                                                        *)

WordOf(i) == i \div B
Word(k)   == {i \in Index : WordOf(i) = k}
EndWord(hi) == (hi + B - 1) \div B           \* one past the last word of a range

(* Mutants: an end mask that takes in hi; one not cut at the word's ends.  *)
MaskInclusive(lo, hi, k) == {i \in Word(k) : lo <= i /\ i <= hi}
MaskUncut(lo, hi, k)     == lo .. hi

(* The part of [lo, hi) in word k: a partial mask at either end, else all. *)
Mask(lo, hi, k) == {i \in Word(k) : lo <= i /\ i < hi}

Least(S) == CHOOSE i \in S : \A j \in S : i <= j

None == -1

(* An idle thread has no call. *)
NoCall == [op |-> "none", lo |-> 0, hi |-> 0, word |-> 0, old |-> {}, seen |-> {}, ret |-> None]

CallType == [op : OpName \union {"none"}, lo : Nat, hi : Nat, word : Nat,
             old : SUBSET Index, seen : SUBSET Index, ret : Int]

Adds    == {"set", "test_and_set", "set_range"}
Removes == {"clear", "test_and_clear", "clear_range"}

Loaded(n) == n % CountMod                    \* what a load of the counter returns

TypeOK ==
  /\ bits \subseteq Index
  /\ popcount \in Int
  /\ pc \in [Thread -> {"idle", "load", "cas", "range", "settle", "scan",
                        "load_count", "store_count", "return"}]
  /\ call \in [Thread -> CallType]
  /\ delta \in [Thread -> SUBSET Index]
  /\ always \in [Thread -> SUBSET Index]
  /\ ever \in [Thread -> SUBSET Index]

Init ==
  /\ bits = {}
  /\ popcount = 0
  /\ pc = [t \in Thread |-> "idle"]
  /\ call = [t \in Thread |-> NoCall]
  /\ delta = [t \in Thread |-> {}]
  /\ always = [t \in Thread |-> {}]
  /\ ever = [t \in Thread |-> {}]

-----------------------------------------------------------------------------
(* Steps shared by the operations                                          *)

Idle(t, op) == pc[t] = "idle" /\ op \in OpsOf[t]

Finish(t) ==
  /\ pc' = [pc EXCEPT ![t] = "idle"]
  /\ call' = [call EXCEPT ![t] = NoCall]

(* Mutant: what the bits were before is not looked at. *)
FlippedUnseen(op, mask) == mask

(* fetch_or, fetch_and or swap of the masked part of one word: the bits it *)
(* leaves, and the bits the returned old word shows this step has flipped. *)
Written(op, mask) == IF op \in Adds THEN bits \union mask ELSE bits \ mask
Flipped(op, mask) == IF op \in Adds THEN mask \ bits ELSE mask \intersect bits

Scanning(t) == pc[t] \in {"scan", "load_count", "store_count"}

(* A write keeps the history of every scan in progress up to date. *)
Write(newBits) ==
  /\ bits' = newBits
  /\ always' = [t \in Thread |-> IF Scanning(t) THEN always[t] \intersect newBits ELSE always[t]]
  /\ ever' = [t \in Thread |-> IF Scanning(t) THEN ever[t] \union newBits ELSE ever[t]]

(* Mutant: one is counted, however many bits a range has flipped. *)
SettleOne(t) ==
  /\ pc[t] = "settle"
  /\ popcount' = IF call[t].op \in Adds THEN popcount + 1 ELSE popcount - 1
  /\ delta' = [delta EXCEPT ![t] = {}]
  /\ Finish(t)
  /\ UNCHANGED <<bits, history>>

(* popcount.fetch_add or fetch_sub of what the call has flipped. *)
Settle(t) ==
  /\ pc[t] = "settle"
  /\ popcount' = IF call[t].op \in Adds THEN popcount + Cardinality(delta[t])
                                        ELSE popcount - Cardinality(delta[t])
  /\ delta' = [delta EXCEPT ![t] = {}]
  /\ Finish(t)
  /\ UNCHANGED <<bits, history>>

-----------------------------------------------------------------------------
(* set, clear: one read-modify-write, and a counter update if it flipped   *)
(* the bit.  An index past the capacity panics before any access.          *)

FetchBit(t, op, i) ==
  /\ Idle(t, op)
  /\ Flipped(op, {i}) # {}           \* otherwise the call changes nothing
  /\ Write(Written(op, {i}))
  /\ delta' = [delta EXCEPT ![t] = {i}]
  /\ pc' = [pc EXCEPT ![t] = "settle"]
  /\ call' = [call EXCEPT ![t] = [NoCall EXCEPT !.op = op]]
  /\ UNCHANGED popcount

Set(t)   == \E i \in Index : FetchBit(t, "set", i)
Clear(t) == \E i \in Index : FetchBit(t, "clear", i)

-----------------------------------------------------------------------------
(* test_and_set, test_and_clear: a load, which returns false if the bit is *)
(* already as wanted, then compare_exchange_weak until it succeeds.        *)

LoadBit(t, op, i) ==
  IF Flipped(op, {i}) = {}
  THEN Finish(t)
  ELSE /\ pc' = [pc EXCEPT ![t] = "cas"]
       /\ call' = [call EXCEPT ![t] = [NoCall EXCEPT !.op = op, !.lo = i,
                                       !.old = bits \intersect Word(WordOf(i))]]

BeginTest(t, op) ==
  /\ Idle(t, op)
  /\ \E i \in Index : LoadBit(t, op, i)
  /\ UNCHANGED <<bits, popcount, delta, history>>

TestAndSet(t)   == BeginTest(t, "test_and_set")
TestAndClear(t) == BeginTest(t, "test_and_clear")

Retry(t) ==
  /\ pc[t] = "load"
  /\ LoadBit(t, call[t].op, call[t].lo)
  /\ UNCHANGED <<bits, popcount, delta, history>>

(* Mutant: a store where the exchange should be. *)
CasUnchecked(t) ==
  /\ pc[t] = "cas"
  /\ Write(IF call[t].op \in Adds THEN bits \union {call[t].lo} ELSE bits \ {call[t].lo})
  /\ delta' = [delta EXCEPT ![t] = {call[t].lo}]
  /\ pc' = [pc EXCEPT ![t] = "settle"]
  /\ UNCHANGED <<popcount, call>>

CasSucceeds(t) ==
  LET c == call[t]
      word == Word(WordOf(c.lo))
  IN /\ pc[t] = "cas"
     /\ bits \intersect word = c.old
     /\ Write((bits \ word) \union
              (IF c.op \in Adds THEN c.old \union {c.lo} ELSE c.old \ {c.lo}))
     /\ delta' = [delta EXCEPT ![t] = {c.lo}]
     /\ pc' = [pc EXCEPT ![t] = "settle"]
     /\ UNCHANGED <<popcount, call>>

(* The weak exchange may fail even when the word has not changed. *)
CasFails(t) ==
  /\ pc[t] = "cas"
  /\ pc' = [pc EXCEPT ![t] = "load"]
  /\ call' = [call EXCEPT ![t].old = {}]
  /\ UNCHANGED <<bits, popcount, delta, history>>

-----------------------------------------------------------------------------
(* set_range, clear_range: one read-modify-write per word in order, then   *)
(* one counter update for the whole range.                                 *)

RangeWord(t, op, lo, hi, k) ==
  /\ Write(Written(op, Mask(lo, hi, k)))
  /\ delta' = [delta EXCEPT ![t] = @ \union Flipped(op, Mask(lo, hi, k))]
  /\ pc' = [pc EXCEPT ![t] = IF k + 1 < EndWord(hi) THEN "range" ELSE "settle"]
  /\ call' = [call EXCEPT ![t] = [NoCall EXCEPT !.op = op, !.lo = lo, !.hi = hi,
                                  !.word = k + 1]]
  /\ UNCHANGED popcount

BeginRange(t, op) ==
  /\ Idle(t, op)
  /\ \E r \in Ranges : RangeWord(t, op, r[1], r[2], WordOf(r[1]))

SetRange(t)   == BeginRange(t, "set_range")
ClearRange(t) == BeginRange(t, "clear_range")

NextRangeWord(t) ==
  /\ pc[t] = "range"
  /\ RangeWord(t, call[t].op, call[t].lo, call[t].hi, call[t].word)

-----------------------------------------------------------------------------
(* word_fetch_or, word_fetch_and called from outside: the counter is left  *)
(* as it was, and drifts.                                                  *)
FetchWord(t) ==
  /\ popcount - Cardinality(bits) < MaxDrift /\ Cardinality(bits) - popcount < MaxDrift
  /\ \E mask \in UNION {SUBSET Word(k) : k \in 0 .. NWords - 1} :
       \/ Idle(t, "word_fetch_or") /\ Write(bits \union mask)
       \/ Idle(t, "word_fetch_and") /\ Write(bits \ mask)
  /\ UNCHANGED <<popcount, pc, call, delta>>

(* clear_all(&mut self), reset: nobody else has the bitmap.                *)
ClearAll ==
  /\ \A t \in Thread : pc[t] = "idle"
  /\ bits' = {} /\ popcount' = 0
  /\ UNCHANGED <<pc, call, delta, history>>

-----------------------------------------------------------------------------
(* find_next_set, find_next_unset: the first word alone, then the words    *)
(* after it a batch at a time; a batch is looked at once all its words are *)
(* loaded, and what is left at the end is scanned word by word.            *)

BeginHistory(t) ==
  /\ always' = [always EXCEPT ![t] = bits]
  /\ ever' = [ever EXCEPT ![t] = bits]

Wanted(op, k) == IF op = "find_next_set" THEN bits \intersect Word(k) ELSE Word(k) \ bits

(* Mutant: the words after the last batch are looked at as one more batch. *)
BatchEndsNoTail(lo, k) == (k - WordOf(lo)) % Batch = 0

Below(hits, hi) == IF hits # {} /\ Least(hits) < hi THEN Least(hits) ELSE None

BatchEnds(lo, k) ==
  LET base == WordOf(lo) + 1
  IN \/ (k + 1 - base) % Batch = 0
     \/ k >= base + Batch * ((NWords - base) \div Batch)

BeginFind(t, op, lo, hi) ==
  LET k == WordOf(lo)
      hit == Below({i \in Wanted(op, k) : lo <= i}, hi)
  IN /\ Idle(t, op)
     /\ pc' = [pc EXCEPT ![t] = IF hit = None /\ k + 1 < NWords THEN "scan" ELSE "return"]
     /\ call' = [call EXCEPT ![t] = [NoCall EXCEPT !.op = op, !.lo = lo, !.hi = hi,
                                     !.word = k + 1, !.ret = hit]]
     /\ BeginHistory(t)
     /\ UNCHANGED <<bits, popcount, delta>>

FindNextSet(t)   == \E r \in Ranges : BeginFind(t, "find_next_set", r[1], Capacity)
FindNextUnset(t) == \E r \in Ranges : BeginFind(t, "find_next_unset", r[1], r[2])

FindWord(t) ==
  LET c == call[t]
      hits == c.seen \union Wanted(c.op, c.word)
      decided == BatchEnds(c.lo, c.word) /\ hits # {}
  IN /\ pc[t] = "scan" /\ c.op \in {"find_next_set", "find_next_unset"}
     /\ pc' = [pc EXCEPT ![t] = IF decided \/ c.word + 1 = NWords THEN "return" ELSE "scan"]
     /\ call' = [call EXCEPT ![t].seen = hits, ![t].word = c.word + 1,
                             ![t].ret = IF decided THEN Below(hits, c.hi) ELSE None]
     /\ UNCHANGED <<bits, popcount, delta, history>>

-----------------------------------------------------------------------------
(* count_range, snapshot, verify_count: every word of the range is loaded  *)
(* once.  snapshot then loads the counter; verify_count loads it and       *)
(* overwrites it with what it counted if the two differ.                   *)

CollectWord(t, op, lo, hi, k, seen) ==
  /\ pc' = [pc EXCEPT ![t] = IF k + 1 < EndWord(hi) THEN "scan"
                             ELSE IF op = "count_range" THEN "return" ELSE "load_count"]
  /\ call' = [call EXCEPT ![t] = [NoCall EXCEPT !.op = op, !.lo = lo, !.hi = hi, !.word = k + 1,
                                  !.seen = seen \union (bits \intersect Mask(lo, hi, k))]]
  /\ UNCHANGED <<bits, popcount, delta>>

BeginCollect(t, op, lo, hi) ==
  /\ Idle(t, op)
  /\ CollectWord(t, op, lo, hi, WordOf(lo), {})
  /\ BeginHistory(t)

CountRange(t)  == \E r \in Ranges : BeginCollect(t, "count_range", r[1], r[2])
Snapshot(t)    == BeginCollect(t, "snapshot", 0, Capacity)
VerifyCount(t) == BeginCollect(t, "verify_count", 0, Capacity)

NextCollectWord(t) ==
  LET c == call[t]
  IN /\ pc[t] = "scan" /\ c.op \in {"count_range", "snapshot", "verify_count"}
     /\ CollectWord(t, c.op, c.lo, c.hi, c.word, c.seen)
     /\ UNCHANGED history

(* Mutant: only a counter that is too low is repaired. *)
LoadCountLow(t) ==
  LET stored == Loaded(popcount)
      low == call[t].op = "verify_count" /\ stored < Cardinality(call[t].seen)
  IN /\ pc[t] = "load_count"
     /\ pc' = [pc EXCEPT ![t] = IF low THEN "store_count" ELSE "return"]
     /\ call' = [call EXCEPT ![t].ret = stored]
     /\ UNCHANGED <<bits, popcount, delta, history>>

LoadCount(t) ==
  LET stored == Loaded(popcount)
  IN /\ pc[t] = "load_count"
     /\ IF call[t].op = "snapshot" THEN pc' = [pc EXCEPT ![t] = "return"]
        ELSE pc' = [pc EXCEPT ![t] = IF stored # Cardinality(call[t].seen)
                                     THEN "store_count" ELSE "return"]
     /\ call' = [call EXCEPT ![t].ret = stored]
     /\ UNCHANGED <<bits, popcount, delta, history>>

StoreCount(t) ==
  /\ pc[t] = "store_count"
  /\ popcount' = Cardinality(call[t].seen)
  /\ pc' = [pc EXCEPT ![t] = "return"]
  /\ UNCHANGED <<bits, call, delta, history>>

Return(t) ==
  /\ pc[t] = "return"
  /\ Finish(t)
  /\ always' = [always EXCEPT ![t] = {}]
  /\ ever' = [ever EXCEPT ![t] = {}]
  /\ UNCHANGED <<bits, popcount, delta>>

-----------------------------------------------------------------------------
Update(t) == \/ Set(t) \/ Clear(t) \/ TestAndSet(t) \/ TestAndClear(t) \/ Retry(t)
             \/ CasSucceeds(t) \/ CasFails(t) \/ SetRange(t) \/ ClearRange(t)
             \/ NextRangeWord(t) \/ Settle(t)

Scan(t) == \/ FindNextSet(t) \/ FindNextUnset(t) \/ FindWord(t) \/ CountRange(t)
           \/ Snapshot(t) \/ VerifyCount(t) \/ NextCollectWord(t) \/ LoadCount(t)
           \/ StoreCount(t) \/ Return(t)

Next == (\E t \in Thread : Update(t) \/ Scan(t) \/ FetchWord(t)) \/ ClearAll

Spec == Init /\ [][Next]_vars

-----------------------------------------------------------------------------
(* Properties                                                              *)

Unsettled(ops) == {p \in Thread \X Index : call[p[1]].op \in ops /\ p[2] \in delta[p[1]]}

(* The counter is off from the number of set bits by exactly the flips     *)
(* whose calls have not reached their fetch_add or fetch_sub yet: no flip  *)
(* is counted twice, by two threads, or by none.                           *)
Accounting ==
  popcount + Cardinality(Unsettled(Adds)) - Cardinality(Unsettled(Removes)) = Cardinality(bits)

(* Once no call has a flip left to count, count() is the number of set     *)
(* bits: concurrent updates never make the counter drift.                  *)
CountExactWhenQuiet ==
  (\A t \in Thread : delta[t] = {}) => Loaded(popcount) = Cardinality(bits)

InRange(S, t) == {i \in S : call[t].lo <= i /\ i < call[t].hi}

(* find_next_set returns a bit that was set at some moment of the call and *)
(* skips none that was set throughout; None means no bit was.  So does     *)
(* find_next_unset with the unset bits below its limit.                    *)
FindsSound ==
  \A t \in Thread : pc[t] = "return" /\ call[t].op \in {"find_next_set", "find_next_unset"} =>
    LET r       == call[t].ret
        sets    == call[t].op = "find_next_set"
        kept    == InRange(IF sets THEN always[t] ELSE Index \ ever[t], t)
        sighted == InRange(IF sets THEN ever[t] ELSE Index \ always[t], t)
    IN  IF r = None THEN kept = {} ELSE r \in sighted /\ \A i \in kept : r <= i

(* What count_range counts, and what snapshot and verify_count collect,    *)
(* has every bit of the range that was set throughout the call and only    *)
(* bits that were set at some moment of it.                                *)
CollectSound ==
  \A t \in Thread : pc[t] \in {"return", "store_count"} /\
                    call[t].op \in {"count_range", "snapshot", "verify_count"} =>
    InRange(always[t], t) \subseteq call[t].seen /\ call[t].seen \subseteq InRange(ever[t], t)

(* A verify_count that no flip overlaps, with none left to count when it   *)
(* ends, leaves the counter exact, whatever it had drifted to.             *)
VerifyRepairs ==
  [][\A t \in Thread :
       /\ pc[t] \in {"load_count", "store_count"} /\ pc'[t] = "return"
       /\ call[t].op = "verify_count" /\ always[t] = ever[t]
       /\ \A u \in Thread : delta[u] = {}
       => Loaded(popcount') = Cardinality(bits)]_vars

(* As long as no thread calls verify_count or goes past the counter, the   *)
(* bitmap is a TalliedSet: every flip belongs to one call, which counts it *)
(* once.                                                                   *)
Tallied == INSTANCE TalliedSet WITH
  Element <- Index,
  members <- bits,
  count   <- popcount,
  gained  <- [t \in Thread |-> IF call[t].op \in Adds THEN delta[t] ELSE {}],
  lost    <- [t \in Thread |-> IF call[t].op \in Removes THEN delta[t] ELSE {}]

ImplementsTalliedSet == Tallied!Spec
=============================================================================
