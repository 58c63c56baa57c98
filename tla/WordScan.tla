------------------------------ MODULE WordScan ------------------------------
(***************************************************************************)
(* The word scans below the bitmap: src/bitmap/{scalar,x86,arm}.rs and the *)
(* dispatch of src/bitmap/mod.rs.  Each function loads every word it looks *)
(* at once, so its result is a function of the words as it loaded them;    *)
(* AtomicBitmap has the moments of those loads.                            *)
(*                                                                         *)
(* A word is the set of its one bits, `words` a function from word indices *)
(* to words.  A scan goes through whole batches of 4 or 8 words and then   *)
(* through what is left word by word.  Prefetching is left out.            *)
(***************************************************************************)
EXTENDS Integers, FiniteSets, FiniteSetsExt

CONSTANTS
  B,         \* bits per word: 64 in the code
  Sizes,     \* numbers of words that are scanned
  Fills,     \* what all words hold at first
  Machines,  \* the machines the finds run on
  Counters,  \* the machines the popcounts run on
  MaxStores  \* bound: words that may differ from the fill

Full == 0 .. B - 1

MachineType == [arch : {"x86_64", "aarch64", "other"}, popcnt : BOOLEAN, avx2 : BOOLEAN,
                avx512f : BOOLEAN, avx512vpopcntdq : BOOLEAN]

ASSUME WordAssumption ==
  /\ B \in Nat \ {0} /\ Sizes \subseteq Nat /\ MaxStores \in Nat
  /\ Fills \subseteq SUBSET Full
  /\ Machines \union Counters \subseteq MachineType

VARIABLES
  words,  \* the words of the bitmap
  fill    \* what they all held at first

vars == <<words, fill>>

-----------------------------------------------------------------------------
(* Batches                                                                 *)

None    == <<>>
Len(ws) == Cardinality(DOMAIN ws)

(* The indices at which a loop over whole batches of `width` stops, and the *)
(* indices left for the loop over single words.                             *)
BatchStarts(start, len, width) == {i \in start .. len : (i - start) % width = 0 /\ i + width <= len}
Rest(start, len, width) ==
  {i \in start .. len - 1 : \A j \in BatchStarts(start, len, width) : i >= j + width}

Least(S) == CHOOSE i \in S : \A j \in S : i <= j

Nonzero(ws) == {i \in DOMAIN ws : ws[i] # {}}
NotFull(ws) == {i \in DOMAIN ws : ws[i] # Full}

(* Some(index, word): in the first batch of `found`, whose starts some test *)
(* picked out, the word `pick` names; else the first single word among     *)
(* `hits`; else None.                                                      *)
Scan(ws, start, width, found, pick, hits) ==
  LET batches == found \intersect BatchStarts(start, Len(ws), width)
      singles == hits \intersect Rest(start, Len(ws), width)
      Some(i) == <<i, ws[i]>>
  IN  CASE batches # {}                    -> Some(pick[Least(batches)])
        [] batches = {} /\ singles # {}    -> Some(Least(singles))
        [] batches = {} /\ singles = {}    -> None

(* Mutant: the third word of a batch is not tested before the last is taken. *)
ChainedShort(hits, i) ==
  LET tested == hits \intersect (i .. i + 1) IN IF tested # {} THEN Least(tested) ELSE i + 3

(* The first of w0, w1, w2 that is a hit, else w3 untested. *)
Chained(hits, i) ==
  LET tested == hits \intersect (i .. i + 2) IN IF tested # {} THEN Least(tested) ELSE i + 3

(* The starts of four words whose OR, or AND, the code tests. *)
Fours(ws)   == {i \in DOMAIN ws : i + 3 \in DOMAIN ws}
Or4(ws, i)  == UNION {ws[j] : j \in i .. i + 3}
And4(ws, i) == {b \in Full : \A j \in i .. i + 3 : b \in ws[j]}

(* Lanes of a vector that compare equal to, or different from, a word. *)
Eights(ws)        == {i \in DOMAIN ws : i + 7 \in DOMAIN ws}
EqLanes(ws, i, w) == {j \in 0 .. 3 : ws[i + j] = w}
NeLanes(ws, i, w) == {j \in 0 .. 7 : ws[i + j] # w}

(* The scans by batches of four differ in the test of a batch, and those   *)
(* by OR and AND have the same text in three files.                        *)
Scan4(ws, start, found, hits) == Scan(ws, start, 4, found, [i \in Fours(ws) |-> Chained(hits, i)], hits)
ScanOr4(ws, start)  == Scan4(ws, start, {i \in Fours(ws) : Or4(ws, i) # {}}, Nonzero(ws))
ScanAnd4(ws, start) == Scan4(ws, start, {i \in Fours(ws) : And4(ws, i) # Full}, NotFull(ws))

(* The lowest bit of the lane mask names the word. *)
Scan8(ws, start, w, hits) ==
  Scan(ws, start, 8, {i \in Eights(ws) : NeLanes(ws, i, w) # {}},
       [i \in Eights(ws) |-> i + Least(NeLanes(ws, i, w))], hits)

(* count_ones of each of the words, added up. *)
OnesAt(ws, S) == MapThenSumSet(LAMBDA i : Cardinality(ws[i]), S)

(* Over all batches, the ones of the words at offsets 0 to width - 1.      *)
BatchOnes(ws, start, width) ==
  MapThenSumSet(LAMBDA i : OnesAt(ws, i .. i + width - 1), BatchStarts(start, Len(ws), width))

-----------------------------------------------------------------------------
(* src/bitmap/scalar.rs                                                    *)

scalar_popcount_slice(ws) ==
  BatchOnes(ws, 0, 4) + OnesAt(ws, Rest(0, Len(ws), 4))
scalar_find_first_nonzero(ws, start)  == ScanOr4(ws, start)
scalar_find_first_not_full(ws, start) == ScanAnd4(ws, start)

-----------------------------------------------------------------------------
(* src/bitmap/x86.rs                                                       *)

popcount_slice_popcnt(ws) ==
  BatchOnes(ws, 0, 8) + OnesAt(ws, Rest(0, Len(ws), 8))
find_first_nonzero_popcnt(ws, start)  == ScanOr4(ws, start)
find_first_not_full_popcnt(ws, start) == ScanAnd4(ws, start)

(* One partial count for each 64-bit lane of the vector. *)
popcount256(ws, i) == [lane \in 0 .. 3 |-> Cardinality(ws[i + lane])]

(* Lanes 0 and 2 of the four partial counts are added. *)
popcount_slice_avx2(ws) ==
  MapThenSumSet(LAMBDA i : popcount256(ws, i)[0] + popcount256(ws, i)[2], BatchStarts(0, Len(ws), 4))
    + OnesAt(ws, Rest(0, Len(ws), 4))
find_first_nonzero_avx2(ws, start) ==
  Scan4(ws, start, {i \in Fours(ws) : EqLanes(ws, i, {}) # 0 .. 3}, Nonzero(ws))
find_first_not_full_avx2(ws, start) ==
  Scan4(ws, start, {i \in Fours(ws) : EqLanes(ws, i, Full) # 0 .. 3}, NotFull(ws))

(* Mutant: the words between the last batch of eight and the single words  *)
(* are skipped.                                                             *)
popcount_slice_avx512_gap(ws) ==
  LET mid == 8 * (Len(ws) \div 8)
  IN  BatchOnes(ws, 0, 8) + OnesAt(ws, Rest(mid, Len(ws), 4))

(* Batches of eight, one batch of four if it fits, and single words. *)
popcount_slice_avx512(ws) ==
  LET mid == 8 * (Len(ws) \div 8)
  IN  BatchOnes(ws, 0, 8) + BatchOnes(ws, mid, 4) + OnesAt(ws, Rest(mid, Len(ws), 4))

find_first_nonzero_avx512(ws, start)  == Scan8(ws, start, {}, Nonzero(ws))
find_first_not_full_avx512(ws, start) == Scan8(ws, start, Full, NotFull(ws))

(* Dispatch on the detected capabilities. *)
x86_popcount_slice(m, ws) ==
  CASE m.avx512vpopcntdq                              -> popcount_slice_avx512(ws)
    [] ~m.avx512vpopcntdq /\ m.avx2                   -> popcount_slice_avx2(ws)
    [] ~m.avx512vpopcntdq /\ ~m.avx2 /\ m.popcnt      -> popcount_slice_popcnt(ws)
    [] OTHER                                          -> scalar_popcount_slice(ws)
x86_find_first_nonzero(m, ws, start) ==
  CASE m.avx512f                         -> find_first_nonzero_avx512(ws, start)
    [] ~m.avx512f /\ m.avx2              -> find_first_nonzero_avx2(ws, start)
    [] ~m.avx512f /\ ~m.avx2 /\ m.popcnt -> find_first_nonzero_popcnt(ws, start)
    [] OTHER                             -> scalar_find_first_nonzero(ws, start)
x86_find_first_not_full(m, ws, start) ==
  CASE m.avx512f                         -> find_first_not_full_avx512(ws, start)
    [] ~m.avx512f /\ m.avx2              -> find_first_not_full_avx2(ws, start)
    [] ~m.avx512f /\ ~m.avx2 /\ m.popcnt -> find_first_not_full_popcnt(ws, start)
    [] OTHER                             -> scalar_find_first_not_full(ws, start)

-----------------------------------------------------------------------------
(* src/bitmap/arm.rs: two vectors of two words, each reduced to two lanes. *)

popcount_slice_neon(ws) ==
  MapThenSumSet(LAMBDA i : OnesAt(ws, {i, i + 1}) + OnesAt(ws, {i + 2, i + 3}), BatchStarts(0, Len(ws), 4))
    + OnesAt(ws, Rest(0, Len(ws), 4))
find_first_nonzero_neon(ws, start)  == ScanOr4(ws, start)
find_first_not_full_neon(ws, start) == ScanAnd4(ws, start)

-----------------------------------------------------------------------------
(* src/bitmap/mod.rs: dispatch by target architecture.                     *)

simd_popcount_slice(m, ws) ==
  CASE m.arch = "aarch64" -> popcount_slice_neon(ws)
    [] m.arch = "x86_64"  -> x86_popcount_slice(m, ws)
    [] m.arch = "other"   -> scalar_popcount_slice(ws)
simd_find_first_nonzero(m, ws, start) ==
  CASE m.arch = "aarch64" -> find_first_nonzero_neon(ws, start)
    [] m.arch = "x86_64"  -> x86_find_first_nonzero(m, ws, start)
    [] m.arch = "other"   -> scalar_find_first_nonzero(ws, start)
simd_find_first_not_full(m, ws, start) ==
  CASE m.arch = "aarch64" -> find_first_not_full_neon(ws, start)
    [] m.arch = "x86_64"  -> x86_find_first_not_full(m, ws, start)
    [] m.arch = "other"   -> scalar_find_first_not_full(ws, start)

-----------------------------------------------------------------------------
(* The words change one at a time and keep their number.                   *)

Init == \E n \in Sizes, f \in Fills : words = [i \in 0 .. n - 1 |-> f] /\ fill = f

Odd == {i \in DOMAIN words : words[i] # fill}

Store(i, w) ==
  /\ Cardinality(Odd \union {i}) <= MaxStores
  /\ words' = [words EXCEPT ![i] = w]
  /\ UNCHANGED fill

Next == \E i \in DOMAIN words, w \in SUBSET Full : Store(i, w)

Spec == Init /\ [][Next]_vars

-----------------------------------------------------------------------------
(* Properties                                                              *)

(* Whatever the machine, the number of words, the way they fall into       *)
(* batches and the start, a scan for a nonzero or a not-full word returns  *)
(* the first such word from the start on and what it holds, and None only  *)
(* when there is none: find_first_nonzero and find_first_not_full of every *)
(* backend, of which the bitmap's find_next_set and find_next_unset take   *)
(* whichever word they are handed without looking at the ones before it.   *)
FirstWordFound ==
  LET First(start, hits) ==
        LET later == {i \in hits : i >= start}
        IN  IF later = {} THEN None ELSE <<Least(later), words[Least(later)]>>
  IN  \A m \in Machines, start \in 0 .. Len(words) + 1 :
        /\ simd_find_first_nonzero(m, words, start) = First(start, Nonzero(words))
        /\ simd_find_first_not_full(m, words, start) = First(start, NotFull(words))

(* popcount_slice counts every one bit of every word once, on every        *)
(* machine: count_range and verify_count take its result for the truth.    *)
PopcountExact ==
  \A m \in Counters : simd_popcount_slice(m, words) = OnesAt(words, DOMAIN words)
=============================================================================
