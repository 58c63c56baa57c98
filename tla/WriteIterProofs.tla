--------------------------- MODULE WriteIterProofs ---------------------------
(***************************************************************************)
(* Proofs about WriteIter, for every number of workers and ids and every   *)
(* word size: typing; that workers with the Unset filter that do not wrap  *)
(* around hand out no id twice; that, when they share one range, next()    *)
(* returns None only when it is exhausted; that workers which share one    *)
(* range with the All filter hand out each id of it once; and that one     *)
(* which wraps around alone does so in even rounds.                        *)
(***************************************************************************)
EXTENDS WriteIter, TLAPS

(* Ids, words and the ends of the ranges are natural numbers, and a range  *)
(* reaches no further than MaxId.                                          *)
LEMMA Numbers ==
  ASSUME iter \in Builds
  PROVE
  /\ Id \subseteq Nat /\ 0 \in Id
  /\ \A i \in Nat : WordOf(i) \in Nat
  /\ \A w \in Worker : Lo(w) \in Nat /\ Hi(w) \in Nat /\ Hi(w) <= MaxId /\ Span(w) \subseteq Id
  /\ \A m, n \in Nat : Larger(m, n) \in Nat
<1>1. Id \subseteq Nat /\ 0 \in Id
  BY WriteAssumption DEF Id
<1>2. \A i \in Nat : WordOf(i) \in Nat
  BY WriteAssumption DEF WordOf
<1>3. ASSUME NEW w \in Worker
      PROVE  Lo(w) \in Nat /\ Hi(w) \in Nat /\ Hi(w) <= MaxId /\ Span(w) \subseteq Id
  BY WriteAssumption DEF Lo, Hi, Span, IterType
<1>4. \A m, n \in Nat : Larger(m, n) \in Nat
  BY DEF Larger
<1> QED BY <1>1, <1>2, <1>3, <1>4

(* What a worker is about to claim, set or step past is an id.             *)
AtId == \A w \in Worker : pc[w] \in {"claim", "advance", "set"} => at[w] \in Id

(* The initial state is typed.                                             *)
LEMMA InitTyped == Init => TypeOK /\ AtId
<1> SUFFICES ASSUME Init PROVE TypeOK /\ AtId
  OBVIOUS
<1> QED BY Numbers DEF Init, TypeOK, AtId

(* Every step keeps the types, and what a worker is about to claim an id.  *)
LEMMA TypedStep == TypeOK /\ AtId /\ [Next]_vars => TypeOK' /\ AtId'
<1> SUFFICES ASSUME TypeOK, AtId, [Next]_vars
             PROVE  TypeOK' /\ AtId'
  OBVIOUS
<1> USE DEF TypeOK, AtId, Goto
<1>1. CASE UNCHANGED vars
  BY <1>1 DEF vars
<1>2. ASSUME NEW i \in Id, Remove(i)
      PROVE  TypeOK' /\ AtId'
  BY <1>2 DEF Remove, Write
<1>3. ASSUME NEW w \in Worker, Build(w)
      PROVE  TypeOK' /\ AtId'
  BY <1>3, Numbers DEF Build
<1>4. ASSUME NEW w \in Worker, LoadCursor(w)
      PROVE  TypeOK' /\ AtId'
  <2>1. \E label \in {"find", "done", "clear"} : Goto(w, label)
    BY <1>4 DEF LoadCursor, AtEnd
  <2>2. at' \in [Worker -> Nat] /\ word' \in [Worker -> Nat]
    BY <1>4, Numbers DEF LoadCursor
  <2> QED BY <1>4, <2>1, <2>2 DEF LoadCursor
<1>5. ASSUME NEW w \in Worker, Found(w) \/ FindOn(w) \/ NoneFound(w)
      PROVE  TypeOK' /\ AtId'
  <2>1. CASE Found(w)
    <3>1. PICK i \in Id : /\ at' = [at EXCEPT ![w] = i]
                          /\ Goto(w, IF i < Lo(w) THEN "bump" ELSE "claim")
      BY <2>1 DEF Found, Hits
    <3> QED BY <2>1, <3>1, Numbers DEF Found
  <2>2. CASE FindOn(w)
    BY <2>2 DEF FindOn
  <2>3. CASE NoneFound(w)
    <3>1. Goto(w, "exhaust") \/ Goto(w, "clear")
      BY <2>3 DEF NoneFound, AtEnd
    <3>2. Lo(w) \in Nat /\ WordOf(Lo(w)) \in Nat
      BY Numbers
    <3>3. at' \in [Worker -> Nat] /\ word' \in [Worker -> Nat]
      BY <2>3, <3>2 DEF NoneFound
    <3> QED BY <2>3, <3>1, <3>3 DEF NoneFound
  <2> QED BY <1>5, <2>1, <2>2, <2>3
<1>6. ASSUME NEW w \in Worker, Bump(w) \/ Exhaust(w) \/ Rewind(w)
      PROVE  TypeOK' /\ AtId'
  BY <1>6, Numbers DEF Bump, Exhaust, Rewind
<1>7. ASSUME NEW w \in Worker, Claim(w)
      PROVE  TypeOK' /\ AtId'
  BY <1>7 DEF Claim, Write
<1>8. ASSUME NEW w \in Worker, Advance(w)
      PROVE  TypeOK' /\ AtId'
  <2>1. at[w] + 1 \in Nat
    OBVIOUS
  <2> QED BY <1>8, <2>1, Numbers DEF Advance
<1>9. ASSUME NEW w \in Worker, ClearWord(w)
      PROVE  TypeOK' /\ AtId'
  BY <1>9 DEF ClearWord, Write
<1>10. ASSUME NEW w \in Worker, FetchAdd(w)
       PROVE  TypeOK' /\ AtId'
  <2>1. /\ at' = [at EXCEPT ![w] = cursor] /\ cursor' = cursor + 1
        /\ \/ \E label \in {"done", "rewind", "bump"} : Goto(w, label)
           \/ Goto(w, "set") /\ cursor \in Id
    <3>1. CASE cursor >= Hi(w)
      BY <1>10, <3>1 DEF FetchAdd, AtEnd
    <3>2. CASE ~(cursor >= Hi(w))
      <4>1. cursor \in Id
        BY <3>2, Numbers, WriteAssumption DEF Id
      <4> QED BY <1>10, <3>2, <4>1 DEF FetchAdd
    <3> QED BY <3>1, <3>2
  <2> QED BY <1>10, <2>1 DEF FetchAdd
<1>11. ASSUME NEW w \in Worker, SetBit(w)
       PROVE  TypeOK' /\ AtId'
  BY <1>11 DEF SetBit, Write
<1> QED BY <1>1, <1>2, <1>3, <1>4, <1>5, <1>6, <1>7, <1>8, <1>9, <1>10, <1>11 DEF Next, Step

(* Every variable keeps its type: in particular no id past MaxId is ever   *)
(* claimed or set, wherever the shared cursor has got to.                  *)
THEOREM TypeCorrect == Spec => []TypeOK
<1>1. Init => TypeOK /\ AtId
  BY InitTyped
<1>2. TypeOK /\ AtId /\ [Next]_vars => TypeOK' /\ AtId'
  BY TypedStep
<1> QED BY <1>1, <1>2, PTL DEF Spec

-----------------------------------------------------------------------------
(* Workers with the Unset filter and without wrap-around; of one range     *)

Claiming == \A w \in Worker : iter[w].filter = "Unset" /\ ~iter[w].wrap

OneRange ==
  \A b \in Builds : \A w, u \in Worker :
    /\ b[w].lo = b[u].lo /\ b[w].hi = b[u].hi
    /\ b[w].filter = "Unset" /\ ~b[w].wrap

(* The iterators never change. *)
LEMMA Fixed ==
  ASSUME [Next]_vars
  PROVE  iter' = iter /\ Claiming' = Claiming
BY DEF Claiming, Next, Step, vars, Remove, Write, Build, LoadCursor, Found, FindOn, NoneFound, Bump,
   Claim, Advance, Exhaust, ClearWord, Rewind, FetchAdd, SetBit

(* Every worker of one range claims.                                       *)
LEMMA OneRangeClaims ==
  ASSUME OneRange, TypeOK
  PROVE  Claiming
BY DEF OneRange, TypeOK, Claiming

NoWrap == \A w \in Worker : pc[w] \notin {"set", "clear", "rewind"}

(* A bit that nobody removes is set by the one call that handed it out.    *)
HandedOnce ==
  \A i \in Id \ Removable : handed[i] = IF i \in bits THEN 1 ELSE 0

(* All lasting ids of the range that pass the test are set.                *)
AllSet(w, test(_)) == \A i \in Span(w) \ Removable : test(i) => i \in bits

(* The cursor, and every worker, leaves no lasting id unset behind it.     *)
Behind(w) ==
  /\ AllSet(w, LAMBDA i : i < cursor)
  /\ pc[w] = "find" => AllSet(w, LAMBDA i : i < at[w] \/ WordOf(i) < word[w])
  /\ pc[w] = "claim" => AllSet(w, LAMBDA i : i < at[w])
  /\ pc[w] = "advance" => AllSet(w, LAMBDA i : i <= at[w])
  /\ pc[w] \in {"exhaust", "done"} => AllSet(w, LAMBDA i : TRUE)

NothingBehind == \A w \in Worker : Behind(w)

LeftUnset == \A w \in Worker : left[w] \subseteq Span(w) \ bits

(* Ids in order lie in words in order.                                     *)
LEMMA WordsInOrder == \A i, j \in Nat : i <= j => WordOf(i) <= WordOf(j)
<1> SUFFICES ASSUME NEW i \in Nat, NEW j \in Nat, i <= j
             PROVE  WordOf(i) <= WordOf(j)
  OBVIOUS
<1> DEFINE p == i \div B
           q == j \div B
<1>1. /\ B \in Nat /\ B > 0 /\ p \in Nat /\ q \in Nat
      /\ B * p <= i /\ j < B * q + B
  BY WriteAssumption
<1> HIDE DEF p, q
<1>2. q < p => B * q + B <= B * p
  <2> SUFFICES ASSUME q < p PROVE B * (q + 1) <= B * p
    BY <1>1
  <2>1. q + 1 <= p
    BY <1>1
  <2> QED BY <1>1, <2>1
<1>3. p <= q
  BY <1>1, <1>2
<1> QED BY <1>3 DEF p, q, WordOf

(* Only removals of removable ids clear bits.                              *)
LEMMA BitsGrow ==
  ASSUME TypeOK, NoWrap, [Next]_vars
  PROVE  \A i \in bits \ Removable : i \in bits'
<1>1. \/ bits' = bits
      \/ \E i \in Removable : bits' = bits \ {i}
      \/ \E w \in Worker : bits' = bits \union {at[w]}
  BY DEF NoWrap, Next, Step, vars, Remove, Write, Build, LoadCursor, Found, FindOn, NoneFound, Bump,
     Claim, Advance, Exhaust, ClearWord, Rewind, FetchAdd, SetBit
<1> QED BY <1>1

(* Without All and wrap-around nobody gets to the labels only they use.    *)
LEMMA NoWrapStep ==
  ASSUME Claiming, TypeOK, NoWrap, [Next]_vars
  PROVE  NoWrap'
BY DEF Claiming, TypeOK, NoWrap, Next, Step, vars, Goto, AtEnd, Remove, Write, Build, LoadCursor, Found,
   FindOn, NoneFound, Bump, Claim, Advance, Exhaust, ClearWord, Rewind, FetchAdd, SetBit

(* A bit nobody removes is handed out by the step that sets it, and by no  *)
(* other.                                                                  *)
LEMMA HandedStep ==
  ASSUME TypeOK, AtId, NoWrap, HandedOnce, [Next]_vars
  PROVE  HandedOnce'
<1>1. \/ UNCHANGED <<bits, handed>>
      \/ \E i \in Removable : bits' = bits \ {i} /\ UNCHANGED handed
      \/ \E w \in Worker : /\ at[w] \in Id \ bits /\ bits' = bits \union {at[w]}
                          /\ handed' = [handed EXCEPT ![at[w]] = @ + 1]
  BY DEF AtId, NoWrap, Next, Step, vars, Remove, Write, Build, LoadCursor, Found, FindOn, NoneFound,
     Bump, Claim, Advance, Exhaust, ClearWord, Rewind, FetchAdd, SetBit
<1> QED BY <1>1 DEF TypeOK, HandedOnce

(* The ids a worker has yet to see set are unset now.                      *)
LEMMA LeftStep ==
  ASSUME TypeOK, LeftUnset, [Next]_vars
  PROVE  LeftUnset'
<1>0. \A w \in Worker : Span(w)' = Span(w)
  BY Fixed DEF Span, Lo, Hi
<1>1. \/ UNCHANGED <<bits, left>>
      \/ \E S : bits' = S /\ left' = [w \in Worker |-> left[w] \ S]
      \/ \E w \in Worker : left' = [left EXCEPT ![w] = Span(w) \ bits] /\ UNCHANGED bits
  BY DEF Next, Step, vars, Remove, Write, Build, LoadCursor, Found, FindOn, NoneFound,
     Bump, Claim, Advance, Exhaust, ClearWord, Rewind, FetchAdd, SetBit
<1> QED BY <1>0, <1>1 DEF TypeOK, LeftUnset

(* Workers of one range agree on where it begins and ends.                 *)
LEMMA OneSpan ==
  ASSUME OneRange, TypeOK, NEW w \in Worker, NEW u \in Worker
  PROVE  Lo(w) = Lo(u) /\ Hi(w) = Hi(u) /\ Span(w) = Span(u)
BY DEF OneRange, TypeOK, Lo, Hi, Span

(* The ids of a range lie between its ends.                                *)
LEMMA SpanFacts ==
  ASSUME iter \in Builds
  PROVE  \A w \in Worker : \A i \in Span(w) : i \in Nat /\ i \in Id /\ Lo(w) <= i /\ i < Hi(w)
BY Numbers DEF Span

(* The cursor never passes a lasting id that is unset.                     *)
LEMMA CursorStep ==
  ASSUME OneRange, TypeOK, AtId, NoWrap, NothingBehind, [Next]_vars, NEW w \in Worker
  PROVE  AllSet(w, LAMBDA i : i < cursor)'
<1> SUFFICES ASSUME NEW i \in Span(w) \ Removable, i < cursor'
             PROVE  i \in bits'
  BY Fixed DEF AllSet, Span, Lo, Hi
<1> i \in Nat /\ i \in Id /\ Lo(w) <= i /\ i < Hi(w)
  BY SpanFacts DEF TypeOK
<1>1. SUFFICES i \in bits
  BY BitsGrow
<1>2. \/ cursor' \in {cursor, 0}
      \/ \E u \in Worker :
           \/ cursor' = Larger(cursor, Lo(u))
           \/ (pc[u] = "advance" /\ cursor' = Larger(cursor, at[u] + 1))
           \/ (pc[u] = "exhaust" /\ cursor' = Hi(u))
  <2>1. CASE UNCHANGED vars \/ \E k \in Id : Remove(k)
    BY <2>1 DEF vars, Remove
  <2>2. ASSUME NEW u \in Worker, Step(u)
        PROVE  \/ cursor' \in {cursor, 0}
               \/ cursor' = Larger(cursor, Lo(u))
               \/ (pc[u] = "advance" /\ cursor' = Larger(cursor, at[u] + 1))
               \/ (pc[u] = "exhaust" /\ cursor' = Hi(u))
    <3>1. ~FetchAdd(u) /\ ~Rewind(u)
      BY OneRangeClaims DEF Claiming, NoWrap, FetchAdd, Rewind
    <3>2. CASE Build(u) \/ LoadCursor(u) \/ Found(u) \/ FindOn(u) \/ NoneFound(u) \/ Claim(u)
               \/ ClearWord(u) \/ SetBit(u)
      BY <3>2 DEF Build, LoadCursor, Found, FindOn, NoneFound, Claim, ClearWord, SetBit
    <3>3. CASE Bump(u) \/ Advance(u) \/ Exhaust(u)
      BY <3>3 DEF Bump, Advance, Exhaust
    <3> QED BY <2>2, <3>1, <3>2, <3>3 DEF Step
  <2>3. (UNCHANGED vars \/ \E k \in Id : Remove(k)) \/ \E u \in Worker : Step(u)
    BY DEF Next
  <2> QED BY <2>1, <2>2, <2>3
<1>3. CASE cursor' \in {cursor, 0}
  BY <1>3 DEF NothingBehind, Behind, AllSet
<1>4. ASSUME NEW u \in Worker, cursor' = Larger(cursor, Lo(u))
      PROVE  i \in bits
  <2>1. i < cursor
    BY <1>4, OneSpan, Numbers DEF Larger, TypeOK
  <2> QED BY <2>1 DEF NothingBehind, Behind, AllSet
<1>5. ASSUME NEW u \in Worker, pc[u] = "advance", cursor' = Larger(cursor, at[u] + 1)
      PROVE  i \in bits
  <2>1. i < cursor \/ i <= at[u]
    BY <1>5 DEF Larger, TypeOK
  <2>2. i \in Span(u)
    BY OneSpan
  <2> QED BY <1>5, <2>1, <2>2 DEF NothingBehind, Behind, AllSet
<1>6. ASSUME NEW u \in Worker, pc[u] = "exhaust"
      PROVE  i \in bits
  <2>1. i \in Span(u)
    BY OneSpan
  <2> QED BY <1>6, <2>1 DEF NothingBehind, Behind, AllSet
<1> QED BY <1>2, <1>3, <1>4, <1>5, <1>6

(* What the worker that takes the step knows of its own scan; it wraps     *)
(* around only when no lasting id of its range is unset.                   *)
LEMMA ScanStep ==
  ASSUME TypeOK, AtId, NEW w \in Worker, iter[w].filter = "Unset",
         pc[w] \notin {"set", "clear", "rewind"}, Behind(w), Step(w)
  PROVE  /\ pc'[w] = "find" => AllSet(w, LAMBDA i : i < at'[w] \/ WordOf(i) < word'[w])
         /\ pc'[w] = "claim" => AllSet(w, LAMBDA i : i < at'[w])
         /\ pc'[w] = "advance" =>
              \A i \in Span(w) \ Removable : i <= at'[w] => i \in bits'
         /\ pc'[w] \in {"exhaust", "done", "clear"} => AllSet(w, LAMBDA i : TRUE)
<1> DEFINE Ids == Span(w) \ Removable
<1>i. /\ Behind(w)
      /\ \A i \in Ids : i \in Nat /\ i \in Id /\ Lo(w) <= i /\ i < Hi(w) /\ WordOf(i) \in Nat
  BY SpanFacts, Numbers DEF TypeOK
<1> USE DEF TypeOK, Goto, AllSet
<1>1. CASE LoadCursor(w)
  <2>1. CASE cursor < Hi(w)
    <3>1. pc'[w] = "find" /\ at'[w] = cursor /\ word'[w] = WordOf(cursor)
      BY <1>1, <2>1 DEF LoadCursor
    <3>2. \A i \in Ids : WordOf(i) < WordOf(cursor) => i < cursor
      BY <1>i, WordsInOrder, Numbers
    <3> QED BY <1>i, <3>1, <3>2 DEF Behind
  <2>2. CASE ~(cursor < Hi(w))
    <3>1. pc'[w] \in {"done", "clear"}
      BY <1>1, <2>2 DEF LoadCursor, AtEnd
    <3>2. \A i \in Ids : i < cursor
      BY <1>i, <2>2, Numbers
    <3> QED BY <1>i, <3>1, <3>2 DEF Behind
  <2> QED BY <2>1, <2>2
<1>2. CASE Found(w)
  <2>1. PICK k \in Hits(w) : /\ \A j \in Hits(w) : k <= j
                            /\ at' = [at EXCEPT ![w] = k]
                            /\ Goto(w, IF k < Lo(w) THEN "bump" ELSE "claim")
    BY <1>2 DEF Found
  <2>2. k \in Nat /\ WordOf(k) = word[w]
    BY Numbers DEF Hits
  <2>3. ASSUME NEW i \in Ids, i < k
        PROVE  i \in bits
    <3>1. i \notin Hits(w)
      BY <1>i, <2>1, <2>2, <2>3 DEF Hits
    <3>2. WordOf(i) <= word[w]
      BY <1>i, <2>2, <2>3, WordsInOrder
    <3>3. \/ i \in bits \/ i < at[w] \/ WordOf(i) < word[w]
      BY <1>i, <3>1, <3>2 DEF Hits
    <3> QED BY <1>2, <1>i, <3>3 DEF Found, Behind
  <2> QED BY <2>1, <2>3
<1>3. CASE FindOn(w)
  <2>1. ASSUME NEW i \in Ids, i < at[w] \/ WordOf(i) < word[w] + 1
        PROVE  i \in bits
    <3>1. i \notin Hits(w)
      BY <1>3 DEF FindOn
    <3>2. \/ i \in bits \/ i < at[w] \/ WordOf(i) < word[w]
      BY <1>i, <2>1, <3>1 DEF Hits
    <3> QED BY <1>3, <1>i, <3>2 DEF FindOn, Behind
  <2> QED BY <1>3, <2>1 DEF FindOn
<1>4. CASE NoneFound(w)
  <2>1. ASSUME NEW i \in Ids
        PROVE  i \in bits
    <3>1. i \notin Hits(w) /\ WordOf(i) <= word[w]
      BY <1>4, <1>i DEF NoneFound, LastWord
    <3>2. \/ i \in bits \/ i < at[w] \/ WordOf(i) < word[w]
      BY <1>i, <3>1 DEF Hits
    <3> QED BY <1>4, <1>i, <3>2 DEF NoneFound, Behind
  <2>2. pc'[w] \in {"exhaust", "clear"}
    BY <1>4 DEF NoneFound, AtEnd
  <2> QED BY <2>1, <2>2
<1>5. CASE Claim(w)
  <2>1. CASE at[w] \in bits
    BY <1>5, <2>1 DEF Claim
  <2>2. CASE at[w] \notin bits
    <3>1. pc'[w] = "advance" /\ at' = at /\ bits' = bits \union {at[w]} /\ pc[w] = "claim"
      BY <1>5, <2>2 DEF Claim, Write
    <3>2. ASSUME NEW i \in Ids, i <= at[w]
          PROVE  i \in bits \/ i = at[w]
      <4>1. i < at[w] \/ i = at[w]
        BY <1>i, <3>2
      <4> QED BY <1>i, <3>1, <4>1 DEF Behind
    <3> QED BY <3>1, <3>2
  <2> QED BY <2>1, <2>2
<1>6. CASE Exhaust(w)
  BY <1>6, <1>i DEF Exhaust, Behind
<1>7. CASE Build(w) \/ Bump(w) \/ Advance(w) \/ Rewind(w) \/ SetBit(w) \/ ClearWord(w) \/ FetchAdd(w)
  BY <1>7 DEF Build, Bump, Advance, Rewind, SetBit, ClearWord, FetchAdd
<1> QED BY <1>1, <1>2, <1>3, <1>4, <1>5, <1>6, <1>7 DEF Step

(* Every step leaves every worker, and the cursor, with nothing unset      *)
(* behind it.                                                              *)
LEMMA BehindStep ==
  ASSUME OneRange, TypeOK, AtId, NoWrap, NothingBehind, [Next]_vars
  PROVE  NothingBehind'
<1> SUFFICES ASSUME NEW w \in Worker
             PROVE  Behind(w)'
  BY DEF NothingBehind
<1>1. AllSet(w, LAMBDA i : i < cursor)'
  BY CursorStep
<1>2. CASE Step(w)
  <2>1. iter[w].filter = "Unset" /\ pc[w] \notin {"set", "clear", "rewind"} /\ Behind(w)
    BY OneRangeClaims DEF Claiming, NoWrap, NothingBehind
  <2>2. NoWrap'
    BY OneRangeClaims, NoWrapStep
  <2> QED BY <1>1, <1>2, <2>1, <2>2, ScanStep, BitsGrow, Fixed DEF Behind, AllSet, Span, Lo, Hi
<1>3. CASE ~Step(w)
  <2>1. pc'[w] = pc[w] /\ at'[w] = at[w] /\ word'[w] = word[w]
    <3>1. CASE UNCHANGED vars \/ \E k \in Id : Remove(k)
      BY <3>1 DEF vars, Remove
    <3>2. ASSUME NEW u \in Worker, Step(u)
          PROVE  pc'[w] = pc[w] /\ at'[w] = at[w] /\ word'[w] = word[w]
      <4>1. u # w
        BY <1>3, <3>2
      <4>2. CASE Build(u) \/ Bump(u) \/ Claim(u) \/ Advance(u) \/ Exhaust(u) \/ ClearWord(u)
                 \/ Rewind(u) \/ SetBit(u)
        BY <4>1, <4>2 DEF TypeOK, Goto, Build, Bump, Claim, Advance, Exhaust, ClearWord, Rewind,
           SetBit
      <4>3. CASE LoadCursor(u) \/ Found(u) \/ FindOn(u) \/ NoneFound(u) \/ FetchAdd(u)
        BY <4>1, <4>3 DEF TypeOK, Goto, AtEnd, LoadCursor, Found, FindOn, NoneFound, FetchAdd
      <4> QED BY <3>2, <4>2, <4>3 DEF Step
    <3> QED BY <3>1, <3>2 DEF Next
  <2> QED BY <1>1, <2>1, BitsGrow, Fixed DEF NothingBehind, Behind, AllSet, Span, Lo, Hi
<1> QED BY <1>2, <1>3

(* Whatever their ranges, claimers set no bit but those they hand out.     *)
ClaimInv == TypeOK /\ AtId /\ (Claiming => NoWrap /\ HandedOnce)

(* At no time has a claimer handed out a bit twice.                        *)
LEMMA ClaimInvariant == Spec => []ClaimInv
<1>1. Init => ClaimInv
  BY InitTyped DEF Init, ClaimInv, NoWrap, HandedOnce
<1>2. ClaimInv /\ [Next]_vars => ClaimInv'
  BY TypedStep, Fixed, NoWrapStep, HandedStep DEF ClaimInv
<1> QED BY <1>1, <1>2, PTL DEF Spec

(* Workers with the Unset filter that do not wrap around claim every id    *)
(* for themselves, whatever their ranges and whoever resets the cursor:    *)
(* next() hands out no id twice unless it was removed in between.          *)
THEOREM ClaimsAreUnique == Spec => []UniqueClaims
<1>1. ClaimInv => UniqueClaims
  BY DEF ClaimInv, Claiming, HandedOnce, UniqueClaims
<1> QED BY <1>1, ClaimInvariant, PTL

(* None is returned only when the range is exhausted, however the workers  *)
(* of one range race for its ids and whichever of them resets the cursor.  *)
THEOREM NoneOnlyWhenExhausted ==
  ASSUME OneRange
  PROVE  Spec => []NoneMeansExhausted
<1>1. Init => NothingBehind /\ LeftUnset
  <2> SUFFICES ASSUME Init PROVE NothingBehind /\ LeftUnset
    OBVIOUS
  <2>1. \A w \in Worker : \A i \in Span(w) : ~(i < cursor)
    BY SpanFacts DEF Init
  <2>2. NothingBehind
    BY <2>1 DEF Init, NothingBehind, Behind, AllSet
  <2>3. LeftUnset
    BY DEF Init, LeftUnset
  <2> QED BY <2>2, <2>3
<1>2. ClaimInv /\ NothingBehind /\ LeftUnset /\ [Next]_vars => NothingBehind' /\ LeftUnset'
  BY OneRange, OneRangeClaims, BehindStep, LeftStep DEF ClaimInv
<1>3. NothingBehind /\ LeftUnset => NoneMeansExhausted
  BY DEF NothingBehind, Behind, AllSet, LeftUnset, NoneMeansExhausted
<1> QED BY <1>1, <1>2, <1>3, ClaimInvariant, PTL DEF Spec

-----------------------------------------------------------------------------
(* Workers of one range that take ids with the All filter                  *)

AllTake == \A w \in Worker : iter[w].filter = "All" /\ ~iter[w].wrap

(* Those that are built together and all take ids go on from one another   *)
(* (continue_write()) over one range.                                      *)
TakersShare ==
  \A b \in Builds : (\A w \in Worker : b[w].filter = "All" /\ ~b[w].wrap) =>
    \A w, u \in Worker : b[w].lo = b[u].lo /\ b[w].hi = b[u].hi /\ ~b[w].reset

Pending(w, i) == pc[w] = "set" /\ at[w] = i

(* Who is about to hand out an id took it from the cursor, and who is at   *)
(* the end has seen the cursor there.                                      *)
TakersKnow ==
  \A w \in Worker : /\ pc[w] \in {"new", "next", "bump", "set", "done"}
                    /\ pc[w] = "set" => at[w] < cursor /\ at[w] \in Id
                    /\ pc[w] = "done" => Hi(w) <= cursor

(* No two workers are about to hand out the same.                          *)
OneTaker == \A u, w \in Worker : pc[u] = "set" /\ pc[w] = "set" /\ at[u] = at[w] => u = w

Taken(i) == i < cursor /\ ~ \E u \in Worker : Pending(u, i)

(* The ids of a range the cursor has gone by, other than those about to be *)
(* handed out, are those that were, once.                                  *)
TakenHanded == \A w \in Worker : \A i \in Span(w) : handed[i] = IF Taken(i) THEN 1 ELSE 0

TakenOnce == TakersKnow /\ OneTaker /\ TakenHanded

TakeInv == TypeOK /\ AtId /\ (\A w \in Worker : pc[w] \in {"exhaust", "done"} => ~iter[w].wrap)
           /\ (AllTake => TakenOnce)

(* Only a worker that does not wrap around gets to the end.                *)
LEMMA EndStep ==
  ASSUME TypeOK, [Next]_vars, \A w \in Worker : pc[w] \in {"exhaust", "done"} => ~iter[w].wrap
  PROVE  \A w \in Worker : pc'[w] \in {"exhaust", "done"} => ~iter'[w].wrap
BY DEF TypeOK, Next, Step, vars, Goto, AtEnd, Remove, Write, Build, LoadCursor, Found,
   FindOn, NoneFound, Bump, Claim, Advance, Exhaust, ClearWord, Rewind, FetchAdd, SetBit

(* The fetch_add of one worker, and what it hands out later, is between it *)
(* and the cursor: every id is handed out by the one that took it.         *)
LEMMA TakeStep ==
  ASSUME TakersShare, AllTake, TypeOK, AtId, TakenOnce, [Next]_vars
  PROVE  TakenOnce'
<1>0. iter' = iter /\ \A w \in Worker : Span(w)' = Span(w) /\ Hi(w)' = Hi(w) /\ Lo(w)' = Lo(w)
  BY Fixed DEF Span, Lo, Hi
<1>i. \A w, v \in Worker : /\ Lo(w) = Lo(v) /\ Hi(w) = Hi(v) /\ ~iter[w].reset
                           /\ Lo(w) \in Nat /\ Hi(w) \in Nat
  <2>1. \A w, v \in Worker : iter[w].lo = iter[v].lo /\ iter[w].hi = iter[v].hi /\ ~iter[w].reset
    BY DEF TakersShare, AllTake, TypeOK
  <2> QED BY <2>1, Numbers DEF Lo, Hi, TypeOK
<1>j. \A w \in Worker : \A i \in Span(w) : i \in Nat /\ i \in Id /\ Lo(w) <= i /\ i < Hi(w)
  BY SpanFacts DEF TypeOK
<1> USE DEF TypeOK, Goto
<1>k. ASSUME handed' = handed, \A u \in Worker : \A i \in Span(u) : Taken(i)' <=> Taken(i)
      PROVE  TakenHanded'
  BY <1>0, <1>k DEF TakenOnce, TakenHanded
<1>1. ASSUME UNCHANGED <<cursor, pc, at, handed>>
      PROVE  TakenOnce'
  <2>1. \A i : Taken(i)' <=> Taken(i)
    BY <1>1 DEF Taken, Pending
  <2>2. TakersKnow' /\ OneTaker'
    BY <1>0, <1>1 DEF TakenOnce, TakersKnow, OneTaker
  <2> QED BY <1>1, <1>k, <2>1, <2>2 DEF TakenOnce
<1>2. ASSUME NEW w \in Worker, Build(w)
      PROVE  TakenOnce'
  <2>1. UNCHANGED <<cursor, at, handed>> /\ pc' = [pc EXCEPT ![w] = "next"] /\ pc[w] = "new"
    BY <1>2, <1>i DEF Build
  <2>2. \A i : Taken(i)' <=> Taken(i)
    BY <2>1 DEF Taken, Pending
  <2>3. TakersKnow' /\ OneTaker'
    BY <1>0, <2>1 DEF TakenOnce, TakersKnow, OneTaker
  <2> QED BY <1>k, <2>1, <2>2, <2>3 DEF TakenOnce
<1>3. ASSUME NEW w \in Worker, Bump(w)
      PROVE  TakenOnce'
  <2>1. UNCHANGED <<at, handed>> /\ pc' = [pc EXCEPT ![w] = "next"] /\ pc[w] = "bump"
        /\ cursor' = Larger(cursor, Lo(w))
    BY <1>3 DEF Bump
  <2>2. /\ cursor' \in Nat /\ cursor <= cursor'
        /\ \A u \in Worker : \A i \in Span(u) : i < cursor' <=> i < cursor
    BY <1>i, <1>j, <2>1 DEF Larger
  <2>3. \A u \in Worker : \A i : Pending(u, i)' <=> Pending(u, i)
    BY <2>1 DEF Pending
  <2>4. TakersKnow'
    <3> SUFFICES ASSUME NEW u \in Worker
                 PROVE  /\ pc'[u] \in {"new", "next", "bump", "set", "done"}
                        /\ pc'[u] = "set" => at[u] < cursor' /\ at[u] \in Id
                        /\ pc'[u] = "done" => Hi(u) <= cursor'
      BY <1>0, <2>1 DEF TakersKnow
    <3>1. pc'[u] \in {"set", "done"} => pc'[u] = pc[u]
      BY <2>1
    <3>2. pc'[u] \in {"new", "next", "bump", "set", "done"}
      BY <2>1 DEF TakenOnce, TakersKnow
    <3>3. pc[u] = "set" => at[u] < cursor' /\ at[u] \in Id
      BY <2>2 DEF TakenOnce, TakersKnow
    <3>4. pc[u] = "done" => Hi(u) <= cursor'
      BY <1>i, <2>2 DEF TakenOnce, TakersKnow
    <3> QED BY <3>1, <3>2, <3>3, <3>4
  <2>5. OneTaker'
    BY <2>1 DEF TakenOnce, OneTaker
  <2>6. TakenHanded'
    BY <1>k, <2>1, <2>2, <2>3 DEF Taken
  <2> QED BY <2>4, <2>5, <2>6 DEF TakenOnce
<1>4. ASSUME NEW w \in Worker, FetchAdd(w)
      PROVE  TakenOnce'
  <2>1. pc[w] = "next" /\ cursor' = cursor + 1 /\ at' = [at EXCEPT ![w] = cursor] /\ handed' = handed
    BY <1>4 DEF FetchAdd, Calls
  <2>2. ASSUME NEW label \in {"done", "bump"}, pc' = [pc EXCEPT ![w] = label],
               label = "done" => Hi(w) <= cursor,
               \A u \in Worker : \A i \in Span(u) : i < cursor' <=> i < cursor
        PROVE  TakenOnce'
    <3>1. \A u \in Worker : \A i : Pending(u, i)' <=> Pending(u, i)
      BY <2>1, <2>2 DEF Pending
    <3>2. TakersKnow'
      <4> SUFFICES ASSUME NEW u \in Worker
                   PROVE  /\ pc'[u] \in {"new", "next", "bump", "set", "done"}
                          /\ pc'[u] = "set" => at'[u] < cursor' /\ at'[u] \in Id
                          /\ pc'[u] = "done" => Hi(u) <= cursor'
        BY <1>0 DEF TakersKnow
      <4>1. CASE u = w
        BY <1>i, <2>1, <2>2, <4>1
      <4>2. CASE u # w
        BY <1>i, <2>1, <2>2, <4>2 DEF TakenOnce, TakersKnow
      <4> QED BY <4>1, <4>2
    <3>3. OneTaker'
      BY <2>1, <2>2 DEF TakenOnce, OneTaker
    <3>4. TakenHanded'
      BY <1>k, <2>1, <2>2, <3>1 DEF Taken
    <3> QED BY <3>2, <3>3, <3>4 DEF TakenOnce
  <2>3. CASE cursor >= Hi(w)
    <3>1. pc' = [pc EXCEPT ![w] = "done"]
      BY <1>4, <2>3 DEF FetchAdd, AtEnd, AllTake
    <3>2. \A u \in Worker : \A i \in Span(u) : i < cursor' /\ i < cursor
      BY <1>i, <1>j, <2>1, <2>3
    <3> QED BY <1>i, <2>2, <2>3, <3>1, <3>2
  <2>4. CASE cursor < Lo(w) /\ ~(cursor >= Hi(w))
    <3>1. pc' = [pc EXCEPT ![w] = "bump"]
      BY <1>4, <2>4 DEF FetchAdd
    <3>2. \A u \in Worker : \A i \in Span(u) : ~(i < cursor') /\ ~(i < cursor)
      BY <1>i, <1>j, <2>1, <2>4
    <3> QED BY <2>2, <3>1, <3>2
  <2>5. CASE ~(cursor < Lo(w)) /\ ~(cursor >= Hi(w))
    <3>1. pc' = [pc EXCEPT ![w] = "set"]
      BY <1>4, <2>5 DEF FetchAdd
    <3>2. cursor \in Id
      BY <1>i, <2>5, Numbers, WriteAssumption DEF Id
    <3>3. \A u \in Worker : pc[u] = "set" => at[u] # cursor /\ at[u] < cursor'
      BY <2>1 DEF TakenOnce, TakersKnow
    <3>4. \A u \in Worker : \A i : Pending(u, i)' <=> (IF u = w THEN i = cursor ELSE Pending(u, i))
      BY <2>1, <3>1 DEF Pending
    <3>5. TakersKnow'
      <4> SUFFICES ASSUME NEW u \in Worker
                   PROVE  /\ pc'[u] \in {"new", "next", "bump", "set", "done"}
                          /\ pc'[u] = "set" => at'[u] < cursor' /\ at'[u] \in Id
                          /\ pc'[u] = "done" => Hi(u) <= cursor'
        BY <1>0 DEF TakersKnow
      <4>1. CASE u = w
        BY <2>1, <3>1, <3>2, <4>1
      <4>2. CASE u # w
        BY <1>i, <2>1, <3>1, <3>3, <4>2 DEF TakenOnce, TakersKnow
      <4> QED BY <4>1, <4>2
    <3>6. OneTaker'
      <4> SUFFICES ASSUME NEW u \in Worker, NEW v \in Worker,
                          pc'[u] = "set", pc'[v] = "set", at'[u] = at'[v]
                   PROVE  u = v
        BY DEF OneTaker
      <4>1. \A z \in Worker \ {w} : pc'[z] = pc[z] /\ at'[z] = at[z]
        BY <2>1, <3>1
      <4>2. at'[w] = cursor
        BY <2>1
      <4> QED BY <3>3, <4>1, <4>2 DEF TakenOnce, OneTaker
    <3>7. TakenHanded'
      <4> SUFFICES ASSUME NEW u \in Worker, NEW i \in Span(u)
                   PROVE  Taken(i)' <=> Taken(i)
        BY <1>k, <2>1
      <4>1. CASE i = cursor
        <5>1. Pending(w, i)'
          BY <3>4, <4>1
        <5> QED BY <1>j, <4>1, <5>1 DEF Taken
      <4>2. CASE i # cursor
        <5>1. (i < cursor' <=> i < cursor) /\ ~Pending(w, i)' /\ ~Pending(w, i)
          BY <1>j, <2>1, <3>4, <4>2 DEF Pending
        <5>2. (\E v \in Worker : Pending(v, i)') <=> \E v \in Worker : Pending(v, i)
          BY <3>4, <5>1
        <5> QED BY <5>1, <5>2 DEF Taken
      <4> QED BY <4>1, <4>2
    <3> QED BY <3>5, <3>6, <3>7 DEF TakenOnce
  <2> QED BY <1>i, <2>3, <2>4, <2>5
<1>5. ASSUME NEW w \in Worker, SetBit(w)
      PROVE  TakenOnce'
  <2>1. /\ pc[w] = "set" /\ pc' = [pc EXCEPT ![w] = "next"] /\ UNCHANGED <<cursor, at>>
        /\ handed' = [handed EXCEPT ![at[w]] = handed[at[w]] + 1] /\ at[w] \in Id /\ at[w] < cursor
    BY <1>5 DEF SetBit, TakenOnce, TakersKnow
  <2>2. ASSUME NEW u \in Worker, NEW i \in Span(u)
        PROVE  handed'[i] = IF Taken(i)' THEN 1 ELSE 0
    <3>1. CASE i = at[w]
      <4>1. Pending(w, i)
        BY <2>1, <3>1 DEF Pending
      <4>2. handed[i] = 0 /\ handed'[i] = 1
        BY <1>j, <2>1, <3>1, <4>1 DEF TakenOnce, TakenHanded, Taken
      <4>3. \A v \in Worker : ~Pending(v, i)'
        BY <2>1, <3>1 DEF Pending, TakenOnce, OneTaker
      <4> QED BY <2>1, <3>1, <4>2, <4>3 DEF Taken
    <3>2. CASE i # at[w]
      <4>1. \A v \in Worker : Pending(v, i)' <=> Pending(v, i)
        BY <2>1, <3>2 DEF Pending
      <4>2. handed'[i] = handed[i]
        BY <1>j, <2>1, <3>2
      <4> QED BY <2>1, <4>1, <4>2 DEF Taken, TakenOnce, TakenHanded
    <3> QED BY <3>1, <3>2
  <2>3. TakenHanded'
    BY <1>0, <2>2 DEF TakenHanded
  <2>4. TakersKnow' /\ OneTaker'
    BY <1>0, <2>1 DEF TakenOnce, TakersKnow, OneTaker
  <2> QED BY <2>3, <2>4 DEF TakenOnce
<1>6. \/ UNCHANGED <<cursor, pc, at, handed>>
      \/ \E w \in Worker : Build(w) \/ Bump(w) \/ FetchAdd(w) \/ SetBit(w)
  <2>1. \A w \in Worker : pc[w] \in {"new", "next", "bump", "set", "done"}
    BY DEF TakenOnce, TakersKnow
  <2> QED BY <2>1 DEF AllTake, Next, vars, Remove, Step, LoadCursor, Found, FindOn, NoneFound, Claim,
        Advance, Exhaust, ClearWord, Rewind
<1> QED BY <1>1, <1>2, <1>3, <1>4, <1>5, <1>6

(* Workers that go on from one another over one range with the All filter  *)
(* have handed out each of its ids once when all of them are at the end,   *)
(* however their calls of next() interleave.                               *)
THEOREM AllAreHandedOnce ==
  ASSUME TakersShare
  PROVE  Spec => []AllHandedOnce
<1>1. Init => TakeInv
  <2> SUFFICES ASSUME Init PROVE TakeInv
    OBVIOUS
  <2>1. \A w \in Worker : \A i \in Span(w) : handed[i] = 0
    BY SpanFacts DEF Init
  <2>2. \A w \in Worker : \A i \in Span(w) : ~(i < cursor)
    BY SpanFacts DEF Init
  <2>3. TakersKnow /\ OneTaker /\ TakenHanded
    BY <2>1, <2>2 DEF Init, TakersKnow, OneTaker, TakenHanded, Taken
  <2> QED BY <2>3, InitTyped DEF Init, TakeInv, TakenOnce
<1>2. TakeInv /\ [Next]_vars => TakeInv'
  <2> SUFFICES ASSUME TakeInv, [Next]_vars PROVE TakeInv'
    OBVIOUS
  <2>1. AllTake' => AllTake
    BY Fixed DEF AllTake
  <2> QED BY <2>1, TakersShare, TypedStep, EndStep, TakeStep DEF TakeInv
<1>3. TakeInv => AllHandedOnce
  <2> SUFFICES ASSUME TakeInv, \A w \in Worker : iter[w].filter = "All" /\ pc[w] = "done",
                      NEW w \in Worker, NEW i \in Span(w)
               PROVE  handed[i] = 1
    BY DEF AllHandedOnce
  <2>1. TakenOnce
    BY DEF TakeInv, AllTake
  <2>2. i \in Nat /\ i < Hi(w) /\ Hi(w) \in Nat /\ Hi(w) <= cursor /\ cursor \in Nat
    BY <2>1, SpanFacts, Numbers DEF TakeInv, TypeOK, TakenOnce, TakersKnow
  <2>3. Taken(i)
    BY <2>2 DEF Taken, Pending
  <2> QED BY <2>1, <2>3 DEF TakenOnce, TakenHanded
<1> QED BY <1>1, <1>2, <1>3, PTL DEF Spec

-----------------------------------------------------------------------------
(* A worker that wraps around, alone                                       *)

(* Beside one that wraps around the others have nothing to do.             *)
WrappersAlone ==
  \A b \in Builds : \A w \in Worker : b[w].wrap =>
    \A u \in Worker \ {w} : b[u].filter = "Unset" /\ b[u].hi = 0 /\ ~b[u].wrap /\ ~b[u].reset

(* Whether i has been handed out in this round.                            *)
Had(w, i) ==
  IF iter[w].filter = "Unset" THEN pc[w] \notin {"clear", "rewind"} /\ i \in bits
  ELSE pc[w] # "rewind" /\ i < cursor /\ ~Pending(w, i)

(* All lasting ids of the range were handed out in n rounds, and those of  *)
(* this round once more.                                                   *)
RoundIs(w, n) == \A i \in Span(w) \ Removable : handed[i] = IF Had(w, i) THEN n + 1 ELSE n

(* A claimer that wraps around clears only once nothing lasting is unset,  *)
(* and leaves nothing set.                                                 *)
ClaimRound(w) ==
  /\ pc[w] \in {"new", "next", "find", "bump", "claim", "advance", "clear", "rewind"}
  /\ pc[w] \notin {"clear", "rewind"} => AllSet(w, LAMBDA i : i < cursor)
  /\ pc[w] = "find" => AllSet(w, LAMBDA i : i < at[w] \/ WordOf(i) < word[w])
  /\ pc[w] = "claim" => AllSet(w, LAMBDA i : i < at[w])
  /\ pc[w] = "advance" => AllSet(w, LAMBDA i : i <= at[w])
  /\ pc[w] = "clear" => \A i \in Span(w) \intersect bits : word[w] <= WordOf(i)
  /\ pc[w] = "rewind" => Span(w) \intersect bits = {}

TakeRound(w) ==
  /\ pc[w] \in {"new", "next", "bump", "set", "rewind"}
  /\ pc[w] = "set" => at[w] < cursor /\ at[w] \in Id

Rounds(w) ==
  /\ \E n \in Nat : RoundIs(w, n)
  /\ IF iter[w].filter = "Unset" THEN ClaimRound(w) ELSE TakeRound(w)
  /\ pc[w] = "new" => cursor = 0
  /\ \A u \in Worker \ {w} : pc[u] \in {"new", "next", "done"}

RoundInv == TypeOK /\ AtId /\ \A w \in Worker : iter[w].wrap => Rounds(w)

(* What the workers beside one that wraps around are built with.           *)
LEMMA OthersIdle ==
  ASSUME WrappersAlone, TypeOK, NEW w \in Worker, iter[w].wrap
  PROVE  \A u \in Worker \ {w} : /\ iter[u].filter = "Unset" /\ ~iter[u].wrap /\ ~iter[u].reset
                                 /\ Hi(u) = 0 /\ Span(u) = {}
<1>1. \A u \in Worker \ {w} : iter[u].filter = "Unset" /\ iter[u].hi = 0 /\ ~iter[u].wrap /\ ~iter[u].reset
  BY DEF WrappersAlone, TypeOK
<1>2. \A u \in Worker \ {w} : Hi(u) = 0
  BY <1>1, WriteAssumption DEF Hi
<1> QED BY <1>1, <1>2, SpanFacts DEF TypeOK

(* A step of one of them changes nothing that matters to it.               *)
LEMMA OtherSteps ==
  ASSUME WrappersAlone, TypeOK, NEW w \in Worker, iter[w].wrap, Rounds(w),
         NEW u \in Worker \ {w}, Step(u)
  PROVE  /\ UNCHANGED <<iter, bits, cursor, handed>>
         /\ pc'[w] = pc[w] /\ at'[w] = at[w] /\ word'[w] = word[w]
         /\ \A v \in Worker \ {w} : pc'[v] \in {"new", "next", "done"}
<1>1. iter[u].filter = "Unset" /\ ~iter[u].wrap /\ ~iter[u].reset /\ Hi(u) = 0
  BY OthersIdle
<1>2. pc[u] \in {"new", "next", "done"} /\ cursor \in Nat
  BY DEF Rounds, TypeOK
<1>3. Build(u) \/ LoadCursor(u)
  BY <1>1, <1>2 DEF Step, Found, FindOn, NoneFound, Bump, Claim, Advance, Exhaust, ClearWord, Rewind,
     FetchAdd, SetBit
<1>4. CASE Build(u)
  BY <1>1, <1>4 DEF Build, Goto, TypeOK, Rounds
<1>5. CASE LoadCursor(u)
  <2>1. pc' = [pc EXCEPT ![u] = "done"]
    BY <1>1, <1>2, <1>5 DEF LoadCursor, AtEnd, Goto
  <2> QED BY <1>5, <2>1 DEF LoadCursor, TypeOK, Rounds
<1> QED BY <1>3, <1>4, <1>5

(* The round goes on: what was handed out stays so.                        *)
LEMMA SameRound ==
  ASSUME NEW w \in Worker, NEW n \in Nat, RoundIs(w, n), [Next]_vars, handed' = handed,
         \A i \in Span(w) \ Removable : Had(w, i)' <=> Had(w, i)
  PROVE  RoundIs(w, n)'
BY Fixed DEF RoundIs, Span, Lo, Hi

(* A round ends when each id has been handed out in it, and the next one   *)
(* begins with none.                                                       *)
LEMMA NextRound ==
  ASSUME NEW w \in Worker, NEW n \in Nat, RoundIs(w, n), [Next]_vars, handed' = handed,
         \A i \in Span(w) \ Removable : Had(w, i) /\ ~Had(w, i)'
  PROVE  RoundIs(w, n + 1)'
BY Fixed DEF RoundIs, Span, Lo, Hi

(* An id handed out in a round was not before.                             *)
LEMMA HandOut ==
  ASSUME NEW w \in Worker, NEW n \in Nat, RoundIs(w, n), [Next]_vars, TypeOK,
         NEW k \in Id, handed' = [handed EXCEPT ![k] = @ + 1], ~Had(w, k), Had(w, k)',
         \A i \in (Span(w) \ Removable) \ {k} : Had(w, i)' <=> Had(w, i)
  PROVE  RoundIs(w, n)'
<1> SUFFICES ASSUME NEW i \in Span(w) \ Removable
             PROVE  handed'[i] = IF Had(w, i)' THEN n + 1 ELSE n
  BY Fixed DEF RoundIs, Span, Lo, Hi
<1>1. i \in Id /\ handed \in [Id -> Nat]
  BY SpanFacts DEF TypeOK
<1>2. CASE i = k
  BY <1>1, <1>2 DEF RoundIs
<1>3. CASE i # k
  BY <1>1, <1>3 DEF RoundIs
<1> QED BY <1>2, <1>3

(* A claimer's own steps keep what it knows of its round.                  *)
LEMMA ClaimRoundStep ==
  ASSUME TypeOK, AtId, NEW w \in Worker, iter[w].wrap, iter[w].filter = "Unset", ClaimRound(w),
         pc[w] = "new" => cursor = 0, NEW n \in Nat, RoundIs(w, n), Step(w), [Next]_vars
  PROVE  ClaimRound(w)' /\ \E m \in Nat : RoundIs(w, m)'
<1> USE DEF TypeOK, Goto
<1> DEFINE Ids == Span(w) \ Removable
<1>i. \A i \in Span(w) : i \in Nat /\ i \in Id /\ Lo(w) <= i /\ i < Hi(w) /\ WordOf(i) \in Nat
  BY SpanFacts, Numbers
<1>l. Lo(w) \in Nat /\ Hi(w) \in Nat /\ WordOf(Lo(w)) \in Nat
  BY Numbers
<1>s. iter' = iter /\ Span(w)' = Span(w)
  BY Fixed DEF Span, Lo, Hi
<1>h. \A i : Had(w, i) <=> pc[w] \notin {"clear", "rewind"} /\ i \in bits
  BY DEF Had
<1>g. \A i : Had(w, i)' <=> pc'[w] \notin {"clear", "rewind"} /\ i \in bits'
  BY <1>s DEF Had
<1>b. pc[w] \notin {"clear", "rewind"} =>
        /\ pc[w] \notin {"set", "clear", "rewind"} /\ Behind(w)
        /\ \A i \in Ids : i < cursor => i \in bits
  BY DEF ClaimRound, Behind, AllSet
<1>1. CASE Build(w)
  <2>1. pc[w] = "new" /\ pc'[w] = "next" /\ cursor' = 0 /\ UNCHANGED <<bits, handed>>
    BY <1>1, <1>b DEF Build, ClaimRound
  <2>2. ClaimRound(w)'
    BY <1>i, <1>s, <2>1 DEF ClaimRound, AllSet
  <2> QED BY <1>h, <1>g, <2>1, <2>2, SameRound
<1>2. ASSUME LoadCursor(w) \/ Found(w) \/ FindOn(w) \/ NoneFound(w)
      PROVE  ClaimRound(w)' /\ \E m \in Nat : RoundIs(w, m)'
  <2>1. /\ UNCHANGED <<bits, cursor, handed>>
        /\ pc[w] \in {"next", "find"}
        /\ pc'[w] \in {"find", "bump", "claim", "clear"}
    <3>1. CASE LoadCursor(w)
      BY <3>1 DEF LoadCursor, AtEnd, Calls
    <3>2. CASE Found(w)
      BY <3>2 DEF Found
    <3>3. CASE FindOn(w)
      BY <3>3 DEF FindOn
    <3>4. CASE NoneFound(w)
      BY <3>4 DEF NoneFound, AtEnd
    <3> QED BY <1>2, <3>1, <3>2, <3>3, <3>4
  <2>2. /\ pc'[w] = "find" => AllSet(w, LAMBDA i : i < at'[w] \/ WordOf(i) < word'[w])
        /\ pc'[w] = "claim" => AllSet(w, LAMBDA i : i < at'[w])
        /\ pc'[w] = "clear" => AllSet(w, LAMBDA i : TRUE)
    BY <1>b, <2>1, ScanStep
  <2>3. ASSUME pc'[w] = "clear"
        PROVE  \A i \in Span(w) : word'[w] <= WordOf(i)
    <3>1. word'[w] = WordOf(Lo(w))
      <4>1. CASE LoadCursor(w)
        <5>1. ~(cursor < Hi(w))
          BY <2>3, <4>1 DEF LoadCursor
        <5> QED BY <4>1, <5>1 DEF LoadCursor
      <4>2. CASE Found(w)
        BY <2>3, <4>2 DEF Found
      <4>3. CASE FindOn(w)
        BY <2>3, <4>3 DEF FindOn
      <4>4. CASE NoneFound(w)
        BY <4>4 DEF NoneFound
      <4> QED BY <1>2, <4>1, <4>2, <4>3, <4>4
    <3> QED BY <1>i, <1>l, <3>1, WordsInOrder
  <2>4. ClaimRound(w)'
    <3>1. pc'[w] \notin {"clear", "rewind"} => \A i \in Ids : i < cursor' => i \in bits'
      BY <1>b, <2>1
    <3>2. pc'[w] = "find" => \A i \in Ids : (i < at'[w] \/ WordOf(i) < word'[w]) => i \in bits'
      BY <2>1, <2>2 DEF AllSet
    <3>3. pc'[w] = "claim" => \A i \in Ids : i < at'[w] => i \in bits'
      BY <2>1, <2>2 DEF AllSet
    <3>4. pc'[w] = "clear" => \A i \in Span(w) \intersect bits' : word'[w] <= WordOf(i)
      BY <2>3
    <3>5. pc'[w] \in {"find", "bump", "claim", "clear"}
      BY <2>1
    <3> QED BY <1>s, <3>1, <3>2, <3>3, <3>4, <3>5 DEF ClaimRound, AllSet, WordOf
  <2>5. CASE pc'[w] = "clear"
    <3>1. \A i \in Ids : Had(w, i) /\ ~Had(w, i)'
      BY <1>h, <1>g, <2>1, <2>2, <2>5 DEF AllSet
    <3> QED BY <2>1, <2>4, <3>1, NextRound
  <2>6. CASE pc'[w] # "clear"
    <3>1. \A i \in Ids : Had(w, i)' <=> Had(w, i)
      BY <1>h, <1>g, <2>1, <2>6
    <3> QED BY <2>1, <2>4, <3>1, SameRound
  <2> QED BY <2>5, <2>6
<1>3. CASE Bump(w)
  <2>1. pc[w] = "bump" /\ pc'[w] = "next" /\ cursor' = Larger(cursor, Lo(w)) /\ UNCHANGED <<bits, handed>>
    BY <1>3 DEF Bump
  <2>2. \A i \in Ids : i < cursor' => i < cursor
    BY <1>i, <1>l, <2>1 DEF Larger
  <2>3. ClaimRound(w)'
    BY <1>b, <1>s, <2>1, <2>2 DEF ClaimRound, AllSet
  <2> QED BY <1>h, <1>g, <2>1, <2>3, SameRound
<1>4. CASE Claim(w)
  <2>1. CASE at[w] \in bits
    <3>1. pc[w] = "claim" /\ pc'[w] = "next" /\ UNCHANGED <<bits, cursor, handed>>
      BY <1>4, <2>1 DEF Claim
    <3>2. ClaimRound(w)'
      BY <1>b, <1>s, <3>1 DEF ClaimRound, AllSet
    <3> QED BY <1>h, <1>g, <3>1, <3>2, SameRound
  <2>2. CASE at[w] \notin bits
    <3>1. /\ pc[w] = "claim" /\ pc'[w] = "advance" /\ bits' = bits \union {at[w]}
          /\ UNCHANGED <<cursor, at>> /\ handed' = [handed EXCEPT ![at[w]] = @ + 1]
      BY <1>4, <2>2 DEF Claim, Write
    <3>2. at[w] \in Id /\ at[w] \in Nat
      BY <3>1 DEF AtId
    <3>3. \A i \in Ids : i <= at'[w] => i \in bits'
      <4>1. \A i \in Ids : i < at[w] => i \in bits
        BY <3>1 DEF ClaimRound, AllSet
      <4> QED BY <1>i, <3>1, <3>2, <4>1
    <3>4. ClaimRound(w)'
      BY <1>b, <1>s, <3>1, <3>3 DEF ClaimRound, AllSet
    <3>5. RoundIs(w, n)'
      BY <1>h, <1>g, <2>2, <3>1, <3>2, HandOut
    <3> QED BY <3>4, <3>5
  <2> QED BY <2>1, <2>2
<1>5. CASE Advance(w)
  <2>1. pc[w] = "advance" /\ pc'[w] = "next" /\ cursor' = Larger(cursor, at[w] + 1) /\ UNCHANGED <<bits, handed>>
    BY <1>5 DEF Advance
  <2>2. \A i \in Ids : i < cursor' => i < cursor \/ i <= at[w]
    BY <1>i, <2>1 DEF Larger
  <2>3. \A i \in Ids : i < cursor' => i \in bits
    BY <1>b, <2>1, <2>2 DEF ClaimRound, AllSet
  <2>4. ClaimRound(w)'
    BY <1>s, <2>1, <2>3 DEF ClaimRound, AllSet
  <2> QED BY <1>h, <1>g, <2>1, <2>4, SameRound
<1>6. CASE ClearWord(w)
  <2>1. /\ pc[w] = "clear" /\ handed' = handed
        /\ bits' = {i \in bits : WordOf(i) # word[w] \/ i \notin Span(w)}
        /\ word' = [word EXCEPT ![w] = @ + 1]
        /\ pc'[w] = IF LastWord(Span(w), word[w]) THEN "rewind" ELSE "clear"
    BY <1>6 DEF ClearWord, Write
  <2>2. \A i \in Span(w) \intersect bits' : word[w] + 1 <= WordOf(i)
    <3>1. \A i \in Span(w) \intersect bits' : word[w] <= WordOf(i) /\ WordOf(i) # word[w]
      BY <2>1 DEF ClaimRound
    <3> QED BY <1>i, <3>1
  <2>3. pc'[w] = "rewind" => Span(w) \intersect bits' = {}
    <3>1. LastWord(Span(w), word[w]) => \A i \in Span(w) : ~(word[w] + 1 <= WordOf(i))
      BY <1>i DEF LastWord
    <3> QED BY <2>1, <2>2, <3>1
  <2>4. ClaimRound(w)'
    <3>1. word'[w] = word[w] + 1 /\ pc'[w] \in {"clear", "rewind"}
      BY <2>1
    <3> QED BY <1>s, <2>2, <2>3, <3>1 DEF ClaimRound, WordOf
  <2> QED BY <1>h, <1>g, <2>1, <2>4, SameRound
<1>7. CASE Rewind(w)
  <2>1. pc[w] = "rewind" /\ pc'[w] = "next" /\ cursor' = Lo(w) /\ UNCHANGED <<bits, handed>>
    BY <1>7 DEF Rewind
  <2>2. \A i \in Ids : ~(i < cursor') /\ i \notin bits
    BY <1>i, <1>l, <2>1 DEF ClaimRound
  <2>3. ClaimRound(w)'
    BY <1>s, <2>1, <2>2 DEF ClaimRound, AllSet
  <2>4. \A i \in Ids : Had(w, i)' <=> Had(w, i)
    BY <1>h, <1>g, <2>1, <2>2
  <2> QED BY <2>1, <2>3, <2>4, SameRound
<1>8. ~Exhaust(w) /\ ~FetchAdd(w) /\ ~SetBit(w)
  BY DEF Exhaust, FetchAdd, SetBit, ClaimRound
<1> QED BY <1>1, <1>2, <1>3, <1>4, <1>5, <1>6, <1>7, <1>8 DEF Step

(* So do those of a worker that takes all ids.                             *)
LEMMA TakeRoundStep ==
  ASSUME TypeOK, AtId, NEW w \in Worker, iter[w].wrap, iter[w].filter = "All", TakeRound(w),
         pc[w] = "new" => cursor = 0, NEW n \in Nat, RoundIs(w, n), Step(w), [Next]_vars
  PROVE  TakeRound(w)' /\ \E m \in Nat : RoundIs(w, m)'
<1> USE DEF TypeOK, Goto
<1>i. \A i \in Span(w) : i \in Nat /\ i \in Id /\ Lo(w) <= i /\ i < Hi(w)
  BY SpanFacts
<1>l. Lo(w) \in Nat /\ Hi(w) \in Nat /\ Hi(w) <= MaxId
  BY Numbers
<1>s. iter' = iter /\ Span(w)' = Span(w)
  BY Fixed DEF Span, Lo, Hi
<1>h. \A i : Had(w, i) <=> pc[w] # "rewind" /\ i < cursor /\ ~Pending(w, i)
  BY DEF Had
<1>g. \A i : Had(w, i)' <=> pc'[w] # "rewind" /\ i < cursor' /\ ~Pending(w, i)'
  BY <1>s DEF Had
<1>p. \A i : (Pending(w, i) <=> pc[w] = "set" /\ at[w] = i) /\ (Pending(w, i)' <=> pc'[w] = "set" /\ at'[w] = i)
  BY DEF Pending
<1>1. CASE Build(w)
  <2>1. pc[w] = "new" /\ pc'[w] = "next" /\ cursor' = cursor /\ UNCHANGED handed
    BY <1>1 DEF Build
  <2>2. TakeRound(w)'
    BY <2>1 DEF TakeRound
  <2>3. \A i : Had(w, i)' <=> Had(w, i)
    BY <1>h, <1>g, <1>p, <2>1
  <2> QED BY <2>1, <2>2, <2>3, SameRound
<1>2. CASE Bump(w)
  <2>1. pc[w] = "bump" /\ pc'[w] = "next" /\ cursor' = Larger(cursor, Lo(w)) /\ UNCHANGED handed
    BY <1>2 DEF Bump
  <2>2. \A i \in Span(w) : i < cursor' <=> i < cursor
    BY <1>i, <1>l, <2>1 DEF Larger
  <2>3. TakeRound(w)'
    BY <2>1 DEF TakeRound
  <2>4. \A i \in Span(w) : Had(w, i)' <=> Had(w, i)
    BY <1>h, <1>g, <1>p, <2>1, <2>2
  <2> QED BY <2>1, <2>3, <2>4, SameRound
<1>3. CASE FetchAdd(w)
  <2>1. pc[w] = "next" /\ cursor' = cursor + 1 /\ at'[w] = cursor /\ handed' = handed
    BY <1>3 DEF FetchAdd, Calls
  <2>2. CASE cursor >= Hi(w)
    <3>1. pc'[w] = "rewind"
      BY <1>3, <2>2 DEF FetchAdd, AtEnd
    <3>2. \A i \in Span(w) : i < cursor
      BY <1>i, <1>l, <2>2
    <3>3. \A i \in Span(w) : Had(w, i) /\ ~Had(w, i)'
      BY <1>h, <1>g, <1>p, <2>1, <3>1, <3>2
    <3>4. TakeRound(w)'
      BY <3>1 DEF TakeRound
    <3> QED BY <2>1, <3>3, <3>4, NextRound
  <2>3. CASE cursor < Lo(w) /\ ~(cursor >= Hi(w))
    <3>1. pc'[w] = "bump"
      BY <1>3, <2>3 DEF FetchAdd
    <3>2. \A i \in Span(w) : ~(i < cursor') /\ ~(i < cursor)
      BY <1>i, <1>l, <2>1, <2>3
    <3>3. \A i \in Span(w) : Had(w, i)' <=> Had(w, i)
      BY <1>h, <1>g, <3>2
    <3>4. TakeRound(w)'
      BY <3>1 DEF TakeRound
    <3> QED BY <2>1, <3>3, <3>4, SameRound
  <2>4. CASE ~(cursor < Lo(w)) /\ ~(cursor >= Hi(w))
    <3>1. pc'[w] = "set"
      BY <1>3, <2>4 DEF FetchAdd
    <3>2. cursor \in Id /\ cursor < cursor'
      BY <1>l, <2>1, <2>4, WriteAssumption DEF Id
    <3>3. \A i \in Span(w) : (i < cursor' /\ i # cursor) <=> i < cursor
      BY <1>i, <2>1
    <3>4. \A i \in Span(w) : Had(w, i)' <=> Had(w, i)
      BY <1>h, <1>g, <1>p, <2>1, <3>1, <3>3
    <3>5. TakeRound(w)'
      BY <2>1, <3>1, <3>2 DEF TakeRound
    <3> QED BY <2>1, <3>4, <3>5, SameRound
  <2> QED BY <2>2, <2>3, <2>4
<1>4. CASE SetBit(w)
  <2>1. /\ pc[w] = "set" /\ pc'[w] = "next" /\ UNCHANGED <<cursor, at>>
        /\ handed' = [handed EXCEPT ![at[w]] = @ + 1] /\ at[w] \in Id /\ at[w] < cursor
    BY <1>4 DEF SetBit, TakeRound
  <2>2. RoundIs(w, n)'
    BY <1>h, <1>g, <1>p, <2>1, HandOut
  <2>3. TakeRound(w)'
    BY <2>1 DEF TakeRound
  <2> QED BY <2>2, <2>3
<1>5. CASE Rewind(w)
  <2>1. pc[w] = "rewind" /\ pc'[w] = "next" /\ cursor' = Lo(w) /\ UNCHANGED handed
    BY <1>5 DEF Rewind
  <2>2. \A i \in Span(w) : ~(i < cursor')
    BY <1>i, <1>l, <2>1
  <2>3. \A i \in Span(w) : Had(w, i)' <=> Had(w, i)
    BY <1>h, <1>g, <2>1, <2>2
  <2>4. TakeRound(w)'
    BY <2>1 DEF TakeRound
  <2> QED BY <2>1, <2>3, <2>4, SameRound
<1>6. /\ ~LoadCursor(w) /\ ~Found(w) /\ ~FindOn(w) /\ ~NoneFound(w) /\ ~Claim(w) /\ ~Advance(w)
      /\ ~Exhaust(w) /\ ~ClearWord(w)
  BY DEF LoadCursor, Found, FindOn, NoneFound, Claim, Advance, Exhaust, ClearWord, TakeRound
<1> QED BY <1>1, <1>2, <1>3, <1>4, <1>5, <1>6 DEF Step

(* A step of the worker that wraps around keeps the others where they are. *)
LEMMA OwnStep ==
  ASSUME TypeOK, NEW w \in Worker, Step(w)
  PROVE  pc'[w] # "new" /\ \A u \in Worker \ {w} : pc'[u] = pc[u]
<1>1. \E label \in {"next", "find", "bump", "claim", "advance", "exhaust", "clear", "rewind", "set", "done"} :
         pc' = [pc EXCEPT ![w] = label]
  <2>1. CASE Build(w) \/ Bump(w) \/ Claim(w) \/ Advance(w) \/ Exhaust(w) \/ ClearWord(w)
             \/ Rewind(w) \/ SetBit(w)
    BY <2>1 DEF Goto, Build, Bump, Claim, Advance, Exhaust, ClearWord, Rewind, SetBit
  <2>2. CASE LoadCursor(w)
    BY <2>2 DEF Goto, AtEnd, LoadCursor
  <2>3. CASE Found(w)
    BY <2>3 DEF Goto, Found
  <2>4. CASE FindOn(w)
    <3>1. pc' = [pc EXCEPT ![w] = "find"]
      BY <2>4 DEF FindOn, TypeOK
    <3> QED BY <3>1
  <2>5. CASE NoneFound(w)
    BY <2>5 DEF Goto, AtEnd, NoneFound
  <2>6. CASE FetchAdd(w)
    BY <2>6 DEF Goto, AtEnd, FetchAdd
  <2> QED BY <2>1, <2>2, <2>3, <2>4, <2>5, <2>6 DEF Step
<1> QED BY <1>1 DEF TypeOK

(* Every step keeps the rounds of the one that wraps around even.          *)
LEMMA RoundsStep ==
  ASSUME WrappersAlone, TypeOK, AtId, [Next]_vars, NEW w \in Worker, iter[w].wrap, Rounds(w)
  PROVE  Rounds(w)'
<1>s. iter' = iter /\ Span(w)' = Span(w)
  BY Fixed DEF Span, Lo, Hi
<1>n. PICK n \in Nat : RoundIs(w, n)
  BY DEF Rounds
<1>f. iter[w].filter \in {"Unset", "All"}
  BY WriteAssumption DEF TypeOK, IterType
<1>1. ASSUME UNCHANGED <<cursor, handed>>, pc'[w] = pc[w], at'[w] = at[w], word'[w] = word[w],
             bits' \subseteq bits, bits \ Removable \subseteq bits',
             \A u \in Worker \ {w} : pc'[u] \in {"new", "next", "done"}
      PROVE  Rounds(w)'
  <2>1. \A i \in Span(w) \ Removable : i \in bits' <=> i \in bits
    BY <1>1
  <2>2. \A i \in Span(w) \ Removable : Had(w, i)' <=> Had(w, i)
    BY <1>1, <1>s, <2>1 DEF Had, Pending
  <2>3. RoundIs(w, n)'
    BY <1>1, <1>n, <2>2, SameRound
  <2>4. ClaimRound(w) => ClaimRound(w)'
    BY <1>1, <1>s, <2>1 DEF ClaimRound, AllSet, WordOf
  <2>5. TakeRound(w) => TakeRound(w)'
    BY <1>1 DEF TakeRound
  <2> QED BY <1>1, <1>s, <2>3, <2>4, <2>5 DEF Rounds
<1>2. CASE UNCHANGED vars
  BY <1>1, <1>2 DEF vars, Rounds
<1>3. ASSUME NEW i \in Id, Remove(i)
      PROVE  Rounds(w)'
  <2>1. bits' = bits \ {i} /\ i \in Removable /\ UNCHANGED <<cursor, pc, at, word, handed>>
    BY <1>3 DEF Remove, Write
  <2> QED BY <1>1, <2>1 DEF Rounds
<1>4. ASSUME NEW u \in Worker \ {w}, Step(u)
      PROVE  Rounds(w)'
  BY <1>1, <1>4, OtherSteps
<1>5. CASE Step(w)
  <2>1. /\ IF iter[w].filter = "Unset" THEN ClaimRound(w)' ELSE TakeRound(w)'
        /\ \E m \in Nat : RoundIs(w, m)'
    <3>1. CASE iter[w].filter = "Unset"
      BY <1>n, <1>5, <3>1, ClaimRoundStep DEF Rounds
    <3>2. CASE iter[w].filter = "All"
      BY <1>n, <1>5, <3>2, TakeRoundStep DEF Rounds
    <3> QED BY <1>f, <3>1, <3>2
  <2>2. pc'[w] # "new" /\ \A u \in Worker \ {w} : pc'[u] \in {"new", "next", "done"}
    BY <1>5, OwnStep DEF Rounds
  <2> QED BY <1>s, <2>1, <2>2 DEF Rounds
<1> QED BY <1>2, <1>3, <1>4, <1>5 DEF Next

(* A worker that wraps around, alone on its tracker but for threads that   *)
(* remove ids, hands out no lasting id again before every other one of its *)
(* range had its turn, with the Unset filter and with All.                 *)
THEOREM RoundsAreEven ==
  ASSUME WrappersAlone
  PROVE  Spec => []EvenRounds
<1>1. Init => RoundInv
  <2> SUFFICES ASSUME Init, NEW w \in Worker, iter[w].wrap
               PROVE  Rounds(w)
    BY InitTyped DEF RoundInv
  <2>1. \A i \in Span(w) : ~(i < cursor) /\ handed[i] = 0 /\ i \notin bits
    BY SpanFacts DEF Init
  <2>2. \A u \in Worker : pc[u] = "new"
    BY DEF Init
  <2>3. RoundIs(w, 0)
    BY <2>1 DEF RoundIs, Had
  <2>4. ClaimRound(w) /\ TakeRound(w)
    BY <2>1, <2>2 DEF ClaimRound, TakeRound, AllSet
  <2> QED BY <2>2, <2>3, <2>4 DEF Rounds, Init
<1>2. RoundInv /\ [Next]_vars => RoundInv'
  <2> SUFFICES ASSUME RoundInv, [Next]_vars
               PROVE  RoundInv'
    OBVIOUS
  <2>1. ASSUME NEW w \in Worker, iter'[w].wrap
        PROVE  Rounds(w)'
    BY <2>1, WrappersAlone, Fixed, RoundsStep DEF RoundInv
  <2> QED BY <2>1, TypedStep DEF RoundInv
<1>3. RoundInv => EvenRounds
  <2> SUFFICES ASSUME RoundInv, NEW w \in Worker, iter[w].wrap,
                      NEW i \in Span(w) \ Removable, NEW j \in Span(w) \ Removable
               PROVE  handed[i] <= handed[j] + 1
    BY DEF EvenRounds
  <2>1. PICK n \in Nat : RoundIs(w, n)
    BY DEF RoundInv, Rounds
  <2> QED BY <2>1 DEF RoundIs
<1> QED BY <1>1, <1>2, <1>3, PTL DEF Spec
=============================================================================
