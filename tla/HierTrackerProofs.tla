-------------------------- MODULE HierTrackerProofs --------------------------
(***************************************************************************)
(* Proofs about HierTracker, for every number of threads, ids and sub-ids, *)
(* every sharding of the map and all limits: typing (no counter goes below *)
(* zero), the counters of the sub-bitmaps, the total, the meaning of the   *)
(* primary bits, that a delete iterator misses nothing, and that the       *)
(* tracker and its sub-bitmaps implement TalliedSet.                       *)
(***************************************************************************)
EXTENDS HierTracker, FiniteSetTheorems, TLAPS

(* TypeOK with counters that may be negative, which induction alone gives. *)
Typed ==
  /\ pairs \subseteq Pair /\ made \subseteq Id /\ primary \subseteq Id
  /\ subcount \in [Id -> Int]
  /\ total \in Int
  /\ deleting \in BOOLEAN
  /\ pc \in [Thread -> Labels]
  /\ op \in [Thread -> OpName \union {"none"}]
  /\ at \in [Thread -> Nat \X Nat]
  /\ kept \in [Thread -> SUBSET Pair]

(* What each label says of the operation in progress.                      *)
OpOK(t) ==
  /\ pc[t] \in {"idle", "panicked"} => op[t] = "none"
  /\ pc[t] \in {"bit", "subcount", "total", "primary"} => op[t] \in {"add", "claim", "remove"}
  /\ pc[t] = "empty" => op[t] = "remove"
  /\ pc[t] \in {"holding", "seeking", "clearing", "deleted", "ended"} =>
       op[t] = "delete" /\ "delete" \in OpsOf[t]
  /\ pc[t] \in {"bit", "subcount", "total", "empty", "primary", "deleted"} => at[t] \in Pair

OpInv == \A t \in Thread : OpOK(t)

(* Whoever inserts has the shard to itself.                                *)
Exclusive ==
  \A t, u \in Thread :
    t # u /\ op[t] \in Inserting /\ Locks(t, at[t][1]) => ~Locks(u, at[t][1])

Base == Typed /\ OpInv /\ Exclusive

-----------------------------------------------------------------------------
(* Ids and sub-ids are natural numbers, and there are finitely many pairs  *)
(* of them.                                                                *)
LEMMA PairFacts ==
  /\ Id \subseteq Nat /\ SubId \subseteq Nat
  /\ IsFiniteSet(Pair)
  /\ \A p \in Pair : p = <<p[1], p[2]>> /\ p[1] \in Id /\ p[2] \in SubId /\ p \in Nat \X Nat
<1>1. IsFiniteSet(Id) /\ IsFiniteSet(SubId)
  <2>1. 0 \in Int /\ NIds - 1 \in Int /\ NSubs - 1 \in Int
    BY HierAssumption
  <2> QED BY <2>1, FS_Interval DEF Id, SubId
<1>2. IsFiniteSet(Pair)
  BY <1>1, FS_Product DEF Pair
<1>3. Id \subseteq Nat /\ SubId \subseteq Nat
  BY HierAssumption DEF Id, SubId
<1>4. ASSUME NEW p \in Pair
      PROVE  p = <<p[1], p[2]>> /\ p[1] \in Id /\ p[2] \in SubId
  BY DEF Pair
<1>5. ASSUME NEW p \in Pair
      PROVE  p \in Nat \X Nat
  BY <1>3, <1>4
<1> QED BY <1>2, <1>3, <1>4, <1>5

(* The initial state is typed and nobody holds a shard.                    *)
LEMMA InitBase == Init => Base
<1> SUFFICES ASSUME Init PROVE Base
  OBVIOUS
<1>1. Typed
  <2>1. subcount \in [Id -> Int] /\ total \in Int /\ at \in [Thread -> Nat \X Nat]
    BY DEF Init
  <2>2. pc \in [Thread -> Labels] /\ op \in [Thread -> OpName \union {"none"}]
    BY DEF Init, Labels
  <2>3. kept \in [Thread -> SUBSET Pair] /\ deleting \in BOOLEAN
    BY DEF Init
  <2> QED BY <2>1, <2>2, <2>3 DEF Init, Typed
<1>2. OpInv
  BY DEF Init, OpInv, OpOK
<1>3. Exclusive
  BY DEF Init, Exclusive, Locks
<1> QED BY <1>1, <1>2, <1>3 DEF Base

LocalTyped ==
  /\ pc \in [Thread -> Labels]
  /\ op \in [Thread -> OpName \union {"none"}]
  /\ at \in [Thread -> Nat \X Nat]

(* The steps of a thread's own control state keep its types.               *)
LEMMA LocalSteps ==
  ASSUME LocalTyped, NEW t \in Thread
  PROVE  /\ Finish(t) => LocalTyped'
         /\ Panic(t) => LocalTyped'
         /\ \A label \in Labels : Goto(t, label) /\ UNCHANGED <<op, at>> => LocalTyped'
<1>1. Finish(t) => LocalTyped'
  BY DEF LocalTyped, Finish, Labels
<1>2. Panic(t) => LocalTyped'
  BY DEF LocalTyped, Panic, Labels
<1>3. \A label \in Labels : Goto(t, label) /\ UNCHANGED <<op, at>> => LocalTyped'
  BY DEF LocalTyped, Goto
<1> QED BY <1>1, <1>2, <1>3

(* Each step is one action of one thread, or ClearAll, or a stutter.       *)
LEMMA TypedStep == Base /\ [Next]_vars => Typed'
<1> SUFFICES ASSUME Base, [Next]_vars
             PROVE  Typed'
  OBVIOUS
<1> USE DEF Base, Typed
<1>1. CASE UNCHANGED vars
  BY <1>1 DEF vars
<1>2. CASE ClearAll
  BY <1>2 DEF ClearAll
<1>3. ASSUME NEW t \in Thread, AddPair(t) \/ ClaimPair(t) \/ RemovePair(t)
      PROVE  Typed'
  <2>1. PICK name \in {"add", "claim", "remove"}, p \in Pair :
           Begin(t, name, p) /\ made' \in {made, made \union {p[1]}}
    BY <1>3 DEF AddPair, ClaimPair, Insert, RemovePair
  <2>2. p \in Nat \X Nat /\ p[1] \in Id
    BY PairFacts
  <2>3. pc' \in [Thread -> Labels] /\ op' \in [Thread -> OpName \union {"none"}]
    BY <2>1 DEF Begin, OpName, Labels
  <2>4. at' \in [Thread -> Nat \X Nat] /\ made' \subseteq Id
    BY <2>1, <2>2 DEF Begin
  <2> QED BY <1>3, <2>3, <2>4 DEF AddPair, ClaimPair, Insert, RemovePair
<1>4. ASSUME NEW t \in Thread, FlipBit(t)
      PROVE  Typed'
  <2>1. at[t] \in Pair
    BY <1>4 DEF FlipBit, OpInv, OpOK
  <2>2. kept' \in [Thread -> SUBSET Pair] /\ pairs' \subseteq Pair
    BY <1>4, <2>1 DEF FlipBit
  <2>3. \/ Panic(t) \/ Finish(t)
        \/ Goto(t, "subcount") /\ UNCHANGED <<op, at>>
    <3>1. CASE at[t][2] >= SubCapacity
      BY <1>4, <3>1 DEF FlipBit
    <3>2. CASE ~(at[t][2] >= SubCapacity)
      BY <1>4, <3>2, Zenon DEF FlipBit
    <3> QED BY <3>1, <3>2
  <2>4. LocalTyped'
    <3>1. LocalTyped /\ "subcount" \in Labels
      BY DEF LocalTyped, Labels
    <3> QED BY <2>3, <3>1, LocalSteps
  <2> QED BY <1>4, <2>2, <2>4 DEF FlipBit, LocalTyped
<1>5. ASSUME NEW t \in Thread, CountSub(t) \/ CountTotal(t) \/ TestEmpty(t) \/ MarkPrimary(t)
      PROVE  Typed'
  <2>1. at[t][1] \in Id
    BY <1>5, PairFacts DEF CountSub, CountTotal, TestEmpty, MarkPrimary, OpInv, OpOK
  <2>2. \/ Finish(t) \/ Panic(t)
        \/ \E label \in Labels : Goto(t, label) /\ UNCHANGED <<op, at>>
    BY <1>5 DEF CountSub, CountTotal, TestEmpty, MarkPrimary, Labels
  <2>3. LocalTyped'
    BY <2>2, LocalSteps DEF LocalTyped
  <2>4. subcount' \in [Id -> Int]
    <3>1. subcount[at[t][1]] \in Int
      BY <2>1
    <3>2. CASE op[t] \in Inserting
      BY <1>5, <3>1, <3>2 DEF CountSub, CountTotal, TestEmpty, MarkPrimary
    <3>3. CASE op[t] \notin Inserting
      BY <1>5, <3>1, <3>3 DEF CountSub, CountTotal, TestEmpty, MarkPrimary
    <3> QED BY <3>2, <3>3
  <2>5. primary' \subseteq Id /\ total' \in Int
    BY <1>5, <2>1 DEF CountSub, CountTotal, TestEmpty, MarkPrimary
  <2> QED BY <1>5, <2>3, <2>4, <2>5
       DEF CountSub, CountTotal, TestEmpty, MarkPrimary, LocalTyped
<1>6. ASSUME NEW t \in Thread, OpenDelete(t) \/ CallNext(t) \/ DropDelete(t)
      PROVE  Typed'
  <2>1. CASE OpenDelete(t)
    BY <2>1 DEF OpenDelete, OpName, Labels
  <2>2. CASE CallNext(t)
    BY <2>2 DEF CallNext, Goto, Labels
  <2>3. CASE DropDelete(t)
    BY <2>3 DEF DropDelete, Finish, Labels
  <2> QED BY <1>6, <2>1, <2>2, <2>3
<1>7. ASSUME NEW t \in Thread, Seek(t) \/ TestAndClear(t) \/ CountDeleted(t)
      PROVE  Typed'
  <2>1. at[t][1] \in Nat /\ at[t][2] \in Nat
    OBVIOUS
  <2>2. CASE Seek(t)
    BY <2>1, <2>2 DEF Seek, NextId, Labels, Goto, Finish
  <2>3. CASE TestAndClear(t)
    BY <2>1, <2>3 DEF TestAndClear, NextId, Labels, Goto, Finish
  <2>4. CASE CountDeleted(t)
    <3>1. at[t][1] \in Id
      BY <2>4, PairFacts DEF CountDeleted, OpInv, OpOK
    <3> QED BY <2>1, <2>4, <3>1 DEF CountDeleted, Labels, Goto
  <2> QED BY <1>7, <2>2, <2>3, <2>4
<1> QED BY <1>1, <1>2, <1>3, <1>4, <1>5, <1>6, <1>7 DEF Next, Update, Delete

(* Every step keeps what a label says of the operation in progress.        *)
LEMMA OpStep == Base /\ [Next]_vars => OpInv'
<1> SUFFICES ASSUME Base, [Next]_vars, NEW u \in Thread
             PROVE  OpOK(u)'
  BY DEF OpInv
<1> USE DEF Base, Typed, OpInv, OpOK, Goto, Finish, Panic, Inserting
<1>1. CASE UNCHANGED vars
  BY <1>1 DEF vars
<1>2. CASE ClearAll
  BY <1>2 DEF ClearAll
<1>3. ASSUME NEW t \in Thread, AddPair(t) \/ ClaimPair(t) \/ RemovePair(t)
      PROVE  OpOK(u)'
  BY <1>3 DEF AddPair, ClaimPair, Insert, RemovePair, Begin
<1>4. ASSUME NEW t \in Thread, FlipBit(t) \/ CountSub(t) \/ CountTotal(t) \/ TestEmpty(t)
                               \/ MarkPrimary(t)
      PROVE  OpOK(u)'
  BY <1>4 DEF FlipBit, CountSub, CountTotal, TestEmpty, MarkPrimary
<1>5. ASSUME NEW t \in Thread, OpenDelete(t) \/ CallNext(t) \/ DropDelete(t) \/ Seek(t)
      PROVE  OpOK(u)'
  BY <1>5 DEF OpenDelete, CallNext, DropDelete, Seek
<1>6. ASSUME NEW t \in Thread, TestAndClear(t) \/ CountDeleted(t)
      PROVE  OpOK(u)'
  BY <1>6 DEF TestAndClear, CountDeleted
<1> QED BY <1>1, <1>2, <1>3, <1>4, <1>5, <1>6 DEF Next, Update, Delete

(* entry() waits for every holder of the shard and get() for an inserting  *)
(* one, so an inserting thread keeps its shard to itself.                  *)
LEMMA ExclusiveStep == Base /\ [Next]_vars => Exclusive'
<1> SUFFICES ASSUME Base, [Next]_vars
             PROVE  Exclusive'
  OBVIOUS
<1> USE DEF Base, Typed, Locks, Goto, Finish, Panic
<1>1. CASE UNCHANGED vars
  BY <1>1 DEF vars, Exclusive
<1>2. CASE ClearAll
  BY <1>2 DEF ClearAll, Exclusive
<1>3. ASSUME NEW t \in Thread, AddPair(t) \/ ClaimPair(t)
      PROVE  Exclusive'
  BY <1>3 DEF AddPair, ClaimPair, Insert, Begin, CanWrite, Exclusive
<1>4. ASSUME NEW t \in Thread, RemovePair(t)
      PROVE  Exclusive'
  BY <1>4 DEF RemovePair, Begin, CanRead, Exclusive, Inserting
<1>5. ASSUME NEW t \in Thread, FlipBit(t) \/ CountSub(t) \/ CountTotal(t) \/ TestEmpty(t)
                               \/ MarkPrimary(t)
      PROVE  Exclusive'
  BY <1>5 DEF FlipBit, CountSub, CountTotal, TestEmpty, MarkPrimary, Exclusive, Inserting
<1>6. ASSUME NEW t \in Thread, OpenDelete(t) \/ CallNext(t) \/ DropDelete(t)
      PROVE  Exclusive'
  BY <1>6 DEF OpenDelete, CallNext, DropDelete, Exclusive
<1>7. ASSUME NEW t \in Thread, Seek(t)
      PROVE  Exclusive'
  <2>1. op[t] = "delete"
    BY <1>7 DEF Seek, OpInv, OpOK
  <2> QED BY <1>7, <2>1 DEF Seek, CanRead, Exclusive, Inserting
<1>8. ASSUME NEW t \in Thread, TestAndClear(t) \/ CountDeleted(t)
      PROVE  Exclusive'
  <2>1. op[t] = "delete"
    BY <1>8 DEF TestAndClear, CountDeleted, OpInv, OpOK
  <2> QED BY <1>8, <2>1 DEF TestAndClear, CountDeleted, Exclusive, Inserting
<1> QED BY <1>1, <1>2, <1>3, <1>4, <1>5, <1>6, <1>7, <1>8 DEF Next, Update, Delete

(* Typing, the meaning of the labels and the exclusion of the shard locks  *)
(* hold throughout.                                                        *)
THEOREM BaseInvariant == Spec => []Base
<1>1. Base /\ [Next]_vars => Base'
  BY TypedStep, OpStep, ExclusiveStep DEF Base
<1> QED BY InitBase, <1>1, PTL DEF Spec
-----------------------------------------------------------------------------
(* The counters of the sub-bitmaps: off by the flips not counted yet       *)

SubUp(i)   == {t \in Thread : pc[t] = "subcount" /\ op[t] \in Inserting /\ at[t][1] = i}
SubDown(i) == {t \in Thread : ((pc[t] = "subcount" /\ op[t] = "remove") \/ pc[t] = "deleted")
                              /\ at[t][1] = i}

SubInv ==
  \A i \in Id :
    subcount[i] + Cardinality(SubUp(i)) - Cardinality(SubDown(i)) = Cardinality(PairsOf(i))

(* Sets of threads and sets of pairs are finite.                           *)
LEMMA Sizes ==
  /\ \A S \in SUBSET Thread : IsFiniteSet(S) /\ Cardinality(S) \in Nat
  /\ \A S \in SUBSET Pair : IsFiniteSet(S) /\ Cardinality(S) \in Nat
BY PairFacts, FiniteThreads, FS_Subset, FS_CardinalityType

(* One element more makes a set larger by one.                             *)
LEMMA OneMore ==
  ASSUME NEW S, NEW x, IsFiniteSet(S), x \notin S
  PROVE  Cardinality(S \union {x}) = Cardinality(S) + 1
BY FS_AddElement

(* One element less makes a set smaller by one.                            *)
LEMMA OneLess ==
  ASSUME NEW S, NEW x, IsFiniteSet(S), x \in S
  PROVE  Cardinality(S \ {x}) = Cardinality(S) - 1
BY FS_RemoveElement

(* Every sub-bitmap begins empty with its counter at zero.                 *)
LEMMA InitSub == Init => SubInv
<1> SUFFICES ASSUME Init, NEW i \in Id
             PROVE  subcount[i] + Cardinality(SubUp(i)) - Cardinality(SubDown(i))
                      = Cardinality(PairsOf(i))
  BY DEF SubInv
<1>1. SubUp(i) = {} /\ SubDown(i) = {} /\ PairsOf(i) = {} /\ subcount[i] = 0
  BY DEF Init, SubUp, SubDown, PairsOf
<1> QED BY <1>1, FS_EmptySet

(* The sets that SubInv counts, and what it says of them before the step.  *)
LEMMA SubStep == Base /\ SubInv /\ [Next]_vars => SubInv'
<1> SUFFICES ASSUME Base, SubInv, [Next]_vars, NEW i \in Id
             PROVE  subcount'[i] + Cardinality(SubUp(i)') - Cardinality(SubDown(i)')
                      = Cardinality(PairsOf(i)')
  BY DEF SubInv
<1> DEFINE Same == /\ subcount'[i] = subcount[i]
                   /\ SubUp(i)' = SubUp(i) /\ SubDown(i)' = SubDown(i)
                   /\ PairsOf(i)' = PairsOf(i)
           Goal == subcount'[i] + Cardinality(SubUp(i)') - Cardinality(SubDown(i)')
                     = Cardinality(PairsOf(i)')
<1>0. /\ subcount[i] + Cardinality(SubUp(i)) - Cardinality(SubDown(i)) = Cardinality(PairsOf(i))
      /\ subcount[i] \in Int
      /\ IsFiniteSet(SubUp(i)) /\ Cardinality(SubUp(i)) \in Nat
      /\ IsFiniteSet(SubDown(i)) /\ Cardinality(SubDown(i)) \in Nat
      /\ IsFiniteSet(PairsOf(i)) /\ Cardinality(PairsOf(i)) \in Nat
  <2>1. SubUp(i) \subseteq Thread /\ SubDown(i) \subseteq Thread /\ PairsOf(i) \subseteq Pair
    BY DEF SubUp, SubDown, PairsOf, Base, Typed
  <2> QED BY <2>1, Sizes DEF SubInv, Base, Typed
<1>s. Same => Goal
  BY <1>0
<1> USE DEF Base, Typed, Goto, Finish, Panic, SubUp, SubDown, PairsOf
<1>1. CASE UNCHANGED vars
  BY <1>1, <1>s DEF vars
<1>2. CASE ClearAll
  <2>1. subcount'[i] = 0 /\ SubUp(i)' = {} /\ SubDown(i)' = {} /\ PairsOf(i)' = {}
    BY <1>2 DEF ClearAll
  <2> HIDE DEF SubUp, SubDown, PairsOf
  <2> QED BY <2>1, FS_EmptySet
<1>3. ASSUME NEW t \in Thread,
             AddPair(t) \/ ClaimPair(t) \/ RemovePair(t) \/ OpenDelete(t) \/ CallNext(t)
             \/ DropDelete(t) \/ CountTotal(t) \/ TestEmpty(t) \/ MarkPrimary(t) \/ Seek(t)
      PROVE  Goal
  <2>1. CASE AddPair(t) \/ ClaimPair(t) \/ RemovePair(t)
    BY <2>1, <1>s DEF AddPair, ClaimPair, Insert, RemovePair, Begin
  <2>2. CASE OpenDelete(t) \/ CallNext(t) \/ DropDelete(t) \/ Seek(t)
    <3>1. /\ UNCHANGED <<pairs, subcount>>
          /\ \A u \in Thread : u # t => pc'[u] = pc[u] /\ op'[u] = op[u] /\ at'[u] = at[u]
          /\ pc[t] \notin {"subcount", "deleted"} /\ pc'[t] \notin {"subcount", "deleted"}
      BY <2>2 DEF OpenDelete, CallNext, DropDelete, Seek
    <3> QED BY <3>1, <1>s
  <2>3. CASE CountTotal(t) \/ TestEmpty(t) \/ MarkPrimary(t)
    BY <2>3, <1>s DEF CountTotal, TestEmpty, MarkPrimary
  <2> QED BY <1>3, <2>1, <2>2, <2>3
<1>4. ASSUME NEW t \in Thread, FlipBit(t)
      PROVE  Goal
  <2>1. CASE pc'[t] # "subcount"
    <3>1. pairs' = pairs /\ (Panic(t) \/ Finish(t)) /\ subcount' = subcount /\ pc[t] = "bit"
      BY <1>4, <2>1 DEF FlipBit
    <3> QED BY <3>1, <1>s
  <2>2. CASE pc'[t] = "subcount"
    <3>1. /\ pc' = [pc EXCEPT ![t] = "subcount"] /\ UNCHANGED <<op, at, subcount>>
          /\ pc[t] = "bit" /\ pairs' # pairs /\ at[t] \in Pair
          /\ pairs' = IF op[t] \in Inserting THEN pairs \union {at[t]} ELSE pairs \ {at[t]}
      BY <1>4, <2>2 DEF FlipBit, OpInv, OpOK
    <3>2. CASE at[t][1] # i
      BY <3>1, <3>2, <1>s
    <3>3. CASE at[t][1] = i /\ op[t] \in Inserting
      <4>1. /\ SubUp(i)' = SubUp(i) \union {t} /\ t \notin SubUp(i)
            /\ SubDown(i)' = SubDown(i)
        BY <3>1, <3>3 DEF Inserting
      <4>2. PairsOf(i)' = PairsOf(i) \union {at[t]} /\ at[t] \notin PairsOf(i)
        BY <3>1, <3>3
      <4> HIDE DEF SubUp, SubDown, PairsOf
      <4> QED BY <1>0, <3>1, <4>1, <4>2, OneMore
    <3>4. CASE at[t][1] = i /\ op[t] \notin Inserting
      <4>1. op[t] = "remove"
        BY <3>1, <3>4 DEF OpInv, OpOK, Inserting
      <4>2. /\ SubDown(i)' = SubDown(i) \union {t} /\ t \notin SubDown(i)
            /\ SubUp(i)' = SubUp(i)
        BY <3>1, <3>4, <4>1 DEF Inserting
      <4>3. PairsOf(i)' = PairsOf(i) \ {at[t]} /\ at[t] \in PairsOf(i)
        BY <3>1, <3>4
      <4> HIDE DEF SubUp, SubDown, PairsOf
      <4> QED BY <1>0, <3>1, <4>2, <4>3, OneMore, OneLess
    <3> QED BY <3>2, <3>3, <3>4
  <2> QED BY <2>1, <2>2
<1>5. ASSUME NEW t \in Thread, CountSub(t)
      PROVE  Goal
  <2>1. at[t] \in Pair /\ at[t][1] \in Id /\ pc[t] = "subcount"
    BY <1>5, PairFacts DEF CountSub, OpInv, OpOK
  <2>2. CASE at[t][1] # i
    BY <1>5, <2>1, <2>2, <1>s DEF CountSub
  <2>3. CASE at[t][1] = i /\ op[t] \in Inserting
    <3>1. SubUp(i)' = SubUp(i) \ {t} /\ t \in SubUp(i) /\ SubDown(i)' = SubDown(i)
      BY <1>5, <2>1, <2>3 DEF CountSub, Inserting
    <3>2. subcount'[i] = subcount[i] + 1 /\ PairsOf(i)' = PairsOf(i)
      BY <1>5, <2>3 DEF CountSub
    <3> HIDE DEF SubUp, SubDown, PairsOf
    <3>3. Cardinality(SubUp(i)') = Cardinality(SubUp(i)) - 1
      BY <1>0, <3>1, OneLess
    <3> QED BY <1>0, <3>1, <3>2, <3>3
  <2>4. CASE at[t][1] = i /\ op[t] \notin Inserting
    <3>1. op[t] = "remove"
      BY <2>1, <2>4 DEF OpInv, OpOK, Inserting
    <3>2. SubDown(i)' = SubDown(i) \ {t} /\ t \in SubDown(i) /\ SubUp(i)' = SubUp(i)
      BY <1>5, <2>1, <2>4, <3>1 DEF CountSub, Inserting
    <3>3. subcount'[i] = subcount[i] - 1 /\ PairsOf(i)' = PairsOf(i)
      BY <1>5, <2>4 DEF CountSub
    <3> HIDE DEF SubUp, SubDown, PairsOf
    <3> QED BY <1>0, <3>2, <3>3, OneLess
  <2> QED BY <2>2, <2>3, <2>4
<1>6. ASSUME NEW t \in Thread, TestAndClear(t)
      PROVE  Goal
  <2>1. CASE pc'[t] # "deleted"
    BY <1>6, <2>1, <1>s DEF TestAndClear
  <2>2. CASE pc'[t] = "deleted"
    <3>1. /\ pc' = [pc EXCEPT ![t] = "deleted"] /\ UNCHANGED <<op, at, subcount>>
          /\ pc[t] = "clearing" /\ at[t] \in pairs /\ pairs' = pairs \ {at[t]}
      BY <1>6, <2>2 DEF TestAndClear
    <3>2. CASE at[t][1] # i
      BY <3>1, <3>2, <1>s
    <3>3. CASE at[t][1] = i
      <4>1. /\ SubDown(i)' = SubDown(i) \union {t} /\ t \notin SubDown(i)
            /\ SubUp(i)' = SubUp(i)
        BY <3>1, <3>3
      <4>2. PairsOf(i)' = PairsOf(i) \ {at[t]} /\ at[t] \in PairsOf(i)
        BY <3>1, <3>3
      <4> HIDE DEF SubUp, SubDown, PairsOf
      <4> QED BY <1>0, <3>1, <4>1, <4>2, OneMore, OneLess
    <3> QED BY <3>2, <3>3
  <2> QED BY <2>1, <2>2
<1>7. ASSUME NEW t \in Thread, CountDeleted(t)
      PROVE  Goal
  <2>1. at[t] \in Pair /\ at[t][1] \in Id /\ pc[t] = "deleted"
    BY <1>7, PairFacts DEF CountDeleted, OpInv, OpOK
  <2>2. CASE at[t][1] # i
    BY <1>7, <2>1, <2>2, <1>s DEF CountDeleted
  <2>3. CASE at[t][1] = i
    <3>1. SubDown(i)' = SubDown(i) \ {t} /\ t \in SubDown(i) /\ SubUp(i)' = SubUp(i)
      BY <1>7, <2>1, <2>3 DEF CountDeleted
    <3>2. subcount'[i] = subcount[i] - 1 /\ PairsOf(i)' = PairsOf(i)
      BY <1>7, <2>3 DEF CountDeleted
    <3> HIDE DEF SubUp, SubDown, PairsOf
    <3> QED BY <1>0, <3>1, <3>2, OneLess
  <2> QED BY <2>2, <2>3
<1> QED BY <1>1, <1>2, <1>3, <1>4, <1>5, <1>6, <1>7 DEF Next, Update, Delete

(* The counter of a sub-bitmap is the number of its pairs, but for the     *)
(* flips that are not yet counted.                                         *)
THEOREM SubInvariant == Spec => [](Base /\ SubInv)
<1>1. Init => SubInv
  BY InitSub
<1>2. Base /\ SubInv /\ [Next]_vars => SubInv'
  BY SubStep
<1> QED BY <1>1, <1>2, BaseInvariant, PTL DEF Spec

(* Once no operation on an id is under way, sub_count of it is the number  *)
(* of its pairs.                                                           *)
THEOREM SubCountExact == Spec => []SubCountExactWhenQuiet
<1>1. Base /\ SubInv => SubCountExactWhenQuiet
  <2> SUFFICES ASSUME Base, SubInv, NEW i \in Id, \A t \in Thread : ~Busy(t, i)
               PROVE  subcount[i] = Cardinality(PairsOf(i))
    BY DEF SubCountExactWhenQuiet
  <2>1. SubUp(i) = {} /\ SubDown(i) = {}
    BY DEF SubUp, SubDown, Busy
  <2>2. subcount[i] \in Int
    BY DEF Base, Typed
  <2>3. subcount[i] + Cardinality(SubUp(i)) - Cardinality(SubDown(i)) = Cardinality(PairsOf(i))
    BY DEF SubInv
  <2>4. Cardinality(PairsOf(i)) \in Nat
    BY Sizes DEF PairsOf, Base, Typed
  <2>5. subcount[i] + 0 - 0 = Cardinality(PairsOf(i))
    BY <2>1, <2>3, FS_EmptySet
  <2> QED BY <2>2, <2>5
<1> QED BY <1>1, SubInvariant, PTL

-----------------------------------------------------------------------------
(* The total: off by the flips not counted yet, and by what delete         *)
(* iterators have taken out, which is never counted.                       *)

NoDelete == \A t \in Thread : "delete" \notin OpsOf[t]

TotUp   == {t \in Thread : pc[t] \in {"subcount", "total"} /\ op[t] \in Inserting}
TotDown == {t \in Thread : pc[t] \in {"subcount", "total"} /\ op[t] = "remove"}

TotalInv ==
  /\ total + Cardinality(TotUp) - Cardinality(TotDown) >= Cardinality(pairs)
  /\ NoDelete => total + Cardinality(TotUp) - Cardinality(TotDown) = Cardinality(pairs)

(* The pair of an insertion stays in until the insertion has ended.        *)
Written ==
  \A t \in Thread : pc[t] \in {"subcount", "total", "primary"} /\ op[t] \in Inserting =>
    at[t] \in pairs

(* The tracker begins empty with its total at zero.                        *)
LEMMA InitTotal == Init => TotalInv /\ Written
<1> SUFFICES ASSUME Init PROVE TotalInv /\ Written
  OBVIOUS
<1>1. TotUp = {} /\ TotDown = {} /\ pairs = {} /\ total = 0
  BY DEF Init, TotUp, TotDown
<1>2. Written
  BY DEF Init, Written
<1> QED BY <1>1, <1>2, FS_EmptySet DEF TotalInv

(* Every step keeps the total in step with the pairs: each flip is counted *)
(* once, by the thread that made it.                                       *)
LEMMA TotalStep == Base /\ TotalInv /\ [Next]_vars => TotalInv'
<1> SUFFICES ASSUME Base, TotalInv, [Next]_vars
             PROVE  TotalInv'
  OBVIOUS
<1> DEFINE Same == /\ total' = total /\ TotUp' = TotUp /\ TotDown' = TotDown
                   /\ pairs' = pairs
<1>0. /\ total \in Int
      /\ IsFiniteSet(TotUp) /\ Cardinality(TotUp) \in Nat
      /\ IsFiniteSet(TotDown) /\ Cardinality(TotDown) \in Nat
      /\ IsFiniteSet(pairs) /\ Cardinality(pairs) \in Nat
      /\ NoDelete' = NoDelete
  <2>1. TotUp \subseteq Thread /\ TotDown \subseteq Thread /\ pairs \subseteq Pair
    BY DEF TotUp, TotDown, Base, Typed
  <2> QED BY <2>1, Sizes DEF Base, Typed, NoDelete
<1>s. Same => TotalInv'
  BY <1>0 DEF TotalInv
<1> USE DEF Base, Typed, Goto, Finish, Panic, TotUp, TotDown
<1>1. CASE UNCHANGED vars
  BY <1>1, <1>s DEF vars
<1>2. CASE ClearAll
  <2>1. total' = 0 /\ TotUp' = {} /\ TotDown' = {} /\ pairs' = {}
    BY <1>2 DEF ClearAll
  <2> HIDE DEF TotUp, TotDown
  <2> QED BY <2>1, FS_EmptySet DEF TotalInv
<1>3. ASSUME NEW t \in Thread,
             AddPair(t) \/ ClaimPair(t) \/ RemovePair(t) \/ OpenDelete(t) \/ CallNext(t)
             \/ DropDelete(t) \/ CountSub(t) \/ TestEmpty(t) \/ MarkPrimary(t) \/ Seek(t)
             \/ CountDeleted(t)
      PROVE  TotalInv'
  <2>1. CASE AddPair(t) \/ ClaimPair(t) \/ RemovePair(t)
    BY <2>1, <1>s DEF AddPair, ClaimPair, Insert, RemovePair, Begin
  <2>2. CASE OpenDelete(t) \/ CallNext(t) \/ DropDelete(t) \/ Seek(t) \/ CountDeleted(t)
    BY <2>2, <1>s DEF OpenDelete, CallNext, DropDelete, Seek, CountDeleted
  <2>3. CASE CountSub(t) \/ TestEmpty(t) \/ MarkPrimary(t)
    BY <2>3, <1>s DEF CountSub, TestEmpty, MarkPrimary
  <2> QED BY <1>3, <2>1, <2>2, <2>3
<1>4. ASSUME NEW t \in Thread, FlipBit(t)
      PROVE  TotalInv'
  <2>1. CASE pc'[t] # "subcount"
    <3>1. pairs' = pairs /\ (Panic(t) \/ Finish(t)) /\ total' = total /\ pc[t] = "bit"
      BY <1>4, <2>1 DEF FlipBit
    <3> QED BY <3>1, <1>s
  <2>2. CASE pc'[t] = "subcount"
    <3>1. /\ pc' = [pc EXCEPT ![t] = "subcount"] /\ UNCHANGED <<op, at, total>>
          /\ pc[t] = "bit" /\ pairs' # pairs
          /\ pairs' = IF op[t] \in Inserting THEN pairs \union {at[t]} ELSE pairs \ {at[t]}
      BY <1>4, <2>2 DEF FlipBit
    <3>2. CASE op[t] \in Inserting
      <4>1. TotUp' = TotUp \union {t} /\ t \notin TotUp /\ TotDown' = TotDown
        BY <3>1, <3>2 DEF Inserting
      <4>2. pairs' = pairs \union {at[t]} /\ at[t] \notin pairs
        BY <3>1, <3>2
      <4> HIDE DEF TotUp, TotDown
      <4>3. /\ Cardinality(TotUp') = Cardinality(TotUp) + 1
            /\ Cardinality(pairs') = Cardinality(pairs) + 1
        BY <1>0, <4>1, <4>2, OneMore
      <4> QED BY <1>0, <3>1, <4>1, <4>3 DEF TotalInv
    <3>3. CASE op[t] \notin Inserting
      <4>1. op[t] = "remove"
        BY <3>1, <3>3 DEF OpInv, OpOK, Inserting
      <4>2. TotDown' = TotDown \union {t} /\ t \notin TotDown /\ TotUp' = TotUp
        BY <3>1, <4>1 DEF Inserting
      <4>3. pairs' = pairs \ {at[t]} /\ at[t] \in pairs
        BY <3>1, <3>3
      <4> HIDE DEF TotUp, TotDown
      <4>4. /\ Cardinality(TotDown') = Cardinality(TotDown) + 1
            /\ Cardinality(pairs') = Cardinality(pairs) - 1
        BY <1>0, <4>2, <4>3, OneMore, OneLess
      <4> QED BY <1>0, <3>1, <4>2, <4>4 DEF TotalInv
    <3> QED BY <3>2, <3>3
  <2> QED BY <2>1, <2>2
<1>5. ASSUME NEW t \in Thread, CountTotal(t)
      PROVE  TotalInv'
  <2>1. pc[t] = "total" /\ pairs' = pairs
    BY <1>5 DEF CountTotal
  <2>2. CASE op[t] \in Inserting
    <3>1. TotUp' = TotUp \ {t} /\ t \in TotUp /\ TotDown' = TotDown
      BY <1>5, <2>1, <2>2 DEF CountTotal, Inserting
    <3>2. total' = total + 1
      BY <1>5, <2>2 DEF CountTotal
    <3> HIDE DEF TotUp, TotDown
    <3>3. Cardinality(TotUp') = Cardinality(TotUp) - 1
      BY <1>0, <3>1, OneLess
    <3>4. Cardinality(TotDown') = Cardinality(TotDown) /\ Cardinality(pairs') = Cardinality(pairs)
      BY <2>1, <3>1
    <3> QED BY <1>0, <3>2, <3>3, <3>4 DEF TotalInv
  <2>3. CASE op[t] \notin Inserting
    <3>1. op[t] = "remove"
      BY <2>1, <2>3 DEF OpInv, OpOK, Inserting
    <3>2. TotDown' = TotDown \ {t} /\ t \in TotDown /\ TotUp' = TotUp
      BY <1>5, <2>1, <3>1 DEF CountTotal, Inserting
    <3>3. total' = total - 1
      BY <1>5, <2>3 DEF CountTotal
    <3> HIDE DEF TotUp, TotDown
    <3>4. Cardinality(TotDown') = Cardinality(TotDown) - 1
      BY <1>0, <3>2, OneLess
    <3>5. Cardinality(TotUp') = Cardinality(TotUp) /\ Cardinality(pairs') = Cardinality(pairs)
      BY <2>1, <3>2
    <3> QED BY <1>0, <3>3, <3>4, <3>5 DEF TotalInv
  <2> QED BY <2>2, <2>3
<1>6. ASSUME NEW t \in Thread, TestAndClear(t)
      PROVE  TotalInv'
  <2>1. total' = total /\ TotUp' = TotUp /\ TotDown' = TotDown
    BY <1>6 DEF TestAndClear
  <2>2. ~NoDelete
    BY <1>6 DEF TestAndClear, OpInv, OpOK, NoDelete
  <2>3. pairs' \subseteq pairs
    BY <1>6 DEF TestAndClear
  <2> HIDE DEF TotUp, TotDown
  <2>4. Cardinality(pairs') \in Nat /\ Cardinality(pairs') <= Cardinality(pairs)
    BY <1>0, <2>3, FS_Subset, FS_CardinalityType
  <2> QED BY <1>0, <2>1, <2>2, <2>4 DEF TotalInv
<1> QED BY <1>1, <1>2, <1>3, <1>4, <1>5, <1>6 DEF Next, Update, Delete

(* Nobody takes out a pair whose insertion is still under way.             *)
LEMMA WrittenStep == Base /\ Written /\ [Next]_vars => Written'
<1> SUFFICES ASSUME Base, Written, [Next]_vars,
                    NEW u \in Thread,
                    pc'[u] \in {"subcount", "total", "primary"}, op'[u] \in Inserting
             PROVE  at'[u] \in pairs'
  BY DEF Written
<1> USE DEF Base, Typed, Goto, Finish, Panic
<1>1. CASE UNCHANGED vars
  BY <1>1 DEF vars, Written
<1>2. CASE ClearAll
  BY <1>2 DEF ClearAll
<1>3. ASSUME NEW t \in Thread, AddPair(t) \/ ClaimPair(t) \/ RemovePair(t)
      PROVE  at'[u] \in pairs'
  BY <1>3 DEF AddPair, ClaimPair, Insert, RemovePair, Begin, Written
<1>4. ASSUME NEW t \in Thread, FlipBit(t)
      PROVE  at'[u] \in pairs'
  <2>1. CASE u = t
    BY <1>4, <2>1 DEF FlipBit
  <2>2. CASE u # t
    <3>1. pc[u] \in {"subcount", "total", "primary"} /\ op[u] \in Inserting /\ at[u] \in pairs
      BY <1>4, <2>2 DEF FlipBit, Written
    <3>2. at[t] # at[u]
      BY <1>4, <2>2, <3>1 DEF FlipBit, Exclusive, Locks
    <3> QED BY <1>4, <2>2, <3>1, <3>2 DEF FlipBit
  <2> QED BY <2>1, <2>2
<1>5. ASSUME NEW t \in Thread, CountSub(t) \/ CountTotal(t) \/ TestEmpty(t) \/ MarkPrimary(t)
      PROVE  at'[u] \in pairs'
  <2>1. CASE CountSub(t) \/ CountTotal(t)
    BY <2>1 DEF CountSub, CountTotal, Written
  <2>2. CASE TestEmpty(t) \/ MarkPrimary(t)
    BY <2>2 DEF TestEmpty, MarkPrimary, Written, OpInv, OpOK, Inserting
  <2> QED BY <1>5, <2>1, <2>2
<1>6. ASSUME NEW t \in Thread, OpenDelete(t) \/ CallNext(t) \/ DropDelete(t) \/ Seek(t)
                               \/ CountDeleted(t)
      PROVE  at'[u] \in pairs'
  BY <1>6 DEF OpenDelete, CallNext, DropDelete, Seek, CountDeleted, Written
<1>7. ASSUME NEW t \in Thread, TestAndClear(t)
      PROVE  at'[u] \in pairs'
  <2>1. u # t /\ pc[t] = "clearing"
    BY <1>7 DEF TestAndClear
  <2>2. pc[u] \in {"subcount", "total", "primary"} /\ op[u] \in Inserting /\ at[u] \in pairs
    BY <1>7, <2>1 DEF TestAndClear, Written
  <2>3. at[t] # at[u]
    BY <2>1, <2>2 DEF Exclusive, Locks
  <2> QED BY <1>7, <2>1, <2>2, <2>3 DEF TestAndClear
<1> QED BY <1>1, <1>2, <1>3, <1>4, <1>5, <1>6, <1>7 DEF Next, Update, Delete

(* The total is the number of pairs, but for the flips not yet counted and *)
(* the pairs that delete iterators took out.                               *)
THEOREM TotalInvariant == Spec => [](Base /\ SubInv /\ TotalInv /\ Written)
<1>1. Init => TotalInv /\ Written
  BY InitTotal
<1>2. Base /\ TotalInv /\ Written /\ [Next]_vars => TotalInv' /\ Written'
  BY TotalStep, WrittenStep
<1> QED BY <1>1, <1>2, SubInvariant, PTL DEF Spec

(* Without delete iterators count() is the number of pairs once no         *)
(* operation is under way.                                                 *)
THEOREM TotalExact ==
  ASSUME NoDelete
  PROVE  Spec => []TotalExactWhenQuiet
<1>1. Base /\ TotalInv => TotalExactWhenQuiet
  <2> SUFFICES ASSUME Base, TotalInv, \A t \in Thread : pc[t] \in {"idle", "panicked"}
               PROVE  total = Cardinality(pairs)
    BY DEF TotalExactWhenQuiet
  <2>1. TotUp = {} /\ TotDown = {}
    BY DEF TotUp, TotDown
  <2>2. total + Cardinality(TotUp) - Cardinality(TotDown) = Cardinality(pairs)
    BY NoDelete DEF TotalInv
  <2>3. total + 0 - 0 = Cardinality(pairs) /\ total \in Int
    BY <2>1, <2>2, FS_EmptySet DEF Base, Typed
  <2> QED BY <2>3
<1> QED BY <1>1, TotalInvariant, PTL

(* Insertions in progress are at different pairs, which are all in.        *)
LEMMA FewerThanWritten ==
  ASSUME Base, Written, NEW S \in SUBSET TotUp, NEW T \in SUBSET Pair,
         \A t \in S : at[t] \in pairs => at[t] \in T
  PROVE  Cardinality(S) <= Cardinality(T)
<1> DEFINE f == [t \in S |-> at[t]]
<1>1. \A t \in S : at[t] \in T
  BY DEF Written, TotUp
<1>2. ASSUME NEW t \in S, NEW u \in S, at[t] = at[u]
      PROVE  t = u
  BY <1>2 DEF Base, Exclusive, Locks, TotUp
<1>3. f \in Injection(S, T)
  BY <1>1, <1>2 DEF Injection, IsInjective
<1>4. IsFiniteSet(T)
  BY Sizes
<1> QED BY <1>3, <1>4, FS_Injection

(* Every variable keeps its type, and no counter ever goes below zero: an  *)
(* insertion holds its shard until it has been counted, so no removal of   *)
(* the same pair is counted first.                                         *)
THEOREM TypeCorrect == Spec => []TypeOK
<1>1. Base /\ SubInv /\ TotalInv /\ Written => TypeOK
  <2> SUFFICES ASSUME Base, SubInv, TotalInv, Written
               PROVE  TypeOK
    OBVIOUS
  <2>1. total >= 0
    <3>1. Cardinality(TotUp) <= Cardinality(pairs)
      BY FewerThanWritten DEF Base, Typed
    <3>2. /\ Cardinality(TotUp) \in Nat /\ Cardinality(TotDown) \in Nat
          /\ Cardinality(pairs) \in Nat /\ total \in Int
      BY Sizes DEF Base, Typed, TotUp, TotDown
    <3> QED BY <3>1, <3>2 DEF TotalInv
  <2>2. ASSUME NEW i \in Id
        PROVE  subcount[i] >= 0
    <3>1. SubUp(i) \in SUBSET TotUp /\ PairsOf(i) \in SUBSET Pair
      BY DEF SubUp, TotUp, PairsOf, Base, Typed
    <3>2. \A t \in SubUp(i) : at[t] \in pairs => at[t] \in PairsOf(i)
      BY DEF SubUp, PairsOf
    <3>3. Cardinality(SubUp(i)) <= Cardinality(PairsOf(i))
      BY <3>1, <3>2, FewerThanWritten
    <3>4. /\ Cardinality(SubUp(i)) \in Nat /\ Cardinality(SubDown(i)) \in Nat
          /\ Cardinality(PairsOf(i)) \in Nat /\ subcount[i] \in Int
      BY <3>1, Sizes DEF Base, Typed, SubUp, SubDown
    <3>5. subcount[i] + Cardinality(SubUp(i)) - Cardinality(SubDown(i)) = Cardinality(PairsOf(i))
      BY DEF SubInv
    <3> QED BY <3>3, <3>4, <3>5
  <2>3. subcount \in [Id -> Nat] /\ total \in Nat
    BY <2>1, <2>2 DEF Base, Typed
  <2> QED BY <2>3 DEF Base, Typed, TypeOK
<1> QED BY <1>1, TotalInvariant, PTL

-----------------------------------------------------------------------------
(* The primary bits                                                        *)

WithinCapacity == \A i \in primary : i < PrimaryCapacity

(* An id with pairs lacks its bit only while an insertion is to set it.    *)
Setter(t, i) == pc[t] \in {"subcount", "total", "primary"} /\ op[t] \in Inserting /\ at[t][1] = i
Marked ==
  \A i \in Id : i < PrimaryCapacity /\ PairsOf(i) # {} /\ i \notin primary =>
    \E t \in Thread : Setter(t, i)

(* A removal that is to clear a bit has seen the last pair go, and no pair *)
(* comes in before it is done.                                             *)
Cleared == \A t \in Thread : pc[t] = "primary" /\ op[t] = "remove" => PairsOf(at[t][1]) = {}

(* An id without pairs has its bit only while a removal is to look at it.  *)
Clearer(t, i) == pc[t] \in {"subcount", "total", "empty", "primary"} /\ op[t] = "remove"
                 /\ at[t][1] = i
Unmarked ==
  NoDelete => \A i \in Id : i \in primary /\ PairsOf(i) = {} => \E t \in Thread : Clearer(t, i)

PrimaryInv == WithinCapacity /\ Marked /\ Cleared /\ Unmarked

(* At the beginning no id has pairs and none its primary bit.              *)
LEMMA InitPrimary == Init => PrimaryInv
BY DEF Init, PrimaryInv, WithinCapacity, Marked, Cleared, Unmarked, PairsOf

(* An id is within the primary capacity or past it.                        *)
LEMMA CapacityFacts ==
  PrimaryCapacity \in Int /\ \A i \in Id : i \in Int /\ (i < PrimaryCapacity <=> ~(i >= PrimaryCapacity))
<1>1. PrimaryCapacity \in Int
  BY HierAssumption DEF PrimaryCapacity, RoundUp
<1>2. Id \subseteq Int
  BY HierAssumption DEF Id
<1> QED BY <1>1, <1>2

(* No bit past the primary capacity is ever set: such an id panics.        *)
LEMMA CapacityStep == Base /\ WithinCapacity /\ [Next]_vars => WithinCapacity'
<1> SUFFICES ASSUME Base, WithinCapacity, [Next]_vars
             PROVE  WithinCapacity'
  OBVIOUS
<1>1. \/ primary' \subseteq primary
      \/ \E t \in Thread : at[t][1] < PrimaryCapacity /\ primary' = primary \union {at[t][1]}
  <2>1. ASSUME NEW t \in Thread, MarkPrimary(t)
        PROVE  \/ primary' \subseteq primary
               \/ at[t][1] < PrimaryCapacity /\ primary' = primary \union {at[t][1]}
    <3>1. at[t][1] \in Int /\ PrimaryCapacity \in Int
      BY HierAssumption DEF Base, Typed, PrimaryCapacity, RoundUp
    <3> QED BY <2>1, <3>1 DEF MarkPrimary
  <2> QED BY <2>1 DEF Next, Update, Delete, vars, ClearAll, AddPair, ClaimPair, Insert, RemovePair,
       FlipBit, CountSub, CountTotal, TestEmpty, OpenDelete, CallNext, Seek, TestAndClear,
       CountDeleted, DropDelete
<1> QED BY <1>1 DEF WithinCapacity

(* While a removal of i is under way nobody inserts a pair of i.           *)
LEMMA RemovalExcludesInsertion ==
  ASSUME Base, NEW t \in Thread, NEW u \in Thread, NEW i,
         at[t][1] = i, op[t] = "remove", pc[t] \in {"bit", "subcount", "total", "empty", "primary"},
         at[u][1] = i, op[u] \in Inserting
  PROVE  pc[u] \notin {"bit", "subcount", "total", "primary"}
BY DEF Base, Exclusive, Locks, Inserting

(* When remove_pair tests is_empty no insertion is under way, so a counter *)
(* of zero means no pairs, and no pairs with a counter above zero means    *)
(* another removal has yet to count and will test in its turn.             *)
LEMMA EmptyMeansEmpty ==
  ASSUME Base, SubInv, NEW t \in Thread, pc[t] = "empty", NEW i, i = at[t][1]
  PROVE  /\ SubUp(i) = {}
         /\ subcount[i] = 0 => PairsOf(i) = {}
         /\ PairsOf(i) = {} /\ subcount[i] # 0 => SubDown(i) # {}
<1>1. op[t] = "remove" /\ i \in Id
  BY PairFacts DEF Base, OpInv, OpOK
<1>2. SubUp(i) = {}
  BY <1>1, RemovalExcludesInsertion DEF SubUp
<1>3. /\ IsFiniteSet(SubDown(i)) /\ Cardinality(SubDown(i)) \in Nat
      /\ IsFiniteSet(PairsOf(i)) /\ Cardinality(PairsOf(i)) \in Nat
      /\ subcount[i] \in Int
  <2>1. SubDown(i) \subseteq Thread /\ PairsOf(i) \subseteq Pair
    BY DEF SubDown, PairsOf, Base, Typed
  <2> QED BY <1>1, <2>1, Sizes DEF Base, Typed
<1>4. subcount[i] + 0 - Cardinality(SubDown(i)) = Cardinality(PairsOf(i))
  BY <1>1, <1>2, FS_EmptySet DEF SubInv
<1>5. subcount[i] = 0 => Cardinality(PairsOf(i)) = 0
  BY <1>3, <1>4
<1>6. PairsOf(i) = {} /\ subcount[i] # 0 => Cardinality(SubDown(i)) # 0
  BY <1>3, <1>4, FS_EmptySet
<1> QED BY <1>2, <1>3, <1>5, <1>6, FS_EmptySet

(* From the moment a removal has found the sub-bitmap empty to the         *)
(* clearing of the primary bit, no pair of that id comes in.               *)
LEMMA ClearedStep == Base /\ SubInv /\ Cleared /\ [Next]_vars => Cleared'
<1> SUFFICES ASSUME Base, SubInv, Cleared, [Next]_vars,
                    NEW u \in Thread, pc'[u] = "primary", op'[u] = "remove"
             PROVE  \A p \in pairs' : p[1] # at'[u][1]
  BY DEF Cleared, PairsOf
<1> USE DEF Base, Typed, Goto, Finish, Panic, PairsOf
<1>1. CASE UNCHANGED vars
  BY <1>1 DEF vars, Cleared
<1>2. CASE ClearAll
  BY <1>2 DEF ClearAll
<1>3. ASSUME NEW t \in Thread, AddPair(t) \/ ClaimPair(t) \/ RemovePair(t)
      PROVE  \A p \in pairs' : p[1] # at'[u][1]
  BY <1>3 DEF AddPair, ClaimPair, Insert, RemovePair, Begin, Cleared
<1>4. ASSUME NEW t \in Thread, FlipBit(t)
      PROVE  \A p \in pairs' : p[1] # at'[u][1]
  <2>1. u # t
    BY <1>4 DEF FlipBit
  <2>2. /\ pc[u] = "primary" /\ op[u] = "remove" /\ PairsOf(at[u][1]) = {}
        /\ at'[u] = at[u]
    BY <1>4, <2>1 DEF FlipBit, Cleared
  <2>3. pairs' \subseteq pairs \/ (op[t] \in Inserting /\ pairs' = pairs \union {at[t]})
    BY <1>4 DEF FlipBit
  <2>4. op[t] \in Inserting => at[t][1] # at[u][1]
    BY <1>4, <2>2, RemovalExcludesInsertion DEF FlipBit
  <2> QED BY <2>2, <2>3, <2>4
<1>5. ASSUME NEW t \in Thread, CountSub(t) \/ CountTotal(t) \/ MarkPrimary(t)
      PROVE  \A p \in pairs' : p[1] # at'[u][1]
  BY <1>5 DEF CountSub, CountTotal, MarkPrimary, Cleared, Inserting
<1>6. ASSUME NEW t \in Thread, TestEmpty(t)
      PROVE  \A p \in pairs' : p[1] # at'[u][1]
  <2>1. CASE u = t
    <3>1. pc[t] = "empty" /\ subcount[at[t][1]] = 0 /\ UNCHANGED <<at, pairs>>
      BY <1>6, <2>1 DEF TestEmpty
    <3>2. PairsOf(at[t][1]) = {}
      BY <3>1, EmptyMeansEmpty
    <3> QED BY <2>1, <3>1, <3>2
  <2>2. CASE u # t
    BY <1>6, <2>2 DEF TestEmpty, Cleared
  <2> QED BY <2>1, <2>2
<1>7. ASSUME NEW t \in Thread, OpenDelete(t) \/ CallNext(t) \/ DropDelete(t) \/ Seek(t)
                               \/ CountDeleted(t)
      PROVE  \A p \in pairs' : p[1] # at'[u][1]
  <2>1. pairs' = pairs
    BY <1>7 DEF OpenDelete, CallNext, DropDelete, Seek, CountDeleted
  <2>2. u # t /\ pc[u] = "primary" /\ op[u] = "remove" /\ at'[u] = at[u]
    BY <1>7 DEF OpenDelete, CallNext, DropDelete, Seek, CountDeleted
  <2> QED BY <2>1, <2>2 DEF Cleared
<1>8. ASSUME NEW t \in Thread, TestAndClear(t)
      PROVE  \A p \in pairs' : p[1] # at'[u][1]
  <2>1. u # t /\ pairs' \subseteq pairs
    BY <1>8 DEF TestAndClear, OpInv, OpOK
  <2>2. pc[u] = "primary" /\ op[u] = "remove" /\ at'[u] = at[u]
    BY <1>8, <2>1 DEF TestAndClear
  <2> QED BY <2>1, <2>2 DEF Cleared
<1> QED BY <1>1, <1>2, <1>3, <1>4, <1>5, <1>6, <1>7, <1>8 DEF Next, Update, Delete

(* An id that gets its first pair gets its primary bit before the          *)
(* insertion ends, and keeps it while it has pairs.                        *)
LEMMA MarkedStep == Base /\ Cleared /\ Marked /\ [Next]_vars => Marked'
<1> SUFFICES ASSUME Base, Cleared, Marked, [Next]_vars,
                    NEW i \in Id, i < PrimaryCapacity, PairsOf(i)' # {}, i \notin primary'
             PROVE  \E t \in Thread : Setter(t, i)'
  BY DEF Marked
<1> USE DEF Base, Typed, Goto, Finish, Panic, PairsOf, Setter
<1>1. CASE UNCHANGED vars
  BY <1>1 DEF vars, Marked
<1>2. CASE ClearAll
  BY <1>2 DEF ClearAll
<1>3. ASSUME NEW t \in Thread, AddPair(t) \/ ClaimPair(t) \/ RemovePair(t)
      PROVE  \E w \in Thread : Setter(w, i)'
  <2>1. PICK w \in Thread : Setter(w, i)
    BY <1>3 DEF AddPair, ClaimPair, Insert, RemovePair, Marked
  <2>2. w # t
    BY <1>3, <2>1 DEF AddPair, ClaimPair, Insert, RemovePair, Begin
  <2> QED BY <1>3, <2>1, <2>2 DEF AddPair, ClaimPair, Insert, RemovePair, Begin
<1>4. ASSUME NEW t \in Thread, FlipBit(t)
      PROVE  \E w \in Thread : Setter(w, i)'
  <2>1. CASE PairsOf(i) # {}
    <3>1. PICK w \in Thread : Setter(w, i)
      BY <1>4, <2>1 DEF FlipBit, Marked
    <3>2. w # t
      BY <1>4, <3>1 DEF FlipBit
    <3> QED BY <1>4, <3>1, <3>2 DEF FlipBit
  <2>2. CASE PairsOf(i) = {}
    <3>1. /\ op[t] \in Inserting /\ at[t][1] = i /\ pc' = [pc EXCEPT ![t] = "subcount"]
          /\ UNCHANGED <<op, at>>
      BY <1>4, <2>2 DEF FlipBit
    <3> QED BY <3>1
  <2> QED BY <2>1, <2>2
<1>5. ASSUME NEW t \in Thread, CountSub(t) \/ CountTotal(t) \/ TestEmpty(t)
      PROVE  \E w \in Thread : Setter(w, i)'
  <2>1. PICK w \in Thread : Setter(w, i)
    BY <1>5 DEF CountSub, CountTotal, TestEmpty, Marked
  <2>2. Setter(w, i)'
    BY <1>5, <2>1 DEF CountSub, CountTotal, TestEmpty
  <2> QED BY <2>2
<1>6. ASSUME NEW t \in Thread, MarkPrimary(t)
      PROVE  \E w \in Thread : Setter(w, i)'
  <2>1. i \notin primary
    <3> SUFFICES ASSUME i \in primary PROVE FALSE
      OBVIOUS
    <3>1. op[t] \notin Inserting /\ at[t][1] = i /\ pc[t] = "primary" /\ pairs' = pairs
      BY <1>6 DEF MarkPrimary
    <3>2. op[t] = "remove"
      BY <3>1 DEF OpInv, OpOK, Inserting
    <3> QED BY <3>1, <3>2 DEF Cleared
  <2>2. PICK w \in Thread : Setter(w, i)
    BY <1>6, <2>1 DEF MarkPrimary, Marked
  <2>3. w # t
    <3> SUFFICES ASSUME w = t PROVE FALSE
      OBVIOUS
    <3>1. ~(i >= PrimaryCapacity)
      BY CapacityFacts
    <3>2. i \in primary'
      BY <1>6, <2>2, <3>1 DEF MarkPrimary
    <3> QED BY <3>2
  <2> QED BY <1>6, <2>2, <2>3 DEF MarkPrimary
<1>7. ASSUME NEW t \in Thread, OpenDelete(t) \/ CallNext(t) \/ DropDelete(t) \/ Seek(t)
                               \/ TestAndClear(t) \/ CountDeleted(t)
      PROVE  \E w \in Thread : Setter(w, i)'
  <2>1. pairs' \subseteq pairs /\ primary' = primary
    BY <1>7 DEF OpenDelete, CallNext, DropDelete, Seek, TestAndClear, CountDeleted
  <2>2. PICK w \in Thread : Setter(w, i)
    BY <2>1 DEF Marked
  <2>3. pc[t] \notin {"subcount", "total", "primary"}
    BY <1>7 DEF OpenDelete, CallNext, DropDelete, Seek, TestAndClear, CountDeleted
  <2>4. w # t
    BY <2>2, <2>3
  <2> QED BY <1>7, <2>2, <2>4
       DEF OpenDelete, CallNext, DropDelete, Seek, TestAndClear, CountDeleted
<1> QED BY <1>1, <1>2, <1>3, <1>4, <1>5, <1>6, <1>7 DEF Next, Update, Delete

(* Of the removals that take an id's last pairs, the last to count finds   *)
(* the sub-bitmap empty and clears the primary bit.                        *)
LEMMA UnmarkedStep ==
  Base /\ SubInv /\ Written /\ WithinCapacity /\ Unmarked /\ [Next]_vars => Unmarked'
<1> SUFFICES ASSUME Base, SubInv, Written, WithinCapacity, Unmarked, [Next]_vars, NoDelete,
                    NEW i \in Id, i \in primary', PairsOf(i)' = {}
             PROVE  \E t \in Thread : Clearer(t, i)'
  BY DEF Unmarked, NoDelete
<1> USE DEF Base, Typed, Goto, Finish, Panic, PairsOf, Clearer
<1>1. CASE UNCHANGED vars
  BY <1>1 DEF vars, Unmarked
<1>2. CASE ClearAll
  BY <1>2 DEF ClearAll
<1>3. ASSUME NEW t \in Thread, AddPair(t) \/ ClaimPair(t) \/ RemovePair(t)
      PROVE  \E w \in Thread : Clearer(w, i)'
  <2>1. PICK w \in Thread : Clearer(w, i)
    BY <1>3 DEF AddPair, ClaimPair, Insert, RemovePair, Unmarked
  <2>2. w # t
    BY <1>3, <2>1 DEF AddPair, ClaimPair, Insert, RemovePair, Begin
  <2> QED BY <1>3, <2>1, <2>2 DEF AddPair, ClaimPair, Insert, RemovePair, Begin
<1>4. ASSUME NEW t \in Thread, FlipBit(t)
      PROVE  \E w \in Thread : Clearer(w, i)'
  <2>1. CASE PairsOf(i) = {}
    <3>1. PICK w \in Thread : Clearer(w, i)
      BY <1>4, <2>1 DEF FlipBit, Unmarked
    <3>2. w # t
      BY <1>4, <3>1 DEF FlipBit
    <3> QED BY <1>4, <3>1, <3>2 DEF FlipBit
  <2>2. CASE PairsOf(i) # {}
    <3>1. /\ op[t] \notin Inserting /\ at[t][1] = i /\ pc' = [pc EXCEPT ![t] = "subcount"]
          /\ UNCHANGED <<op, at>> /\ pc[t] = "bit"
      BY <1>4, <2>2 DEF FlipBit
    <3>2. op[t] = "remove"
      BY <3>1 DEF OpInv, OpOK, Inserting
    <3> QED BY <3>1, <3>2
  <2> QED BY <2>1, <2>2
<1>5. ASSUME NEW t \in Thread, CountSub(t) \/ CountTotal(t)
      PROVE  \E w \in Thread : Clearer(w, i)'
  <2>1. PICK w \in Thread : Clearer(w, i)
    BY <1>5 DEF CountSub, CountTotal, Unmarked
  <2>2. Clearer(w, i)'
    BY <1>5, <2>1 DEF CountSub, CountTotal, Inserting
  <2> QED BY <2>2
<1>6. ASSUME NEW t \in Thread, TestEmpty(t)
      PROVE  \E w \in Thread : Clearer(w, i)'
  <2>1. PICK w \in Thread : Clearer(w, i)
    BY <1>6 DEF TestEmpty, Unmarked
  <2>2. CASE w # t \/ subcount[i] = 0
    <3>1. Clearer(w, i)'
      BY <1>6, <2>1, <2>2 DEF TestEmpty
    <3> QED BY <3>1
  <2>3. CASE w = t /\ subcount[i] # 0
    <3>1. pc[t] = "empty" /\ at[t][1] = i /\ PairsOf(i) = {}
      BY <1>6, <2>1, <2>3 DEF TestEmpty
    <3>2. SubDown(i) # {}
      BY <2>3, <3>1, EmptyMeansEmpty
    <3>3. PICK v \in Thread : ((pc[v] = "subcount" /\ op[v] = "remove") \/ pc[v] = "deleted")
                              /\ at[v][1] = i
      BY <3>2 DEF SubDown
    <3>4. pc[v] = "subcount" /\ op[v] = "remove" /\ v # t
      BY <3>1, <3>3, NoDelete DEF OpInv, OpOK, NoDelete
    <3> QED BY <1>6, <3>3, <3>4 DEF TestEmpty
  <2> QED BY <2>2, <2>3
<1>7. ASSUME NEW t \in Thread, MarkPrimary(t)
      PROVE  \E w \in Thread : Clearer(w, i)'
  <2>1. PairsOf(i) = {}
    BY <1>7 DEF MarkPrimary
  <2>2. i \in primary
    <3> SUFFICES ASSUME i \notin primary PROVE FALSE
      OBVIOUS
    <3>1. at[t][1] = i /\ op[t] \in Inserting /\ pc[t] = "primary"
      BY <1>7 DEF MarkPrimary
    <3>2. at[t] \in pairs
      BY <3>1 DEF Written
    <3> QED BY <2>1, <3>1, <3>2
  <2>3. PICK w \in Thread : Clearer(w, i)
    BY <2>1, <2>2 DEF Unmarked
  <2>4. w # t
    <3> SUFFICES ASSUME w = t PROVE FALSE
      OBVIOUS
    <3>1. ~(i >= PrimaryCapacity)
      BY <2>2, CapacityFacts DEF WithinCapacity
    <3>2. i \notin primary'
      BY <1>7, <2>3, <3>1 DEF MarkPrimary, Inserting
    <3> QED BY <3>2
  <2> QED BY <1>7, <2>3, <2>4 DEF MarkPrimary
<1>8. ASSUME NEW t \in Thread, Delete(t)
      PROVE  \E w \in Thread : Clearer(w, i)'
  BY <1>8, NoDelete DEF Delete, OpenDelete, CallNext, DropDelete, Seek, TestAndClear, CountDeleted,
       OpInv, OpOK, NoDelete
<1> QED BY <1>1, <1>2, <1>3, <1>4, <1>5, <1>6, <1>7, <1>8 DEF Next, Update

(* What the primary bits mean, with the operations in progress taken into  *)
(* account, holds throughout.                                              *)
THEOREM PrimaryInvariant == Spec => [](Base /\ PrimaryInv)
<1>1. Base /\ SubInv /\ Written /\ PrimaryInv /\ [Next]_vars => PrimaryInv'
  BY CapacityStep, ClearedStep, MarkedStep, UnmarkedStep DEF PrimaryInv
<1> QED BY <1>1, InitPrimary, TotalInvariant, PTL DEF Spec

(* Even beside delete iterators no id with pairs is without its primary    *)
(* bit once no operation on it is under way.                               *)
THEOREM NoIdIsUnmarked == Spec => []NoIdUnmarked
<1>1. Base /\ PrimaryInv => NoIdUnmarked
  BY DEF PrimaryInv, Marked, Setter, NoIdUnmarked, Busy
<1> QED BY <1>1, PrimaryInvariant, PTL

(* Without delete iterators the primary bitmap is exactly the set of ids   *)
(* that have pairs.                                                        *)
THEOREM PrimaryMarks ==
  ASSUME NoDelete
  PROVE  Spec => []PrimaryMarksIds
<1>1. Base /\ PrimaryInv => PrimaryMarksIds
  BY NoDelete DEF PrimaryInv, Marked, Setter, Unmarked, Clearer, PrimaryMarksIds, Busy
<1> QED BY <1>1, PrimaryInvariant, PTL
-----------------------------------------------------------------------------
(* Delete iterators: what they still look for is ahead of them             *)

(* Every pair is of an id that has a sub-bitmap, within the limits that    *)
(* insertions accept and delete iterators go up to.                        *)
PairsReachable ==
  /\ \A p \in pairs : p[1] \in made /\ Accepted(p) /\ p[2] < DeleteSubMax
  /\ \A t \in Thread : pc[t] = "bit" /\ op[t] \in Inserting =>
       at[t][1] \in made /\ Accepted(at[t])

Ahead(p, q) == q[1] < p[1] \/ (q[1] = p[1] /\ q[2] <= p[2])

KeptAhead(t) ==
  /\ kept[t] \subseteq pairs
  /\ op[t] # "delete" => kept[t] = {}
  /\ op[t] = "delete" => \A p \in kept[t] : Ahead(p, at[t])
  /\ pc[t] = "deleted" => at[t] \notin kept[t]
  /\ pc[t] = "idle" => at[t] = <<0, 0>>
  /\ pc[t] = "ended" => at[t][1] >= EffectiveMaxId

DeleteInv == PairsReachable /\ \A t \in Thread : KeptAhead(t)

(* The limits are natural numbers; a pair that an insertion accepts and    *)
(* whose bit is within its sub-bitmap is one a delete iterator gets to.    *)
LEMMA LimitFacts ==
  /\ PrimaryCapacity \in Nat /\ SubCapacity \in Nat
  /\ EffectiveMaxId \in Nat /\ DeleteSubMax \in Nat
  /\ \A p \in Pair : Accepted(p) /\ ~(p[2] >= SubCapacity) => p[2] < DeleteSubMax
<1>1. \A n \in Nat : RoundUp(n) \in Nat
  <2> SUFFICES ASSUME NEW n \in Nat PROVE RoundUp(n) \in Nat
    OBVIOUS
  <2>0. B \in Nat /\ B > 0
    BY HierAssumption
  <2>1. (n + B - 1) \div B \in Nat
    BY <2>0
  <2>2. \A k \in Nat : B * k \in Nat
    BY <2>0
  <2> QED BY <2>0, <2>1, <2>2 DEF RoundUp
<1>2. PrimaryCapacity \in Nat /\ SubCapacity \in Nat
  <2>1. (IF MaxId = None THEN InitialCap ELSE MaxId) \in Nat
    BY HierAssumption
  <2>2. (IF MaxSub = None \/ MaxSub > SubLimit THEN SubLimit ELSE MaxSub) \in Nat
    BY HierAssumption
  <2> QED BY <1>1, <2>1, <2>2 DEF PrimaryCapacity, SubCapacity
<1>3. EffectiveMaxId \in Nat /\ DeleteSubMax \in Nat
  BY <1>2, HierAssumption DEF EffectiveMaxId, DeleteSubMax
<1>4. ASSUME NEW p \in Pair, Accepted(p), ~(p[2] >= SubCapacity)
      PROVE  p[2] < DeleteSubMax
  <2>1. p[2] \in Nat
    BY PairFacts
  <2> QED BY <1>2, <1>4, <2>1, HierAssumption DEF Accepted, DeleteSubMax
<1> QED BY <1>2, <1>3, <1>4

(* Going on to the next sub-id passes the pair itself only, and going on   *)
(* to the next id passes the pairs of this one only.                       *)
LEMMA AheadOfNext ==
  ASSUME NEW p \in Nat \X Nat, NEW q \in Nat \X Nat, Ahead(p, q)
  PROVE  /\ p # q => Ahead(p, <<q[1], q[2] + 1>>)
         /\ p[1] # q[1] \/ p[2] < q[2] => Ahead(p, <<q[1] + 1, 0>>)
<1>1. p = <<p[1], p[2]>> /\ p[1] \in Nat /\ p[2] \in Nat
  OBVIOUS
<1>2. q = <<q[1], q[2]>> /\ q[1] \in Nat /\ q[2] \in Nat
  OBVIOUS
<1>3. ASSUME p # q
      PROVE  Ahead(p, <<q[1], q[2] + 1>>)
  <2>1. ~(p[1] = q[1] /\ p[2] = q[2])
    BY <1>1, <1>2, <1>3
  <2> QED BY <1>1, <1>2, <2>1 DEF Ahead
<1>4. ASSUME p[1] # q[1] \/ p[2] < q[2]
      PROVE  Ahead(p, <<q[1] + 1, 0>>)
  BY <1>1, <1>2, <1>4 DEF Ahead
<1> QED BY <1>3, <1>4

(* At first there are no pairs and no iterators.                           *)
LEMMA InitDelete == Init => DeleteInv
BY DEF Init, DeleteInv, PairsReachable, KeptAhead

(* What is stored stays within the reach of delete iterators.              *)
LEMMA ReachableStep == Base /\ DeleteInv /\ [Next]_vars => PairsReachable'
<1> SUFFICES ASSUME Base, DeleteInv, [Next]_vars
             PROVE  PairsReachable'
  OBVIOUS
<1> USE DEF Base, Typed, DeleteInv, PairsReachable, Goto, Finish, Panic, Accepted
<1>1. CASE UNCHANGED vars
  BY <1>1 DEF vars
<1>2. CASE ClearAll
  <2>1. pairs' = {} /\ UNCHANGED <<pc, op, at>>
    BY <1>2 DEF ClearAll
  <2>2. \A t \in Thread : pc'[t] # "bit"
    BY <1>2, <2>1 DEF ClearAll
  <2> QED BY <2>1, <2>2
<1>3. ASSUME NEW t \in Thread, AddPair(t) \/ ClaimPair(t)
      PROVE  PairsReachable'
  BY <1>3 DEF AddPair, ClaimPair, Insert, Begin
<1>4. ASSUME NEW t \in Thread, RemovePair(t)
      PROVE  PairsReachable'
  BY <1>4 DEF RemovePair, Begin, Inserting
<1>5. ASSUME NEW t \in Thread, FlipBit(t)
      PROVE  PairsReachable'
  <2>1. /\ pc[t] = "bit" /\ made' = made /\ at[t] \in Pair
        /\ \A u \in Thread : pc'[u] = "bit" => pc[u] = "bit" /\ op'[u] = op[u] /\ at'[u] = at[u]
    BY <1>5 DEF FlipBit, OpInv, OpOK
  <2>2. ASSUME NEW p \in pairs', p \notin pairs
        PROVE  p[1] \in made /\ Accepted(p) /\ p[2] < DeleteSubMax
    <3>1. p = at[t] /\ op[t] \in Inserting /\ ~(at[t][2] >= SubCapacity)
      BY <1>5, <2>2 DEF FlipBit
    <3>2. at[t][1] \in made /\ Accepted(at[t])
      BY <2>1, <3>1
    <3> HIDE DEF Accepted
    <3> QED BY <2>1, <3>1, <3>2, LimitFacts
  <2> HIDE DEF Accepted
  <2>3. \A p \in pairs' : p[1] \in made' /\ Accepted(p)' /\ p[2] < DeleteSubMax
    BY <2>1, <2>2 DEF Accepted
  <2>4. \A u \in Thread : pc'[u] = "bit" /\ op'[u] \in Inserting =>
          at'[u][1] \in made' /\ Accepted(at[u])'
    BY <2>1 DEF Accepted
  <2> QED BY <2>3, <2>4
<1>6. ASSUME NEW t \in Thread, CountSub(t) \/ CountTotal(t) \/ TestEmpty(t) \/ MarkPrimary(t)
      PROVE  PairsReachable'
  BY <1>6 DEF CountSub, CountTotal, TestEmpty, MarkPrimary
<1>7. ASSUME NEW t \in Thread, OpenDelete(t) \/ CallNext(t) \/ DropDelete(t) \/ Seek(t)
      PROVE  PairsReachable'
  BY <1>7 DEF OpenDelete, CallNext, DropDelete, Seek
<1>8. ASSUME NEW t \in Thread, TestAndClear(t) \/ CountDeleted(t)
      PROVE  PairsReachable'
  BY <1>8 DEF TestAndClear, CountDeleted
<1> QED BY <1>1, <1>2, <1>3, <1>4, <1>5, <1>6, <1>7, <1>8 DEF Next, Update, Delete

(* No step takes an iterator past a pair it still has to find.             *)
LEMMA KeptStep ==
  ASSUME Base, DeleteInv, [Next]_vars, NEW u \in Thread
  PROVE  KeptAhead(u)'
<1> USE DEF Base, Typed, DeleteInv, KeptAhead, Goto, Finish, Panic
<1>1. CASE UNCHANGED vars
  BY <1>1 DEF vars
<1>2. CASE ClearAll
  <2>1. op[u] = "none" /\ UNCHANGED <<pc, op, at, kept>> /\ pc[u] \in {"idle", "panicked"}
    BY <1>2 DEF ClearAll, OpInv, OpOK
  <2> QED BY <2>1
<1>3. ASSUME NEW t \in Thread, AddPair(t) \/ ClaimPair(t) \/ RemovePair(t)
      PROVE  KeptAhead(u)'
  <2>1. PICK name \in {"add", "claim", "remove"}, p \in Pair :
           Begin(t, name, p) /\ UNCHANGED <<pairs, kept>>
    BY <1>3 DEF AddPair, ClaimPair, Insert, RemovePair
  <2>2. CASE u = t
    <3>1. op[u] = "none" /\ op'[u] # "delete" /\ pc'[u] = "bit"
      BY <2>1, <2>2 DEF Begin, OpInv, OpOK
    <3> QED BY <2>1, <3>1
  <2>3. CASE u # t
    BY <2>1, <2>3 DEF Begin
  <2> QED BY <2>2, <2>3
<1>4. ASSUME NEW t \in Thread, FlipBit(t)
      PROVE  KeptAhead(u)'
  <2>1. /\ pc[t] = "bit" /\ op[t] # "delete" /\ kept[t] = {}
        /\ kept'[u] \subseteq kept[u] /\ kept'[u] \subseteq pairs'
    BY <1>4 DEF FlipBit, OpInv, OpOK
  <2>2. \/ Panic(t)
        \/ Finish(t)
        \/ Goto(t, "subcount") /\ UNCHANGED <<op, at>>
    <3>1. CASE at[t][2] >= SubCapacity
      BY <1>4, <3>1 DEF FlipBit
    <3>2. CASE ~(at[t][2] >= SubCapacity)
      BY <1>4, <3>2, Zenon DEF FlipBit
    <3> QED BY <3>1, <3>2
  <2>3. CASE u = t
    <3>1. kept'[u] = {}
      BY <2>1, <2>3
    <3>2. pc'[u] \in {"panicked", "idle", "subcount"} /\ (pc'[u] = "idle" => at'[u] = <<0, 0>>)
          /\ op'[u] # "delete"
      BY <2>1, <2>2, <2>3
    <3> QED BY <3>1, <3>2
  <2>4. CASE u # t
    <3>1. pc'[u] = pc[u] /\ op'[u] = op[u] /\ at'[u] = at[u]
      BY <2>2, <2>4
    <3> QED BY <2>1, <3>1
  <2> QED BY <2>3, <2>4
<1>5. ASSUME NEW t \in Thread, CountSub(t) \/ CountTotal(t) \/ TestEmpty(t) \/ MarkPrimary(t)
      PROVE  KeptAhead(u)'
  <2>1. /\ op[t] # "delete" /\ UNCHANGED <<pairs, kept>>
        /\ \/ Panic(t)
           \/ Finish(t)
           \/ \E label \in {"total", "empty", "primary"} : Goto(t, label) /\ UNCHANGED <<op, at>>
    BY <1>5 DEF CountSub, CountTotal, TestEmpty, MarkPrimary, OpInv, OpOK
  <2>2. CASE u = t
    <3>1. op'[u] # "delete" /\ (pc'[u] = "idle" => at'[u] = <<0, 0>>)
          /\ pc'[u] \notin {"deleted", "ended"}
      BY <2>1, <2>2
    <3> QED BY <2>1, <2>2, <3>1
  <2>3. CASE u # t
    BY <2>1, <2>3
  <2> QED BY <2>2, <2>3
<1>6. ASSUME NEW t \in Thread, OpenDelete(t)
      PROVE  KeptAhead(u)'
  <2>1. CASE u = t
    <3>1. \A p \in pairs : Ahead(p, <<0, 0>>)
      BY PairFacts DEF Ahead
    <3> QED BY <1>6, <2>1, <3>1 DEF OpenDelete
  <2> QED BY <1>6, <2>1 DEF OpenDelete
<1>7. ASSUME NEW t \in Thread, CallNext(t) \/ DropDelete(t)
      PROVE  KeptAhead(u)'
  BY <1>7 DEF CallNext, DropDelete
<1>8. ASSUME NEW t \in Thread, Seek(t)
      PROVE  KeptAhead(u)'
  <2>1. op[t] = "delete" /\ pc[t] = "seeking" /\ UNCHANGED <<pairs, made, op, kept>>
    BY <1>8 DEF Seek, OpInv, OpOK
  <2>2. at[t][1] \in Nat /\ at[t][2] \in Nat
    OBVIOUS
  <2>3. CASE u # t
    BY <1>8, <2>1, <2>3 DEF Seek
  <2>4. CASE u = t /\ UNCHANGED at
    BY <1>8, <2>1, <2>4 DEF Seek
  <2>5. CASE u = t /\ at[t][1] \notin made /\ at' = [at EXCEPT ![t] = <<at[t][1] + 1, 0>>]
              /\ UNCHANGED pc
    <3>1. \A p \in kept[t] : Ahead(p, <<at[t][1] + 1, 0>>)
      <4> SUFFICES ASSUME NEW p \in kept[t]
                   PROVE  Ahead(p, <<at[t][1] + 1, 0>>)
        OBVIOUS
      <4>1. p \in Pair /\ p[1] \in made /\ Ahead(p, at[t])
        BY <2>1 DEF PairsReachable
      <4> QED BY <2>5, <4>1, PairFacts, AheadOfNext
    <3> QED BY <2>1, <2>5, <3>1
  <2> QED BY <1>8, <2>3, <2>4, <2>5 DEF Seek, NextId
<1>9. ASSUME NEW t \in Thread, TestAndClear(t)
      PROVE  KeptAhead(u)'
  <2>1. op[t] = "delete" /\ pc[t] = "clearing" /\ UNCHANGED op
    BY <1>9 DEF TestAndClear, OpInv, OpOK
  <2>2. at[t] \in Nat \X Nat /\ at[t][2] \in Nat /\ DeleteSubMax \in Nat
    BY LimitFacts
  <2>3. \A p \in kept[t] : /\ Ahead(p, at[t]) /\ p[2] < DeleteSubMax /\ p \in pairs
                            /\ p \in Nat \X Nat /\ p[2] \in Nat
    BY <2>1, PairFacts DEF PairsReachable
  <2>5. CASE at[t][2] >= DeleteSubMax /\ pc' = [pc EXCEPT ![t] = "seeking"]
             /\ at' = [at EXCEPT ![t] = <<at[t][1] + 1, 0>>] /\ UNCHANGED <<pairs, kept>>
    <3>1. \A p \in kept[t] : Ahead(p, <<at[t][1] + 1, 0>>)
      <4>1. \A p \in kept[t] : p[2] < at[t][2]
        BY <2>2, <2>3, <2>5
      <4> QED BY <2>2, <2>3, <4>1, AheadOfNext
    <3> QED BY <2>1, <2>5, <3>1
  <2>6. CASE at[t] \notin pairs /\ at' = [at EXCEPT ![t] = <<at[t][1], at[t][2] + 1>>]
             /\ UNCHANGED <<pairs, kept, pc>>
    <3>1. \A p \in kept[t] : Ahead(p, <<at[t][1], at[t][2] + 1>>)
      BY <2>2, <2>3, <2>6, AheadOfNext
    <3> QED BY <2>1, <2>6, <3>1
  <2>7. CASE /\ pairs' = pairs \ {at[t]} /\ UNCHANGED at
             /\ kept' = [v \in Thread |-> kept[v] \ {at[t]}]
             /\ pc' = [pc EXCEPT ![t] = "deleted"]
    BY <2>1, <2>7
  <2> QED BY <1>9, <2>5, <2>6, <2>7 DEF TestAndClear, NextId
<1>10. ASSUME NEW t \in Thread, CountDeleted(t)
       PROVE  KeptAhead(u)'
  <2>1. /\ op[t] = "delete" /\ pc[t] = "deleted" /\ UNCHANGED <<op, pairs, kept>>
        /\ at' = [at EXCEPT ![t] = <<at[t][1], at[t][2] + 1>>]
        /\ pc' = [pc EXCEPT ![t] = "holding"]
    BY <1>10 DEF CountDeleted, OpInv, OpOK
  <2>2. \A p \in kept[t] : Ahead(p, <<at[t][1], at[t][2] + 1>>)
    <3>1. at[t] \in Nat \X Nat /\ \A p \in kept[t] : p \in Nat \X Nat /\ p # at[t] /\ Ahead(p, at[t])
      BY <2>1, PairFacts
    <3> QED BY <3>1, AheadOfNext
  <2> QED BY <2>1, <2>2
<1> QED BY <1>1, <1>2, <1>3, <1>4, <1>5, <1>6, <1>7, <1>8, <1>9, <1>10 DEF Next, Update, Delete

(* A delete iterator that has come to its end has passed every pair that   *)
(* stayed from its construction, whatever other threads inserted and       *)
(* removed meanwhile.                                                      *)
THEOREM DeleteMisses == Spec => []DeleteMissesNothing
<1>1. Base /\ DeleteInv /\ [Next]_vars => DeleteInv'
  BY ReachableStep, KeptStep DEF DeleteInv
<1>2. Base /\ DeleteInv => DeleteMissesNothing
  <2> SUFFICES ASSUME Base, DeleteInv, NEW t \in Thread, pc[t] = "ended", NEW p \in kept[t]
               PROVE  MaxId = None /\ p[1] >= PrimaryCapacity
    BY DEF DeleteMissesNothing
  <2>1. op[t] = "delete" /\ p \in Pair /\ Accepted(p) /\ Ahead(p, at[t])
    BY DEF Base, OpInv, OpOK, DeleteInv, KeptAhead, PairsReachable, Typed
  <2>2. at[t][1] >= EffectiveMaxId /\ at[t][1] \in Nat
    BY DEF Base, Typed, DeleteInv, KeptAhead
  <2>3. p[1] >= EffectiveMaxId
    BY <2>1, <2>2, PairFacts, LimitFacts DEF Ahead
  <2> QED BY <2>1, <2>3, PairFacts, HierAssumption DEF Accepted, EffectiveMaxId
<1> QED BY InitDelete, <1>1, <1>2, BaseInvariant, PTL DEF Spec

-----------------------------------------------------------------------------
(* The tracker, and each sub-bitmap in it, implement TalliedSet            *)

OthersKeep(t) == \A u \in Thread : u # t => pc'[u] = pc[u] /\ op'[u] = op[u] /\ at'[u] = at[u]

(* An action of a thread changes nobody else's place in an operation.      *)
LEMMA StepKeepsOthers ==
  ASSUME Base, NEW t \in Thread, Update(t) \/ Delete(t)
  PROVE  OthersKeep(t)
<1> USE DEF OthersKeep, Base, Typed, Goto, Finish, Panic
<1>1. CASE AddPair(t) \/ ClaimPair(t) \/ RemovePair(t)
  BY <1>1 DEF AddPair, ClaimPair, Insert, RemovePair, Begin
<1>2. CASE FlipBit(t)
  BY <1>2 DEF FlipBit
<1>3. CASE CountSub(t) \/ CountTotal(t) \/ TestEmpty(t) \/ MarkPrimary(t)
  BY <1>3 DEF CountSub, CountTotal, TestEmpty, MarkPrimary
<1>4. CASE OpenDelete(t) \/ CallNext(t) \/ Seek(t) \/ CountDeleted(t) \/ DropDelete(t)
  BY <1>4 DEF OpenDelete, CallNext, Seek, CountDeleted, DropDelete
<1>5. CASE TestAndClear(t)
  BY <1>5 DEF TestAndClear
<1> QED BY <1>1, <1>2, <1>3, <1>4, <1>5 DEF Update, Delete

(* A flip of the bit of one pair, which was not so before.                 *)
Flips(t) ==
  /\ pc[t] = "bit" /\ pc'[t] = "subcount" /\ op'[t] = op[t] /\ at'[t] = at[t] /\ at[t] \in Pair
  /\ \/ op[t] \in Inserting /\ at[t] \notin pairs /\ pairs' = pairs \union {at[t]}
     \/ op[t] = "remove" /\ at[t] \in pairs /\ pairs' = pairs \ {at[t]}

(* FlipBit does that, or the call ends and leaves the pairs alone.         *)
LEMMA FlipFacts ==
  ASSUME Base, NEW t \in Thread, FlipBit(t)
  PROVE  /\ subcount' = subcount /\ total' = total
         /\ Flips(t) \/ (pairs' = pairs /\ pc[t] = "bit" /\ pc'[t] \in {"idle", "panicked"})
<1>1. subcount' = subcount /\ total' = total /\ pc[t] = "bit"
  BY DEF FlipBit
<1>2. at[t] \in Pair /\ (op[t] \in Inserting \/ op[t] = "remove") /\ "remove" \notin Inserting
  BY <1>1 DEF Base, OpInv, OpOK, Inserting
<1>3. CASE pc'[t] # "subcount"
  <2>1. pairs' = pairs /\ (Panic(t) \/ Finish(t))
    BY <1>3 DEF FlipBit, Goto, Base, Typed
  <2> QED BY <1>1, <2>1 DEF Panic, Finish, Base, Typed
<1>4. CASE pc'[t] = "subcount"
  <2>1. /\ UNCHANGED <<op, at>> /\ pairs' # pairs
        /\ pairs' = IF op[t] \in Inserting THEN pairs \union {at[t]} ELSE pairs \ {at[t]}
    BY <1>4 DEF FlipBit, Panic, Finish, Base, Typed
  <2> QED BY <1>1, <1>2, <1>4, <2>1 DEF Flips
<1> QED BY <1>1, <1>3, <1>4

(* A step that owes nothing new and pays nothing leaves the abstract state. *)
LEMMA WholeSame ==
  ASSUME pairs' = pairs, total' = total, NEW t \in Thread, OthersKeep(t),
         \/ pc[t] \notin {"subcount", "total"} /\ pc'[t] \notin {"subcount", "total"}
         \/ /\ pc[t] \in {"subcount", "total"} /\ pc'[t] \in {"subcount", "total"}
            /\ op'[t] = op[t] /\ at'[t] = at[t]
  PROVE  UNCHANGED Whole!avars
<1>1. \A u \in Thread : Unpaid(u)' = Unpaid(u)
  BY DEF OthersKeep, Unpaid
<1>2. \A u \in Thread : op'[u] = op[u] \/ (Unpaid(u) = {} /\ Unpaid(u)' = {})
  BY DEF OthersKeep, Unpaid
<1> QED BY <1>1, <1>2 DEF Whole!avars

(* The abstract specification's Cardinality is this module's.              *)
LEMMA WholeCardinality == \A S : Whole!Cardinality(S) = Cardinality(S)
BY DEF Cardinality, Whole!Cardinality

(* Without delete iterators each step is one of the TalliedSet's.          *)
LEMMA WholeStep ==
  ASSUME NoDelete, Base, [Next]_vars
  PROVE  [Whole!Next]_(Whole!avars)
<1> DEFINE gained == [u \in Thread |-> IF op[u] \in Inserting THEN Unpaid(u) ELSE {}]
           lost   == [u \in Thread |-> IF op[u] = "remove" THEN Unpaid(u) ELSE {}]
<1>0. "remove" \notin Inserting /\ Cardinality({}) = 0 /\ \A x : Cardinality({x}) = 1
  BY FS_EmptySet, FS_Singleton DEF Inserting
<1>1. CASE UNCHANGED vars
  BY <1>1 DEF vars, Whole!avars, Unpaid
<1>2. CASE ClearAll
  <2>1. \A u \in Thread : Unpaid(u) = {} /\ Unpaid(u)' = {}
    BY <1>2 DEF ClearAll, Unpaid
  <2>2. pairs' = {} /\ total' = 0
    BY <1>2 DEF ClearAll
  <2>3. Whole!Empty
    BY <2>1, <2>2 DEF Whole!Empty
  <2> QED BY <2>3 DEF Whole!Next
<1>3. ASSUME NEW t \in Thread, FlipBit(t), OthersKeep(t)
      PROVE  [Whole!Next]_(Whole!avars)
  <2>1. CASE ~Flips(t)
    BY <1>3, <2>1, FlipFacts, WholeSame
  <2>2. CASE Flips(t)
    <3>1. total' = total
      BY <1>3, FlipFacts
    <3>2. \A u \in Thread : u # t => gained'[u] = gained[u] /\ lost'[u] = lost[u]
      BY <1>3 DEF OthersKeep, Unpaid
    <3>3. gained[t] = {} /\ lost[t] = {}
      BY <2>2 DEF Flips, Unpaid
    <3>4. Unpaid(t)' = {at[t]} /\ op'[t] = op[t]
      BY <2>2 DEF Flips, Unpaid
    <3>5. CASE op[t] \in Inserting /\ at[t] \notin pairs /\ pairs' = pairs \union {at[t]}
      <4>1. gained' = [gained EXCEPT ![t] = gained[t] \union {at[t]}] /\ lost' = lost
        BY <1>0, <3>2, <3>3, <3>4, <3>5
      <4>2. {at[t]} \in SUBSET (Pair \ pairs) /\ \A p \in {at[t]} : p \notin gained[t]
        BY <2>2, <3>3, <3>5 DEF Flips
      <4>3. Whole!Gain(t)
        BY <3>1, <3>3, <3>5, <4>1, <4>2 DEF Whole!Gain
      <4> QED BY <4>3 DEF Whole!Next
    <3>6. CASE op[t] = "remove" /\ at[t] \in pairs /\ pairs' = pairs \ {at[t]}
      <4>1. lost' = [lost EXCEPT ![t] = lost[t] \union {at[t]}] /\ gained' = gained
        BY <1>0, <3>2, <3>3, <3>4, <3>6
      <4>2. {at[t]} \in SUBSET pairs /\ \A p \in {at[t]} : p \notin lost[t]
        BY <3>3, <3>6
      <4>3. Whole!Lose(t)
        BY <3>1, <3>3, <3>6, <4>1, <4>2 DEF Whole!Lose
      <4> QED BY <4>3 DEF Whole!Next
    <3> QED BY <2>2, <3>5, <3>6 DEF Flips
  <2> QED BY <2>1, <2>2
<1>4. ASSUME NEW t \in Thread, CountTotal(t), OthersKeep(t)
      PROVE  [Whole!Next]_(Whole!avars)
  <2>1. /\ pc[t] = "total" /\ pairs' = pairs /\ pc'[t] \in {"primary", "empty"}
        /\ total' = IF op[t] \in Inserting THEN total + 1 ELSE total - 1
    BY <1>4 DEF CountTotal, Goto, Base, Typed
  <2>2. \A u \in Thread : u # t => gained'[u] = gained[u] /\ lost'[u] = lost[u]
    BY <1>4 DEF OthersKeep, Unpaid
  <2>3. Unpaid(t) = {at[t]} /\ Unpaid(t)' = {}
    BY <2>1 DEF Unpaid
  <2>4. gained' = [gained EXCEPT ![t] = {}] /\ lost' = [lost EXCEPT ![t] = {}]
    BY <2>2, <2>3
  <2>5. op[t] \in Inserting \/ op[t] = "remove"
    BY <2>1 DEF Base, OpInv, OpOK, Inserting
  <2>6. total' = total + Cardinality(gained[t]) - Cardinality(lost[t])
    <3>1. CASE op[t] \in Inserting
      <4>1. Cardinality(gained[t]) = 1 /\ Cardinality(lost[t]) = 0
        BY <1>0, <2>3, <3>1
      <4> QED BY <2>1, <3>1, <4>1 DEF Base, Typed
    <3>2. CASE op[t] = "remove"
      <4>1. Cardinality(gained[t]) = 0 /\ Cardinality(lost[t]) = 1
        BY <1>0, <2>3, <3>2
      <4> QED BY <1>0, <2>1, <3>2, <4>1 DEF Base, Typed
    <3> QED BY <2>5, <3>1, <3>2
  <2>7. Whole!Pay(t)
    BY <2>1, <2>4, <2>6, WholeCardinality DEF Whole!Pay
  <2> QED BY <2>7 DEF Whole!Next
<1>5. ASSUME NEW t \in Thread, TestAndClear(t)
      PROVE  FALSE
  BY <1>5 DEF TestAndClear, Base, OpInv, OpOK, NoDelete
<1>6. ASSUME NEW t \in Thread, OthersKeep(t),
             AddPair(t) \/ ClaimPair(t) \/ RemovePair(t) \/ CountSub(t) \/ TestEmpty(t) \/ MarkPrimary(t)
             \/ OpenDelete(t) \/ CallNext(t) \/ Seek(t) \/ CountDeleted(t) \/ DropDelete(t)
      PROVE  [Whole!Next]_(Whole!avars)
  <2> USE DEF Base, Typed, Goto, Finish, Panic
  <2>1. pairs' = pairs /\ total' = total
    BY <1>6 DEF AddPair, ClaimPair, Insert, RemovePair, CountSub, TestEmpty, MarkPrimary,
                OpenDelete, CallNext, Seek, CountDeleted, DropDelete
  <2>2. \/ pc[t] \notin {"subcount", "total"} /\ pc'[t] \notin {"subcount", "total"}
        \/ /\ pc[t] \in {"subcount", "total"} /\ pc'[t] \in {"subcount", "total"}
           /\ op'[t] = op[t] /\ at'[t] = at[t]
    <3>1. CASE AddPair(t) \/ ClaimPair(t) \/ RemovePair(t)
      BY <3>1 DEF AddPair, ClaimPair, Insert, RemovePair, Begin
    <3>2. CASE CountSub(t) \/ TestEmpty(t) \/ MarkPrimary(t)
      BY <3>2 DEF CountSub, TestEmpty, MarkPrimary
    <3>3. CASE OpenDelete(t) \/ CallNext(t) \/ Seek(t) \/ CountDeleted(t) \/ DropDelete(t)
      BY <3>3 DEF OpenDelete, CallNext, Seek, CountDeleted, DropDelete
    <3> QED BY <1>6, <3>1, <3>2, <3>3
  <2> QED BY <1>6, <2>1, <2>2, WholeSame
<1> QED BY <1>1, <1>2, <1>3, <1>4, <1>5, <1>6, StepKeepsOthers DEF Next, Update, Delete

(* Without delete iterators the tracker implements TalliedSet: a pair      *)
(* comes and goes in one step of the one call that is told of it, and that *)
(* call counts it in the total, whatever the others do in between.         *)
THEOREM TrackerImplementsTalliedSet ==
  ASSUME NoDelete
  PROVE  Spec => ImplementsTalliedSet
<1>1. Init => Whole!Init
  BY DEF Init, Whole!Init, Unpaid
<1>2. Base /\ [Next]_vars => [Whole!Next]_(Whole!avars)
  BY WholeStep
<1> QED BY <1>1, <1>2, BaseInvariant, PTL DEF Spec, ImplementsTalliedSet, Whole!Spec

(* The same, at one id.                                                    *)
LEMMA SubCardinality == \A i, S : SubBitmap(i)!Cardinality(S) = Cardinality(S)
BY DEF Cardinality, SubBitmap!Cardinality

(* Steps that leave the sub-bitmap of i and who owes it what.              *)
LEMMA SubSame ==
  ASSUME NEW i \in Id, PairsOf(i)' = PairsOf(i), subcount'[i] = subcount[i],
         NEW t \in Thread, OthersKeep(t), SubUnpaid(t, i) = {}, SubUnpaid(t, i)' = {}
  PROVE  UNCHANGED SubBitmap(i)!avars
<1>1. \A u \in Thread : SubUnpaid(u, i)' = SubUnpaid(u, i)
  BY DEF OthersKeep, SubUnpaid
<1>2. \A u \in Thread : op'[u] = op[u] \/ (SubUnpaid(u, i) = {} /\ SubUnpaid(u, i)' = {})
  BY DEF OthersKeep
<1> QED BY <1>1, <1>2 DEF SubBitmap!avars

(* A bit that is flipped is credited to the call that flipped it.          *)
LEMMA SubFlips ==
  ASSUME Base, NEW t \in Thread, OthersKeep(t), subcount' = subcount, NEW i \in Id,
         at[t] \in Pair, at[t][1] = i, op'[t] = op[t], at'[t] = at[t],
         pc[t] \notin {"subcount", "deleted"}, pc'[t] \in {"subcount", "deleted"},
         \/ op[t] \in Inserting /\ at[t] \notin pairs /\ pairs' = pairs \union {at[t]}
         \/ op[t] \in {"remove", "delete"} /\ at[t] \in pairs /\ pairs' = pairs \ {at[t]}
  PROVE  SubBitmap(i)!Next
<1> DEFINE gained == [u \in Thread |-> IF op[u] \in Inserting THEN SubUnpaid(u, i) ELSE {}]
           lost   == [u \in Thread |-> IF op[u] \in {"remove", "delete"} THEN SubUnpaid(u, i) ELSE {}]
<1>1. \A u \in Thread : u # t => gained'[u] = gained[u] /\ lost'[u] = lost[u]
  BY DEF OthersKeep, SubUnpaid
<1>2. SubUnpaid(t, i) = {} /\ SubUnpaid(t, i)' = {at[t]} /\ gained[t] = {} /\ lost[t] = {}
  BY DEF SubUnpaid
<1>3. "remove" \notin Inserting /\ "delete" \notin Inserting
  BY DEF Inserting
<1>4. at[t] \in {i} \X SubId
  BY PairFacts
<1>5. subcount'[i] = subcount[i]
  OBVIOUS
<1>6. CASE op[t] \in Inserting /\ at[t] \notin pairs /\ pairs' = pairs \union {at[t]}
  <2>1. gained' = [gained EXCEPT ![t] = gained[t] \union {at[t]}] /\ lost' = lost
    BY <1>1, <1>2, <1>3, <1>6
  <2>2. PairsOf(i)' = PairsOf(i) \union {at[t]} /\ at[t] \notin PairsOf(i)
    BY <1>6 DEF PairsOf
  <2>3. /\ {at[t]} \in SUBSET (({i} \X SubId) \ PairsOf(i))
        /\ \A p \in {at[t]} : p \notin gained[t]
    BY <1>2, <1>4, <2>2
  <2>4. SubBitmap(i)!Gain(t)
    BY <1>2, <1>5, <2>1, <2>2, <2>3 DEF SubBitmap!Gain
  <2> QED BY <2>4 DEF SubBitmap!Next
<1>7. CASE op[t] \in {"remove", "delete"} /\ at[t] \in pairs /\ pairs' = pairs \ {at[t]}
  <2>1. lost' = [lost EXCEPT ![t] = lost[t] \union {at[t]}] /\ gained' = gained
    BY <1>1, <1>2, <1>3, <1>7
  <2>2. PairsOf(i)' = PairsOf(i) \ {at[t]} /\ at[t] \in PairsOf(i)
    BY <1>7 DEF PairsOf
  <2>3. {at[t]} \in SUBSET PairsOf(i) /\ \A p \in {at[t]} : p \notin lost[t]
    BY <1>2, <2>2
  <2>4. SubBitmap(i)!Lose(t)
    BY <1>2, <1>5, <2>1, <2>2, <2>3 DEF SubBitmap!Lose
  <2> QED BY <2>4 DEF SubBitmap!Next
<1> QED BY <1>6, <1>7

(* The counter moves by what that call then pays.                          *)
LEMMA SubPays ==
  ASSUME Base, NEW t \in Thread, OthersKeep(t), pairs' = pairs, NEW i \in Id,
         at[t][1] = i, pc[t] \in {"subcount", "deleted"}, pc'[t] \notin {"subcount", "deleted"},
         \/ op[t] \in Inserting /\ subcount'[i] = subcount[i] + 1
         \/ op[t] \in {"remove", "delete"} /\ subcount'[i] = subcount[i] - 1
  PROVE  SubBitmap(i)!Next
<1> DEFINE gained == [u \in Thread |-> IF op[u] \in Inserting THEN SubUnpaid(u, i) ELSE {}]
           lost   == [u \in Thread |-> IF op[u] \in {"remove", "delete"} THEN SubUnpaid(u, i) ELSE {}]
<1>0. "remove" \notin Inserting /\ "delete" \notin Inserting
  BY DEF Inserting
<1>1. \A u \in Thread : u # t => gained'[u] = gained[u] /\ lost'[u] = lost[u]
  BY DEF OthersKeep, SubUnpaid
<1>2. SubUnpaid(t, i) = {at[t]} /\ SubUnpaid(t, i)' = {}
  BY DEF SubUnpaid
<1>3. gained' = [gained EXCEPT ![t] = {}] /\ lost' = [lost EXCEPT ![t] = {}]
  BY <1>1, <1>2
<1>4. subcount'[i] = subcount[i] + Cardinality(gained[t]) - Cardinality(lost[t])
  <2>1. Cardinality({}) = 0 /\ Cardinality({at[t]}) = 1 /\ subcount[i] \in Int
    BY FS_EmptySet, FS_Singleton DEF Base, Typed
  <2>2. CASE op[t] \in Inserting /\ subcount'[i] = subcount[i] + 1
    <3>1. Cardinality(gained[t]) = 1 /\ Cardinality(lost[t]) = 0
      BY <1>0, <1>2, <2>1, <2>2
    <3> HIDE DEF gained, lost
    <3> QED BY <2>1, <2>2, <3>1
  <2>3. CASE op[t] \in {"remove", "delete"} /\ subcount'[i] = subcount[i] - 1
    <3>1. Cardinality(gained[t]) = 0 /\ Cardinality(lost[t]) = 1
      BY <1>0, <1>2, <2>1, <2>3
    <3> HIDE DEF gained, lost
    <3> QED BY <2>1, <2>3, <3>1
  <2> QED BY <2>2, <2>3
<1>5. PairsOf(i)' = PairsOf(i)
  BY DEF PairsOf
<1>6. SubBitmap(i)!Pay(t)
  BY <1>3, <1>4, <1>5, SubCardinality DEF SubBitmap!Pay
<1> QED BY <1>6 DEF SubBitmap!Next

(* Each step is one of the sub-bitmap's, at every id.                      *)
LEMMA SubBitmapStep ==
  ASSUME Base, [Next]_vars, NEW i \in Id
  PROVE  [SubBitmap(i)!Next]_(SubBitmap(i)!avars)
<1>1. CASE UNCHANGED vars
  BY <1>1 DEF vars, SubBitmap!avars, SubUnpaid, PairsOf
<1>2. CASE ClearAll
  <2>1. \A u \in Thread : SubUnpaid(u, i) = {} /\ SubUnpaid(u, i)' = {}
    BY <1>2 DEF ClearAll, SubUnpaid
  <2>2. PairsOf(i)' = {} /\ subcount'[i] = 0
    BY <1>2 DEF ClearAll, PairsOf
  <2>3. SubBitmap(i)!Empty
    BY <2>1, <2>2 DEF SubBitmap!Empty
  <2> QED BY <2>3 DEF SubBitmap!Next
<1>3. ASSUME NEW t \in Thread, FlipBit(t), OthersKeep(t)
      PROVE  [SubBitmap(i)!Next]_(SubBitmap(i)!avars)
  <2>1. subcount' = subcount /\ pc[t] = "bit"
    BY <1>3, FlipFacts DEF Flips
  <2>2. CASE ~Flips(t)
    <3>1. pairs' = pairs /\ pc'[t] \in {"idle", "panicked"}
      BY <1>3, <2>2, FlipFacts
    <3> QED BY <1>3, <2>1, <3>1, SubSame DEF SubUnpaid, PairsOf
  <2>3. CASE Flips(t) /\ at[t][1] = i
    BY <1>3, <2>1, <2>3, SubFlips DEF Flips
  <2>4. CASE Flips(t) /\ at[t][1] # i
    <3>1. PairsOf(i)' = PairsOf(i)
      BY <2>4 DEF Flips, PairsOf
    <3>2. SubUnpaid(t, i) = {} /\ SubUnpaid(t, i)' = {}
      BY <2>4 DEF Flips, SubUnpaid
    <3> QED BY <1>3, <2>1, <3>1, <3>2, SubSame
  <2> QED BY <2>2, <2>3, <2>4
<1>4. ASSUME NEW t \in Thread, CountSub(t) \/ CountDeleted(t), OthersKeep(t)
      PROVE  [SubBitmap(i)!Next]_(SubBitmap(i)!avars)
  <2>1. /\ pc[t] \in {"subcount", "deleted"} /\ pc'[t] \in {"total", "holding"} /\ pairs' = pairs
        /\ op[t] \in Inserting \/ op[t] \in {"remove", "delete"}
        /\ subcount' = [subcount EXCEPT ![at[t][1]] =
                          IF op[t] \in Inserting THEN subcount[at[t][1]] + 1 ELSE subcount[at[t][1]] - 1]
    BY <1>4 DEF CountSub, CountDeleted, Goto, Base, Typed, OpInv, OpOK, Inserting
  <2>2. CASE at[t][1] = i
    <3>1. subcount'[i] = IF op[t] \in Inserting THEN subcount[i] + 1 ELSE subcount[i] - 1
      BY <2>1, <2>2 DEF Base, Typed
    <3>2. "remove" \notin Inserting /\ "delete" \notin Inserting
      BY DEF Inserting
    <3> QED BY <1>4, <2>1, <2>2, <3>1, <3>2, SubPays
  <2>3. CASE at[t][1] # i
    <3>1. subcount'[i] = subcount[i] /\ PairsOf(i)' = PairsOf(i)
      BY <2>1, <2>3 DEF Base, Typed, PairsOf
    <3>2. SubUnpaid(t, i) = {} /\ SubUnpaid(t, i)' = {}
      BY <2>1, <2>3 DEF SubUnpaid
    <3> QED BY <1>4, <3>1, <3>2, SubSame
  <2> QED BY <2>2, <2>3
<1>5. ASSUME NEW t \in Thread, TestAndClear(t), OthersKeep(t)
      PROVE  [SubBitmap(i)!Next]_(SubBitmap(i)!avars)
  <2>1. pc[t] = "clearing" /\ subcount' = subcount /\ op' = op /\ op[t] = "delete"
    BY <1>5 DEF TestAndClear, Base, OpInv, OpOK
  <2>2. CASE pairs' = pairs /\ pc'[t] # "deleted"
    <3>1. pc'[t] # "subcount"
      BY <1>5, <2>1 DEF TestAndClear, Goto, Base, Typed
    <3> QED BY <1>5, <2>1, <2>2, <3>1, SubSame DEF SubUnpaid, PairsOf
  <2>3. CASE ~(pairs' = pairs /\ pc'[t] # "deleted")
    <3>1. /\ at[t] \in pairs /\ pairs' = pairs \ {at[t]} /\ pc'[t] = "deleted" /\ at' = at
      BY <1>5, <2>3 DEF TestAndClear, Goto, Base, Typed
    <3>2. at[t] \in Pair
      BY <3>1 DEF Base, Typed
    <3>3. CASE at[t][1] = i
      BY <1>5, <2>1, <3>1, <3>2, <3>3, SubFlips
    <3>4. CASE at[t][1] # i
      <4>1. PairsOf(i)' = PairsOf(i)
        BY <3>1, <3>4 DEF PairsOf
      <4>2. SubUnpaid(t, i) = {} /\ SubUnpaid(t, i)' = {}
        BY <3>1, <3>4 DEF SubUnpaid
      <4> QED BY <1>5, <2>1, <4>1, <4>2, SubSame
    <3> QED BY <3>3, <3>4
  <2> QED BY <2>2, <2>3
<1>6. ASSUME NEW t \in Thread, OthersKeep(t),
             AddPair(t) \/ ClaimPair(t) \/ RemovePair(t) \/ CountTotal(t) \/ TestEmpty(t) \/ MarkPrimary(t)
             \/ OpenDelete(t) \/ CallNext(t) \/ Seek(t) \/ DropDelete(t)
      PROVE  [SubBitmap(i)!Next]_(SubBitmap(i)!avars)
  <2> USE DEF Base, Typed, Goto, Finish, Panic
  <2>1. pairs' = pairs /\ subcount' = subcount
    BY <1>6 DEF AddPair, ClaimPair, Insert, RemovePair, CountTotal, TestEmpty, MarkPrimary,
                OpenDelete, CallNext, Seek, DropDelete
  <2>2. pc[t] \notin {"subcount", "deleted"} /\ pc'[t] \notin {"subcount", "deleted"}
    <3>1. CASE AddPair(t) \/ ClaimPair(t) \/ RemovePair(t)
      BY <3>1 DEF AddPair, ClaimPair, Insert, RemovePair, Begin
    <3>2. CASE CountTotal(t) \/ TestEmpty(t) \/ MarkPrimary(t)
      BY <3>2 DEF CountTotal, TestEmpty, MarkPrimary
    <3>3. CASE OpenDelete(t) \/ CallNext(t) \/ Seek(t) \/ DropDelete(t)
      BY <3>3 DEF OpenDelete, CallNext, Seek, DropDelete
    <3> QED BY <1>6, <3>1, <3>2, <3>3
  <2>3. SubUnpaid(t, i) = {} /\ SubUnpaid(t, i)' = {} /\ PairsOf(i)' = PairsOf(i)
    BY <2>1, <2>2 DEF SubUnpaid, PairsOf
  <2> QED BY <1>6, <2>1, <2>3, SubSame
<1> QED BY <1>1, <1>2, <1>3, <1>4, <1>5, <1>6, StepKeepsOthers DEF Next, Update, Delete

(* Each sub-bitmap, whatever add, claim, remove and delete iterators do at *)
(* it at the same time, and whatever thread is lost to a panic, goes       *)
(* through the states of a TalliedSet.                                     *)
THEOREM SubBitmapsImplementTalliedSet == Spec => SubBitmapsAreTalliedSets
<1>1. Init => \A i \in Id : SubBitmap(i)!Init
  BY DEF Init, SubBitmap!Init, SubUnpaid, PairsOf
<1>2. Base /\ [Next]_vars => [\A i \in Id : [SubBitmap(i)!Next]_(SubBitmap(i)!avars)]_vars
  BY SubBitmapStep
<1> QED BY <1>1, <1>2, BaseInvariant, PTL DEF Spec, SubBitmapsAreTalliedSets
=============================================================================
