--------------------------- MODULE GroupIterProofs ---------------------------
(***************************************************************************)
(* Proofs about GroupIter, for any number of trackers and iterators and    *)
(* whatever their lists and ranges: typing; that the delete flags exclude  *)
(* and are given back; that no item is lost or handed out twice; that a    *)
(* sweep that ends has missed nothing, that trackers are exhausted only    *)
(* when they are full, and that all of them together implement LockedPool. *)
(***************************************************************************)
EXTENDS GroupIter, SequenceTheorems, FiniteSetTheorems, WellFoundedInduction, TLAPS

(* What an iterator is built with, and the numbers it computes from it.    *)
LEMMA Fields ==
  ASSUME iter \in Builds, NEW w \in Worker
  PROVE  /\ List(w) \in Seq(Tracker) /\ Len(List(w)) \in Nat
         /\ \A k \in Place(w) : k \in Nat \ {0} /\ List(w)[k] \in Tracker
         /\ iter[w].role \in {"write", "delete", "read"}
         /\ iter[w].lo \in Nat /\ iter[w].subLo \in Nat
         /\ Top(w) \in Nat /\ Top(w) <= MaxId /\ SubTop(w) \in Nat
         /\ RowLen(w) \in Nat \ {0} /\ RowLen(w) <= MaxSub
<1>1. iter[w] \in IterType
  BY GroupAssumption
<1>2. /\ List(w) \in Seq(Tracker)
      /\ iter[w].lo \in Nat /\ iter[w].hi \in Nat /\ iter[w].subLo \in Nat /\ iter[w].subHi \in Nat
      /\ iter[w].role \in {"write", "delete", "read"}
  BY <1>1 DEF IterType, List
<1>3. Len(List(w)) \in Nat /\ \A k \in Place(w) : k \in Nat \ {0} /\ List(w)[k] \in Tracker
  BY <1>2 DEF Place
<1>4. Top(w) \in Nat /\ Top(w) <= MaxId /\ SubTop(w) \in Nat /\ SubTop(w) <= MaxSub
  BY <1>2, GroupAssumption DEF Top, SubTop, Smaller
<1>5. RowLen(w) \in Nat \ {0} /\ RowLen(w) <= MaxSub
  BY <1>4, GroupAssumption DEF RowLen, Larger
<1> QED BY <1>2, <1>3, <1>4, <1>5

(* What is sought of a set is in it; a deleter seeks what is set.          *)
LEMMA SoughtWithin ==
  /\ \A w, S, b : Sought(w, S, b) \subseteq S
  /\ \A w, S, b : iter[w].role = "delete" => Sought(w, S, b) = S \intersect b
BY DEF Sought, Filter

(* A write iterator that is at a tracker has one of its list; it claims an *)
(* id below max_id, in a simple tracker.                                   *)
PlaceInv ==
  \A w \in Worker :
    /\ pc[w] \in {"scan", "claim"} => turn[w] \in Place(w)
    /\ pc[w] = "claim" => at[w][1] < Top(w) /\ Here(w) \notin Hier

(* An item set is one, and keeps the history typed.                        *)
LEMMA SetTyped ==
  ASSUME TypeOK, NEW p \in Item, Set(p)
  PROVE  bits' \subseteq Item /\ owed' \in [Item -> Int] /\ kept' \in [Worker -> SUBSET Item]
<1>1. bits' \subseteq Item
  BY DEF TypeOK, Set
<1>2. owed' \in [Item -> Int]
  BY DEF TypeOK, Set
<1>3. kept' \in [Worker -> SUBSET Item]
  BY SoughtWithin DEF TypeOK, Set
<1> QED BY <1>1, <1>2, <1>3

(* So does an item taken back, whatever it is.                             *)
LEMMA ClearTyped ==
  ASSUME TypeOK, NEW p, Clear(p)
  PROVE  bits' \subseteq Item /\ owed' \in [Item -> Int] /\ kept' \in [Worker -> SUBSET Item]
<1>1. bits' \subseteq Item
  BY DEF TypeOK, Clear
<1>2. owed' \in [Item -> Int]
  <2>1. CASE p \in Item
    BY <2>1 DEF TypeOK, Clear
  <2>2. CASE p \notin Item
    BY <2>2 DEF TypeOK, Clear
  <2> QED BY <2>1, <2>2
<1>3. kept' \in [Worker -> SUBSET Item]
  BY SoughtWithin DEF TypeOK, Clear
<1> QED BY <1>1, <1>2, <1>3

(* The next visit of a sweep types too.                                    *)
LEMMA VisitTyped ==
  ASSUME TypeOK, NEW w \in Worker, NEW p, Visit(w, p)
  PROVE  /\ bits' \subseteq Item /\ owed' \in [Item -> Int] /\ kept' \in [Worker -> SUBSET Item]
         /\ pc' = pc \/ Goto(w, "open")
<1>1. pc' = pc \/ Goto(w, "open")
  BY DEF Visit
<1>2. CASE Clear(p)
  BY <1>1, <1>2, ClearTyped
<1>3. CASE UNCHANGED items
  BY <1>1, <1>3 DEF TypeOK, items
<1>4. CASE kept' = [kept EXCEPT ![w] = @ \ {p}] /\ UNCHANGED <<bits, owed>>
  BY <1>1, <1>4 DEF TypeOK
<1> QED BY <1>2, <1>3, <1>4 DEF Visit

(* A new iterator starts at the beginning of its range.                    *)
LEMMA OpenTyped ==
  ASSUME TypeOK, NEW w \in Worker, NEW label \in Labels, Open(w, label)
  PROVE  /\ pc' \in [Worker -> Labels] /\ turn' \in [Worker -> Nat \ {0}]
         /\ at' \in [Worker -> Nat \X Nat] /\ kept' \in [Worker -> SUBSET Item]
<1>1. pc' \in [Worker -> Labels] /\ turn' \in [Worker -> Nat \ {0}]
  BY DEF TypeOK, Open, Goto
<1>2. Start(w) \in Nat \X Nat
  BY Fields DEF TypeOK, Start
<1>3. at' \in [Worker -> Nat \X Nat]
  BY <1>2 DEF TypeOK, Open
<1>4. Promised(w) \subseteq Item
  BY DEF Promised, Scope
<1>5. Sought(w, Promised(w), bits) \in SUBSET Item
  BY <1>4, SoughtWithin
<1>6. kept' \in [Worker -> SUBSET Item]
  BY <1>5 DEF TypeOK, Open
<1> QED BY <1>1, <1>3, <1>6

(* A cursor of a tracker of the list can be moved to any number.           *)
LEMMA CursorTyped ==
  ASSUME TypeOK, NEW w \in Worker, turn[w] \in Place(w), NEW n \in Nat, MoveCursor(w, n)
  PROVE  /\ cursors' \in [Worker -> Seq(Nat)]
         /\ \A u \in Worker : Len(cursors'[u]) = Len(List(u))
<1> DEFINE moved == [cursors[w] EXCEPT ![turn[w]] = n]
<1>1. cursors[w] \in Seq(Nat) /\ turn[w] \in 1 .. Len(cursors[w])
  BY DEF TypeOK, Place
<1>2. moved \in Seq(Nat) /\ Len(moved) = Len(cursors[w])
  BY <1>1, ExceptSeq
<1>3. cursors' = [cursors EXCEPT ![w] = moved]
  BY DEF MoveCursor
<1> HIDE DEF moved
<1> QED BY <1>2, <1>3 DEF TypeOK

(* The initial state is typed.                                             *)
LEMMA InitTyped == Init => TypeOK /\ PlaceInv
<1> SUFFICES ASSUME Init PROVE TypeOK /\ PlaceInv
  OBVIOUS
<1>1. cursors \in [Worker -> Seq(Nat)] /\ \A w \in Worker : Len(cursors[w]) = Len(List(w))
  <2>1. ASSUME NEW w \in Worker
        PROVE  cursors[w] \in Seq(Nat) /\ Len(cursors[w]) = Len(List(w))
    <3>1. cursors[w] = [k \in 1 .. Len(List(w)) |-> 0]
      BY DEF Init, Place
    <3>2. Len(List(w)) \in Nat
      BY Fields DEF Init
    <3> QED BY <3>1, <3>2
  <2> QED BY <2>1 DEF Init
<1>2. owed \in [Item -> Int] /\ kept \in [Worker -> SUBSET Item]
  BY DEF Init
<1>3. spent \in [Worker -> SUBSET Nat] /\ lost \in [Worker -> BOOLEAN]
  BY DEF Init
<1> QED BY <1>1, <1>2, <1>3 DEF Init, TypeOK, PlaceInv, Labels

(* Building, holding the flags and dropping keep the types.                *)
LEMMA BuildTyped ==
  ASSUME TypeOK, PlaceInv, NEW w \in Worker, Build(w)
  PROVE  TypeOK' /\ PlaceInv'
<1> USE DEF Labels, Goto, items, holds, writes
<1>1. CASE BuildRead(w)
  <2>1. Open(w, "open")
    BY <1>1 DEF BuildRead
  <2>2. \A u \in Worker : pc'[u] = pc[u] \/ pc'[u] = "open"
    BY <2>1 DEF Open, TypeOK
  <2> QED BY <1>1, <2>1, <2>2, OpenTyped DEF BuildRead, TypeOK, PlaceInv, Open, Place, Here, Top, List
<1>2. CASE BuildWrite(w)
  <2>1. Open(w, "ready")
    BY <1>2 DEF BuildWrite
  <2>2. [k \in Place(w) |-> iter[w].lo] \in Seq(Nat)
        /\ Len([k \in Place(w) |-> iter[w].lo]) = Len(List(w))
    BY Fields DEF TypeOK, Place
  <2>3. cursors' \in [Worker -> Seq(Nat)] /\ \A u \in Worker : Len(cursors'[u]) = Len(List(u))
    BY <1>2, <2>2 DEF BuildWrite, TypeOK
  <2> QED BY <1>2, <2>1, <2>3, OpenTyped DEF BuildWrite, TypeOK, PlaceInv, Open, Place, Here, Top, List
<1>3. CASE BuildDelete(w)
  BY <1>3 DEF BuildDelete, TypeOK, PlaceInv, Place, Here, Top, List
<1>4. CASE Acquire(w)
  <2>1. List(w)[taken[w] + 1] \in Tracker
    BY <1>4, Fields DEF Acquire, TypeOK, Place
  <2>2. taken[w] + 1 \in Nat
    BY DEF TypeOK
  <2>3. \/ Goto(w, "release") /\ UNCHANGED <<flags, taken>>
        \/ flags' = flags \union {List(w)[taken[w] + 1]} /\ taken' = [taken EXCEPT ![w] = taken[w] + 1] /\ UNCHANGED pc
    BY <1>4 DEF Acquire
  <2>4. flags' \subseteq Tracker /\ taken' \in [Worker -> Nat] /\ pc' \in [Worker -> Labels]
    BY <2>1, <2>2, <2>3 DEF TypeOK
  <2> QED BY <1>4, <2>4 DEF Acquire, TypeOK, PlaceInv, Place, Here, Top, List
<1>5. CASE OpenDelete(w)
  <2>1. Open(w, "open")
    BY <1>5 DEF OpenDelete
  <2> QED BY <1>5, <2>1, OpenTyped DEF OpenDelete, TypeOK, PlaceInv, Open, Place, Here, Top, List
<1>6. CASE Release(w)
  <2>1. flags' \subseteq Tracker /\ freed' \in [Worker -> Nat] /\ taken' \in [Worker -> Nat]
        /\ pc' \in [Worker -> Labels]
    <3>1. CASE freed[w] < taken[w]
      <4>1. flags' = flags \ {List(w)[freed[w] + 1]} /\ freed' = [freed EXCEPT ![w] = freed[w] + 1] /\ UNCHANGED <<taken, pc>>
        BY <1>6, <3>1 DEF Release
      <4> QED BY <4>1 DEF TypeOK
    <3>2. CASE ~(freed[w] < taken[w])
      <4>1. /\ freed' = [freed EXCEPT ![w] = 0] /\ taken' = [taken EXCEPT ![w] = 0]
            /\ Goto(w, "new") /\ UNCHANGED flags
        BY <1>6, <3>2 DEF Release
      <4> QED BY <4>1 DEF TypeOK
    <3> QED BY <3>1, <3>2
  <2> QED BY <1>6, <2>1 DEF Release, TypeOK, PlaceInv, Place, Here, Top, List
<1>7. CASE Discard(w)
  <2>1. [k \in Place(w) |-> 0] \in Seq(Nat) /\ Len([k \in Place(w) |-> 0]) = Len(List(w))
    BY Fields DEF TypeOK, Place
  <2>2. cursors' \in [Worker -> Seq(Nat)] /\ \A u \in Worker : Len(cursors'[u]) = Len(List(u))
    BY <1>7, <2>1 DEF Discard, TypeOK
  <2>3. /\ pc' \in [Worker -> Labels] /\ turn' \in [Worker -> Nat \ {0}] /\ at' \in [Worker -> Nat \X Nat]
        /\ robin' \in [Worker -> Nat \ {0}] /\ tries' \in [Worker -> Nat]
    BY <1>7 DEF Discard, TypeOK
  <2>4. /\ spent' \in [Worker -> SUBSET Nat] /\ lost' \in [Worker -> BOOLEAN] /\ kept' \in [Worker -> SUBSET Item]
        /\ \A u \in Worker : spent'[u] \subseteq spent[u]
    BY <1>7 DEF Discard, TypeOK
  <2>5. /\ UNCHANGED <<iter, bits, made, flags, freed, taken, owed>>
        /\ \A u \in Worker : \/ pc'[u] \in {"release", "new"}
                             \/ pc'[u] = pc[u] /\ turn'[u] = turn[u] /\ at'[u] = at[u]
    BY <1>7 DEF Discard, TypeOK
  <2>6. TypeOK'
    BY <2>2, <2>3, <2>4, <2>5 DEF TypeOK, Place, List
  <2>7. PlaceInv'
    BY <2>5 DEF PlaceInv, Place, Here, Top, List
  <2> QED BY <2>6, <2>7
<1> QED BY <1>1, <1>2, <1>3, <1>4, <1>5, <1>6, <1>7 DEF Build

(* So do the sweeps.                                                       *)
LEMMA SweepTyped ==
  ASSUME TypeOK, PlaceInv, NEW w \in Worker, Sweep(w)
  PROVE  TypeOK' /\ PlaceInv'
<1> USE DEF Labels, Goto, items, holds, writes
<1> at[w] \in Nat \X Nat
  BY DEF TypeOK
<1>0. \A i \in Nat : NextRow(w, i) \in Nat \X Nat
  BY Fields DEF TypeOK, NextRow
<1>1. CASE CallSweep(w)
  BY <1>1 DEF CallSweep, TypeOK, PlaceInv, Place, Here, Top, List
<1>2. CASE NextTracker(w)
  <2>1. Start(w) \in Nat \X Nat
    BY Fields DEF TypeOK, Start
  <2>2. turn' \in [Worker -> Nat \ {0}] /\ at' \in [Worker -> Nat \X Nat]
    BY <1>2, <2>1 DEF NextTracker, TypeOK
  <2>3. \A u \in Worker : u # w => turn'[u] = turn[u] /\ at'[u] = at[u]
    BY <1>2 DEF NextTracker, TypeOK
  <2>4. pc[w] = "seek" /\ UNCHANGED <<iter, items, made, pc, holds, writes>>
    BY <1>2 DEF NextTracker
  <2> QED BY <2>2, <2>3, <2>4 DEF TypeOK, PlaceInv, Place, Here, Top, List
<1>3. CASE EndSweep(w)
  BY <1>3 DEF EndSweep, TypeOK, PlaceInv, Place, Here, Top, List
<1>4. CASE VisitId(w) \/ VisitPair(w)
  <2>1. PICK p : Visit(w, p)
    BY <1>4 DEF VisitId, VisitPair
  <2>2. /\ bits' \subseteq Item /\ owed' \in [Item -> Int] /\ kept' \in [Worker -> SUBSET Item]
        /\ pc' = pc \/ Goto(w, "open")
    BY <2>1, VisitTyped
  <2>3. at' \in [Worker -> Nat \X Nat] /\ \A u \in Worker : u # w => at'[u] = at[u]
    <3>1. \E q \in Nat \X Nat : at' = [at EXCEPT ![w] = q]
      BY <1>4 DEF VisitId, VisitPair
    <3> QED BY <3>1 DEF TypeOK
  <2>4. pc[w] \in {"seek", "row"} /\ UNCHANGED <<iter, made, turn, holds, writes>>
    BY <1>4 DEF VisitId, VisitPair
  <2> QED BY <2>2, <2>3, <2>4 DEF TypeOK, PlaceInv, Place, Here, Top, List
<1>5. CASE EnterRow(w)
  <2>1. at' \in [Worker -> Nat \X Nat] /\ pc' \in [Worker -> Labels]
    <3>1. \/ Goto(w, "row") /\ UNCHANGED at
          \/ at' = [at EXCEPT ![w] = NextRow(w, at[w][1])] /\ UNCHANGED pc
      BY <1>5 DEF EnterRow
    <3>2. NextRow(w, at[w][1]) \in Nat \X Nat
      BY <1>0
    <3> QED BY <3>1, <3>2 DEF TypeOK
  <2> QED BY <1>5, <2>1 DEF EnterRow, TypeOK, PlaceInv, Place, Here, Top, List
<1>6. CASE LeaveRow(w)
  <2>1. at' \in [Worker -> Nat \X Nat] /\ pc' \in [Worker -> Labels]
    BY <1>0, <1>6 DEF LeaveRow, TypeOK
  <2> QED BY <1>6, <2>1 DEF LeaveRow, TypeOK, PlaceInv, Place, Here, Top, List
<1> QED BY <1>1, <1>2, <1>3, <1>4, <1>5, <1>6 DEF Sweep

(* What a write iterator claims is an item.                                *)
LEMMA ClaimedIsItem ==
  ASSUME TypeOK, PlaceInv, NEW w \in Worker
  PROVE  /\ pc[w] = "claim" => <<Here(w), at[w][1], 0>> \in Item
         /\ pc[w] = "scan" /\ at[w][1] < Top(w) /\ Here(w) \in Hier /\ at[w][2] < RowLen(w) =>
              <<Here(w), at[w][1], at[w][2]>> \in Item /\ <<Here(w), at[w][1]>> \in Hier \X (0 .. MaxId - 1)
<1>1. at[w][1] \in Nat /\ at[w][2] \in Nat
  BY DEF TypeOK
<1>2. pc[w] \in {"scan", "claim"} => Here(w) \in Tracker
  BY Fields DEF TypeOK, PlaceInv, Here
<1>3. Top(w) \in Nat /\ Top(w) <= MaxId /\ RowLen(w) \in Nat /\ RowLen(w) <= MaxSub
  BY Fields DEF TypeOK
<1>4. MaxId \in Nat /\ MaxSub \in Nat \ {0}
  BY GroupAssumption
<1>5. CASE pc[w] = "claim"
  <2>1. at[w][1] \in 0 .. MaxId - 1 /\ 0 \in 0 .. MaxSub - 1 /\ 0 \in Sub(Here(w))
    BY <1>1, <1>3, <1>4, <1>5 DEF PlaceInv, Sub
  <2> QED BY <1>2, <1>5, <2>1 DEF Item
<1>6. CASE pc[w] = "scan" /\ at[w][1] < Top(w) /\ Here(w) \in Hier /\ at[w][2] < RowLen(w)
  <2>1. at[w][1] \in 0 .. MaxId - 1 /\ at[w][2] \in 0 .. MaxSub - 1 /\ at[w][2] \in Sub(Here(w))
    BY <1>1, <1>3, <1>4, <1>6 DEF Sub
  <2> QED BY <1>2, <1>6, <2>1 DEF Item
<1> QED BY <1>5, <1>6

(* Division and remainder by a row's length, and the next word, are        *)
(* natural numbers.                                                        *)
LEMMA Quotients ==
  ASSUME NEW n \in Nat, NEW d \in Nat \ {0}
  PROVE  n \div d \in Nat /\ n % d \in Nat /\ (n \div d + 1) * d \in Nat
OBVIOUS

(* The turns of a write iterator keep the types.                           *)
LEMMA TurnTyped ==
  ASSUME TypeOK, PlaceInv, NEW w \in Worker, CallWrite(w) \/ ReturnNone(w) \/ SelectTracker(w) \/ Exhaust(w)
  PROVE  TypeOK' /\ PlaceInv'
<1> USE DEF Labels, Goto, items, holds, writes
<1>1. CASE CallWrite(w)
  <2>1. tries' \in [Worker -> Nat] /\ lost' \in [Worker -> BOOLEAN]
    BY <1>1, Fields DEF CallWrite, TypeOK
  <2> QED BY <1>1, <2>1 DEF CallWrite, TypeOK, PlaceInv, Place, Here, Top, List
<1>2. CASE ReturnNone(w)
  BY <1>2 DEF ReturnNone, TypeOK, PlaceInv, Place, Here, Top, List
<1>3. CASE SelectTracker(w)
  <2>1. PICK k \in Choices(w) :
          /\ turn' = [turn EXCEPT ![w] = k]
          /\ robin' = [robin EXCEPT ![w] = IF iter[w].policy = "RoundRobin" THEN (k % Len(List(w))) + 1 ELSE @]
          /\ at' = [at EXCEPT ![w] = IF List(w)[k] \in Hier
                                     THEN <<cursors[w][k] \div RowLen(w), cursors[w][k] % RowLen(w)>>
                                     ELSE <<cursors[w][k], 0>>]
    BY <1>3 DEF SelectTracker
  <2>2. k \in Place(w) /\ k \in Nat \ {0} /\ Len(List(w)) \in Nat \ {0}
    <3>1. k \in Place(w)
      BY DEF Choices, Unspent
    <3>2. k \in Nat /\ k >= 1 /\ k <= Len(List(w)) /\ Len(List(w)) \in Nat
      BY <3>1, Fields DEF TypeOK, Place
    <3> QED BY <3>1, <3>2
  <2>3. cursors[w][k] \in Nat
    BY <2>2 DEF TypeOK, Place
  <2>4. /\ cursors[w][k] \div RowLen(w) \in Nat /\ cursors[w][k] % RowLen(w) \in Nat
        /\ k % Len(List(w)) \in Nat
    BY <2>2, <2>3, Quotients, Fields DEF TypeOK
  <2>5. at' \in [Worker -> Nat \X Nat]
    BY <2>1, <2>3, <2>4 DEF TypeOK
  <2>6. turn' \in [Worker -> Nat \ {0}] /\ turn'[w] \in Place(w) /\ \A u \in Worker : u # w => turn'[u] = turn[u]
    BY <2>1, <2>2 DEF TypeOK
  <2>7. robin' \in [Worker -> Nat \ {0}]
    BY <2>1, <2>4 DEF TypeOK
  <2>8. tries' \in [Worker -> Nat] /\ pc' = [pc EXCEPT ![w] = "scan"]
        /\ UNCHANGED <<iter, items, made, holds, cursors, spent, lost>>
    BY <1>3 DEF SelectTracker, TypeOK
  <2>9. TypeOK'
    BY <2>5, <2>6, <2>7, <2>8 DEF TypeOK, Place, List
  <2>10. PlaceInv'
    <3>1. \A u \in Worker : u # w => pc'[u] = pc[u] /\ at'[u] = at[u]
      BY <2>1, <2>8 DEF TypeOK
    <3>2. pc'[w] = "scan"
      BY <2>8 DEF TypeOK
    <3> QED BY <2>6, <2>8, <3>1, <3>2 DEF PlaceInv, Place, Here, Top, List
  <2> QED BY <2>9, <2>10
<1>4. CASE Exhaust(w)
  <2>1. turn[w] \in Place(w)
    BY <1>4 DEF Exhaust, PlaceInv
  <2>2. PICK n \in Nat : MoveCursor(w, n)
    <3>1. Top(w) * RowLen(w) \in Nat /\ Top(w) \in Nat
      BY Fields DEF TypeOK
    <3>2. cursors[w][turn[w]] \in Nat
      BY <2>1 DEF TypeOK, Place
    <3>3. Larger(cursors[w][turn[w]], Top(w)) \in Nat
      BY <3>1, <3>2 DEF Larger
    <3> QED BY <1>4, <3>1, <3>3 DEF Exhaust
  <2>3. cursors' \in [Worker -> Seq(Nat)] /\ \A u \in Worker : Len(cursors'[u]) = Len(List(u))
    BY <2>1, <2>2, CursorTyped
  <2>4. spent' \in [Worker -> SUBSET Nat] /\ \A u \in Worker : spent'[u] \subseteq Place(u)
    BY <1>4, <2>1, Fields DEF Exhaust, TypeOK
  <2>5. pc' = [pc EXCEPT ![w] = "select"] /\ UNCHANGED <<iter, items, made, turn, at, holds, robin, tries, lost>>
    BY <1>4 DEF Exhaust
  <2> QED BY <2>3, <2>4, <2>5 DEF TypeOK, PlaceInv, Place, Here, Top, List
<1> QED BY <1>1, <1>2, <1>3, <1>4

(* So do its scans and claims.                                             *)
LEMMA ClaimTyped ==
  ASSUME TypeOK, PlaceInv, NEW w \in Worker, ScanWord(w) \/ Claim(w) \/ ClaimPair(w) \/ NextClaimRow(w)
  PROVE  TypeOK' /\ PlaceInv'
<1> USE DEF Labels, Goto, items, holds, writes
<1>0. at[w] \in Nat \X Nat /\ at[w][1] \in Nat /\ at[w][2] \in Nat /\ at[w][1] + 1 \in Nat
  BY DEF TypeOK
<1>1. CASE ScanWord(w)
  <2>1. (at[w][1] \div B + 1) * B \in Nat
    BY <1>0, Quotients, GroupAssumption
  <2>2. \/ at' = [at EXCEPT ![w] = <<(at[w][1] \div B + 1) * B, 0>>] /\ UNCHANGED pc
        \/ \E i \in Hits(w) : at' = [at EXCEPT ![w] = <<i, 0>>] /\ pc' = [pc EXCEPT ![w] = "claim"]
    BY <1>1 DEF ScanWord
  <2>3. \A i \in Hits(w) : i \in Nat /\ i < Top(w)
    BY <1>0, Fields DEF Hits, TypeOK
  <2>4. /\ at' \in [Worker -> Nat \X Nat] /\ pc' \in [Worker -> Labels]
        /\ \A u \in Worker : u # w => at'[u] = at[u] /\ pc'[u] = pc[u]
        /\ pc'[w] = "claim" => at'[w][1] < Top(w)
        /\ pc'[w] \in {"scan", "claim"}
    <3>1. pc[w] = "scan"
      BY <1>1 DEF ScanWord
    <3>2. CASE at' = [at EXCEPT ![w] = <<(at[w][1] \div B + 1) * B, 0>>] /\ UNCHANGED pc
      BY <2>1, <3>1, <3>2 DEF TypeOK
    <3>3. CASE \E i \in Hits(w) : at' = [at EXCEPT ![w] = <<i, 0>>] /\ pc' = [pc EXCEPT ![w] = "claim"]
      BY <2>3, <3>3 DEF TypeOK
    <3> QED BY <2>2, <3>2, <3>3
  <2>5. /\ pc[w] = "scan" /\ Here(w) \notin Hier
        /\ UNCHANGED <<iter, items, made, turn, holds, writes>>
    BY <1>1 DEF ScanWord
  <2>6. TypeOK'
    BY <2>4, <2>5 DEF TypeOK, Place, List
  <2>7. turn[w] \in Place(w)
    BY <2>5 DEF PlaceInv
  <2>8. PlaceInv'
    BY <2>4, <2>5, <2>7 DEF PlaceInv, Place, Here, Top, List
  <2> QED BY <2>6, <2>8
<1>2. CASE Claim(w)
  <2>1. turn[w] \in Place(w) /\ <<Here(w), at[w][1], 0>> \in Item
    BY <1>2, ClaimedIsItem DEF Claim, PlaceInv
  <2>2. cursors' \in [Worker -> Seq(Nat)] /\ \A u \in Worker : Len(cursors'[u]) = Len(List(u))
    BY <1>0, <1>2, <2>1, CursorTyped DEF Claim
  <2>3. \/ lost' = [lost EXCEPT ![w] = TRUE] /\ pc' = [pc EXCEPT ![w] = "select"] /\ UNCHANGED items
        \/ Set(<<Here(w), at[w][1], 0>>) /\ pc' = [pc EXCEPT ![w] = "ready"] /\ UNCHANGED lost
    BY <1>2 DEF Claim
  <2>4. bits' \subseteq Item /\ owed' \in [Item -> Int] /\ kept' \in [Worker -> SUBSET Item]
    BY <2>1, <2>3, SetTyped DEF TypeOK
  <2>5. lost' \in [Worker -> BOOLEAN]
    BY <2>3 DEF TypeOK
  <2>6. pc' \in [Worker -> Labels] /\ \A u \in Worker : pc'[u] = pc[u] \/ pc'[u] \in {"select", "ready"}
    BY <2>3 DEF TypeOK
  <2>7. UNCHANGED <<iter, made, turn, at, holds, robin, tries, spent>>
    BY <1>2 DEF Claim
  <2> QED BY <2>2, <2>4, <2>5, <2>6, <2>7 DEF TypeOK, PlaceInv, Place, Here, Top, List
<1>3. CASE ClaimPair(w)
  <2> DEFINE p == <<Here(w), at[w][1], at[w][2]>>
  <2>1. turn[w] \in Place(w) /\ p \in Item /\ <<Here(w), at[w][1]>> \in Hier \X (0 .. MaxId - 1)
    BY <1>3, ClaimedIsItem DEF ClaimPair, PlaceInv
  <2>2. made' \subseteq Hier \X (0 .. MaxId - 1)
    BY <1>3, <2>1 DEF ClaimPair, TypeOK
  <2>3. \/ at' = [at EXCEPT ![w] = <<at[w][1], at[w][2] + 1>>] /\ UNCHANGED <<items, cursors, pc>>
        \/ /\ Set(p) /\ MoveCursor(w, at[w][1] * RowLen(w) + at[w][2] + 1)
           /\ pc' = [pc EXCEPT ![w] = "ready"] /\ UNCHANGED at
    BY <1>3 DEF ClaimPair
  <2>4. at[w][1] * RowLen(w) + at[w][2] + 1 \in Nat
    <3>1. \A i, n, s \in Nat : i * n + s + 1 \in Nat
      OBVIOUS
    <3>2. RowLen(w) \in Nat
      BY Fields DEF TypeOK
    <3> QED BY <1>0, <3>1, <3>2
  <2>5. pc[w] = "scan" /\ UNCHANGED <<iter, turn, holds, robin, tries, spent, lost>>
    BY <1>3 DEF ClaimPair
  <2> HIDE DEF p
  <2>6. bits' \subseteq Item /\ owed' \in [Item -> Int] /\ kept' \in [Worker -> SUBSET Item]
    BY <2>1, <2>3, SetTyped DEF TypeOK
  <2>7. cursors' \in [Worker -> Seq(Nat)] /\ \A u \in Worker : Len(cursors'[u]) = Len(List(u))
    <3>1. CASE UNCHANGED cursors
      BY <3>1 DEF TypeOK
    <3>2. CASE MoveCursor(w, at[w][1] * RowLen(w) + at[w][2] + 1)
      BY <2>1, <2>4, <3>2, CursorTyped
    <3> QED BY <2>3, <3>1, <3>2
  <2>8. /\ at' \in [Worker -> Nat \X Nat] /\ pc' \in [Worker -> Labels]
        /\ \A u \in Worker : u # w => pc'[u] = pc[u] /\ at'[u] = at[u]
        /\ pc'[w] \in {"scan", "ready"}
    <3>1. <<at[w][1], at[w][2] + 1>> \in Nat \X Nat
      BY <1>0
    <3>2. CASE at' = [at EXCEPT ![w] = <<at[w][1], at[w][2] + 1>>] /\ UNCHANGED pc
      BY <2>5, <3>1, <3>2 DEF TypeOK
    <3>3. CASE pc' = [pc EXCEPT ![w] = "ready"] /\ UNCHANGED at
      BY <3>3 DEF TypeOK
    <3> QED BY <2>3, <3>2, <3>3
  <2>9. TypeOK'
    BY <2>2, <2>5, <2>6, <2>7, <2>8 DEF TypeOK, Place, List
  <2>10. PlaceInv'
    BY <2>1, <2>5, <2>8 DEF PlaceInv, Place, Here, Top, List
  <2> QED BY <2>9, <2>10
<1>4. CASE NextClaimRow(w)
  <2>1. at' = [at EXCEPT ![w] = NextRow(w, at[w][1])] /\ pc[w] = "scan"
        /\ UNCHANGED <<iter, items, made, pc, turn, holds, writes>>
    BY <1>4 DEF NextClaimRow
  <2>2. NextRow(w, at[w][1]) \in Nat \X Nat
    BY <1>0, Fields DEF TypeOK, NextRow
  <2>3. at' \in [Worker -> Nat \X Nat] /\ \A u \in Worker : u # w => at'[u] = at[u]
    BY <2>1, <2>2 DEF TypeOK
  <2> QED BY <2>1, <2>3 DEF TypeOK, PlaceInv, Place, Here, Top, List
<1> QED BY <1>1, <1>2, <1>3, <1>4

(* Every step keeps the types.                                             *)
LEMMA TypedStep == TypeOK /\ PlaceInv /\ [Next]_vars => TypeOK' /\ PlaceInv'
<1> SUFFICES ASSUME TypeOK, PlaceInv, [Next]_vars
             PROVE  TypeOK' /\ PlaceInv'
  OBVIOUS
<1>1. CASE UNCHANGED vars
  BY <1>1 DEF vars, TypeOK, PlaceInv, Place, Here, Top, List
<1>2. ASSUME NEW w \in Worker, Build(w) \/ Sweep(w) \/ WriteStep(w)
      PROVE  TypeOK' /\ PlaceInv'
  BY <1>2, BuildTyped, SweepTyped, TurnTyped, ClaimTyped DEF WriteStep
<1> QED BY <1>1, <1>2 DEF Next

(* Every variable of the group iterators keeps to its type: above all a    *)
(* write iterator claims nothing but ids below max_id and sub-ids below    *)
(* max_sub_id, and its cursor and turn stay in its list of trackers.       *)
THEOREM TypeCorrect == Spec => []TypeOK
<1>1. Init => TypeOK /\ PlaceInv
  BY InitTyped
<1>2. TypeOK /\ PlaceInv /\ [Next]_vars => TypeOK' /\ PlaceInv'
  BY TypedStep
<1> QED BY <1>1, <1>2, PTL DEF Spec

-----------------------------------------------------------------------------
(* The delete flags.  w holds those of the trackers in its list after the  *)
(* first freed[w] and up to the first taken[w].                            *)
Holds(w, t) == \E k \in Place(w) : freed[w] < k /\ k <= taken[w] /\ List(w)[k] = t

(* How many w has, by where it is.                                         *)
Stage(w) ==
  /\ freed[w] <= taken[w] /\ taken[w] <= Len(List(w))
  /\ iter[w].role # "delete" \/ pc[w] = "new" => taken[w] = 0
  /\ pc[w] # "release" => freed[w] = 0
  /\ pc[w] \in {"acquire", "release"} => iter[w].role = "delete"
  /\ Deleting(w) => taken[w] = Len(List(w))

(* A flag is set exactly while somebody holds it, and only one does.       *)
FlagsHeld ==
  /\ \A t \in flags : \E w \in Worker : Holds(w, t)
  /\ \A w \in Worker : \A t : Holds(w, t) => t \in flags
  /\ \A u, w \in Worker : \A t : Holds(u, t) /\ Holds(w, t) => u = w

FlagInv == (\A w \in Worker : Stage(w)) /\ FlagsHeld

(* A step that leaves the flags, and who holds them, keeps FlagsHeld.      *)
LEMMA SameHolds ==
  ASSUME FlagsHeld, UNCHANGED <<iter, holds>>
  PROVE  FlagsHeld'
BY DEF FlagsHeld, Holds, holds, Place, List

(* Steps of w leave the stage of the others alone.                         *)
LEMMA OtherStages ==
  ASSUME NEW w \in Worker, \A u \in Worker : Stage(u), Stage(w)', iter' = iter,
         \A u \in Worker : u # w => pc'[u] = pc[u] /\ freed'[u] = freed[u] /\ taken'[u] = taken[u]
  PROVE  \A u \in Worker : Stage(u)'
BY DEF Stage, Deleting, Place, List

(* Building, holding the flags and dropping.                               *)
LEMMA BuildFlags ==
  ASSUME TypeOK, FlagInv, NEW w \in Worker, Build(w)
  PROVE  FlagInv'
<1> USE DEF Goto, holds
<1>0. /\ Stage(w) /\ FlagsHeld /\ (\A u \in Worker : Stage(u))
      /\ freed[w] \in Nat /\ taken[w] \in Nat /\ Len(List(w)) \in Nat
  BY Fields DEF FlagInv, TypeOK
<1>1. ASSUME UNCHANGED <<iter, holds>>, Stage(w)', \A u \in Worker : u # w => pc'[u] = pc[u]
      PROVE  FlagInv'
  BY <1>0, <1>1, SameHolds, OtherStages DEF FlagInv
<1>2. CASE BuildRead(w) \/ BuildWrite(w) \/ BuildDelete(w) \/ OpenDelete(w) \/ Discard(w)
  <2>1. UNCHANGED <<iter, holds>> /\ \A u \in Worker : u # w => pc'[u] = pc[u]
    BY <1>2 DEF BuildRead, BuildWrite, BuildDelete, OpenDelete, Discard, Open, TypeOK
  <2>2. CASE BuildRead(w)
    <3>1. pc[w] = "new" /\ pc'[w] = "open" /\ iter[w].role = "read"
      BY <2>2 DEF BuildRead, Open, TypeOK
    <3> QED BY <1>0, <1>1, <2>1, <3>1 DEF Stage, Deleting, Place, List
  <2>3. CASE BuildWrite(w)
    <3>1. pc[w] = "new" /\ pc'[w] = "ready" /\ iter[w].role = "write"
      BY <2>3 DEF BuildWrite, Open, TypeOK
    <3> QED BY <1>0, <1>1, <2>1, <3>1 DEF Stage, Deleting, Place, List
  <2>4. CASE BuildDelete(w)
    <3>1. pc[w] = "new" /\ pc'[w] = "acquire" /\ iter[w].role = "delete"
      BY <2>4 DEF BuildDelete, TypeOK
    <3> QED BY <1>0, <1>1, <2>1, <3>1 DEF Stage, Deleting, Place, List
  <2>5. CASE OpenDelete(w)
    <3>1. pc[w] = "acquire" /\ pc'[w] = "open" /\ taken[w] = Len(List(w))
      BY <2>5 DEF OpenDelete, Open, TypeOK
    <3> QED BY <1>0, <1>1, <2>1, <3>1 DEF Stage, Deleting, Place, List
  <2>6. CASE Discard(w)
    <3>1. /\ pc[w] \in {"open", "ended", "ready", "none"}
          /\ pc'[w] = IF iter[w].role = "delete" THEN "release" ELSE "new"
      BY <2>6 DEF Discard, TypeOK
    <3> QED BY <1>0, <1>1, <2>1, <3>1 DEF Stage, Deleting, Place, List
  <2> QED BY <1>2, <2>2, <2>3, <2>4, <2>5, <2>6
<1>3. CASE Acquire(w)
  <2> DEFINE t == List(w)[taken[w] + 1]
  <2>1. pc[w] = "acquire" /\ taken[w] < Len(List(w)) /\ UNCHANGED <<iter, freed>> /\ freed[w] = 0
    BY <1>0, <1>3 DEF Acquire, Stage
  <2>2. CASE t \in flags
    <3>1. pc' = [pc EXCEPT ![w] = "release"] /\ UNCHANGED <<flags, taken>>
      BY <1>3, <2>2 DEF Acquire
    <3>2. pc'[w] = "release" /\ \A u \in Worker : u # w => pc'[u] = pc[u]
      BY <3>1 DEF TypeOK
    <3> QED BY <1>0, <1>1, <2>1, <3>1, <3>2 DEF Stage, Deleting, Place, List
  <2>3. CASE t \notin flags
    <3>1. flags' = flags \union {t} /\ taken' = [taken EXCEPT ![w] = taken[w] + 1] /\ UNCHANGED pc
      BY <1>3, <2>3 DEF Acquire
    <3>2. taken'[w] = taken[w] + 1 /\ \A u \in Worker : u # w => taken'[u] = taken[u]
      BY <3>1 DEF TypeOK
    <3>3. \A u \in Worker : Stage(u)'
      BY <1>0, <2>1, <3>1, <3>2, OtherStages DEF Stage, Deleting, Place, List
    <3>4. \A u \in Worker : u # w => \A x : Holds(u, x)' <=> Holds(u, x)
      BY <2>1, <3>2 DEF Holds, Place, List
    <3>5. \A x : Holds(w, x)' <=> Holds(w, x) \/ x = t
      <4>1. taken[w] + 1 \in Place(w) /\ freed[w] < taken[w] + 1
        BY <1>0, <2>1 DEF Place
      <4>2. \A k \in Place(w) : k <= taken[w] + 1 <=> k <= taken[w] \/ k = taken[w] + 1
        BY <1>0 DEF Place
      <4> QED BY <2>1, <3>2, <4>1, <4>2 DEF Holds, Place, List
    <3> HIDE DEF t
    <3>6. FlagsHeld'
      BY <1>0, <2>3, <3>1, <3>4, <3>5 DEF FlagsHeld
    <3> QED BY <3>3, <3>6 DEF FlagInv
  <2> QED BY <2>2, <2>3
<1>4. CASE Release(w)
  <2>1. pc[w] = "release" /\ UNCHANGED iter
    BY <1>4 DEF Release
  <2>2. CASE freed[w] < taken[w]
    <3> DEFINE t == List(w)[freed[w] + 1]
    <3>1. flags' = flags \ {t} /\ freed' = [freed EXCEPT ![w] = freed[w] + 1] /\ UNCHANGED <<taken, pc>>
      BY <1>4, <2>2 DEF Release
    <3>2. freed'[w] = freed[w] + 1 /\ \A u \in Worker : u # w => freed'[u] = freed[u]
      BY <3>1 DEF TypeOK
    <3>3. \A u \in Worker : Stage(u)'
      BY <1>0, <2>1, <2>2, <3>1, <3>2, OtherStages DEF Stage, Deleting, Place, List
    <3>4. \A u \in Worker : u # w => \A x : Holds(u, x)' <=> Holds(u, x)
      BY <2>1, <3>1, <3>2 DEF Holds, Place, List
    <3>5. Holds(w, t) /\ \A x : Holds(w, x)' <=> Holds(w, x) /\ x # t
      <4>1. freed[w] + 1 \in Place(w) /\ freed[w] + 1 <= taken[w] /\ freed[w] < freed[w] + 1
        BY <1>0, <2>2 DEF Stage, Place
      <4>2. \A k \in Place(w) : freed[w] < k <=> freed[w] + 1 < k \/ k = freed[w] + 1
        BY <1>0 DEF Place
      <4>3. \A j, k \in Place(w) : List(w)[j] = List(w)[k] => j = k
        BY GroupAssumption DEF TypeOK, Place, List
      <4>4. \A k \in Place(w) : freed[w] + 1 < k => k # freed[w] + 1
        BY <1>0 DEF Place
      <4>5. UNCHANGED <<taken, Place(w), List(w)>>
        BY <2>1, <3>1 DEF Place, List
      <4> QED BY <3>2, <4>1, <4>2, <4>3, <4>4, <4>5 DEF Holds
    <3> HIDE DEF t
    <3>6. FlagsHeld'
      BY <1>0, <3>1, <3>4, <3>5 DEF FlagsHeld
    <3> QED BY <3>3, <3>6 DEF FlagInv
  <2>3. CASE ~(freed[w] < taken[w])
    <3>1. /\ freed' = [freed EXCEPT ![w] = 0] /\ taken' = [taken EXCEPT ![w] = 0]
          /\ pc' = [pc EXCEPT ![w] = "new"] /\ UNCHANGED flags
      BY <1>4, <2>3 DEF Release
    <3>2. /\ freed'[w] = 0 /\ taken'[w] = 0 /\ pc'[w] = "new"
          /\ \A u \in Worker : u # w => freed'[u] = freed[u] /\ taken'[u] = taken[u] /\ pc'[u] = pc[u]
      BY <3>1 DEF TypeOK
    <3>3. Stage(w)'
      BY <1>0, <2>1, <3>2 DEF Stage, Deleting, Place, List
    <3>4. \A u \in Worker : Stage(u)'
      BY <1>0, <2>1, <3>2, <3>3, OtherStages
    <3>5. \A u \in Worker : \A x : Holds(u, x)' <=> Holds(u, x)
      <4>1. \A x : ~Holds(w, x) /\ ~Holds(w, x)'
        BY <1>0, <2>1, <2>3, <3>2 DEF Holds, Place, List
      <4>2. \A u \in Worker : u # w => \A x : Holds(u, x)' <=> Holds(u, x)
        BY <2>1, <3>2 DEF Holds, Place, List
      <4> QED BY <4>1, <4>2
    <3>6. FlagsHeld'
      BY <1>0, <3>1, <3>5 DEF FlagsHeld
    <3> QED BY <3>4, <3>6 DEF FlagInv
  <2> QED BY <2>2, <2>3
<1> QED BY <1>2, <1>3, <1>4 DEF Build

(* The calls of next() leave the flags alone.                              *)
LEMMA NextFlags ==
  ASSUME TypeOK, FlagInv, NEW w \in Worker, Sweep(w) \/ WriteStep(w)
  PROVE  FlagInv'
<1> DEFINE sweeping == {"open", "seek", "row", "ended"}
           writing  == {"ready", "select", "scan", "claim", "none"}
<1>0. Stage(w) /\ FlagsHeld /\ \A u \in Worker : Stage(u)
  BY DEF FlagInv
<1>1. UNCHANGED <<iter, holds>> /\ \A u \in Worker : u # w => pc'[u] = pc[u]
  <2>1. CASE Sweep(w)
    BY <2>1 DEF Sweep, CallSweep, NextTracker, EndSweep, VisitId, EnterRow, VisitPair, LeaveRow, Visit, Goto, TypeOK
  <2>2. CASE WriteStep(w)
    BY <2>2 DEF WriteStep, CallWrite, ReturnNone, SelectTracker, Exhaust, ScanWord, Claim, ClaimPair,
                NextClaimRow, items, Goto, TypeOK
  <2> QED BY <2>1, <2>2
<1>2. CASE Sweep(w)
  <2>1. pc[w] \in sweeping /\ pc'[w] \in sweeping
    BY <1>2 DEF Sweep, CallSweep, NextTracker, EndSweep, VisitId, EnterRow, VisitPair, LeaveRow, Visit, Goto, TypeOK
  <2>2. Stage(w)'
    BY <1>0, <1>1, <2>1 DEF Stage, Deleting, holds, Place, List
  <2> QED BY <1>0, <1>1, <2>2, SameHolds, OtherStages DEF FlagInv, holds
<1>3. CASE WriteStep(w)
  <2>1. pc[w] \in writing /\ pc'[w] \in writing
    BY <1>3 DEF WriteStep, CallWrite, ReturnNone, SelectTracker, Exhaust, ScanWord, Claim, ClaimPair,
                NextClaimRow, items, Goto, TypeOK
  <2>2. Stage(w)'
    BY <1>0, <1>1, <2>1 DEF Stage, Deleting, holds, Place, List
  <2> QED BY <1>0, <1>1, <2>2, SameHolds, OtherStages DEF FlagInv, holds
<1> QED BY <1>2, <1>3

(* FlagInv holds always.                                                   *)
LEMMA FlagsAlways == Spec => [](TypeOK /\ FlagInv)
<1>1. Init => TypeOK /\ PlaceInv /\ FlagInv
  <2> SUFFICES ASSUME Init PROVE TypeOK /\ PlaceInv /\ FlagInv
    OBVIOUS
  <2>1. TypeOK /\ PlaceInv
    BY InitTyped
  <2>2. ASSUME NEW w \in Worker
        PROVE  Stage(w) /\ \A t : ~Holds(w, t)
    <3>1. Len(List(w)) \in Nat /\ \A k \in Place(w) : k > 0
      BY <2>1, Fields DEF TypeOK
    <3>2. pc[w] = "new" /\ freed[w] = 0 /\ taken[w] = 0
      BY DEF Init
    <3> QED BY <3>1, <3>2 DEF Stage, Holds, Deleting, Place
  <2>3. flags = {}
    BY DEF Init
  <2> QED BY <2>1, <2>2, <2>3 DEF FlagInv, FlagsHeld
<1>2. TypeOK /\ PlaceInv /\ FlagInv /\ [Next]_vars => TypeOK' /\ PlaceInv' /\ FlagInv'
  <2> SUFFICES ASSUME TypeOK, PlaceInv, FlagInv, [Next]_vars
               PROVE  TypeOK' /\ PlaceInv' /\ FlagInv'
    OBVIOUS
  <2>1. TypeOK' /\ PlaceInv'
    BY TypedStep
  <2>2. CASE UNCHANGED vars
    <3>1. UNCHANGED <<iter, pc, freed, taken, holds>>
      BY <2>2 DEF vars, holds
    <3>2. FlagsHeld'
      BY <3>1, SameHolds DEF FlagInv
    <3>3. ASSUME NEW w \in Worker, Stage(w)
          PROVE  Stage(w)'
      BY <3>1, <3>3 DEF Stage, Deleting, Place, List
    <3> QED BY <2>1, <3>2, <3>3 DEF FlagInv
  <2>3. CASE Next
    <3>1. PICK w \in Worker : Build(w) \/ Sweep(w) \/ WriteStep(w)
      BY <2>3 DEF Next
    <3>2. CASE Build(w)
      BY <2>1, <3>2, BuildFlags
    <3>3. CASE Sweep(w) \/ WriteStep(w)
      BY <2>1, <3>3, NextFlags
    <3> QED BY <3>1, <3>2, <3>3
  <2> QED BY <2>1, <2>2, <2>3
<1> QED BY <1>1, <1>2, PTL DEF Spec

(* No tracker is in the lists of two open delete iterators, whatever the   *)
(* lists and however their delete() calls interleave.                      *)
THEOREM DeletersExclude == Spec => []OneDeleter
<1>1. TypeOK /\ FlagInv => OneDeleter
  <2> SUFFICES ASSUME TypeOK, FlagInv,
                      NEW u \in Worker, NEW w \in Worker, u # w, Deleting(u), Deleting(w),
                      NEW j \in Place(u), NEW k \in Place(w), List(u)[j] = List(w)[k]
               PROVE  FALSE
    BY DEF OneDeleter
  <2>1. ASSUME NEW v \in Worker, Deleting(v), NEW i \in Place(v)
        PROVE  Holds(v, List(v)[i])
    <3>1. Stage(v) /\ pc[v] # "release"
      BY <2>1 DEF FlagInv, Deleting
    <3>2. freed[v] = 0 /\ taken[v] = Len(List(v))
      BY <2>1, <3>1 DEF Stage
    <3>3. 0 < i /\ i <= Len(List(v))
      BY Fields DEF TypeOK, Place
    <3> QED BY <3>2, <3>3 DEF Holds
  <2>2. Holds(u, List(u)[j]) /\ Holds(w, List(u)[j])
    BY <2>1
  <2> QED BY <2>2 DEF FlagInv, FlagsHeld
<1> QED BY <1>1, FlagsAlways, PTL

(* With nobody at a delete iterator, or building one, no delete flag is    *)
(* left set.                                                               *)
THEOREM FlagsComeBack == Spec => []FlagsGivenBack
<1>1. TypeOK /\ FlagInv => FlagsGivenBack
  <2> SUFFICES ASSUME TypeOK, FlagInv, \A w \in Worker : iter[w].role = "delete" => pc[w] = "new",
                      NEW t \in flags
               PROVE  FALSE
    BY DEF FlagsGivenBack
  <2>1. PICK w \in Worker : Holds(w, t)
    BY DEF FlagInv, FlagsHeld
  <2>2. taken[w] = 0 /\ freed[w] \in Nat
    BY DEF FlagInv, Stage, TypeOK
  <2>3. PICK k \in Place(w) : freed[w] < k /\ k <= taken[w]
    BY <2>1 DEF Holds
  <2>4. k \in Nat
    BY Fields DEF TypeOK
  <2> QED BY <2>2, <2>3, <2>4
<1> QED BY <1>1, FlagsAlways, PTL

-----------------------------------------------------------------------------
(* A step that does not touch the items keeps HandedOverOnce; so does a    *)
(* claim of what is unset, and the removal of what is set.                 *)
LEMMA HandOver ==
  ASSUME TypeOK, HandedOverOnce,
         \/ UNCHANGED <<bits, owed>>
         \/ \E p : p \notin bits /\ Set(p)
         \/ \E p : p \in bits /\ Clear(p)
  PROVE  HandedOverOnce'
<1>1. CASE UNCHANGED <<bits, owed>>
  BY <1>1 DEF HandedOverOnce
<1>2. ASSUME NEW p, p \notin bits, Set(p)
      PROVE  HandedOverOnce'
  <2>1. bits' = bits \union {p} /\ owed' = [owed EXCEPT ![p] = owed[p] + 1]
    BY <1>2 DEF Set
  <2> QED BY <1>2, <2>1 DEF HandedOverOnce, TypeOK
<1>3. ASSUME NEW p, p \in bits, Clear(p)
      PROVE  HandedOverOnce'
  <2>1. bits' = bits \ {p} /\ owed' = [owed EXCEPT ![p] = owed[p] - 1]
    BY <1>3 DEF Clear
  <2> QED BY <1>3, <2>1 DEF HandedOverOnce, TypeOK
<1> QED BY <1>1, <1>2, <1>3

(* Only Claim, ClaimPair and a deleter's Visit touch the items.            *)
LEMMA HandOverStep ==
  ASSUME TypeOK, HandedOverOnce, NEW w \in Worker, Build(w) \/ Sweep(w) \/ WriteStep(w)
  PROVE  HandedOverOnce'
<1> USE DEF items
<1>1. CASE Build(w)
  <2>1. UNCHANGED <<bits, owed>>
    BY <1>1 DEF Build, BuildRead, BuildWrite, BuildDelete, Acquire, OpenDelete, Release, Discard
  <2> QED BY <2>1, HandOver
<1>2. CASE Sweep(w)
  <2>1. ASSUME NEW p, Visit(w, p)
        PROVE  HandedOverOnce'
    <3>1. \/ UNCHANGED <<bits, owed>>
          \/ p \in Sought(w, {p}, bits) /\ iter[w].role = "delete" /\ Clear(p)
      BY <2>1 DEF Visit
    <3>2. iter[w].role = "delete" => Sought(w, {p}, bits) = {p} \intersect bits
      BY SoughtWithin
    <3> QED BY <3>1, <3>2, HandOver
  <2>2. CASE VisitId(w) \/ VisitPair(w)
    BY <2>1, <2>2 DEF VisitId, VisitPair
  <2>3. CASE CallSweep(w) \/ NextTracker(w) \/ EndSweep(w) \/ EnterRow(w) \/ LeaveRow(w)
    <3>1. UNCHANGED <<bits, owed>>
      BY <2>3 DEF CallSweep, NextTracker, EndSweep, EnterRow, LeaveRow
    <3> QED BY <3>1, HandOver
  <2> QED BY <1>2, <2>2, <2>3 DEF Sweep
<1>3. CASE WriteStep(w)
  <2>1. CASE Claim(w)
    <3>1. \/ UNCHANGED items
          \/ <<Here(w), at[w][1], 0>> \notin bits /\ Set(<<Here(w), at[w][1], 0>>)
      BY <2>1 DEF Claim
    <3> QED BY <3>1, HandOver
  <2>2. CASE ClaimPair(w)
    <3>1. \/ UNCHANGED items
          \/ <<Here(w), at[w][1], at[w][2]>> \notin bits /\ Set(<<Here(w), at[w][1], at[w][2]>>)
      BY <2>2 DEF ClaimPair
    <3> QED BY <3>1, HandOver
  <2>3. CASE CallWrite(w) \/ ReturnNone(w) \/ SelectTracker(w) \/ Exhaust(w) \/ ScanWord(w) \/ NextClaimRow(w)
    <3>1. UNCHANGED <<bits, owed>>
      BY <2>3 DEF CallWrite, ReturnNone, SelectTracker, Exhaust, ScanWord, NextClaimRow
    <3> QED BY <3>1, HandOver
  <2> QED BY <1>3, <2>1, <2>2, <2>3 DEF WriteStep
<1> QED BY <1>1, <1>2, <1>3

(* However group write and delete iterators interleave, each item set was  *)
(* handed out once more than taken back, and each unset one as often.      *)
THEOREM HandedOver == Spec => []HandedOverOnce
<1>1. Init => TypeOK /\ PlaceInv /\ HandedOverOnce
  BY InitTyped DEF Init, HandedOverOnce
<1>2. TypeOK /\ PlaceInv /\ HandedOverOnce /\ [Next]_vars => TypeOK' /\ PlaceInv' /\ HandedOverOnce'
  <2> SUFFICES ASSUME TypeOK, PlaceInv, HandedOverOnce, [Next]_vars
               PROVE  TypeOK' /\ PlaceInv' /\ HandedOverOnce'
    OBVIOUS
  <2>1. CASE UNCHANGED vars
    BY <2>1, TypedStep DEF vars, HandedOverOnce
  <2>2. CASE Next
    BY <2>2, TypedStep, HandOverStep DEF Next
  <2> QED BY <2>1, <2>2
<1> QED BY <1>1, <1>2, PTL DEF Spec

-----------------------------------------------------------------------------
(* What an iterator still looks for is ahead of it                         *)

Wanted(w, p) == (Filter(w) = "Set" => p \in bits) /\ (Filter(w) = "Unset" => p \notin bits)

(* The sub-bitmap of every pair that is set has been made.                 *)
MadeInv == \A p \in bits : p[1] \in Hier => <<p[1], p[2]>> \in made

Sweeping(w) == pc[w] \in {"open", "seek", "row", "ended"}
Writing(w)  == pc[w] \in {"ready", "select", "scan", "claim", "none"}

(* The history: items of the range, all still as looked for, and pairs     *)
(* whose id has a sub-bitmap to find them in.                              *)
KeptOK(w) ==
  /\ kept[w] \subseteq Scope(w)
  /\ Sweeping(w) => \A p \in kept[w] : p[1] \in Hier => <<p[1], p[2]>> \in made
  /\ \A p \in kept[w] : Wanted(w, p)
  /\ ~Sweeping(w) /\ ~Writing(w) => kept[w] = {}

RoleOK(w) ==
  /\ pc[w] \in {"acquire", "release"} => iter[w].role = "delete"
  /\ Sweeping(w) => iter[w].role \in {"read", "delete"}
  /\ Writing(w) => iter[w].role = "write"
  /\ pc[w] = "row" => turn[w] \in Place(w) /\ Here(w) \in Hier
  /\ pc[w] = "ended" => turn[w] > Len(List(w))
  /\ pc[w] \in {"scan", "claim"} => turn[w] \in Unspent(w)
  /\ ~Writing(w) => spent[w] = {}

(* Whether the place q of a tracker is not yet past the item p.            *)
NotPast(p, q) == q[1] < p[2] \/ (q[1] = p[2] /\ (p[1] \in Hier => q[2] <= p[3]))

(* No tracker or place behind a sweep has anything it must find.           *)
SweepOK(w) ==
  Sweeping(w) => \A p \in kept[w], k \in Place(w) : List(w)[k] = p[1] =>
      turn[w] < k \/ (turn[w] = k /\ NotPast(p, at[w]))

(* The cursor that stands at p.                                            *)
CursorAt(w, p) == IF p[1] \in Hier THEN p[2] * RowLen(w) + p[3] ELSE p[2]

WriteOK(w) ==
  Writing(w) => \A p \in kept[w] :
    /\ \E k \in Unspent(w) : List(w)[k] = p[1]
    /\ \A k \in Unspent(w) : List(w)[k] = p[1] => cursors[w][k] <= CursorAt(w, p)
    /\ pc[w] \in {"scan", "claim"} /\ Here(w) = p[1] => NotPast(p, at[w])

(* Until a claim is lost there are turns enough for the trackers left.     *)
TriesOK(w) ==
  /\ pc[w] = "select" /\ ~lost[w] => Cardinality(Unspent(w)) <= tries[w]
  /\ pc[w] \in {"scan", "claim"} /\ ~lost[w] => Cardinality(Unspent(w)) <= tries[w] + 1
  /\ pc[w] = "none" /\ ~lost[w] /\ iter[w].policy \in {"RoundRobin", "Any"} => kept[w] = {}

IterOK(w) == KeptOK(w) /\ RoleOK(w) /\ SweepOK(w) /\ WriteOK(w) /\ TriesOK(w)
IterInv == MadeInv /\ \A w \in Worker : IterOK(w)


(* An item in the range of an iterator: its id is at or after the first of *)
(* the range and before max_id, and so is the sub-id of a pair.            *)
LEMMA ScopeFacts ==
  ASSUME TypeOK, NEW w \in Worker, NEW p \in Scope(w)
  PROVE  /\ p = <<p[1], p[2], p[3]>> /\ p[2] \in Nat /\ p[3] \in Nat
         /\ \E k \in Place(w) : List(w)[k] = p[1]
         /\ iter[w].lo <= p[2] /\ p[2] < Top(w)
         /\ p[1] \in Hier => iter[w].subLo <= p[3] /\ p[3] < SubTop(w) /\ p[3] < RowLen(w)
         /\ p[1] \notin Hier => p[3] = 0
<1>1. p \in Tracker \X (0 .. MaxId - 1) \X (0 .. MaxSub - 1) /\ p[3] \in Sub(p[1])
  BY DEF Scope, Item
<1>2. MaxId \in Nat /\ MaxSub \in Nat \ {0}
  BY GroupAssumption
<1>3. p = <<p[1], p[2], p[3]>> /\ p[2] \in 0 .. MaxId - 1 /\ p[3] \in 0 .. MaxSub - 1
  BY <1>1
<1>4. iter[w] \in IterType
  BY GroupAssumption DEF TypeOK
<1>5. iter[w].lo \in Nat /\ iter[w].hi \in Nat /\ iter[w].subLo \in Nat /\ iter[w].subHi \in Nat
  BY <1>4 DEF IterType
<1>6. /\ \E k \in Place(w) : List(w)[k] = p[1]
      /\ iter[w].lo <= p[2] /\ p[2] < iter[w].hi
      /\ p[1] \in Hier => iter[w].subLo <= p[3] /\ p[3] < iter[w].subHi
  BY DEF Scope
<1>7. p[2] < Top(w)
  BY <1>2, <1>3, <1>5, <1>6 DEF Top, Smaller
<1>8. p[1] \in Hier => p[3] < SubTop(w) /\ p[3] < RowLen(w)
  BY <1>2, <1>3, <1>5, <1>6 DEF SubTop, RowLen, Smaller, Larger
<1>9. p[1] \notin Hier => p[3] = 0
  BY <1>1 DEF Sub
<1> QED BY <1>2, <1>3, <1>6, <1>7, <1>8, <1>9

(* A step of another iterator leaves w's own variables alone, and what it  *)
(* does to the items takes away from what w has to find.                   *)
LEMMA OthersOK ==
  ASSUME NEW v \in Worker, IterOK(v), iter' = iter, pc'[v] = pc[v], turn'[v] = turn[v],
         at'[v] = at[v], tries'[v] = tries[v], cursors'[v] = cursors[v], spent'[v] = spent[v],
         lost'[v] = lost[v], made \subseteq made', kept'[v] \subseteq kept[v], \A p \in kept'[v] : Wanted(v, p)'
  PROVE  IterOK(v)'
<1> USE DEF IterOK
<1>1. /\ Scope(v)' = Scope(v) /\ Filter(v)' = Filter(v) /\ List(v)' = List(v)
      /\ Place(v)' = Place(v) /\ Unspent(v)' = Unspent(v) /\ Here(v)' = Here(v)
      /\ Sweeping(v)' = Sweeping(v) /\ Writing(v)' = Writing(v)
  BY DEF Scope, Filter, List, Place, Unspent, Here, Sweeping, Writing
<1>2. \A p : CursorAt(v, p)' = CursorAt(v, p)
  BY <1>1 DEF CursorAt, RowLen, SubTop
<1>3. KeptOK(v)'
  BY <1>1 DEF KeptOK
<1>4. RoleOK(v)'
  BY <1>1 DEF RoleOK
<1>5. SweepOK(v)'
  BY <1>1, <1>2 DEF SweepOK
<1>6. WriteOK(v)'
  BY <1>1, <1>2 DEF WriteOK
<1>7. TriesOK(v)'
  BY <1>1 DEF TriesOK
<1> QED BY <1>3, <1>4, <1>5, <1>6, <1>7

(* What an item that changes hands leaves for the others to find.          *)
LEMMA KeptShrinks ==
  ASSUME TypeOK, iter' = iter, UNCHANGED items \/ (\E p : Set(p) \/ Clear(p)),
         NEW v \in Worker, KeptOK(v)
  PROVE  kept'[v] \subseteq kept[v] /\ \A p \in kept'[v] : Wanted(v, p)'
<1>1. CASE UNCHANGED items
  BY <1>1 DEF items, KeptOK, Wanted, Filter
<1>2. CASE \E p : Set(p) \/ Clear(p)
  <2>1. kept' = [u \in Worker |-> Sought(u, kept[u], bits')]
    BY <1>2 DEF Set, Clear
  <2>2. kept'[v] = Sought(v, kept[v], bits')
    BY <2>1
  <2> QED BY <2>2 DEF Sought, Wanted, Filter
<1> QED BY <1>1, <1>2

(* A visit of p takes it off what the sweep has to find, or finds that it  *)
(* is not on it.                                                           *)
LEMMA VisitDrops ==
  ASSUME TypeOK, iter' = iter, NEW w \in Worker, \A v \in Worker : KeptOK(v), NEW p, Visit(w, p)
  PROVE  /\ p \notin kept'[w]
         /\ \A v \in Worker : kept'[v] \subseteq kept[v] /\ \A r \in kept'[v] : Wanted(v, r)'
         /\ bits' \subseteq bits
<1>0. p \in Sought(w, {p}, bits) <=> Wanted(w, p)
  BY DEF Sought, Wanted
<1>1. CASE p \notin Sought(w, {p}, bits) /\ UNCHANGED <<pc, items>>
  BY <1>0, <1>1 DEF items, KeptOK, Wanted, Filter
<1>2. CASE iter[w].role = "delete" /\ Clear(p)
  <2>1. kept'[w] = Sought(w, kept[w], bits') /\ bits' = bits \ {p}
    BY <1>2 DEF Clear
  <2>2. p \notin kept'[w]
    BY <1>2, <2>1 DEF Sought, Filter
  <2> QED BY <1>2, <2>1, <2>2, KeptShrinks
<1>3. CASE kept' = [kept EXCEPT ![w] = kept[w] \ {p}] /\ UNCHANGED <<bits, owed>>
  BY <1>3 DEF TypeOK, KeptOK, Wanted, Filter
<1> QED BY <1>1, <1>2, <1>3 DEF Visit

(* Each step is w's alone.                                                 *)
LEMMA StepOthers ==
  ASSUME TypeOK, IterInv, NEW w \in Worker, Build(w) \/ Sweep(w) \/ WriteStep(w)
  PROVE  /\ iter' = iter
         /\ made \subseteq made'
         /\ \A v \in Worker : v # w => IterOK(v)'
<1> USE DEF TypeOK, Goto, items, holds, writes
<1> DEFINE Own == /\ iter' = iter
                  /\ \A v \in Worker : v # w =>
                       /\ pc'[v] = pc[v] /\ turn'[v] = turn[v] /\ at'[v] = at[v]
                       /\ tries'[v] = tries[v] /\ cursors'[v] = cursors[v]
                       /\ spent'[v] = spent[v] /\ lost'[v] = lost[v]
           Less == \A v \in Worker : v # w =>
                     kept'[v] \subseteq kept[v] /\ \A p \in kept'[v] : Wanted(v, p)'
<1>0. \A v \in Worker : IterOK(v) /\ KeptOK(v)
  BY DEF IterInv, IterOK
<1>a. made \subseteq made'
  BY DEF Build, BuildRead, BuildWrite, BuildDelete, Acquire, OpenDelete, Release, Discard, Open,
     Sweep, CallSweep, NextTracker, EndSweep, VisitId, EnterRow, VisitPair, LeaveRow,
     WriteStep, CallWrite, ReturnNone, SelectTracker, Exhaust, ScanWord, Claim, ClaimPair, NextClaimRow
<1>1. CASE Build(w)
  <2>1. Own
    BY <1>1 DEF Build, BuildRead, BuildWrite, BuildDelete, Acquire, OpenDelete, Release, Discard, Open
  <2>2. bits' = bits /\ \A v \in Worker : v # w => kept'[v] = kept[v]
    BY <1>1 DEF Build, BuildRead, BuildWrite, BuildDelete, Acquire, OpenDelete, Release, Discard, Open
  <2>3. Less
    BY <1>0, <2>1, <2>2 DEF KeptOK, Wanted, Filter
  <2> QED BY <1>0, <1>a, <2>1, <2>3, OthersOK
<1>2. CASE Sweep(w)
  <2>1. CASE VisitId(w) \/ VisitPair(w)
    <3>1. PICK p : Visit(w, p)
      BY <2>1 DEF VisitId, VisitPair
    <3>2. pc' = pc \/ Goto(w, "open")
      BY <3>1, VisitTyped
    <3>3. UNCHANGED <<iter, made, turn, holds, writes>> /\ \E q : at' = [at EXCEPT ![w] = q]
      BY <2>1 DEF VisitId, VisitPair
    <3>4. Own
      BY <3>2, <3>3
    <3>5. Less
      BY <1>0, <3>1, <3>3, VisitDrops
    <3> QED BY <1>0, <1>a, <3>4, <3>5, OthersOK
  <2>2. CASE CallSweep(w) \/ NextTracker(w) \/ EndSweep(w) \/ EnterRow(w) \/ LeaveRow(w)
    <3>1. Own /\ UNCHANGED items
      BY <2>2 DEF CallSweep, NextTracker, EndSweep, EnterRow, LeaveRow
    <3>2. Less
      BY <1>0, <3>1, KeptShrinks
    <3> QED BY <1>0, <1>a, <3>1, <3>2, OthersOK
  <2> QED BY <1>2, <2>1, <2>2 DEF Sweep
<1>3. CASE WriteStep(w)
  <2>1. Own
    <3>1. CASE CallWrite(w) \/ ReturnNone(w) \/ SelectTracker(w)
      BY <3>1 DEF CallWrite, ReturnNone, SelectTracker
    <3>2. CASE Exhaust(w)
      BY <3>2 DEF Exhaust, MoveCursor
    <3>3. CASE ScanWord(w) \/ NextClaimRow(w)
      BY <3>3 DEF ScanWord, NextClaimRow
    <3>4. CASE Claim(w)
      BY <3>4 DEF Claim, MoveCursor
    <3>5. CASE ClaimPair(w)
      BY <3>5 DEF ClaimPair, MoveCursor
    <3> QED BY <1>3, <3>1, <3>2, <3>3, <3>4, <3>5 DEF WriteStep
  <2>2. UNCHANGED items \/ \E p : Set(p) \/ Clear(p)
    BY <1>3 DEF WriteStep, CallWrite, ReturnNone, SelectTracker, Exhaust, ScanWord, Claim, ClaimPair,
       NextClaimRow
  <2>3. Less
    BY <1>0, <2>1, <2>2, KeptShrinks
  <2> QED BY <1>0, <1>a, <2>1, <2>3, OthersOK
<1> QED BY <1>a, <1>1, <1>2, <1>3

(* A pair is set only in a sub-bitmap that has been made, by claim_pair.   *)
LEMMA MadeStep ==
  ASSUME TypeOK, PlaceInv, IterInv, NEW w \in Worker, Build(w) \/ Sweep(w) \/ WriteStep(w)
  PROVE  MadeInv'
<1> USE DEF IterInv, MadeInv, items
<1>1. CASE Build(w)
  BY <1>1 DEF Build, BuildRead, BuildWrite, BuildDelete, Acquire, OpenDelete, Release, Discard, Open
<1>2. CASE Sweep(w)
  <2>1. CASE VisitId(w) \/ VisitPair(w)
    <3>1. PICK p : Visit(w, p)
      BY <2>1 DEF VisitId, VisitPair
    <3>2. made' = made /\ bits' \subseteq bits
      BY <2>1, <3>1 DEF VisitId, VisitPair, Visit, Clear
    <3> QED BY <3>2
  <2> QED BY <1>2, <2>1 DEF Sweep, CallSweep, NextTracker, EndSweep, EnterRow, LeaveRow
<1>3. CASE Claim(w)
  <2>1. pc[w] = "claim" /\ Here(w) \notin Hier
    BY <1>3 DEF Claim, PlaceInv
  <2>2. made' = made /\ bits' \subseteq bits \union {<<Here(w), at[w][1], 0>>}
    BY <1>3 DEF Claim, Set
  <2> QED BY <2>1, <2>2
<1>4. CASE ClaimPair(w)
  <2>1. made' = made \union {<<Here(w), at[w][1]>>} /\ bits' \subseteq bits \union {<<Here(w), at[w][1], at[w][2]>>}
    BY <1>4 DEF ClaimPair, Set
  <2> QED BY <2>1
<1>5. CASE CallWrite(w) \/ ReturnNone(w) \/ SelectTracker(w) \/ Exhaust(w) \/ ScanWord(w) \/ NextClaimRow(w)
  BY <1>5 DEF CallWrite, ReturnNone, SelectTracker, Exhaust, ScanWord, NextClaimRow
<1> QED BY <1>1, <1>2, <1>3, <1>4, <1>5 DEF WriteStep

(* Building an iterator, taking and giving back the flags, dropping it.    *)
LEMMA BuildOwn ==
  ASSUME TypeOK, IterInv, NEW w \in Worker, Build(w)
  PROVE  IterOK(w)'
<1> USE DEF Goto, items, holds, writes
<1>0. KeptOK(w) /\ RoleOK(w) /\ SweepOK(w) /\ WriteOK(w) /\ TriesOK(w)
  BY DEF IterInv, IterOK
<1>a. iter' = iter
  BY StepOthers
<1>b. /\ Filter(w)' = Filter(w) /\ List(w)' = List(w) /\ Place(w)' = Place(w) /\ Scope(w)' = Scope(w)
      /\ \A p : CursorAt(w, p)' = CursorAt(w, p)
  BY <1>a DEF Filter, List, Place, Scope, CursorAt, RowLen, SubTop
<1>c. Scope(w) \in SUBSET Item /\ Sought(w, Promised(w), bits) \subseteq Scope(w)
  BY SoughtWithin DEF Scope, Promised
<1>1. CASE BuildRead(w) \/ OpenDelete(w)
  <2>1. /\ pc'[w] = "open" /\ turn'[w] = 1 /\ at'[w] = Start(w) /\ bits' = bits /\ spent' = spent
        /\ made' = made /\ kept'[w] = Sought(w, Promised(w), bits) /\ pc[w] \in {"new", "acquire"}
    BY <1>1 DEF BuildRead, OpenDelete, Open, TypeOK
  <2>2. iter[w].role \in {"read", "delete"}
    BY <1>0, <1>1 DEF BuildRead, OpenDelete, RoleOK
  <2>3. KeptOK(w)'
    <3>1. \A p \in kept'[w] : p[1] \in Hier => <<p[1], p[2]>> \in made
      BY <2>1, <2>2 DEF Sought, Promised, IterInv, MadeInv
    <3> QED BY <1>a, <1>b, <1>c, <2>1, <3>1 DEF KeptOK, Sweeping, Writing, Wanted, Sought
  <2>4. RoleOK(w)'
    BY <1>0, <1>a, <2>1, <2>2 DEF RoleOK, Sweeping, Writing
  <2>5. SweepOK(w)'
    <3> SUFFICES ASSUME NEW p \in kept'[w], NEW k \in Place(w), List(w)[k] = p[1]
                 PROVE  1 < k \/ (1 = k /\ NotPast(p, Start(w)))
      BY <1>b, <2>1 DEF SweepOK, NotPast
    <3>1. p \in Scope(w) /\ k \in Nat \ {0}
      BY <1>c, <2>1, Fields DEF TypeOK
    <3>2. /\ iter[w].lo \in Nat /\ iter[w].subLo \in Nat /\ iter[w].lo <= p[2] /\ p[2] \in Nat
          /\ p[1] \in Hier => iter[w].subLo <= p[3] 
      BY <3>1, ScopeFacts, Fields DEF TypeOK
    <3>3. Start(w)[1] = iter[w].lo /\ Start(w)[2] = iter[w].subLo
      BY DEF Start
    <3> QED BY <3>1, <3>2, <3>3 DEF NotPast
  <2>6. WriteOK(w)' /\ TriesOK(w)'
    BY <2>1 DEF WriteOK, TriesOK, Writing
  <2> QED BY <2>3, <2>4, <2>5, <2>6 DEF IterOK
<1>2. CASE BuildWrite(w)
  <2>1. /\ pc'[w] = "ready" /\ bits' = bits /\ spent' = spent /\ pc[w] = "new" /\ iter[w].role = "write"
        /\ kept'[w] = Sought(w, Promised(w), bits) /\ cursors'[w] = [k \in Place(w) |-> iter[w].lo]
    BY <1>2 DEF BuildWrite, Open, TypeOK
  <2>2. KeptOK(w)'
    BY <1>a, <1>b, <1>c, <2>1 DEF KeptOK, Sweeping, Writing, Wanted, Sought
  <2>3. RoleOK(w)'
    BY <1>0, <1>a, <2>1 DEF RoleOK, Sweeping, Writing
  <2>4. WriteOK(w)'
    <3> SUFFICES ASSUME NEW p \in kept'[w]
                 PROVE  /\ \E k \in Unspent(w)' : List(w)[k] = p[1]
                        /\ \A k \in Unspent(w)' : List(w)[k] = p[1] => cursors'[w][k] <= CursorAt(w, p)
      BY <1>b, <2>1 DEF WriteOK
    <3>1. Unspent(w)' = Place(w)
      BY <1>0, <1>b, <2>1 DEF RoleOK, Writing, Unspent
    <3>2. p \in Scope(w)
      BY <1>c, <2>1
    <3>3. iter[w].lo <= CursorAt(w, p)
      <4>1. iter[w].lo \in Nat /\ iter[w].lo <= p[2] /\ p[2] \in Nat /\ p[3] \in Nat /\ RowLen(w) \in Nat \ {0}
        BY <3>2, ScopeFacts, Fields DEF TypeOK
      <4>2. \A m \in Nat, n \in Nat \ {0} : m <= m * n /\ m * n \in Nat
        OBVIOUS
      <4>3. p[2] <= p[2] * RowLen(w) /\ p[2] * RowLen(w) \in Nat
        BY <4>1, <4>2
      <4> QED BY <4>1, <4>3 DEF CursorAt
    <3> QED BY <2>1, <3>1, <3>2, <3>3, ScopeFacts
  <2>5. SweepOK(w)' /\ TriesOK(w)'
    BY <2>1 DEF SweepOK, TriesOK, Sweeping
  <2> QED BY <2>2, <2>3, <2>4, <2>5 DEF IterOK
<1>3. CASE BuildDelete(w) \/ Acquire(w) \/ Release(w)
  <2>1. /\ UNCHANGED <<kept, bits, spent>> /\ pc[w] \in {"new", "acquire", "release"}
        /\ pc'[w] \in {"new", "acquire", "release"}
        /\ pc'[w] # "new" => iter[w].role = "delete"
    BY <1>0, <1>3 DEF BuildDelete, Acquire, Release, TypeOK, RoleOK
  <2> QED BY <1>0, <1>a, <2>1 DEF IterOK, KeptOK, RoleOK, SweepOK, WriteOK, TriesOK, Sweeping, Writing
<1>4. CASE Discard(w)
  <2>1. /\ kept'[w] = {} /\ spent'[w] = {} /\ pc'[w] \in {"release", "new"}
        /\ pc'[w] = "release" => iter[w].role = "delete"
    BY <1>4 DEF Discard, TypeOK
  <2> QED BY <1>a, <2>1 DEF IterOK, KeptOK, RoleOK, SweepOK, WriteOK, TriesOK, Sweeping, Writing
<1> QED BY <1>1, <1>2, <1>3, <1>4 DEF Build

(* A sweep goes past nothing that it has to find.                          *)
LEMMA SweepOwn ==
  ASSUME TypeOK, IterInv, NEW w \in Worker, Sweep(w)
  PROVE  IterOK(w)'
<1> USE DEF Goto, items, holds, writes
<1>0. /\ KeptOK(w) /\ RoleOK(w) /\ SweepOK(w) /\ WriteOK(w) /\ TriesOK(w)
      /\ \A v \in Worker : KeptOK(v)
  BY DEF IterInv, IterOK
<1>a. iter' = iter /\ made \subseteq made'
  BY StepOthers
<1>b. Filter(w)' = Filter(w) /\ List(w)' = List(w) /\ Place(w)' = Place(w) /\ Scope(w)' = Scope(w)
  BY <1>a DEF Filter, List, Place, Scope
<1>c. /\ pc[w] \in {"open", "seek", "row"} /\ pc'[w] \in {"open", "seek", "row", "ended"} /\ spent' = spent
      /\ pc'[w] = "row" => turn[w] \in Place(w) /\ Here(w) \in Hier /\ turn' = turn
      /\ pc'[w] = "ended" => turn[w] > Len(List(w)) /\ turn' = turn
  <2>1. CASE VisitId(w) \/ VisitPair(w)
    <3>1. (pc' = pc \/ pc' = [pc EXCEPT ![w] = "open"]) /\ turn' = turn /\ spent' = spent
          /\ pc[w] \in {"seek", "row"}
      BY <2>1, VisitTyped DEF VisitId, VisitPair
    <3> QED BY <1>0, <3>1 DEF RoleOK, TypeOK
  <2>2. CASE EnterRow(w)
    <3>1. turn[w] \in Place(w)
      BY <2>2, Fields DEF EnterRow, TypeOK, Place
    <3> QED BY <2>2, <3>1 DEF EnterRow, TypeOK
  <2>3. CASE CallSweep(w) \/ NextTracker(w) \/ EndSweep(w) \/ LeaveRow(w)
    BY <2>3 DEF CallSweep, NextTracker, EndSweep, LeaveRow, TypeOK
  <2> QED BY <2>1, <2>2, <2>3 DEF Sweep
<1>d. RoleOK(w)'
  <2>1. Here(w)' = Here(w) \/ turn' # turn
    BY <1>a DEF Here, List
  <2>2. spent[w] = {} /\ iter[w].role \in {"read", "delete"}
    BY <1>0, <1>c DEF RoleOK, Sweeping, Writing
  <2> QED BY <1>a, <1>b, <1>c, <2>1, <2>2 DEF RoleOK, Sweeping, Writing
<1>e. WriteOK(w)' /\ TriesOK(w)'
  BY <1>c DEF WriteOK, TriesOK, Writing
<1>f. ASSUME kept'[w] \subseteq kept[w], \A p \in kept'[w] : Wanted(w, p)',
             \A p \in kept'[w], k \in Place(w) : List(w)[k] = p[1] =>
               turn'[w] < k \/ (turn'[w] = k /\ NotPast(p, at'[w]))
      PROVE  IterOK(w)'
  <2>1. KeptOK(w)'
    BY <1>0, <1>a, <1>b, <1>c, <1>f DEF KeptOK, Sweeping
  <2>2. SweepOK(w)'
    BY <1>b, <1>f DEF SweepOK, NotPast
  <2> QED BY <1>d, <1>e, <2>1, <2>2 DEF IterOK
<1>g. UNCHANGED items => kept'[w] \subseteq kept[w] /\ \A p \in kept'[w] : Wanted(w, p)'
  BY <1>0, <1>a, KeptShrinks
<1>h. \A p \in kept[w] :
        /\ p \in Scope(w) /\ Wanted(w, p)
        /\ \A k \in Place(w) : List(w)[k] = p[1] =>
             turn[w] < k \/ (turn[w] = k /\ NotPast(p, at[w]))
  BY <1>0, <1>c DEF KeptOK, SweepOK, Sweeping
<1>j. \A p \in kept[w] : p[1] \in Hier => <<p[1], p[2]>> \in made
  BY <1>0, <1>c DEF KeptOK, Sweeping
<1>i. /\ at[w] = <<at[w][1], at[w][2]>> /\ at[w][1] \in Nat /\ at[w][2] \in Nat /\ turn[w] \in Nat \ {0}
      /\ \A k \in Place(w) : k \in Nat
  BY Fields DEF TypeOK
<1>1. CASE CallSweep(w) \/ EndSweep(w)
  <2>1. UNCHANGED <<items, turn, at>>
    BY <1>1 DEF CallSweep, EndSweep
  <2> QED BY <1>f, <1>g, <1>h, <2>1
<1>2. CASE NextTracker(w)
  <2>1. UNCHANGED items /\ at[w][1] >= Top(w) /\ turn'[w] = turn[w] + 1 /\ at'[w] = Start(w)
    BY <1>2 DEF NextTracker, TypeOK
  <2>2. ASSUME NEW p \in kept[w], NEW k \in Place(w), List(w)[k] = p[1]
        PROVE  turn[w] + 1 < k \/ (turn[w] + 1 = k /\ NotPast(p, Start(w)))
    <3>1. /\ iter[w].lo \in Nat /\ iter[w].subLo \in Nat /\ iter[w].lo <= p[2] /\ p[2] \in Nat
          /\ p[1] \in Hier => iter[w].subLo <= p[3]
          /\ p[2] < Top(w) /\ Top(w) \in Nat
      BY <1>h, ScopeFacts, Fields DEF TypeOK
    <3>2. Start(w)[1] = iter[w].lo /\ Start(w)[2] = iter[w].subLo
      BY DEF Start
    <3>3. NotPast(p, Start(w)) /\ ~NotPast(p, at[w])
      BY <1>i, <2>1, <3>1, <3>2 DEF NotPast
    <3> QED BY <1>h, <1>i, <2>2, <3>3
  <2> QED BY <1>f, <1>g, <2>1, <2>2
<1>3. CASE VisitId(w)
  <2> DEFINE v == <<Here(w), at[w][1], 0>>
  <2>1. /\ Visit(w, v) /\ Here(w) \notin Hier /\ turn'[w] = turn[w] /\ at'[w] = <<at[w][1] + 1, at[w][2]>>
    BY <1>3 DEF VisitId, TypeOK
  <2>2. v \notin kept'[w] /\ kept'[w] \subseteq kept[w] /\ \A p \in kept'[w] : Wanted(w, p)'
    BY <1>0, <1>a, <2>1, VisitDrops
  <2>3. ASSUME NEW p \in kept'[w], NEW k \in Place(w), List(w)[k] = p[1]
        PROVE  turn[w] < k \/ (turn[w] = k /\ NotPast(p, <<at[w][1] + 1, at[w][2]>>))
    <3>1. p \in kept[w] /\ p # v /\ p = <<p[1], p[2], p[3]>> /\ p[2] \in Nat
          /\ (p[1] \notin Hier => p[3] = 0)
      BY <1>h, <2>2, ScopeFacts
    <3>2. CASE turn[w] = k
      <4>1. p[1] = Here(w) /\ NotPast(p, at[w])
        BY <1>h, <2>3, <3>1, <3>2, <1>i DEF Here
      <4>2. p[2] # at[w][1]
        BY <2>1, <3>1, <4>1
      <4> QED BY <1>i, <2>1, <3>1, <3>2, <4>1, <4>2 DEF NotPast
    <3>3. CASE turn[w] # k
      BY <1>h, <2>3, <3>1, <3>3
    <3> QED BY <3>2, <3>3
  <2> QED BY <1>f, <2>1, <2>2, <2>3
<1>4. CASE VisitPair(w)
  <2> DEFINE v == <<Here(w), at[w][1], at[w][2]>>
  <2>1. /\ Visit(w, v) /\ pc[w] = "row" /\ turn'[w] = turn[w] /\ at'[w] = <<at[w][1], at[w][2] + 1>>
    BY <1>4 DEF VisitPair, TypeOK
  <2>2. v \notin kept'[w] /\ kept'[w] \subseteq kept[w] /\ \A p \in kept'[w] : Wanted(w, p)'
    BY <1>0, <1>a, <2>1, VisitDrops
  <2>3. ASSUME NEW p \in kept'[w], NEW k \in Place(w), List(w)[k] = p[1]
        PROVE  turn[w] < k \/ (turn[w] = k /\ NotPast(p, <<at[w][1], at[w][2] + 1>>))
    <3>1. p \in kept[w] /\ p # v /\ p = <<p[1], p[2], p[3]>> /\ p[2] \in Nat /\ p[3] \in Nat
      BY <1>h, <2>2, ScopeFacts
    <3>2. CASE turn[w] = k
      <4>1. p[1] = Here(w) /\ NotPast(p, at[w])
        BY <1>h, <2>3, <3>1, <3>2, <1>i DEF Here
      <4>2. ~(p[2] = at[w][1] /\ p[3] = at[w][2])
        BY <3>1, <4>1
      <4>3. Here(w) \in Hier
        BY <1>0, <2>1 DEF RoleOK
      <4> QED BY <1>i, <3>1, <3>2, <4>1, <4>2, <4>3 DEF NotPast
    <3>3. CASE turn[w] # k
      BY <1>h, <2>3, <3>1, <3>3
    <3> QED BY <3>2, <3>3
  <2> QED BY <1>f, <2>1, <2>2, <2>3
<1>5. CASE EnterRow(w) \/ LeaveRow(w)
  <2>1. UNCHANGED <<items, turn>>
    BY <1>5 DEF EnterRow, LeaveRow
  <2>2. CASE UNCHANGED at
    BY <1>f, <1>g, <1>h, <2>1, <2>2
  <2>3. CASE ~ UNCHANGED at
    <3>1. /\ at'[w] = NextRow(w, at[w][1]) /\ turn[w] \in Place(w) /\ Here(w) \in Hier
          /\ <<Here(w), at[w][1]>> \notin made \/ at[w][2] >= SubTop(w)
      <4>1. CASE EnterRow(w)
        <5>1. turn[w] \in Place(w)
          BY <4>1, Fields DEF EnterRow, TypeOK, Place
        <5>2. SubTop(w) \in Nat
          BY Fields DEF TypeOK
        <5> QED BY <1>i, <2>3, <4>1, <5>1, <5>2 DEF EnterRow, TypeOK
      <4>2. CASE LeaveRow(w)
        BY <1>0, <4>2 DEF LeaveRow, TypeOK, RoleOK
      <4> QED BY <1>5, <4>1, <4>2
    <3>2. ASSUME NEW p \in kept[w], NEW k \in Place(w), List(w)[k] = p[1]
          PROVE  turn[w] < k \/ (turn[w] = k /\ NotPast(p, NextRow(w, at[w][1])))
      <4>1. CASE turn[w] = k
        <5>1. p[1] = Here(w) /\ NotPast(p, at[w]) /\ p[1] \in Hier
          BY <1>h, <3>1, <3>2, <4>1, <1>i DEF Here
        <5>2. /\ iter[w].subLo \in Nat /\ iter[w].subLo <= p[3] /\ p[2] \in Nat /\ p[3] \in Nat
              /\ p[3] < SubTop(w) /\ SubTop(w) \in Nat
          BY <1>h, <5>1, ScopeFacts, Fields DEF TypeOK
        <5>3. <<p[1], p[2]>> \in made
          BY <1>j, <5>1
        <5>4. p[2] # at[w][1]
          BY <1>i, <3>1, <5>1, <5>2, <5>3 DEF NotPast
        <5>5. NextRow(w, at[w][1])[1] = at[w][1] + 1 /\ NextRow(w, at[w][1])[2] = iter[w].subLo
          BY DEF NextRow
        <5> QED BY <1>i, <4>1, <5>1, <5>2, <5>4, <5>5 DEF NotPast
      <4>2. CASE turn[w] # k
        BY <1>h, <3>2, <4>2
      <4> QED BY <4>1, <4>2
    <3> QED BY <1>f, <1>g, <2>1, <3>1, <3>2
  <2> QED BY <2>2, <2>3
<1> QED BY <1>1, <1>2, <1>3, <1>4, <1>5 DEF Sweep

-----------------------------------------------------------------------------
(* The write iterators                                                     *)

(* Some element of a finite set has the least number.                      *)
LEMMA SomeLeast ==
  ASSUME NEW S, IsFiniteSet(S), S # {}, NEW f \in [S -> Int]
  PROVE  \E k \in S : \A j \in S : f[k] <= f[j]
<1> DEFINE UpTo(i) == {j \in S : f[j] <= f[i]}
           Segments == {UpTo(i) : i \in S}
<1>1. Segments \subseteq FiniteSubsetsOf(S) /\ Segments # {}
  <2>1. ASSUME NEW i \in S
        PROVE  UpTo(i) \in SUBSET S /\ IsFiniteSet(UpTo(i))
    BY FS_Subset
  <2> HIDE DEF UpTo
  <2>2. Segments \subseteq FiniteSubsetsOf(S)
    BY <2>1 DEF FiniteSubsetsOf
  <2> QED BY <2>2
<1>2. PICK m \in Segments : \A s \in Segments : <<s, m>> \notin StrictSubsetOrdering(S)
  <2> HIDE DEF Segments
  <2> QED BY <1>1, FS_StrictSubsetOrderingWellFounded, WFMin
<1>3. PICK i \in S : m = UpTo(i)
  BY <1>2
<1>4. ASSUME NEW j \in S, ~ (f[i] <= f[j])
      PROVE  FALSE
  <2>1. f[i] \in Int /\ f[j] \in Int /\ f[j] < f[i]
    BY <1>4
  <2>2. \A x \in Int : x <= f[j] => x <= f[i]
    BY <2>1
  <2>3. UpTo(j) \subseteq UpTo(i) /\ UpTo(i) \subseteq S
    BY <2>2
  <2>4. i \in UpTo(i) /\ i \notin UpTo(j)
    BY <2>1
  <2>5. <<UpTo(j), UpTo(i)>> \in StrictSubsetOrdering(S)
    BY <2>3, <2>4 DEF StrictSubsetOrdering
  <2> QED BY <1>2, <1>3, <2>5
<1> QED BY <1>4

(* Taking a cursor apart: the pair it stands for is not past any pair      *)
(* whose cursor is as large.                                               *)
LEMMA CursorApart ==
  ASSUME NEW c \in Nat, NEW R \in Nat \ {0}, NEW a \in Nat, NEW b \in Nat, b < R, c <= a * R + b
  PROVE  c \div R < a \/ (c \div R = a /\ c % R <= b)
<1> DEFINE q == c \div R
           r == c % R
<1>1. q \in Nat /\ r \in Nat /\ c = R * q + r
  OBVIOUS
<1> HIDE DEF q, r
<1>2. a * R = R * a /\ R * a \in Nat /\ R * q \in Nat
  BY <1>1
<1>3. CASE q < a
  BY <1>3 DEF q
<1>4. CASE q = a
  <2>1. r <= b
    BY <1>1, <1>2, <1>4
  <2> QED BY <1>4, <2>1 DEF q, r
<1>5. CASE q > a
  <2>1. PICK d \in Nat : q = a + 1 + d
    <3>1. q - a - 1 \in Nat /\ q = a + 1 + (q - a - 1)
      BY <1>1, <1>5
    <3> QED BY <3>1
  <2>2. R * q = R * a + R + R * d /\ R * d \in Nat
    BY <2>1
  <2> QED BY <1>1, <1>2, <2>2
<1> QED BY <1>1, <1>3, <1>4, <1>5

(* The cursor after a claim is not past any pair that the claim was not    *)
(* past and did not take.                                                  *)
LEMMA CursorAfter ==
  ASSUME NEW i \in Nat, NEW s \in Nat, NEW R \in Nat \ {0}, s < R, NEW a \in Nat, NEW b \in Nat,
         i < a \/ (i = a /\ s < b)
  PROVE  i * R + s + 1 <= a * R + b
<1>1. CASE i = a
  <2>1. a * R \in Nat
    OBVIOUS
  <2> QED BY <1>1, <2>1
<1>2. CASE i < a
  <2>1. PICK d \in Nat : a = i + 1 + d
    <3>1. a - i - 1 \in Nat /\ a = i + 1 + (a - i - 1)
      BY <1>2
    <3> QED BY <3>1
  <2>2. a * R = i * R + R + d * R /\ d * R \in Nat /\ i * R \in Nat
    BY <2>1
  <2> QED BY <2>2
<1> QED BY <1>1, <1>2

(* The places of a list that are not exhausted are finitely many.          *)
LEMMA UnspentFinite ==
  ASSUME TypeOK, NEW w \in Worker
  PROVE  /\ IsFiniteSet(Unspent(w)) /\ Cardinality(Unspent(w)) \in Nat
         /\ Cardinality(Unspent(w)) <= Len(List(w))
<1>1. Len(List(w)) \in Nat
  BY Fields DEF TypeOK
<1>2. IsFiniteSet(Place(w)) /\ Cardinality(Place(w)) = Len(List(w))
  BY <1>1, FS_Interval DEF Place
<1>3. Unspent(w) \in SUBSET Place(w)
  BY DEF Unspent
<1> QED BY <1>2, <1>3, FS_Subset, FS_CardinalityType

(* A policy that is not by counts selects a tracker as long as one is not  *)
(* exhausted.                                                              *)
LEMMA SomeChoice ==
  ASSUME TypeOK, NEW w \in Worker, iter[w].policy \in {"RoundRobin", "Any"}, Choices(w) = {}
  PROVE  Unspent(w) = {}
<1> SUFFICES ASSUME Unspent(w) # {} PROVE FALSE
  OBVIOUS
<1>1. CASE iter[w].policy = "Any"
  BY <1>1 DEF Choices
<1>2. CASE iter[w].policy = "RoundRobin"
  <2> DEFINE f == [k \in Unspent(w) |-> Away(w, k)]
  <2>1. f \in [Unspent(w) -> Int]
    <3> SUFFICES ASSUME NEW k \in Unspent(w) PROVE Away(w, k) \in Int
      OBVIOUS
    <3>1. k \in Nat /\ k >= 1 /\ k <= Len(List(w)) /\ Len(List(w)) \in Nat /\ robin[w] \in Nat
      BY Fields DEF Unspent, Place, TypeOK
    <3>2. Len(List(w)) \in Nat \ {0} /\ k - robin[w] + Len(List(w)) \in Int
      BY <3>1
    <3>3. \A n \in Nat \ {0}, x \in Int : x % n \in Int
      OBVIOUS
    <3> QED BY <3>2, <3>3 DEF Away
  <2>2. PICK k \in Unspent(w) : \A j \in Unspent(w) : f[k] <= f[j]
    <3> HIDE DEF f
    <3> QED BY <2>1, SomeLeast, UnspentFinite
  <2>3. k \in Choices(w)
    BY <1>2, <2>2 DEF Choices
  <2> QED BY <2>3
<1> QED BY <1>1, <1>2

(* The turns: what is exhausted has nothing left, and what is selected is  *)
(* taken up where its cursor is.                                           *)
LEMMA TurnOwn ==
  ASSUME TypeOK, PlaceInv, IterInv, NEW w \in Worker,
         CallWrite(w) \/ ReturnNone(w) \/ SelectTracker(w) \/ Exhaust(w)
  PROVE  IterOK(w)'
<1> USE DEF Goto, items, holds, writes
<1>0. KeptOK(w) /\ RoleOK(w) /\ SweepOK(w) /\ WriteOK(w) /\ TriesOK(w)
  BY DEF IterInv, IterOK
<1>a. iter' = iter
  BY StepOthers DEF WriteStep
<1>b. /\ Filter(w)' = Filter(w) /\ List(w)' = List(w) /\ Place(w)' = Place(w) /\ Scope(w)' = Scope(w)
      /\ \A p : CursorAt(w, p)' = CursorAt(w, p)
  BY <1>a DEF Filter, List, Place, Scope, CursorAt, RowLen, SubTop
<1>c. /\ Writing(w) /\ Writing(w)' /\ UNCHANGED items /\ pc'[w] \notin {"claim", "ready"}
      /\ pc'[w] # "scan" => UNCHANGED <<turn, at>>
  BY DEF CallWrite, ReturnNone, SelectTracker, Exhaust, TypeOK, Writing
<1>d. KeptOK(w)' /\ SweepOK(w)'
  BY <1>0, <1>b, <1>c DEF KeptOK, SweepOK, Sweeping, Writing, Wanted
<1>e. iter[w].role = "write"
  BY <1>0, <1>c DEF RoleOK
<1>f. \A p \in kept[w] :
        /\ p \in Scope(w) /\ \E k \in Unspent(w) : List(w)[k] = p[1]
        /\ \A k \in Unspent(w) : List(w)[k] = p[1] => cursors[w][k] <= CursorAt(w, p)
        /\ pc[w] \in {"scan", "claim"} /\ Here(w) = p[1] => NotPast(p, at[w])
  BY <1>0, <1>c DEF KeptOK, WriteOK
<1>1. CASE CallWrite(w)
  <2>1. /\ tries'[w] = Len(List(w)) /\ pc'[w] = "select" /\ UNCHANGED <<spent, cursors>>
        /\ pc[w] \in {"ready", "none"}
    BY <1>1 DEF CallWrite, TypeOK
  <2>2. Unspent(w)' = Unspent(w)
    BY <1>b, <2>1 DEF Unspent
  <2>3. RoleOK(w)' /\ WriteOK(w)'
    BY <1>a, <1>b, <1>c, <1>e, <1>f, <2>1, <2>2 DEF RoleOK, WriteOK, Sweeping, Writing
  <2>4. TriesOK(w)'
    BY <2>1, <2>2, UnspentFinite DEF TriesOK
  <2> QED BY <1>d, <2>3, <2>4 DEF IterOK
<1>2. CASE ReturnNone(w)
  <2>1. /\ UNCHANGED <<spent, cursors, tries, lost>> /\ pc[w] = "select" /\ pc'[w] = "none"
        /\ tries[w] = 0 \/ Choices(w) = {}
    BY <1>2 DEF ReturnNone, TypeOK
  <2>2. Unspent(w)' = Unspent(w)
    BY <1>b, <2>1 DEF Unspent
  <2>3. RoleOK(w)' /\ WriteOK(w)'
    BY <1>a, <1>b, <1>c, <1>e, <1>f, <2>1, <2>2 DEF RoleOK, WriteOK, Sweeping, Writing
  <2>4. ~lost[w] /\ iter[w].policy \in {"RoundRobin", "Any"} => kept[w] = {}
    <3> SUFFICES ASSUME ~lost[w], iter[w].policy \in {"RoundRobin", "Any"}
                 PROVE  Unspent(w) = {}
      BY <1>f
    <3>1. CASE tries[w] = 0
      <4>1. Cardinality(Unspent(w)) <= 0
        BY <1>0, <2>1, <3>1 DEF TriesOK
      <4> QED BY <4>1, UnspentFinite, FS_EmptySet
    <3>2. CASE Choices(w) = {}
      BY <3>2, SomeChoice
    <3> QED BY <2>1, <3>1, <3>2
  <2>5. TriesOK(w)'
    BY <1>a, <1>c, <2>1, <2>4 DEF TriesOK
  <2> QED BY <1>d, <2>3, <2>5 DEF IterOK
<1>3. CASE SelectTracker(w)
  <2>1. /\ UNCHANGED <<spent, cursors, lost>> /\ pc[w] = "select" /\ pc'[w] = "scan"
        /\ tries'[w] = tries[w] - 1 /\ tries[w] \in Nat
    BY <1>3 DEF SelectTracker, TypeOK
  <2>2. PICK k \in Choices(w) :
          /\ turn'[w] = k
          /\ at'[w] = IF List(w)[k] \in Hier
                      THEN <<cursors[w][k] \div RowLen(w), cursors[w][k] % RowLen(w)>>
                      ELSE <<cursors[w][k], 0>>
    BY <1>3 DEF SelectTracker, TypeOK
  <2>3. Unspent(w)' = Unspent(w) /\ k \in Unspent(w) /\ Here(w)' = List(w)[k]
    BY <1>b, <2>1, <2>2 DEF Unspent, Choices, Here
  <2>4. RoleOK(w)'
    BY <1>a, <1>b, <1>c, <1>e, <2>1, <2>2, <2>3 DEF RoleOK, Sweeping, Writing
  <2>5. WriteOK(w)'
    <3> SUFFICES ASSUME NEW p \in kept[w], List(w)[k] = p[1]
                 PROVE  NotPast(p, at'[w])
      BY <1>b, <1>c, <1>f, <2>1, <2>3 DEF WriteOK, NotPast
    <3>1. cursors[w][k] <= CursorAt(w, p) /\ p \in Scope(w)
      BY <1>f, <2>3
    <3>2. p[2] \in Nat /\ p[3] \in Nat /\ RowLen(w) \in Nat \ {0}
          /\ (p[1] \in Hier => p[3] < RowLen(w))
      BY <3>1, ScopeFacts, Fields DEF TypeOK
    <3>3. cursors[w][k] \in Nat
      BY <2>3 DEF TypeOK, Unspent, Place
    <3>4. CASE p[1] \in Hier
      <4>1. \/ cursors[w][k] \div RowLen(w) < p[2]
            \/ cursors[w][k] \div RowLen(w) = p[2] /\ cursors[w][k] % RowLen(w) <= p[3]
        BY <3>1, <3>2, <3>3, <3>4, CursorApart DEF CursorAt
      <4>2. at'[w][1] = cursors[w][k] \div RowLen(w) /\ at'[w][2] = cursors[w][k] % RowLen(w)
        BY <2>2, <3>4
      <4> QED BY <4>1, <4>2 DEF NotPast
    <3>5. CASE p[1] \notin Hier
      <4>1. at'[w][1] = cursors[w][k]
        BY <2>2, <3>5
      <4> QED BY <3>1, <3>2, <3>3, <3>5, <4>1 DEF NotPast, CursorAt
    <3> QED BY <3>4, <3>5
  <2>6. TriesOK(w)'
    BY <1>0, <2>1, <2>3 DEF TriesOK
  <2> QED BY <1>d, <2>4, <2>5, <2>6 DEF IterOK
<1>4. CASE Exhaust(w)
  <2>1. /\ pc[w] = "scan" /\ pc'[w] = "select" /\ at[w][1] >= Top(w) /\ UNCHANGED <<tries, lost>>
        /\ spent'[w] = spent[w] \union {turn[w]}
        /\ \A k : k # turn[w] /\ k \in Place(w) => cursors'[w][k] = cursors[w][k]
    <3>1. PICK n : MoveCursor(w, n)
      BY <1>4 DEF Exhaust
    <3>2. \A k : k # turn[w] /\ k \in Place(w) => cursors'[w][k] = cursors[w][k]
      BY <3>1 DEF MoveCursor, TypeOK
    <3> QED BY <1>4, <3>2 DEF Exhaust, TypeOK
  <2>2. Unspent(w)' = Unspent(w) \ {turn[w]} /\ turn[w] \in Unspent(w) /\ Unspent(w) \subseteq Place(w)
    BY <1>0, <1>b, <2>1 DEF Unspent, RoleOK
  <2>3. RoleOK(w)'
    BY <1>a, <1>b, <1>c, <1>e, <2>1 DEF RoleOK, Sweeping, Writing
  <2>4. \A p \in kept[w] : Here(w) # p[1]
    <3> SUFFICES ASSUME NEW p \in kept[w], Here(w) = p[1]
                 PROVE  FALSE
      OBVIOUS
    <3>1. NotPast(p, at[w]) /\ p[2] \in Nat /\ p[2] < Top(w)
      BY <1>f, <2>1, ScopeFacts
    <3>2. at[w][1] \in Nat /\ Top(w) \in Nat
      BY Fields DEF TypeOK
    <3> QED BY <2>1, <3>1, <3>2 DEF NotPast
  <2>5. WriteOK(w)'
    BY <1>b, <1>c, <1>f, <2>1, <2>2, <2>4 DEF WriteOK, Here
  <2>6. Cardinality(Unspent(w)') = Cardinality(Unspent(w)) - 1
    BY <2>2, UnspentFinite, FS_RemoveElement
  <2>7. TriesOK(w)'
    <3>1. tries[w] \in Nat
      BY DEF TypeOK
    <3> QED BY <1>0, <2>1, <2>6, <3>1, UnspentFinite DEF TriesOK
  <2> QED BY <1>d, <2>3, <2>5, <2>7 DEF IterOK
<1> QED BY <1>1, <1>2, <1>3, <1>4

(* The first id of the next word is after all ids of this one, and at or   *)
(* before all later ids that are not in it.                                *)
LEMMA NextWord ==
  ASSUME NEW m \in Nat, NEW n \in Nat, m <= n
  PROVE  /\ n \div B # m \div B => (m \div B + 1) * B <= n
         /\ n \div B = m \div B => n < (m \div B + 1) * B
<1> DEFINE a == m \div B
           b == n \div B
<1>0. B \in Nat /\ B > 0
  BY GroupAssumption
<1>1. /\ a \in Nat /\ m % B \in Nat /\ m % B < B /\ m = B * a + (m % B)
      /\ b \in Nat /\ n % B \in Nat /\ n % B < B /\ n = B * b + (n % B)
  BY <1>0
<1> HIDE DEF a, b
<1>2. (a + 1) * B = B * a + B /\ B * a \in Nat /\ B * b \in Nat
  BY <1>0, <1>1
<1>3. CASE b = a
  BY <1>0, <1>1, <1>2, <1>3 DEF a, b
<1>4. CASE b > a
  <2>1. PICK d \in Nat : b = a + 1 + d
    <3>1. b - a - 1 \in Nat /\ b = a + 1 + (b - a - 1)
      BY <1>1, <1>4
    <3> QED BY <3>1
  <2>2. B * b = B * a + B + B * d /\ B * d \in Nat
    BY <1>0, <1>1, <2>1
  <2>3. (a + 1) * B <= n
    BY <1>0, <1>1, <1>2, <2>2
  <2> QED BY <1>1, <1>4, <2>3 DEF a, b
<1>5. CASE b < a
  <2>1. PICK d \in Nat : a = b + 1 + d
    <3>1. a - b - 1 \in Nat /\ a = b + 1 + (a - b - 1)
      BY <1>1, <1>5
    <3> QED BY <3>1
  <2>2. B * a = B * b + B + B * d /\ B * d \in Nat
    BY <1>0, <1>1, <2>1
  <2> QED BY <1>0, <1>1, <1>2, <2>2
<1> QED BY <1>1, <1>3, <1>4, <1>5

(* The scans and claims: what is found set, and what is claimed, is off    *)
(* the history, and the iterator goes past nothing else.                   *)
LEMMA ScanOwn ==
  ASSUME TypeOK, PlaceInv, IterInv, NEW w \in Worker,
         ScanWord(w) \/ Claim(w) \/ ClaimPair(w) \/ NextClaimRow(w)
  PROVE  IterOK(w)'
<1> USE DEF Goto, items, holds, writes
<1>0. /\ KeptOK(w) /\ RoleOK(w) /\ SweepOK(w) /\ WriteOK(w) /\ TriesOK(w)
      /\ \A v \in Worker : KeptOK(v)
  BY DEF IterInv, IterOK
<1>a. iter' = iter
  BY StepOthers DEF WriteStep
<1>b. /\ Filter(w)' = Filter(w) /\ List(w)' = List(w) /\ Place(w)' = Place(w) /\ Scope(w)' = Scope(w)
      /\ \A p : CursorAt(w, p)' = CursorAt(w, p)
  BY <1>a DEF Filter, List, Place, Scope, CursorAt, RowLen, SubTop
<1>c. /\ pc[w] \in {"scan", "claim"} /\ pc'[w] \in {"scan", "claim", "ready", "select"}
      /\ turn' = turn /\ spent' = spent /\ tries' = tries
      /\ UNCHANGED items \/ (\E p : Set(p))
  BY DEF ScanWord, Claim, ClaimPair, NextClaimRow, TypeOK
<1>d. kept'[w] \subseteq kept[w] /\ \A p \in kept'[w] : Wanted(w, p)'
  BY <1>0, <1>a, <1>c, KeptShrinks
<1>e. KeptOK(w)' /\ SweepOK(w)'
  BY <1>0, <1>b, <1>c, <1>d DEF KeptOK, SweepOK, Sweeping, Writing
<1>f. Unspent(w)' = Unspent(w) /\ Here(w)' = Here(w) /\ turn[w] \in Unspent(w)
      /\ turn[w] \in Place(w) /\ iter[w].role = "write"
  BY <1>0, <1>b, <1>c DEF Unspent, Here, RoleOK, Writing
<1>g. RoleOK(w)'
  BY <1>0, <1>a, <1>b, <1>c, <1>f DEF RoleOK, Sweeping, Writing
<1>h. \A p \in kept[w] :
        /\ p \in Scope(w) /\ p \notin bits /\ \E k \in Unspent(w) : List(w)[k] = p[1]
        /\ \A k \in Unspent(w) : List(w)[k] = p[1] => cursors[w][k] <= CursorAt(w, p)
        /\ Here(w) = p[1] => NotPast(p, at[w])
  BY <1>0, <1>c, <1>f DEF KeptOK, WriteOK, Writing, Wanted, Filter
<1>i. /\ at[w] = <<at[w][1], at[w][2]>> /\ at[w][1] \in Nat /\ at[w][2] \in Nat
      /\ Top(w) \in Nat /\ RowLen(w) \in Nat \ {0}
  BY Fields DEF TypeOK
<1>j. \A p \in kept[w] : /\ p = <<p[1], p[2], p[3]>> /\ p[2] \in Nat /\ p[3] \in Nat /\ p[2] < Top(w)
                         /\ p[1] \in Hier => iter[w].subLo <= p[3] /\ p[3] < RowLen(w)
                         /\ p[1] \notin Hier => p[3] = 0
  BY <1>h, ScopeFacts
<1>k. TriesOK(w)'
  <2>1. pc'[w] = "select" => lost'[w]
    BY DEF ScanWord, Claim, ClaimPair, NextClaimRow, TypeOK
  <2>2. pc'[w] \in {"scan", "claim"} => lost' = lost
    BY DEF ScanWord, Claim, ClaimPair, NextClaimRow, TypeOK
  <2> QED BY <1>0, <1>c, <1>f, <2>1, <2>2 DEF TriesOK
<1>l. ASSUME UNCHANGED cursors, \A p \in kept'[w] : Here(w) = p[1] => NotPast(p, at'[w])
      PROVE  IterOK(w)'
  <2>1. WriteOK(w)'
    BY <1>b, <1>d, <1>f, <1>h, <1>l DEF WriteOK, NotPast
  <2> QED BY <1>e, <1>g, <1>k, <2>1 DEF IterOK
<1>m. ASSUME NEW n, MoveCursor(w, n), pc'[w] \in {"ready", "select"},
             \A p \in kept'[w] : Here(w) = p[1] => n <= CursorAt(w, p)
      PROVE  IterOK(w)'
  <2>1. cursors'[w][turn[w]] = n
        /\ \A k \in Place(w) : k # turn[w] => cursors'[w][k] = cursors[w][k]
    BY <1>f, <1>m DEF MoveCursor, TypeOK, Place
  <2>2. Unspent(w) \subseteq Place(w)
    BY DEF Unspent
  <2>3. WriteOK(w)'
    BY <1>b, <1>d, <1>f, <1>h, <1>m, <2>1, <2>2 DEF WriteOK, Here
  <2> QED BY <1>e, <1>g, <1>k, <2>3 DEF IterOK
<1>1. CASE ScanWord(w)
  <2>1. at[w][1] < Top(w) /\ Here(w) \notin Hier /\ UNCHANGED <<items, cursors>>
    BY <1>1 DEF ScanWord
  <2>2. ASSUME NEW p \in kept[w], Here(w) = p[1], p[2] \div B = at[w][1] \div B
        PROVE  p[2] \in Hits(w)
    <3>1. p = <<Here(w), p[2], 0>> /\ p \notin bits /\ p[2] \in Nat /\ p[2] < Top(w) /\ at[w][1] <= p[2]
      BY <1>h, <1>i, <1>j, <2>1, <2>2 DEF NotPast
    <3>2. p[2] \in at[w][1] .. Top(w) - 1
      BY <1>i, <3>1
    <3> QED BY <2>2, <3>1, <3>2 DEF Hits
  <2>3. CASE Hits(w) = {}
    <3>1. at'[w] = <<(at[w][1] \div B + 1) * B, 0>>
      BY <1>1, <2>3 DEF ScanWord, TypeOK
    <3>2. ASSUME NEW p \in kept[w], Here(w) = p[1]
          PROVE  NotPast(p, at'[w])
      <4>1. p[2] \div B # at[w][1] \div B /\ at[w][1] <= p[2] /\ p[2] \in Nat /\ p[1] \notin Hier
        BY <1>h, <1>i, <1>j, <2>1, <2>2, <2>3, <3>2 DEF NotPast
      <4>2. (at[w][1] \div B + 1) * B <= p[2]
        BY <1>i, <4>1, NextWord
      <4>3. at'[w][1] = (at[w][1] \div B + 1) * B /\ (at[w][1] \div B + 1) * B \in Nat
        BY <1>i, <3>1, Quotients, GroupAssumption
      <4> QED BY <4>1, <4>2, <4>3 DEF NotPast
    <3> QED BY <1>d, <1>l, <2>1, <3>2
  <2>4. CASE Hits(w) # {}
    <3>1. PICK i \in Hits(w) : (\A j \in Hits(w) : i <= j) /\ at'[w] = <<i, 0>>
      BY <1>1, <2>4 DEF ScanWord, TypeOK
    <3>2. i \in Nat /\ at[w][1] <= i /\ i \div B = at[w][1] \div B
      BY <1>i, <3>1 DEF Hits
    <3>3. ASSUME NEW p \in kept[w], Here(w) = p[1]
          PROVE  NotPast(p, at'[w])
      <4>1. at[w][1] <= p[2] /\ p[2] \in Nat /\ p[1] \notin Hier
        BY <1>h, <1>i, <1>j, <2>1, <3>3 DEF NotPast
      <4>2. i <= p[2]
        <5>1. CASE p[2] \div B = at[w][1] \div B
          BY <2>2, <3>1, <3>3, <5>1
        <5>2. CASE p[2] \div B # at[w][1] \div B
          <6>1. (at[w][1] \div B + 1) * B <= p[2]
            BY <1>i, <4>1, <5>2, NextWord
          <6>2. i < (at[w][1] \div B + 1) * B
            BY <1>i, <3>2, NextWord
          <6>3. (at[w][1] \div B + 1) * B \in Nat
            BY <1>i, Quotients, GroupAssumption
          <6> QED BY <3>2, <4>1, <6>1, <6>2, <6>3
        <5> QED BY <5>1, <5>2
      <4>3. at'[w][1] = i
        BY <3>1
      <4> QED BY <3>2, <4>1, <4>2, <4>3 DEF NotPast
    <3> QED BY <1>d, <1>l, <2>1, <3>3
  <2> QED BY <2>3, <2>4
<1>2. CASE Claim(w)
  <2> DEFINE c == <<Here(w), at[w][1], 0>>
  <2>1. /\ pc[w] = "claim" /\ MoveCursor(w, at[w][1] + 1) /\ pc'[w] \in {"ready", "select"}
        /\ Here(w) \notin Hier
        /\ (c \in bits /\ UNCHANGED items) \/ Set(c)
    BY <1>2 DEF Claim, TypeOK, PlaceInv
  <2>2. c \notin kept'[w]
    BY <1>d, <1>h, <2>1, <1>f DEF Set, Sought, Filter
  <2>3. ASSUME NEW p \in kept'[w], Here(w) = p[1]
        PROVE  at[w][1] + 1 <= CursorAt(w, p)
    <3>1. p \in kept[w] /\ p # c
      BY <1>d, <2>2
    <3>2. at[w][1] <= p[2] /\ p[2] \in Nat /\ p[2] # at[w][1]
      BY <1>h, <1>i, <1>j, <2>1, <2>3, <3>1 DEF NotPast
    <3> QED BY <1>i, <2>1, <2>3, <3>2 DEF CursorAt
  <2> QED BY <1>m, <2>1, <2>3
<1>3. CASE ClaimPair(w)
  <2> DEFINE c == <<Here(w), at[w][1], at[w][2]>>
  <2>1. /\ pc[w] = "scan" /\ Here(w) \in Hier /\ at[w][2] < RowLen(w)
        /\ \/ c \in bits /\ UNCHANGED <<items, cursors>> /\ at'[w] = <<at[w][1], at[w][2] + 1>>
           \/ Set(c) /\ MoveCursor(w, at[w][1] * RowLen(w) + at[w][2] + 1) /\ pc'[w] = "ready"
    BY <1>3 DEF ClaimPair, TypeOK
  <2>2. c \notin kept'[w]
    BY <1>d, <1>h, <2>1, <1>f DEF Set, Sought, Filter
  <2>3. ASSUME NEW p \in kept'[w], Here(w) = p[1]
        PROVE  at[w][1] < p[2] \/ (at[w][1] = p[2] /\ at[w][2] < p[3])
    <3>1. p \in kept[w] /\ p # c
      BY <1>d, <2>2
    <3>2. NotPast(p, at[w]) /\ ~(p[2] = at[w][1] /\ p[3] = at[w][2]) /\ p[2] \in Nat /\ p[3] \in Nat
      BY <1>h, <1>j, <2>3, <3>1
    <3> QED BY <1>i, <2>1, <2>3, <3>2 DEF NotPast
  <2>4. CASE UNCHANGED cursors /\ at'[w] = <<at[w][1], at[w][2] + 1>>
    <3>1. \A p \in kept'[w] : Here(w) = p[1] => NotPast(p, at'[w])
      <4> SUFFICES ASSUME NEW p \in kept'[w], Here(w) = p[1]
                   PROVE  NotPast(p, at'[w])
        OBVIOUS
      <4>1. p[2] \in Nat /\ p[3] \in Nat /\ at'[w][1] = at[w][1] /\ at'[w][2] = at[w][2] + 1
        BY <1>d, <1>j, <2>4
      <4> QED BY <1>i, <2>3, <4>1 DEF NotPast
    <3> QED BY <1>l, <2>4, <3>1
  <2>5. CASE MoveCursor(w, at[w][1] * RowLen(w) + at[w][2] + 1) /\ pc'[w] = "ready"
    <3>1. ASSUME NEW p \in kept'[w], Here(w) = p[1]
          PROVE  at[w][1] * RowLen(w) + at[w][2] + 1 <= CursorAt(w, p)
      <4>1. p[2] \in Nat /\ p[3] \in Nat /\ p[1] \in Hier
        BY <1>d, <1>j, <2>1, <3>1
      <4> QED BY <1>i, <2>1, <2>3, <3>1, <4>1, CursorAfter DEF CursorAt
    <3> QED BY <1>m, <2>5, <3>1
  <2> QED BY <2>1, <2>4, <2>5
<1>4. CASE NextClaimRow(w)
  <2>1. /\ UNCHANGED <<items, cursors>> /\ at'[w] = NextRow(w, at[w][1])
        /\ Here(w) \in Hier /\ at[w][2] >= RowLen(w)
    BY <1>4 DEF NextClaimRow, TypeOK
  <2>2. ASSUME NEW p \in kept[w], Here(w) = p[1]
        PROVE  NotPast(p, at'[w])
    <3>1. /\ NotPast(p, at[w]) /\ p[1] \in Hier /\ p[2] \in Nat /\ p[3] \in Nat
          /\ iter[w].subLo <= p[3] /\ p[3] < RowLen(w) /\ iter[w].subLo \in Nat
      BY <1>h, <1>j, <2>1, <2>2, Fields DEF TypeOK
    <3>2. at'[w][1] = at[w][1] + 1 /\ at'[w][2] = iter[w].subLo
      BY <2>1 DEF NextRow
    <3> QED BY <1>i, <2>1, <3>1, <3>2 DEF NotPast
  <2> QED BY <1>d, <1>l, <2>1, <2>2
<1> QED BY <1>1, <1>2, <1>3, <1>4

(* What is ahead of the iterators holds at first, when there are none.     *)
LEMMA InitIter == Init => IterInv
BY DEF Init, IterInv, MadeInv, IterOK, KeptOK, RoleOK, SweepOK, WriteOK, TriesOK, Sweeping, Writing

(* And it always holds.                                                    *)
THEOREM IterInvariant == Spec => [](TypeOK /\ PlaceInv /\ IterInv)
<1>1. TypeOK /\ PlaceInv /\ IterInv /\ [Next]_vars => IterInv'
  <2> SUFFICES ASSUME TypeOK, PlaceInv, IterInv, [Next]_vars
               PROVE  IterInv'
    OBVIOUS
  <2>1. CASE UNCHANGED vars
    <3>1. \A v \in Worker : IterOK(v) /\ KeptOK(v)
      BY DEF IterInv, IterOK
    <3>2. \A v \in Worker : kept'[v] \subseteq kept[v] /\ \A p \in kept'[v] : Wanted(v, p)'
      BY <2>1, <3>1, KeptShrinks DEF vars, items
    <3>3. \A v \in Worker : IterOK(v)'
      BY <2>1, <3>1, <3>2, OthersOK DEF vars
    <3> QED BY <2>1, <3>3 DEF vars, IterInv, MadeInv
  <2>2. ASSUME NEW w \in Worker, Build(w) \/ Sweep(w) \/ WriteStep(w)
        PROVE  IterInv'
    <3>1. IterOK(w)'
      BY <2>2, BuildOwn, SweepOwn, TurnOwn, ScanOwn DEF WriteStep
    <3>2. \A v \in Worker : v # w => IterOK(v)'
      BY <2>2, StepOthers
    <3> QED BY <2>2, <3>1, <3>2, MadeStep DEF IterInv
  <2> QED BY <2>1, <2>2 DEF Next
<1> QED BY <1>1, InitTyped, InitIter, TypedStep, PTL DEF Spec

(* However the iterators of a group interleave, and whatever its filter, a *)
(* sweep that has come to its end has returned every item that stayed as   *)
(* it looks for it, unset pairs of ids excepted that had no sub-bitmap     *)
(* when it was built.                                                      *)
THEOREM SweepMisses == Spec => []SweepMissesNothing
<1>1. TypeOK /\ IterInv => SweepMissesNothing
  <2> SUFFICES ASSUME TypeOK, IterInv, NEW w \in Worker, pc[w] = "ended", NEW p \in kept[w]
               PROVE  FALSE
    BY DEF SweepMissesNothing
  <2>1. /\ turn[w] > Len(List(w)) /\ p \in Scope(w)
        /\ \A k \in Place(w) : List(w)[k] = p[1] => turn[w] <= k
    <3>1. turn[w] \in Nat /\ \A k \in Place(w) : k \in Nat
      BY Fields DEF TypeOK
    <3> QED BY <3>1 DEF IterInv, IterOK, KeptOK, RoleOK, SweepOK, Sweeping
  <2>2. PICK k \in Place(w) : List(w)[k] = p[1]
    BY <2>1, ScopeFacts
  <2>3. turn[w] <= k /\ k <= Len(List(w)) /\ k \in Nat /\ turn[w] \in Nat /\ Len(List(w)) \in Nat
    BY <2>1, <2>2, Fields DEF TypeOK, Place
  <2> QED BY <2>1, <2>3
<1> QED BY <1>1, IterInvariant, PTL

(* A tracker is exhausted for a write iterator only when every item of its *)
(* range has been found set; None means that all are, unless a claim was   *)
(* lost on the way.                                                        *)
THEOREM NoneMeansAllSet == Spec => []NoneMeansExhausted
<1>1. TypeOK /\ IterInv => NoneMeansExhausted
  <2> SUFFICES ASSUME TypeOK, IterInv, NEW w \in Worker, iter[w].role = "write"
               PROVE  /\ \A p \in kept[w] : \E k \in Unspent(w) : List(w)[k] = p[1]
                      /\ pc[w] = "none" /\ ~lost[w] /\ iter[w].policy \in {"RoundRobin", "Any"}
                           => kept[w] = {}
    BY DEF NoneMeansExhausted
  <2>1. Writing(w) \/ kept[w] = {}
    BY DEF IterInv, IterOK, KeptOK, RoleOK
  <2> QED BY <2>1 DEF IterInv, IterOK, WriteOK, TriesOK
<1> QED BY <1>1, IterInvariant, PTL

-----------------------------------------------------------------------------
(* The iterators are workers at a LockedPool                               *)

(* The trackers that w has locked are those whose flags it holds.          *)
LEMMA HeldIsHolds ==
  ASSUME TypeOK, FlagInv, NEW w \in Worker
  PROVE  \A t \in Held(w) : Holds(w, t)
<1>1. freed[w] \in Nat /\ taken[w] \in Nat /\ Len(List(w)) \in Nat /\ taken[w] <= Len(List(w))
  BY Fields DEF TypeOK, FlagInv, Stage
<1>2. ASSUME NEW k \in freed[w] + 1 .. taken[w]
      PROVE  k \in Place(w) /\ freed[w] < k /\ k <= taken[w]
  BY <1>1 DEF Place
<1> QED BY <1>2 DEF Held, Holds

(* A flag that is taken was nobody's, and the taker has it.                *)
LEMMA AcquireLocks ==
  ASSUME TypeOK, FlagInv, NEW w \in Worker, Acquire(w)
  PROVE  [Pool!Next]_(Pool!pvars)
<1> DEFINE t == List(w)[taken[w] + 1]
           held == [u \in Worker |-> Held(u)]
<1>1. /\ freed[w] \in Nat /\ taken[w] \in Nat /\ Len(List(w)) \in Nat
      /\ freed[w] <= taken[w] /\ taken[w] < Len(List(w))
  BY Fields DEF Acquire, TypeOK, FlagInv, Stage
<1>2. UNCHANGED <<iter, freed, bits>>
  BY DEF Acquire, items
<1>3. CASE t \in flags
  <2>1. UNCHANGED taken
    BY <1>3 DEF Acquire
  <2>2. \A u \in Worker : Held(u)' = Held(u)
    BY <1>2, <2>1 DEF Held, List
  <2> QED BY <1>2, <2>2 DEF Pool!pvars
<1>4. CASE t \notin flags
  <2>1. taken' = [taken EXCEPT ![w] = taken[w] + 1]
    BY <1>4 DEF Acquire
  <2>2. taken'[w] = taken[w] + 1 /\ \A u \in Worker : u # w => taken'[u] = taken[u]
    BY <2>1 DEF TypeOK
  <2>3. \A u \in Worker : u # w => Held(u)' = Held(u)
    BY <1>2, <2>2 DEF Held, List
  <2>4. Held(w)' = Held(w) \union {t}
    <3>1. freed[w] + 1 .. taken[w] + 1 = (freed[w] + 1 .. taken[w]) \union {taken[w] + 1}
      BY <1>1
    <3> QED BY <1>2, <2>2, <3>1 DEF Held, List
  <2>5. t \in Tracker /\ \A u \in Worker : t \notin Held(u)
    <3>1. taken[w] + 1 \in Place(w)
      BY <1>1 DEF Place
    <3>2. t \in Tracker
      BY <3>1, Fields DEF TypeOK
    <3> QED BY <1>4, <3>2, HeldIsHolds DEF FlagInv, FlagsHeld
  <2> HIDE DEF t
  <2>6. held' = [held EXCEPT ![w] = held[w] \union {t}]
    BY <2>3, <2>4
  <2>7. t \in Tracker \ UNION {held[u] : u \in Worker}
    BY <2>5
  <2>8. Pool!Take(w)
    BY <1>2, <2>6, <2>7 DEF Pool!Take, Pool!Unlocked
  <2> QED BY <2>8 DEF Pool!Next
<1> QED BY <1>3, <1>4

(* A flag that is given back was the giver's.                              *)
LEMMA ReleaseUnlocks ==
  ASSUME TypeOK, FlagInv, NEW w \in Worker, Release(w)
  PROVE  [Pool!Next]_(Pool!pvars)
<1> DEFINE t == List(w)[freed[w] + 1]
           held == [u \in Worker |-> Held(u)]
<1>1. /\ freed[w] \in Nat /\ taken[w] \in Nat /\ Len(List(w)) \in Nat
      /\ freed[w] <= taken[w] /\ taken[w] <= Len(List(w))
  BY Fields DEF TypeOK, FlagInv, Stage
<1>2. UNCHANGED <<iter, bits>>
  BY DEF Release, items
<1>3. CASE freed[w] < taken[w]
  <2>1. freed' = [freed EXCEPT ![w] = freed[w] + 1] /\ UNCHANGED taken
    BY <1>3 DEF Release
  <2>2. freed'[w] = freed[w] + 1 /\ \A u \in Worker : u # w => freed'[u] = freed[u]
    BY <2>1 DEF TypeOK
  <2>3. \A u \in Worker : u # w => Held(u)' = Held(u)
    BY <1>2, <2>1, <2>2 DEF Held, List
  <2>4. Held(w)' = Held(w) \ {t} /\ t \in Held(w)
    <3>1. freed[w] + 1 .. taken[w] = {freed[w] + 1} \union (freed[w] + 1 + 1 .. taken[w])
      BY <1>1, <1>3
    <3>2. \A k \in freed[w] + 1 + 1 .. taken[w] : k \in Place(w) /\ k # freed[w] + 1
      BY <1>1 DEF Place
    <3>3. freed[w] + 1 \in Place(w)
      BY <1>1, <1>3 DEF Place
    <3>4. \A j, k \in Place(w) : List(w)[j] = List(w)[k] => j = k
      BY GroupAssumption DEF TypeOK, Place, List
    <3>5. \A k \in freed[w] + 1 + 1 .. taken[w] : List(w)[k] # t
      BY <3>2, <3>3, <3>4
    <3>6. Held(w) = {t} \union {List(w)[k] : k \in freed[w] + 1 + 1 .. taken[w]}
      BY <3>1 DEF Held
    <3>7. Held(w)' = {List(w)[k] : k \in freed[w] + 1 + 1 .. taken[w]}
      BY <1>2, <2>1, <2>2 DEF Held, List
    <3> HIDE DEF t
    <3> QED BY <3>5, <3>6, <3>7
  <2> HIDE DEF t
  <2>5. held' = [held EXCEPT ![w] = held[w] \ {t}]
    BY <2>3, <2>4
  <2>6. Pool!Give(w)
    BY <1>2, <2>4, <2>5 DEF Pool!Give
  <2> QED BY <2>6 DEF Pool!Next
<1>4. CASE ~(freed[w] < taken[w])
  <2>1. freed' = [freed EXCEPT ![w] = 0] /\ taken' = [taken EXCEPT ![w] = 0]
    BY <1>4 DEF Release
  <2>2. /\ freed'[w] = 0 /\ taken'[w] = 0
        /\ \A u \in Worker : u # w => freed'[u] = freed[u] /\ taken'[u] = taken[u]
    BY <2>1 DEF TypeOK
  <2>3. freed[w] + 1 .. taken[w] = {} /\ 0 + 1 .. 0 = {}
    BY <1>1, <1>4
  <2>4. Held(w) = {} /\ Held(w)' = {}
    BY <1>2, <2>2, <2>3 DEF Held, List
  <2>5. \A u \in Worker : u # w => Held(u)' = Held(u)
    BY <1>2, <2>2 DEF Held, List
  <2>6. \A u \in Worker : Held(u)' = Held(u)
    BY <2>4, <2>5
  <2> QED BY <1>2, <2>6 DEF Pool!pvars
<1> QED BY <1>3, <1>4

(* An iterator that claims an item has nothing locked.                     *)
LEMMA ClaimHandsOut ==
  ASSUME TypeOK, PlaceInv, FlagInv, IterInv, NEW w \in Worker, UNCHANGED <<iter, holds>>,
         pc[w] \in {"scan", "claim"}, NEW p \in Item, p \notin bits, Set(p)
  PROVE  Pool!Next
<1> DEFINE held == [u \in Worker |-> Held(u)]
<1>1. taken[w] = 0 /\ freed[w] \in Nat
  BY DEF IterInv, IterOK, RoleOK, Writing, FlagInv, Stage, TypeOK
<1>2. Held(w) = {}
  <2>1. freed[w] + 1 .. taken[w] = {}
    BY <1>1
  <2> QED BY <2>1 DEF Held
<1>3. \A u \in Worker : Held(u)' = Held(u)
  BY DEF Held, List, holds
<1>4. held' = held /\ held[w] = {}
  BY <1>2, <1>3
<1>5. bits' = bits \union {p}
  BY DEF Set
<1>6. Pool!HandOut(w)
  BY <1>4, <1>5 DEF Pool!HandOut
<1> QED BY <1>6 DEF Pool!Next

(* One that deletes an item has its tracker locked.                        *)
LEMMA VisitTakesBack ==
  ASSUME TypeOK, FlagInv, NEW w \in Worker, UNCHANGED <<iter, holds>>,
         pc[w] \in {"seek", "row"}, turn[w] \in Place(w), NEW p, p[1] = Here(w), Visit(w, p)
  PROVE  [Pool!Next]_(Pool!pvars)
<1> DEFINE held == [u \in Worker |-> Held(u)]
<1>1. \A u \in Worker : Held(u)' = Held(u)
  BY DEF Held, List, holds
<1>2. held' = held
  BY <1>1
<1>3. CASE UNCHANGED bits
  BY <1>2, <1>3 DEF Pool!pvars
<1>4. CASE p \in Sought(w, {p}, bits) /\ iter[w].role = "delete" /\ Clear(p)
  <2>1. p \in bits /\ bits' = bits \ {p}
    BY <1>4, SoughtWithin DEF Clear
  <2>2. freed[w] = 0 /\ taken[w] = Len(List(w))
    BY <1>4 DEF FlagInv, Stage, Deleting
  <2>3. turn[w] \in freed[w] + 1 .. taken[w]
    BY <2>2 DEF Place
  <2>4. p[1] \in held[w]
    BY <2>3 DEF Held, Here
  <2>5. Pool!TakeBack(w)
    BY <1>2, <2>1, <2>4 DEF Pool!TakeBack, Pool!TrackerOf
  <2> QED BY <2>5 DEF Pool!Next
<1> QED BY <1>3, <1>4 DEF Visit, items

(* So each step is one of the pool's, or leaves it as it is.               *)
LEMMA PoolStep ==
  ASSUME TypeOK, PlaceInv, FlagInv, IterInv, [Next]_vars
  PROVE  [Pool!Next]_(Pool!pvars)
<1>1. ASSUME UNCHANGED <<iter, holds, bits>>
      PROVE  [Pool!Next]_(Pool!pvars)
  <2>1. \A u \in Worker : Held(u)' = Held(u)
    BY <1>1 DEF Held, List, holds
  <2> QED BY <1>1, <2>1 DEF Pool!pvars
<1>2. ASSUME NEW w \in Worker, Build(w)
      PROVE  [Pool!Next]_(Pool!pvars)
  <2>1. CASE Acquire(w) \/ Release(w)
    BY <2>1, AcquireLocks, ReleaseUnlocks
  <2>2. CASE BuildRead(w) \/ BuildWrite(w) \/ BuildDelete(w) \/ OpenDelete(w) \/ Discard(w)
    <3>1. UNCHANGED <<iter, holds, bits>>
      BY <2>2 DEF BuildRead, BuildWrite, BuildDelete, OpenDelete, Discard, items
    <3> QED BY <1>1, <3>1
  <2> QED BY <1>2, <2>1, <2>2 DEF Build
<1>3. ASSUME NEW w \in Worker, Sweep(w)
      PROVE  [Pool!Next]_(Pool!pvars)
  <2>1. CASE VisitId(w)
    <3>1. pc[w] = "seek" /\ turn[w] <= Len(List(w)) /\ UNCHANGED <<iter, holds>>
          /\ Visit(w, <<Here(w), at[w][1], 0>>)
      BY <2>1 DEF VisitId
    <3>2. turn[w] \in Place(w)
      BY <3>1, Fields DEF TypeOK, Place
    <3> QED BY <3>1, <3>2, VisitTakesBack
  <2>2. CASE VisitPair(w)
    <3>1. pc[w] = "row" /\ UNCHANGED <<iter, holds>> /\ Visit(w, <<Here(w), at[w][1], at[w][2]>>)
      BY <2>2 DEF VisitPair
    <3>2. turn[w] \in Place(w)
      BY <3>1 DEF IterInv, IterOK, RoleOK
    <3> QED BY <3>1, <3>2, VisitTakesBack
  <2>3. CASE CallSweep(w) \/ NextTracker(w) \/ EndSweep(w) \/ EnterRow(w) \/ LeaveRow(w)
    <3>1. UNCHANGED <<iter, holds, bits>>
      BY <2>3 DEF CallSweep, NextTracker, EndSweep, EnterRow, LeaveRow, items
    <3> QED BY <1>1, <3>1
  <2> QED BY <1>3, <2>1, <2>2, <2>3 DEF Sweep
<1>4. ASSUME NEW w \in Worker, WriteStep(w)
      PROVE  [Pool!Next]_(Pool!pvars)
  <2>1. CASE Claim(w)
    <3> DEFINE p == <<Here(w), at[w][1], 0>>
    <3>1. pc[w] = "claim" /\ UNCHANGED <<iter, holds>> /\ (UNCHANGED bits \/ (p \notin bits /\ Set(p)))
      BY <2>1 DEF Claim, items
    <3>2. p \in Item
      BY <3>1, ClaimedIsItem
    <3> QED BY <1>1, <3>1, <3>2, ClaimHandsOut
  <2>2. CASE ClaimPair(w)
    <3> DEFINE p == <<Here(w), at[w][1], at[w][2]>>
    <3>1. pc[w] = "scan" /\ UNCHANGED <<iter, holds>> /\ (UNCHANGED bits \/ (p \notin bits /\ Set(p)))
      BY <2>2 DEF ClaimPair, items
    <3>2. p \in Item
      BY <2>2, ClaimedIsItem DEF ClaimPair
    <3> QED BY <1>1, <3>1, <3>2, ClaimHandsOut
  <2>3. CASE CallWrite(w) \/ ReturnNone(w) \/ SelectTracker(w) \/ Exhaust(w) \/ ScanWord(w) \/ NextClaimRow(w)
    <3>1. UNCHANGED <<iter, holds, bits>>
      BY <2>3 DEF CallWrite, ReturnNone, SelectTracker, Exhaust, ScanWord, NextClaimRow, items
    <3> QED BY <1>1, <3>1
  <2> QED BY <1>4, <2>1, <2>2, <2>3 DEF WriteStep
<1>5. CASE UNCHANGED vars
  BY <1>1, <1>5 DEF vars, holds
<1> QED BY <1>2, <1>3, <1>4, <1>5 DEF Next

(* The group iterators implement LockedPool: whatever the trackers, the    *)
(* lists and the interleaving, an item is handed out in one step and only  *)
(* while nobody has it, and taken back only by the one iterator that has   *)
(* the delete flag of its tracker.                                         *)
THEOREM GroupImplementsLockedPool == Spec => ImplementsLockedPool
<1>1. Init => Pool!Init
  <2> SUFFICES ASSUME Init PROVE Pool!Init
    OBVIOUS
  <2>1. \A w \in Worker : Held(w) = {}
    BY DEF Init, Held
  <2> QED BY <2>1 DEF Init, Pool!Init
<1>2. TypeOK /\ PlaceInv /\ FlagInv /\ IterInv /\ [Next]_vars => [Pool!Next]_(Pool!pvars)
  BY PoolStep
<1> QED BY <1>1, <1>2, FlagsAlways, IterInvariant, PTL DEF Spec, ImplementsLockedPool, Pool!Spec
=============================================================================
