------------------------------ MODULE GroupIter ------------------------------
(***************************************************************************)
(* The group iterators of src/group_iter.rs: each goes over several        *)
(* trackers, simple and hierarchical ones, that it shares with all the     *)
(* others.  GroupWriteIter claims what is unset, by a policy;              *)
(* GroupDeleteIter takes what is set, and holds the delete flag of every   *)
(* tracker it is on; GroupIter in horizontal order reads, and so does      *)
(* GroupPartitionedIter on its part of the range.                          *)
(*                                                                         *)
(* One action per access of a tracker.  claim_pair, remove_pair and remove *)
(* are one action each, and what they count besides is exact (HierTracker, *)
(* AtomicBitmap); a word of a bitmap is scanned in one action.             *)
(***************************************************************************)
EXTENDS Integers, Sequences, FiniteSets

CONSTANTS
  Tracker,   \* the trackers of the group
  Hier,      \* those that are hierarchical
  MaxId,     \* max_id of every tracker
  MaxSub,    \* max_sub_id of the hierarchical ones
  Capacity,  \* capacity() of every tracker's primary bitmap
  B,         \* ids per word of a bitmap
  Worker,    \* the iterators
  Builds     \* what they may be built with, all of them together

Sub(t) == 0 .. (IF t \in Hier THEN MaxSub ELSE 1) - 1   \* a simple tracker has the sub-id 0 only
Item == {p \in Tracker \X (0 .. MaxId - 1) \X (0 .. MaxSub - 1) : p[3] \in Sub(p[1])}

(* The bit filter of a read iterator and the claim policy of a write one;  *)
(* the trackers left by the prefix filter, in their order; the range.      *)
IterType == [role : {"write", "delete", "read"}, filter : {"Unset", "Set", "All"},
             policy : {"RoundRobin", "Any", "ByCount", "ByUnsetCount"},
             list : Seq(Tracker), lo : Nat, hi : Nat, subLo : Nat, subHi : Nat]

ASSUME GroupAssumption ==
  /\ Hier \subseteq Tracker
  /\ MaxId \in Nat /\ MaxSub \in Nat \ {0} /\ Capacity \in Nat /\ B \in Nat \ {0}
  /\ Builds \subseteq [Worker -> IterType]
  /\ \A b \in Builds : \A w \in Worker : \A j, k \in 1 .. Len(b[w].list) :
       b[w].list[j] = b[w].list[k] => j = k

VARIABLES
  iter,     \* iter[w]: how worker w's iterator is built; it never changes
  bits,     \* the items set in the trackers
  made,     \* the <<tracker, id>> that have a sub-bitmap
  flags,    \* the trackers whose delete_iter_active is set
  pc,       \* pc[w]: what worker w does next
  turn,     \* turn[w]: the tracker it is at, a place in its list
  at,       \* at[w]: the <<id, sub-id>> it is at
  freed,    \* freed[w], taken[w]: it holds the flags of the trackers after the first
  taken,    \*   freed[w] and up to the first taken[w] of its list
  robin,    \* robin[w]: round_robin_index
  tries,    \* tries[w]: turns left to this call of a write iterator
  cursors,  \* cursors[w][k]: its cursor on the k-th tracker
  spent,    \* spent[w]: the trackers it has marked exhausted
  lost,     \* history: lost[w]: this call of w has lost a claim to someone else
  owed,     \* history: how often each item was handed out, less how often taken back
  kept      \* history: kept[w]: items w looks for, and must find, ever since it was built,
            \*   and has not had

vars == <<iter, bits, made, flags, pc, turn, at, freed, taken, robin, tries, cursors, spent,
          lost, owed, kept>>

Smaller(m, n) == IF m < n THEN m ELSE n
Larger(m, n)  == IF m < n THEN n ELSE m

List(w)  == iter[w].list
Place(w) == 1 .. Len(List(w))
Here(w)  == List(w)[turn[w]]

TopUncut(w) == iter[w].hi                                \* mutant: not cut to MaxId
Top(w)      == Smaller(iter[w].hi, MaxId)                \* max_id
SubTop(w)   == Smaller(iter[w].subHi, MaxSub)            \* max_sub_id
RowLen(w)   == Larger(SubTop(w), 1)                      \* and in try_claim_at
Start(w)    == <<iter[w].lo, iter[w].subLo>>

NextRow(w, i) == <<i + 1, iter[w].subLo>>

(* What the iterator w ranges over; what of it it must find, if that stays *)
(* as it is: every item, but of unset pairs those only whose id has a      *)
(* sub-bitmap by now, for a sweep; what of S it looks for.                 *)
Scope(w) == {p \in Item : /\ \E k \in Place(w) : List(w)[k] = p[1]
                          /\ iter[w].lo <= p[2] /\ p[2] < iter[w].hi
                          /\ p[1] \in Hier => iter[w].subLo <= p[3] /\ p[3] < iter[w].subHi}
Promised(w) == {p \in Scope(w) : \/ iter[w].role = "write" \/ p[1] \notin Hier
                                 \/ p \in bits \/ <<p[1], p[2]>> \in made}
Filter(w) == IF iter[w].role = "write" THEN "Unset"
             ELSE IF iter[w].role = "delete" THEN "Set" ELSE iter[w].filter
Sought(w, S, b) == {p \in S : (Filter(w) = "Set" => p \in b) /\ (Filter(w) = "Unset" => p \notin b)}

Labels == {"new", "acquire", "release",               \* delete()
           "open", "seek", "row", "ended",            \* the sweeps
           "ready", "select", "scan", "claim", "none"}  \* the write iterators

TypeOK ==
  /\ iter \in Builds
  /\ bits \subseteq Item /\ made \subseteq Hier \X (0 .. MaxId - 1) /\ flags \subseteq Tracker
  /\ pc \in [Worker -> Labels]
  /\ turn \in [Worker -> Nat \ {0}] /\ at \in [Worker -> Nat \X Nat]
  /\ freed \in [Worker -> Nat] /\ taken \in [Worker -> Nat]
  /\ robin \in [Worker -> Nat \ {0}] /\ tries \in [Worker -> Nat]
  /\ cursors \in [Worker -> Seq(Nat)] /\ spent \in [Worker -> SUBSET Nat]
  /\ \A w \in Worker : Len(cursors[w]) = Len(List(w)) /\ spent[w] \subseteq Place(w)
  /\ lost \in [Worker -> BOOLEAN]
  /\ owed \in [Item -> Int]
  /\ kept \in [Worker -> SUBSET Item]

Init ==
  /\ iter \in Builds
  /\ bits = {} /\ made = {} /\ flags = {}
  /\ pc = [w \in Worker |-> "new"]
  /\ turn = [w \in Worker |-> 1] /\ at = [w \in Worker |-> <<0, 0>>]
  /\ freed = [w \in Worker |-> 0] /\ taken = [w \in Worker |-> 0]
  /\ robin = [w \in Worker |-> 1] /\ tries = [w \in Worker |-> 0]
  /\ cursors = [w \in Worker |-> [k \in Place(w) |-> 0]]
  /\ spent = [w \in Worker |-> {}] /\ lost = [w \in Worker |-> FALSE]
  /\ owed = [p \in Item |-> 0] /\ kept = [w \in Worker |-> {}]

Goto(w, label) == pc' = [pc EXCEPT ![w] = label]

(* The item p changes hands, with the history of everyone.                 *)
Set(p) ==
  /\ bits' = bits \union {p}
  /\ owed' = [owed EXCEPT ![p] = @ + 1]
  /\ kept' = [u \in Worker |-> Sought(u, kept[u], bits')]
Clear(p) ==
  /\ bits' = bits \ {p}
  /\ owed' = [owed EXCEPT ![p] = @ - 1]
  /\ kept' = [u \in Worker |-> Sought(u, kept[u], bits')]

items == <<bits, owed, kept>>
holds == <<flags, freed, taken>>
writes == <<robin, tries, cursors, spent, lost>>

-----------------------------------------------------------------------------
(* Building an iterator, and dropping it between two calls of next()       *)

Open(w, label) ==
  /\ Goto(w, label)
  /\ turn' = [turn EXCEPT ![w] = 1]
  /\ at' = [at EXCEPT ![w] = Start(w)]
  /\ kept' = [kept EXCEPT ![w] = Sought(w, Promised(w), bits)]

BuildRead(w) ==
  /\ pc[w] = "new" /\ iter[w].role = "read"
  /\ Open(w, "open")
  /\ UNCHANGED <<iter, bits, made, holds, writes, owed>>

BuildWrite(w) ==
  /\ pc[w] = "new" /\ iter[w].role = "write"
  /\ Open(w, "ready")
  /\ cursors' = [cursors EXCEPT ![w] = [k \in Place(w) |-> iter[w].lo]]
  /\ UNCHANGED <<iter, bits, made, holds, robin, tries, spent, lost, owed>>

BuildDelete(w) ==
  /\ pc[w] = "new" /\ iter[w].role = "delete"
  /\ Goto(w, "acquire")
  /\ UNCHANGED <<iter, items, made, turn, at, holds, writes>>

(* Mutant: the flag is stored, whatever it was. *)
AcquireUntested(w) ==
  /\ pc[w] = "acquire" /\ taken[w] < Len(List(w))
  /\ flags' = flags \union {List(w)[taken[w] + 1]}
  /\ taken' = [taken EXCEPT ![w] = @ + 1]
  /\ UNCHANGED <<iter, items, made, pc, turn, at, freed, writes>>

(* delete() takes the flags one by one, each by a compare_exchange ...     *)
Acquire(w) ==
  /\ pc[w] = "acquire" /\ taken[w] < Len(List(w))
  /\ LET t == List(w)[taken[w] + 1]
     IN IF t \in flags
        THEN Goto(w, "release") /\ UNCHANGED <<flags, taken>>
        ELSE /\ flags' = flags \union {t}
             /\ taken' = [taken EXCEPT ![w] = @ + 1]
             /\ UNCHANGED pc
  /\ UNCHANGED <<iter, items, made, turn, at, freed, writes>>

OpenDelete(w) ==
  /\ pc[w] = "acquire" /\ taken[w] = Len(List(w))
  /\ Open(w, "open")
  /\ UNCHANGED <<iter, bits, made, holds, writes, owed>>

(* Mutant: nothing is given back. *)
ReleaseNone(w) ==
  /\ pc[w] = "release"
  /\ freed' = [freed EXCEPT ![w] = 0] /\ taken' = [taken EXCEPT ![w] = 0]
  /\ Goto(w, "new")
  /\ UNCHANGED <<iter, items, made, flags, turn, at, writes>>

(* ... and gives back those it took, one by one, when one is set already;  *)
(* so does the drop of the iterator, with all of them.                     *)
Release(w) ==
  /\ pc[w] = "release"
  /\ IF freed[w] < taken[w]
     THEN /\ flags' = flags \ {List(w)[freed[w] + 1]}
          /\ freed' = [freed EXCEPT ![w] = @ + 1]
          /\ UNCHANGED <<taken, pc>>
     ELSE /\ freed' = [freed EXCEPT ![w] = 0] /\ taken' = [taken EXCEPT ![w] = 0]
          /\ Goto(w, "new")
          /\ UNCHANGED flags
  /\ UNCHANGED <<iter, items, made, turn, at, writes>>

Discard(w) ==
  /\ pc[w] \in {"open", "ended", "ready", "none"}
  /\ Goto(w, IF iter[w].role = "delete" THEN "release" ELSE "new")
  /\ kept' = [kept EXCEPT ![w] = {}]
  /\ turn' = [turn EXCEPT ![w] = 1]
  /\ at' = [at EXCEPT ![w] = <<0, 0>>]
  /\ robin' = [robin EXCEPT ![w] = 1]
  /\ tries' = [tries EXCEPT ![w] = 0]
  /\ cursors' = [cursors EXCEPT ![w] = [k \in Place(w) |-> 0]]
  /\ spent' = [spent EXCEPT ![w] = {}]
  /\ lost' = [lost EXCEPT ![w] = FALSE]
  /\ UNCHANGED <<iter, bits, made, holds, owed>>

-----------------------------------------------------------------------------
(* next() of the sweeps: the trackers one after the other, in each the ids *)
(* in order, in a hierarchical one the sub-ids of an id.                   *)

CallSweep(w) ==
  /\ pc[w] = "open"
  /\ Goto(w, "seek")
  /\ UNCHANGED <<iter, items, made, turn, at, holds, writes>>

(* remove or remove_pair of p; or exists or exists_pair and should_yield.  *)
(* The item is returned if it was there, or was what the reader looks for. *)
Visit(w, p) ==
  \/ /\ p \notin Sought(w, {p}, bits)
     /\ UNCHANGED <<pc, items>>
  \/ /\ p \in Sought(w, {p}, bits) /\ iter[w].role = "delete"
     /\ Goto(w, "open")
     /\ Clear(p)
  \/ /\ p \in Sought(w, {p}, bits) /\ iter[w].role # "delete"
     /\ Goto(w, "open")
     /\ kept' = [kept EXCEPT ![w] = @ \ {p}]
     /\ UNCHANGED <<bits, owed>>

(* Mutant: the next tracker goes on at the id where the last one ended. *)
NextTrackerKeepsId(w) ==
  /\ pc[w] = "seek" /\ turn[w] <= Len(List(w)) /\ at[w][1] >= Top(w)
  /\ turn' = [turn EXCEPT ![w] = @ + 1]
  /\ UNCHANGED <<iter, items, made, pc, at, holds, writes>>

NextTracker(w) ==
  /\ pc[w] = "seek" /\ turn[w] <= Len(List(w)) /\ at[w][1] >= Top(w)
  /\ turn' = [turn EXCEPT ![w] = @ + 1]
  /\ at' = [at EXCEPT ![w] = Start(w)]
  /\ UNCHANGED <<iter, items, made, pc, holds, writes>>

EndSweep(w) ==
  /\ pc[w] = "seek" /\ turn[w] > Len(List(w))
  /\ Goto(w, "ended")
  /\ UNCHANGED <<iter, items, made, turn, at, holds, writes>>

VisitId(w) ==
  /\ pc[w] = "seek" /\ turn[w] <= Len(List(w)) /\ at[w][1] < Top(w)
  /\ Here(w) \notin Hier
  /\ Visit(w, <<Here(w), at[w][1], 0>>)
  /\ at' = [at EXCEPT ![w] = <<@[1] + 1, @[2]>>]
  /\ UNCHANGED <<iter, made, turn, holds, writes>>

(* effective_max_sub_id_for: 0 for an id without a sub-bitmap.             *)
EnterRow(w) ==
  /\ pc[w] = "seek" /\ turn[w] <= Len(List(w)) /\ at[w][1] < Top(w)
  /\ Here(w) \in Hier
  /\ IF <<Here(w), at[w][1]>> \in made /\ at[w][2] < SubTop(w)
     THEN Goto(w, "row") /\ UNCHANGED at
     ELSE at' = [at EXCEPT ![w] = NextRow(w, at[w][1])] /\ UNCHANGED pc
  /\ UNCHANGED <<iter, items, made, turn, holds, writes>>

VisitPair(w) ==
  /\ pc[w] = "row" /\ at[w][2] < SubTop(w)
  /\ Visit(w, <<Here(w), at[w][1], at[w][2]>>)
  /\ at' = [at EXCEPT ![w] = <<@[1], @[2] + 1>>]
  /\ UNCHANGED <<iter, made, turn, holds, writes>>

LeaveRow(w) ==
  /\ pc[w] = "row" /\ at[w][2] >= SubTop(w)
  /\ at' = [at EXCEPT ![w] = NextRow(w, at[w][1])]
  /\ Goto(w, "seek")
  /\ UNCHANGED <<iter, items, made, turn, holds, writes>>

-----------------------------------------------------------------------------
(* next() of GroupWriteIter: as many turns as there are trackers           *)

CallWrite(w) ==
  /\ pc[w] \in {"ready", "none"}
  /\ tries' = [tries EXCEPT ![w] = Len(List(w))]
  /\ lost' = [lost EXCEPT ![w] = FALSE]
  /\ Goto(w, "select")
  /\ UNCHANGED <<iter, items, made, turn, at, holds, robin, cursors, spent>>

(* select_tracker_index.  "Any" stands for Random, LeastLoaded, MostLoaded *)
(* and the weights that are never 0: whichever tracker is not exhausted.   *)
Count(t)    == Cardinality({p \in bits : p[1] = t})
Away(w, k)  == (k - robin[w] + Len(List(w))) % Len(List(w))
Unspent(w)  == Place(w) \ spent[w]
Choices(w)  ==
  {k \in Unspent(w) :
     /\ iter[w].policy = "RoundRobin"   => \A j \in Unspent(w) : Away(w, k) <= Away(w, j)
     /\ iter[w].policy = "ByCount"      => Count(List(w)[k]) > 0
     /\ iter[w].policy = "ByUnsetCount" => Count(List(w)[k]) < Capacity}

ReturnNone(w) ==
  /\ pc[w] = "select" /\ (tries[w] = 0 \/ Choices(w) = {})
  /\ Goto(w, "none")
  /\ UNCHANGED <<iter, items, made, turn, at, holds, writes>>

SelectTracker(w) ==
  /\ pc[w] = "select" /\ tries[w] > 0
  /\ \E k \in Choices(w) :
       /\ turn' = [turn EXCEPT ![w] = k]
       /\ robin' = [robin EXCEPT ![w] = IF iter[w].policy = "RoundRobin" THEN (k % Len(List(w))) + 1
                                           ELSE @]
       /\ at' = [at EXCEPT ![w] = IF List(w)[k] \in Hier
                                  THEN <<cursors[w][k] \div RowLen(w), cursors[w][k] % RowLen(w)>>
                                  ELSE <<cursors[w][k], 0>>]
  /\ tries' = [tries EXCEPT ![w] = @ - 1]
  /\ Goto(w, "scan")
  /\ UNCHANGED <<iter, items, made, holds, cursors, spent, lost>>

MoveCursor(w, n) == cursors' = [cursors EXCEPT ![w][turn[w]] = n]

(* Nothing unset up to max_id: the tracker is exhausted, for good.         *)
Exhaust(w) ==
  /\ pc[w] = "scan" /\ at[w][1] >= Top(w)
  /\ spent' = [spent EXCEPT ![w] = @ \union {turn[w]}]
  /\ IF Here(w) \in Hier THEN MoveCursor(w, Top(w) * RowLen(w))
     ELSE MoveCursor(w, Larger(cursors[w][turn[w]], Top(w)))
  /\ Goto(w, "select")
  /\ UNCHANGED <<iter, items, made, turn, at, holds, robin, tries, lost>>

(* find_next_unset in a simple tracker, a word at a time.                  *)
Hits(w) == {i \in at[w][1] .. Top(w) - 1 :
              i \div B = at[w][1] \div B /\ <<Here(w), i, 0>> \notin bits}

ScanWord(w) ==
  /\ pc[w] = "scan" /\ at[w][1] < Top(w) /\ Here(w) \notin Hier
  /\ IF Hits(w) = {}
     THEN /\ at' = [at EXCEPT ![w] = <<(at[w][1] \div B + 1) * B, 0>>]
          /\ UNCHANGED pc
     ELSE /\ \E i \in Hits(w) : (\A j \in Hits(w) : i <= j) /\ at' = [at EXCEPT ![w] = <<i, 0>>]
          /\ Goto(w, "claim")
  /\ UNCHANGED <<iter, items, made, turn, holds, writes>>

(* Mutants: set and return, whoever was first; a lost claim marks the      *)
(* tracker exhausted.                                                      *)
ClaimUntested(w) ==
  /\ pc[w] = "claim"
  /\ MoveCursor(w, at[w][1] + 1)
  /\ Set(<<Here(w), at[w][1], 0>>)
  /\ Goto(w, "ready")
  /\ UNCHANGED <<iter, made, turn, at, holds, robin, tries, spent, lost>>
ClaimOrSpent(w) ==
  /\ pc[w] = "claim"
  /\ MoveCursor(w, at[w][1] + 1)
  /\ IF <<Here(w), at[w][1], 0>> \in bits
     THEN /\ spent' = [spent EXCEPT ![w] = @ \union {turn[w]}]
          /\ Goto(w, "select")
          /\ UNCHANGED items
     ELSE Set(<<Here(w), at[w][1], 0>>) /\ Goto(w, "ready") /\ UNCHANGED spent
  /\ UNCHANGED <<iter, made, turn, at, holds, robin, tries, lost>>

(* test_and_set of the id found: a claim that is lost costs the turn.      *)
Claim(w) ==
  /\ pc[w] = "claim"
  /\ MoveCursor(w, at[w][1] + 1)
  /\ IF <<Here(w), at[w][1], 0>> \in bits
     THEN /\ lost' = [lost EXCEPT ![w] = TRUE]
          /\ Goto(w, "select")
          /\ UNCHANGED items
     ELSE Set(<<Here(w), at[w][1], 0>>) /\ Goto(w, "ready") /\ UNCHANGED lost
  /\ UNCHANGED <<iter, made, turn, at, holds, robin, tries, spent>>

(* In a hierarchical tracker claim_pair of every pair until one succeeds.  *)
ClaimPair(w) ==
  /\ pc[w] = "scan" /\ at[w][1] < Top(w) /\ Here(w) \in Hier /\ at[w][2] < RowLen(w)
  /\ LET p == <<Here(w), at[w][1], at[w][2]>>
     IN /\ made' = made \union {<<p[1], p[2]>>}
        /\ IF p \in bits
           THEN /\ at' = [at EXCEPT ![w] = <<p[2], p[3] + 1>>]
                /\ UNCHANGED <<items, cursors, pc>>
           ELSE /\ Set(p)
                /\ MoveCursor(w, p[2] * RowLen(w) + p[3] + 1)
                /\ Goto(w, "ready")
                /\ UNCHANGED at
  /\ UNCHANGED <<iter, turn, holds, robin, tries, spent, lost>>

NextClaimRow(w) ==
  /\ pc[w] = "scan" /\ at[w][1] < Top(w) /\ Here(w) \in Hier /\ at[w][2] >= RowLen(w)
  /\ at' = [at EXCEPT ![w] = NextRow(w, at[w][1])]
  /\ UNCHANGED <<iter, items, made, pc, turn, holds, writes>>

-----------------------------------------------------------------------------
Build(w) == BuildRead(w) \/ BuildWrite(w) \/ BuildDelete(w) \/ Acquire(w) \/ OpenDelete(w)
            \/ Release(w) \/ Discard(w)
Sweep(w) == CallSweep(w) \/ NextTracker(w) \/ EndSweep(w) \/ VisitId(w) \/ EnterRow(w)
            \/ VisitPair(w) \/ LeaveRow(w)
WriteStep(w) == CallWrite(w) \/ ReturnNone(w) \/ SelectTracker(w) \/ Exhaust(w) \/ ScanWord(w)
                \/ Claim(w) \/ ClaimPair(w) \/ NextClaimRow(w)

Next == \E w \in Worker : Build(w) \/ Sweep(w) \/ WriteStep(w)

Spec == Init /\ [][Next]_vars

-----------------------------------------------------------------------------
(* Properties                                                              *)

Deleting(w) == iter[w].role = "delete" /\ pc[w] \in {"open", "seek", "row", "ended"}

(* GroupIterBuilder::delete is exclusive: no tracker is in the lists of    *)
(* two open delete iterators.                                              *)
OneDeleter ==
  \A u, w \in Worker : u # w /\ Deleting(u) /\ Deleting(w) =>
    \A j \in Place(u), k \in Place(w) : List(u)[j] # List(w)[k]

(* Every flag that delete() has set is given back, by the call that fails  *)
(* on a later tracker or by the drop of the iterator: with nobody at it,   *)
(* none is left set.                                                       *)
FlagsGivenBack ==
  (\A w \in Worker : iter[w].role = "delete" => pc[w] = "new") => flags = {}

(* Write and delete iterators neither lose nor duplicate an item: one is   *)
(* handed out only after it was taken back as often as handed out before,  *)
(* and no longer set once it was taken back.                               *)
HandedOverOnce == \A p \in Item : owed[p] = IF p \in bits THEN 1 ELSE 0

(* A delete or read iterator that ends, whatever its filter, has missed    *)
(* nothing that was in its range, as it looks for it, ever since it was    *)
(* built: no id of a simple tracker, no set pair, and no unset pair of an  *)
(* id that had a sub-bitmap by then.                                       *)
SweepMissesNothing == \A w \in Worker : pc[w] = "ended" => kept[w] = {}

(* A tracker is marked exhausted only when every item of the range was set *)
(* at some moment since the write iterator was built; and next() returns   *)
(* None only when all are exhausted, or having lost a claim to another     *)
(* writer (or, by weight, because all weights are 0).                      *)
NoneMeansExhausted ==
  \A w \in Worker : iter[w].role = "write" =>
    /\ \A p \in kept[w] : \E k \in Unspent(w) : List(w)[k] = p[1]
    /\ pc[w] = "none" /\ ~lost[w] /\ iter[w].policy \in {"RoundRobin", "Any"} => kept[w] = {}

(* The iterators are workers at a LockedPool: however their calls          *)
(* interleave, an item goes from hand to hand in single steps, and is      *)
(* taken back only under the flag of its tracker, which one of them has.   *)
Held(w) == {List(w)[k] : k \in freed[w] + 1 .. taken[w]}
Pool == INSTANCE LockedPool WITH
  out  <- bits,
  held <- [w \in Worker |-> Held(w)]

ImplementsLockedPool == Pool!Spec
=============================================================================
