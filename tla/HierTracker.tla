----------------------------- MODULE HierTracker -----------------------------
(***************************************************************************)
(* The hierarchical tracker of src/tracker.rs: (id, sub_id) pairs in one   *)
(* bitmap per id, kept in a DashMap, with a total over all of them and a   *)
(* primary bitmap of the ids that have any.  One action per access that    *)
(* another thread can tell apart; what set, clear, test_and_set and        *)
(* test_and_clear do to one bit is atomic (AtomicBitmap), and the counter  *)
(* of a sub-bitmap, which is_empty reads, is updated a step later.  The    *)
(* primary bitmap's own counter is left out, being AtomicBitmap's.         *)
(*                                                                         *)
(* entry() locks the shard of the id for writing and get() for reading;    *)
(* the guard they return lives until the operation ends.  A thread inside  *)
(* an operation is therefore a holder of that lock, and taking it is part  *)
(* of the operation's first action.                                        *)
(***************************************************************************)
EXTENDS Integers, FiniteSets

CONSTANTS
  Thread,
  NIds,        \* the callers use the ids 0 .. NIds - 1
  NSubs,       \* and the sub-ids 0 .. NSubs - 1
  ShardOf,     \* ShardOf[i]: the shard of the map that id i is in
  MaxId,       \* config.max_id, or None
  MaxSub,      \* config.max_sub_id, or None
  InitialCap,  \* config.initial_capacity
  SubLimit,    \* 4096: no sub-bitmap is made larger
  B,           \* 64: capacities are whole words of bits
  OpsOf,       \* which operations each thread calls
  MaxTotal     \* bound: no insertion starts once the total has reached it

None   == -1
Id     == 0 .. NIds - 1
SubId  == 0 .. NSubs - 1
Pair   == Id \X SubId
OpName == {"add", "claim", "remove", "delete"}

ASSUME HierAssumption ==
  /\ NIds \in Nat \ {0} /\ NSubs \in Nat \ {0} /\ B \in Nat \ {0} /\ MaxTotal \in Nat
  /\ InitialCap \in Nat /\ SubLimit \in Nat
  /\ MaxId \in Nat \union {None} /\ MaxSub \in Nat \union {None}
  /\ OpsOf \in [Thread -> SUBSET OpName]
ASSUME FiniteThreads == IsFiniteSet(Thread)

(* with_capacity rounds up to whole words, and to one at least.            *)
RoundUp(n) == IF n <= B THEN B ELSE B * ((n + B - 1) \div B)

PrimaryCapacity == RoundUp(IF MaxId = None THEN InitialCap ELSE MaxId)
SubCapacity     == RoundUp(IF MaxSub = None \/ MaxSub > SubLimit THEN SubLimit ELSE MaxSub)

(* effective_max_id; and how far a delete iterator goes in a sub-bitmap.   *)
EffectiveMaxId == IF MaxId = None THEN PrimaryCapacity ELSE MaxId
DeleteSubMax   == IF MaxSub = None \/ MaxSub > SubCapacity THEN SubCapacity ELSE MaxSub

VARIABLES
  pairs,     \* the bits set in all the sub-bitmaps
  made,      \* the ids that have a sub-bitmap
  subcount,  \* subcount[i]: the counter of the sub-bitmap of i
  primary,   \* the bits set in the primary bitmap
  total,     \* hierarchical_count
  deleting,  \* delete_iter_active
  pc,        \* pc[t]: what thread t does next
  op,        \* op[t]: the operation t is in
  at,        \* at[t]: the pair t's operation or delete iterator is at
  kept       \* history: kept[t]: pairs present ever since t's delete iterator was built

vars == <<pairs, made, subcount, primary, total, deleting, pc, op, at, kept>>

PairsOf(i) == {p \in pairs : p[1] = i}
Inserting == {"add", "claim"}

Labels == {"idle", "bit", "subcount", "total", "empty", "primary",
           "holding", "seeking", "clearing", "deleted", "ended", "panicked"}

TypeOK ==
  /\ pairs \subseteq Pair /\ made \subseteq Id /\ primary \subseteq Id
  /\ subcount \in [Id -> Nat]
  /\ total \in Nat
  /\ deleting \in BOOLEAN
  /\ pc \in [Thread -> Labels]
  /\ op \in [Thread -> OpName \union {"none"}]
  /\ at \in [Thread -> Nat \X Nat]
  /\ kept \in [Thread -> SUBSET Pair]

Init ==
  /\ pairs = {} /\ made = {} /\ primary = {} /\ total = 0 /\ deleting = FALSE
  /\ subcount = [i \in Id |-> 0]
  /\ pc = [t \in Thread |-> "idle"]
  /\ op = [t \in Thread |-> "none"]
  /\ at = [t \in Thread |-> <<0, 0>>]
  /\ kept = [t \in Thread |-> {}]

-----------------------------------------------------------------------------
(* The lock of a shard, and the ends of an operation                       *)

Locks(t, i) == pc[t] \in {"bit", "subcount", "total", "empty", "primary", "clearing", "deleted"}
               /\ ShardOf[at[t][1]] = ShardOf[i]

(* Mutant: a writer does not wait for the readers. *)
CanWriteUnread(i) == \A u \in Thread : ~(Locks(u, i) /\ op[u] \in Inserting)

CanWrite(i) == \A u \in Thread : ~Locks(u, i)
CanRead(i)  == \A u \in Thread : ~(Locks(u, i) /\ op[u] \in Inserting)

Goto(t, label) == pc' = [pc EXCEPT ![t] = label]

(* The call returns, and its guard is dropped. *)
Finish(t) ==
  /\ pc' = [pc EXCEPT ![t] = "idle"]
  /\ op' = [op EXCEPT ![t] = "none"]
  /\ at' = [at EXCEPT ![t] = <<0, 0>>]

(* An index past the capacity of a bitmap: the thread unwinds and is gone, *)
(* its guard with it; what it has done stays.                              *)
Panic(t) ==
  /\ pc' = [pc EXCEPT ![t] = "panicked"]
  /\ op' = [op EXCEPT ![t] = "none"]
  /\ at' = [at EXCEPT ![t] = <<0, 0>>]

Begin(t, name, p) ==
  /\ pc[t] = "idle" /\ name \in OpsOf[t]
  /\ pc' = [pc EXCEPT ![t] = "bit"]
  /\ op' = [op EXCEPT ![t] = name]
  /\ at' = [at EXCEPT ![t] = p]

-----------------------------------------------------------------------------
(* add_pair, claim_pair: refused past max_id or max_sub_id, else the       *)
(* sub-bitmap is found or made, and the shard stays locked for writing.    *)

Accepted(p) == /\ MaxId = None \/ p[1] < MaxId
               /\ MaxSub = None \/ p[2] < MaxSub

Insert(t, name) ==
  \E p \in Pair :
    /\ Accepted(p)
    /\ total < MaxTotal
    /\ Begin(t, name, p)
    /\ CanWrite(p[1])
    /\ made' = made \union {p[1]}
    /\ UNCHANGED <<pairs, subcount, primary, total, deleting, kept>>

AddPair(t)   == Insert(t, "add")
ClaimPair(t) == Insert(t, "claim")

(* remove_pair: false if there is no sub-bitmap, else it is locked for     *)
(* reading, which other removals may do at the same time.                  *)
RemovePair(t) ==
  \E p \in Pair :
    /\ p[1] \in made
    /\ Begin(t, "remove", p)
    /\ CanRead(p[1])
    /\ UNCHANGED <<pairs, made, subcount, primary, total, deleting, kept>>

(* The bit of the pair; nothing more to do if it was already so.           *)
FlipBit(t) ==
  LET p == at[t]
      newPairs == IF op[t] \in Inserting THEN pairs \union {p} ELSE pairs \ {p}
  IN /\ pc[t] = "bit"
     /\ IF p[2] >= SubCapacity THEN Panic(t) /\ UNCHANGED <<pairs, kept>>
        ELSE IF newPairs = pairs THEN Finish(t) /\ UNCHANGED <<pairs, kept>>
        ELSE /\ pairs' = newPairs
             /\ kept' = [u \in Thread |-> kept[u] \intersect newPairs]
             /\ Goto(t, "subcount")
             /\ UNCHANGED <<op, at>>
     /\ UNCHANGED <<made, subcount, primary, total, deleting>>

(* Mutant: only an insertion is counted. *)
CountSubUp(t) ==
  /\ pc[t] = "subcount"
  /\ subcount' = [subcount EXCEPT ![at[t][1]] = IF op[t] \in Inserting THEN @ + 1 ELSE @]
  /\ Goto(t, "total")
  /\ UNCHANGED <<pairs, made, primary, total, deleting, op, at, kept>>

CountSub(t) ==
  LET i == at[t][1]
  IN /\ pc[t] = "subcount"
     /\ subcount' = [subcount EXCEPT ![i] = IF op[t] \in Inserting THEN @ + 1 ELSE @ - 1]
     /\ Goto(t, "total")
     /\ UNCHANGED <<pairs, made, primary, total, deleting, op, at, kept>>

(* Mutant: the emptiness test is skipped. *)
CountTotalOnly(t) ==
  /\ pc[t] = "total"
  /\ total' = IF op[t] \in Inserting THEN total + 1 ELSE total - 1
  /\ Goto(t, "primary")
  /\ UNCHANGED <<pairs, made, subcount, primary, deleting, op, at, kept>>

CountTotal(t) ==
  /\ pc[t] = "total"
  /\ total' = IF op[t] \in Inserting THEN total + 1 ELSE total - 1
  /\ Goto(t, IF op[t] \in Inserting THEN "primary" ELSE "empty")
  /\ UNCHANGED <<pairs, made, subcount, primary, deleting, op, at, kept>>

(* remove_pair only: is_empty reads the counter, not the bits. *)
TestEmpty(t) ==
  /\ pc[t] = "empty"
  /\ IF subcount[at[t][1]] = 0 THEN Goto(t, "primary") /\ UNCHANGED <<op, at>> ELSE Finish(t)
  /\ UNCHANGED <<pairs, made, subcount, primary, total, deleting, kept>>

(* The primary bit, set by an insertion and cleared by the last removal.   *)
MarkPrimary(t) ==
  LET i == at[t][1]
  IN /\ pc[t] = "primary"
     /\ IF i >= PrimaryCapacity THEN Panic(t) /\ UNCHANGED primary
        ELSE /\ primary' = IF op[t] \in Inserting THEN primary \union {i} ELSE primary \ {i}
             /\ Finish(t)
     /\ UNCHANGED <<pairs, made, subcount, total, deleting, kept>>

-----------------------------------------------------------------------------
(* delete(): one iterator at a time, by a compare_exchange of the flag. It *)
(* goes through the pairs in order; next() locks a sub-bitmap for reading, *)
(* and drops it when it returns a pair or goes on to the next id.          *)

OpenDelete(t) ==
  /\ pc[t] = "idle" /\ "delete" \in OpsOf[t]
  /\ ~deleting
  /\ deleting' = TRUE
  /\ pc' = [pc EXCEPT ![t] = "holding"]
  /\ op' = [op EXCEPT ![t] = "delete"]
  /\ kept' = [kept EXCEPT ![t] = pairs]
  /\ UNCHANGED <<pairs, made, subcount, primary, total, at>>

CallNext(t) ==
  /\ pc[t] = "holding"
  /\ Goto(t, "seeking")
  /\ UNCHANGED <<pairs, made, subcount, primary, total, deleting, op, at, kept>>

(* Mutant: the sub-id is not taken back when the iterator goes on.         *)
NextIdKeepsSub(i, s) == <<i + 1, s>>

NextId(i, s) == <<i + 1, 0>>

Seek(t) ==
  LET i == at[t][1]
  IN /\ pc[t] = "seeking"
     /\ \/ i >= EffectiveMaxId /\ Goto(t, "ended") /\ UNCHANGED at
        \/ /\ i < EffectiveMaxId /\ i \notin made /\ CanRead(i)
           /\ at' = [at EXCEPT ![t] = NextId(i, @[2])]
           /\ UNCHANGED pc
        \/ i < EffectiveMaxId /\ i \in made /\ CanRead(i) /\ Goto(t, "clearing") /\ UNCHANGED at
     /\ UNCHANGED <<pairs, made, subcount, primary, total, deleting, op, kept>>

TestAndClear(t) ==
  LET p == at[t]
  IN /\ pc[t] = "clearing"
     /\ \/ /\ p[2] >= DeleteSubMax
           /\ at' = [at EXCEPT ![t] = NextId(p[1], p[2])]
           /\ Goto(t, "seeking")
           /\ UNCHANGED <<pairs, kept>>
        \/ /\ p[2] < DeleteSubMax /\ p \notin pairs
           /\ at' = [at EXCEPT ![t] = <<p[1], p[2] + 1>>]
           /\ UNCHANGED <<pairs, kept, pc>>
        \/ /\ p[2] < DeleteSubMax /\ p \in pairs
           /\ pairs' = pairs \ {p}
           /\ kept' = [u \in Thread |-> kept[u] \ {p}]
           /\ Goto(t, "deleted")
           /\ UNCHANGED at
     /\ UNCHANGED <<made, subcount, primary, total, deleting, op>>

(* The counter of the sub-bitmap follows; hierarchical_count and the       *)
(* primary bit do not.  The pair is returned.                              *)
CountDeleted(t) ==
  /\ pc[t] = "deleted"
  /\ subcount' = [subcount EXCEPT ![at[t][1]] = @ - 1]
  /\ at' = [at EXCEPT ![t] = <<@[1], @[2] + 1>>]
  /\ Goto(t, "holding")
  /\ UNCHANGED <<pairs, made, primary, total, deleting, op, kept>>

(* drop of the iterator, at any time between two calls of next().          *)
DropDelete(t) ==
  /\ pc[t] \in {"holding", "ended"}
  /\ deleting' = FALSE
  /\ Finish(t)
  /\ kept' = [kept EXCEPT ![t] = {}]
  /\ UNCHANGED <<pairs, made, subcount, primary, total>>

-----------------------------------------------------------------------------
(* Mutant: the total is not reset. *)
ClearAllButTotal ==
  /\ \A t \in Thread : pc[t] \in {"idle", "panicked"}
  /\ pairs' = {} /\ made' = {} /\ primary' = {}
  /\ subcount' = [i \in Id |-> 0]
  /\ UNCHANGED <<total, deleting, pc, op, at, kept>>

(* clear(&mut self): nobody else has the tracker.                          *)
ClearAll ==
  /\ \A t \in Thread : pc[t] \in {"idle", "panicked"}
  /\ pairs' = {} /\ made' = {} /\ primary' = {} /\ total' = 0
  /\ subcount' = [i \in Id |-> 0]
  /\ UNCHANGED <<deleting, pc, op, at, kept>>

Update(t) == \/ AddPair(t) \/ ClaimPair(t) \/ RemovePair(t) \/ FlipBit(t) \/ CountSub(t)
             \/ CountTotal(t) \/ TestEmpty(t) \/ MarkPrimary(t)

Delete(t) == \/ OpenDelete(t) \/ CallNext(t) \/ Seek(t) \/ TestAndClear(t)
             \/ CountDeleted(t) \/ DropDelete(t)

Next == (\E t \in Thread : Update(t) \/ Delete(t)) \/ ClearAll

Spec == Init /\ [][Next]_vars

-----------------------------------------------------------------------------
(* Properties                                                              *)

Busy(t, i) == pc[t] \in {"bit", "subcount", "total", "empty", "primary", "deleted"}
              /\ at[t][1] = i

(* Once no operation is under way, count() is the number of pairs: the     *)
(* total that add_pair, claim_pair and remove_pair keep does not drift.    *)
TotalExactWhenQuiet ==
  (\A t \in Thread : pc[t] \in {"idle", "panicked"}) => total = Cardinality(pairs)

(* sub_count(i) is the number of i's pairs once no operation on i is under *)
(* way, whatever removals and delete iterators ran beside each other.      *)
SubCountExactWhenQuiet ==
  \A i \in Id : (\A t \in Thread : ~Busy(t, i)) => subcount[i] = Cardinality(PairsOf(i))

(* id_exists(i) says whether i has any pair, once no operation on i is     *)
(* under way: the last of several removals clears the primary bit, and no  *)
(* insertion that comes in between loses it.                               *)
PrimaryMarksIds ==
  \A i \in Id : i < PrimaryCapacity /\ (\A t \in Thread : ~Busy(t, i)) =>
    (i \in primary <=> PairsOf(i) # {})

(* The half of it that delete iterators leave in place: an id with pairs   *)
(* is never without its primary bit.                                       *)
NoIdUnmarked ==
  \A i \in Id : i < PrimaryCapacity /\ (\A t \in Thread : ~Busy(t, i)) =>
    (PairsOf(i) # {} => i \in primary)

(* When next() of a delete iterator returns None, it has missed no pair    *)
(* that was there when it was built and that nobody has removed since.     *)
(* With config.max_id it misses none at all; without, none but those of    *)
(* ids past the primary bitmap, whose insertion has panicked halfway.      *)
DeleteMissesNothing ==
  \A t \in Thread : pc[t] = "ended" =>
    \A p \in kept[t] : MaxId = None /\ p[1] >= PrimaryCapacity

(* TalliedSet is what a bitmap promises.  The tracker promises the same of *)
(* its pairs and its total, as long as no delete iterator is built: a pair *)
(* comes or goes in one step of one call, and that call alone counts it.   *)
Unpaid(t) == IF pc[t] \in {"subcount", "total"} THEN {at[t]} ELSE {}
Whole == INSTANCE TalliedSet WITH
  Element <- Pair, members <- pairs, count <- total,
  gained  <- [t \in Thread |-> IF op[t] \in Inserting THEN Unpaid(t) ELSE {}],
  lost    <- [t \in Thread |-> IF op[t] = "remove" THEN Unpaid(t) ELSE {}]

ImplementsTalliedSet == Whole!Spec

(* And so does each sub-bitmap in it, beside delete iterators too: every   *)
(* behaviour of the tracker is, at each id, one of a TalliedSet.           *)
SubUnpaid(t, i) == IF pc[t] \in {"subcount", "deleted"} /\ at[t][1] = i THEN {at[t]} ELSE {}
SubBitmap(i) == INSTANCE TalliedSet WITH
  Element <- {i} \X SubId, members <- PairsOf(i), count <- subcount[i],
  gained  <- [t \in Thread |-> IF op[t] \in Inserting THEN SubUnpaid(t, i) ELSE {}],
  lost    <- [t \in Thread |-> IF op[t] \in {"remove", "delete"} THEN SubUnpaid(t, i) ELSE {}]

SubBitmapsAreTalliedSets ==
  /\ \A i \in Id : SubBitmap(i)!Init
  /\ [][\A i \in Id : [SubBitmap(i)!Next]_(SubBitmap(i)!avars)]_vars
=============================================================================
