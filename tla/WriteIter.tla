------------------------------ MODULE WriteIter ------------------------------
(***************************************************************************)
(* The write iterators of a simple tracker (src/iterators.rs): workers     *)
(* share the tracker's bitmap and its one write cursor, and each calls     *)
(* next() until it returns None.  One action per access of the cursor or   *)
(* of a word of the bitmap; test_and_set and set are one action each, what *)
(* they do to a bit being atomic (AtomicBitmap), and the population count  *)
(* is left out.                                                            *)
(*                                                                         *)
(* Every iterator's max_id is min(range.id_max, effective_max_id), never   *)
(* above the bitmap's capacity, so the branches of next_simple for ids     *)
(* past the capacity are never taken and are not modelled.                 *)
(***************************************************************************)
EXTENDS Integers, FiniteSets

CONSTANTS
  Worker,     \* the iterators
  MaxId,      \* effective_max_id: ids are 0 .. MaxId - 1
  B,          \* ids per word of the bitmap
  Builds,     \* what the workers may be built with, all of them together
  Removable,  \* ids that remove() may take out meanwhile
  MaxRounds   \* bound: no call starts once an id was handed out this often,
              \* and none is removed that has been once less

Id == 0 .. MaxId - 1

(* The range and filter of the builder; wrap_around() or not; built by     *)
(* write(), which resets the cursor, or by continue_write().               *)
IterType == [lo : Nat, hi : Nat, filter : {"Unset", "All"}, wrap : BOOLEAN, reset : BOOLEAN]

ASSUME WriteAssumption ==
  /\ MaxId \in Nat \ {0} /\ B \in Nat \ {0} /\ MaxRounds \in Nat
  /\ Builds \subseteq [Worker -> IterType]
  /\ Removable \subseteq Id

VARIABLES
  iter,     \* iter[w]: how worker w's iterator is built; it never changes
  bits,     \* the ids set in the bitmap
  cursor,   \* the tracker's write_cursor
  pc,       \* pc[w]: what worker w does next
  at,       \* at[w]: the id it works on, or where its scan or clear has got to
  word,     \* word[w]: the next word of its scan or clear
  handed,   \* history: how often each id was handed out
  left      \* history: left[w]: ids of w's range unset ever since w was built

vars == <<iter, bits, cursor, pc, at, word, handed, left>>

Lo(w) == iter[w].lo
HiUnbounded(w) == iter[w].hi                        \* mutant: not cut to MaxId
Hi(w) == IF iter[w].hi < MaxId THEN iter[w].hi ELSE MaxId            \* max_id
Span(w) == {i \in Id : Lo(w) <= i /\ i < Hi(w)}
WordOf(i) == i \div B
LastWordEarly(S, k) == \A i \in S : WordOf(i) <= k + 1     \* mutant: one word is dropped
LastWord(S, k)      == \A i \in S : WordOf(i) <= k         \* k is the last word of the ids S

Larger(m, n) == IF m < n THEN n ELSE m

TypeOK ==
  /\ iter \in Builds
  /\ bits \subseteq Id
  /\ cursor \in Nat
  /\ pc \in [Worker -> {"new", "next", "find", "bump", "claim", "advance", "exhaust",
                        "clear", "rewind", "set", "done"}]
  /\ at \in [Worker -> Nat]
  /\ word \in [Worker -> Nat]
  /\ handed \in [Id -> Nat]
  /\ left \in [Worker -> SUBSET Id]

Init ==
  /\ iter \in Builds
  /\ bits = {} /\ cursor = 0
  /\ pc = [w \in Worker |-> "new"]
  /\ at = [w \in Worker |-> 0]
  /\ word = [w \in Worker |-> 0]
  /\ handed = [i \in Id |-> 0]
  /\ left = [w \in Worker |-> {}]

Goto(w, label) == pc' = [pc EXCEPT ![w] = label]

(* A change of the bitmap, with the history of every iterator.             *)
Write(newBits) ==
  /\ bits' = newBits
  /\ left' = [w \in Worker |-> left[w] \ newBits]

-----------------------------------------------------------------------------
(* write() sets the cursor back to 0 first; continue_write() does not.     *)
Build(w) ==
  /\ pc[w] = "new"
  /\ cursor' = IF iter[w].reset THEN 0 ELSE cursor
  /\ left' = [left EXCEPT ![w] = Span(w) \ bits]
  /\ Goto(w, "next")
  /\ UNCHANGED <<iter, bits, at, word, handed>>

(* The caller asks for ids until there is none.                            *)
Calls(w) == pc[w] = "next" /\ \A i \in Id : handed[i] < MaxRounds

(* At the end of the range: None, or another round.                        *)
AtEnd(w, otherwise, again) == Goto(w, IF iter[w].wrap THEN again ELSE otherwise)

-----------------------------------------------------------------------------
(* next() with the Unset filter                                            *)

LoadCursor(w) ==
  /\ Calls(w) /\ iter[w].filter = "Unset"
  /\ at' = [at EXCEPT ![w] = IF cursor < Hi(w) THEN cursor ELSE Lo(w)]
  /\ word' = [word EXCEPT ![w] = WordOf(IF cursor < Hi(w) THEN cursor ELSE Lo(w))]
  /\ IF cursor < Hi(w) THEN Goto(w, "find") ELSE AtEnd(w, "done", "clear")
  /\ UNCHANGED <<iter, bits, cursor, handed, left>>

(* find_next_unset, a word at a time: the least hit ends it, though one    *)
(* below id_min is not taken; after the last word there is none.           *)
Hits(w) == {i \in Id \ bits : WordOf(i) = word[w] /\ at[w] <= i /\ i < Hi(w)}

Found(w) ==
  /\ pc[w] = "find"
  /\ \E i \in Hits(w) :
       /\ \A j \in Hits(w) : i <= j
       /\ at' = [at EXCEPT ![w] = i]
       /\ Goto(w, IF i < Lo(w) THEN "bump" ELSE "claim")
  /\ UNCHANGED <<iter, bits, cursor, word, handed, left>>

FindOn(w) ==
  /\ pc[w] = "find" /\ Hits(w) = {} /\ ~LastWord(Id, word[w])
  /\ word' = [word EXCEPT ![w] = @ + 1]
  /\ UNCHANGED <<iter, bits, cursor, pc, at, handed, left>>

NoneFound(w) ==
  /\ pc[w] = "find" /\ Hits(w) = {} /\ LastWord(Id, word[w])
  /\ AtEnd(w, "exhaust", "clear")
  /\ at' = [at EXCEPT ![w] = Lo(w)]
  /\ word' = [word EXCEPT ![w] = WordOf(Lo(w))]
  /\ UNCHANGED <<iter, bits, cursor, handed, left>>

(* Mutants: the cursor stays; a store where the fetch_max should be. *)
BumpLost(w) ==
  /\ pc[w] = "bump" /\ Goto(w, "next")
  /\ UNCHANGED <<iter, bits, cursor, at, word, handed, left>>
BumpStore(w) ==
  /\ pc[w] = "bump" /\ Goto(w, "next") /\ cursor' = Lo(w)
  /\ UNCHANGED <<iter, bits, at, word, handed, left>>

(* cursor.fetch_max(id_min), and look again. *)
Bump(w) ==
  /\ pc[w] = "bump"
  /\ cursor' = Larger(cursor, Lo(w))
  /\ Goto(w, "next")
  /\ UNCHANGED <<iter, bits, at, word, handed, left>>

(* Mutant: set() and return, though someone else may have been first. *)
ClaimUntested(w) ==
  /\ pc[w] = "claim"
  /\ Write(bits \union {at[w]})
  /\ handed' = [handed EXCEPT ![at[w]] = @ + 1]
  /\ Goto(w, "advance")
  /\ UNCHANGED <<iter, cursor, at, word>>

(* test_and_set of the id found; if someone else was first, look again.    *)
Claim(w) ==
  /\ pc[w] = "claim"
  /\ IF at[w] \in bits
     THEN Goto(w, "next") /\ UNCHANGED <<bits, handed, left>>
     ELSE /\ Write(bits \union {at[w]})
          /\ handed' = [handed EXCEPT ![at[w]] = @ + 1]
          /\ Goto(w, "advance")
  /\ UNCHANGED <<iter, cursor, at, word>>

(* cursor.fetch_max(id + 1), and the id is returned. *)
Advance(w) ==
  /\ pc[w] = "advance"
  /\ cursor' = Larger(cursor, at[w] + 1)
  /\ Goto(w, "next")
  /\ UNCHANGED <<iter, bits, at, word, handed, left>>

(* No unset id: cursor.store(max_id), and None. *)
Exhaust(w) ==
  /\ pc[w] = "exhaust"
  /\ cursor' = Hi(w)
  /\ Goto(w, "done")
  /\ UNCHANGED <<iter, bits, at, word, handed, left>>

(* Mutant: only the first word of the range is cleared. *)
ClearFirstWord(w) ==
  /\ pc[w] = "clear"
  /\ Write({i \in bits : WordOf(i) # word[w] \/ i \notin Span(w)})
  /\ Goto(w, "rewind")
  /\ UNCHANGED <<iter, cursor, at, word, handed>>

(* wrap_around: clear_range(id_min, max_id) word by word, then the cursor  *)
(* is stored back to id_min.                                               *)
ClearWord(w) ==
  /\ pc[w] = "clear"
  /\ Write({i \in bits : WordOf(i) # word[w] \/ i \notin Span(w)})
  /\ word' = [word EXCEPT ![w] = @ + 1]
  /\ Goto(w, IF LastWord(Span(w), word[w]) THEN "rewind" ELSE "clear")
  /\ UNCHANGED <<iter, cursor, at, handed>>

Rewind(w) ==
  /\ pc[w] = "rewind"
  /\ cursor' = Lo(w)
  /\ Goto(w, "next")
  /\ UNCHANGED <<iter, bits, at, word, handed, left>>

-----------------------------------------------------------------------------
(* next() with the All filter: the cursor alone hands out the ids.         *)

FetchAdd(w) ==
  /\ Calls(w) /\ iter[w].filter = "All"
  /\ cursor' = cursor + 1
  /\ at' = [at EXCEPT ![w] = cursor]
  /\ IF cursor >= Hi(w) THEN AtEnd(w, "done", "rewind")
     ELSE Goto(w, IF cursor < Lo(w) THEN "bump" ELSE "set")
  /\ UNCHANGED <<iter, bits, word, handed, left>>

SetBit(w) ==
  /\ pc[w] = "set"
  /\ Write(bits \union {at[w]})
  /\ handed' = [handed EXCEPT ![at[w]] = @ + 1]
  /\ Goto(w, "next")
  /\ UNCHANGED <<iter, cursor, at, word>>

-----------------------------------------------------------------------------
(* Any other thread may take an id out meanwhile. *)
Remove(i) ==
  /\ i \in Removable \intersect bits
  /\ handed[i] + 1 < MaxRounds
  /\ Write(bits \ {i})
  /\ UNCHANGED <<iter, cursor, pc, at, word, handed>>

Step(w) == \/ Build(w) \/ LoadCursor(w) \/ Found(w) \/ FindOn(w) \/ NoneFound(w) \/ Bump(w)
           \/ Claim(w) \/ Advance(w) \/ Exhaust(w) \/ ClearWord(w) \/ Rewind(w) \/ FetchAdd(w) \/ SetBit(w)

Next == (\E w \in Worker : Step(w)) \/ (\E i \in Id : Remove(i))

Spec == Init /\ [][Next]_vars

(* Every worker's thread keeps being scheduled. *)
FairSpec == Spec /\ \A w \in Worker : WF_vars(Step(w))

-----------------------------------------------------------------------------
(* Properties                                                              *)

(* With the Unset filter and no wrap-around no two calls of next(), of any *)
(* workers and ranges, return the same id unless it was removed in between.*)
UniqueClaims ==
  (\A w \in Worker : iter[w].filter = "Unset" /\ ~iter[w].wrap) =>
    \A i \in Id \ Removable : handed[i] <= 1

(* next() returns None only when the iterator's range is exhausted: no id  *)
(* nobody removes is left out, unset ever since the iterator was built.    *)
NoneMeansExhausted ==
  \A w \in Worker : iter[w].filter = "Unset" /\ pc[w] = "done" => left[w] \subseteq Removable

(* With the All filter, once all iterators of one range have returned None *)
(* each id of it has been handed out exactly once.                         *)
AllHandedOnce ==
  (\A w \in Worker : iter[w].filter = "All" /\ pc[w] = "done") =>
    \A w \in Worker : \A i \in Span(w) : handed[i] = 1

(* With wrap_around the keyspace is cleared only when exhausted: no id is  *)
(* handed out again before every other id of the range had its turn,       *)
(* unless it was removed.                                                  *)
EvenRounds ==
  \A w \in Worker : iter[w].wrap =>
    \A i, j \in Span(w) \ Removable : handed[i] <= handed[j] + 1

(* If nobody wraps around, every worker that keeps calling next() gets     *)
(* None in the end, however the claims of the others interfere with its    *)
(* own.                                                                    *)
EveryIteratorEnds ==
  \A w \in Worker : <>[]((\E u \in Worker : iter[u].wrap) \/ pc[w] = "done")
=============================================================================
