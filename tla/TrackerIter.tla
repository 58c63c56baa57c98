----------------------------- MODULE TrackerIter -----------------------------
(***************************************************************************)
(* The iterators of one tracker, src/iterators.rs, side by side and beside *)
(* other callers that add and remove: sequential, random and partitioned   *)
(* readers (src/config.rs: FilterContext), delete iterators of a simple    *)
(* tracker and write iterators of a hierarchical one.  WriteIter has the   *)
(* writers of a simple tracker, HierTracker the delete iterators of a      *)
(* hierarchical one and the insides of add_pair, claim_pair, remove_pair.  *)
(*                                                                         *)
(* next() is a loop; one action is one turn of it, with the one load or    *)
(* read-modify-write of shared memory the turn makes.  find_next_set and   *)
(* find_next_unset are one load: the bitmap is one word.  A clock is a     *)
(* flag, `late`, that says the iterator's duration is over.                *)
(***************************************************************************)
EXTENDS Integers, FiniteSets, Sequences

CONSTANTS
  Iter,         \* the iterators
  MaxId,        \* effective_max_id
  MaxSub,       \* effective_max_sub_id: config.max_sub_id, or u64::MAX
  SubCapacity,  \* capacity of a sub-bitmap: 4096 bits at most
  Setups,       \* the trackers and the builders of their iterators
  Candidates,   \* the multipliers find_coprime tries, a sequence
  U,            \* 2^64: u64 arithmetic that wraps does so at this value
  MaxCalls,     \* bound: calls of next() of one iterator
  MaxChanges    \* bound: additions and removals by other callers

None == -1

Build == [mode : {"sequential", "random", "partition", "delete", "write"},
          filter : {"Set", "Unset", "All"}, lo : Nat, hi : Nat, subLo : Nat, subHi : Nat,
          limit : Nat \union {None}, timed : BOOLEAN, wrap : BOOLEAN, reset : BOOLEAN,
          wants : SUBSET BOOLEAN, passes : SUBSET BOOLEAN \ {{}},
          part : Nat, parts : Nat \ {0}, overlap : BOOLEAN,
          dist : {"Uniform", "Zipf1", "Hotspot", "Latest", "Tailed"}]

ASSUME IterAssumption ==
  /\ MaxId \in Nat /\ MaxSub \in Nat /\ SubCapacity \in Nat \ {0}
  /\ U \in Nat \ {0} /\ MaxCalls \in Nat /\ MaxChanges \in Nat
  /\ Candidates \in Seq(Nat \ {0})
  /\ \A s \in Setups : /\ s.hier \in BOOLEAN /\ s.build \in [Iter -> Build]
                       /\ s.start \subseteq Nat \X (IF s.hier THEN Nat ELSE {0})
                       /\ \A w \in Iter : s.build[w].part < s.build[w].parts

VARIABLES
  setup,     \* [hier |-> kind of tracker, build |-> builders, start |-> what is in it]
  bits,      \* the items present, <<id, sub_id>>; those of a simple tracker have sub_id 0
  made,      \* hierarchical: ids that have a sub-bitmap
  primary,   \* the bits set in the primary bitmap
  cursor,    \* write_cursor
  deleting,  \* delete_iter_active
  pc,        \* pc[w]: what iterator w does next
  it,        \* it[w]: its fields
  given,     \* given[w]: history: the items its calls have returned
  late,      \* late[w]: its duration is over
  touched,   \* history: items that other callers have added or removed
  changes    \* how often they have

vars == <<setup, bits, made, primary, cursor, deleting, pc, it, given, late, touched, changes>>
tracker == <<bits, made, primary>>

hier  == setup.hier
Of(w) == setup.build[w]

Running == {"next", "sub", "random", "pick", "claim"}

IterType == [id : Nat, sub : Nat, last : Nat, step : Nat, offset : Nat, yielded : Nat,
             calls : 0 .. MaxCalls, ret : {"fresh", "some", "none"}, wasLate : BOOLEAN]
Unbuilt == [id |-> 0, sub |-> 0, last |-> 0, step |-> 0, offset |-> 0, yielded |-> 0,
            calls |-> 0, ret |-> "fresh", wasLate |-> FALSE]

TypeOK ==
  /\ bits \subseteq Nat \X Nat /\ touched \subseteq Nat \X Nat
  /\ made \subseteq Nat /\ primary \subseteq Nat
  /\ cursor \in 0 .. U - 1 /\ deleting \in BOOLEAN
  /\ pc \in [Iter -> Running \union {"unbuilt", "idle", "refused", "gone", "panicked"}]
  /\ it \in [Iter -> IterType]
  /\ given \in [Iter -> Seq(Nat \X Nat)]
  /\ late \in [Iter -> BOOLEAN]
  /\ changes \in 0 .. MaxChanges

Init ==
  /\ setup \in Setups
  /\ bits = setup.start
  /\ primary = {p[1] : p \in bits}
  /\ made = IF hier THEN primary ELSE {}
  /\ cursor = 0 /\ deleting = FALSE
  /\ pc = [w \in Iter |-> "unbuilt"]
  /\ it = [w \in Iter |-> Unbuilt]
  /\ given = [w \in Iter |-> <<>>]
  /\ late = [w \in Iter |-> FALSE]
  /\ touched = {} /\ changes = 0

-----------------------------------------------------------------------------
(* Ranges                                                                  *)

Smaller(m, n) == IF m <= n THEN m ELSE n
Larger(m, n)  == IF m >= n THEN m ELSE n
CeilDiv(m, n) == (m + n - 1) \div n
Least(S)      == CHOOSE i \in S : \A j \in S : i <= j

Last(b) == Smaller(b.hi, MaxId)              \* id_max.min(effective_max_id())
Size(b) == Larger(Last(b) - b.lo, 0)         \* saturating_sub
Contains(b, i, s) == b.lo <= i /\ i < b.hi /\ b.subLo <= s /\ s < b.subHi

(* How far a reader goes in a sub-bitmap. *)
SubEnd(b) == Smaller(Smaller(b.subHi, MaxSub), SubCapacity)

(* Mutant: the last ids are lost when the parts do not come out even. *)
PartRangeFloor(b) ==
  LET chunk == Size(b) \div b.parts
      from  == b.lo + b.part * chunk
  IN  IF b.overlap THEN <<b.lo, Last(b)>> ELSE <<from, Smaller(from + chunk, Last(b))>>

(* The first id of a part, and the one past its last. *)
PartRange(b) ==
  LET chunk == CeilDiv(Size(b), b.parts)
      from  == b.lo + b.part * chunk
  IN  IF b.overlap THEN <<b.lo, Last(b)>> ELSE <<from, Smaller(from + chunk, Last(b))>>

(* A part's share of the limit. *)
Limit(b) == IF b.mode = "partition" /\ ~b.overlap /\ b.limit # None
            THEN CeilDiv(b.limit, b.parts) ELSE b.limit

-----------------------------------------------------------------------------
(* The order of a random iterator                                          *)

(* n shifted right by its trailing zeros, its largest odd divisor; and 2   *)
(* to the number of those.                                                 *)
OddPart(n) == LET odd == {d \in 1 .. n : d % 2 = 1 /\ n % d = 0}
              IN  CHOOSE d \in odd : \A e \in odd : e <= d
TwoPart(n) == n \div OddPart(n)
is_power_of_two(n) == n > 0 /\ OddPart(n) = 1

(* Stein's algorithm: x stays odd, the smaller is taken from the larger.   *)
gcd_loop[p \in (Nat \ {0}) \X (Nat \ {0})] ==
  LET x == p[1]
      z == OddPart(p[2])
  IN  IF x = z THEN x ELSE gcd_loop[<<Smaller(x, z), Larger(x, z) - Smaller(x, z)>>]
binary_gcd(a, b) == IF a = 0 \/ b = 0 THEN a + b
                    ELSE Smaller(TwoPart(a), TwoPart(b)) * gcd_loop[<<OddPart(a), b>>]

(* The constants of find_coprime, and u64. *)
ASSUME WidthAssumption ==
  /\ Candidates # <<>> /\ \A k \in DOMAIN Candidates : Candidates[k] % 2 = 1
  /\ is_power_of_two(U) /\ MaxId < U

(* Mutant: the least number from 2 on, coprime or not. *)
find_any(n) == IF n <= 1 THEN 1 ELSE 2

(* The first candidate coprime with n, else the least odd number from 3 on. *)
find_coprime(n) ==
  LET good == {k \in DOMAIN Candidates : is_power_of_two(n) \/ binary_gcd(Candidates[k], n) = 1}
      odd  == {c \in 3 .. n - 1 : c % 2 = 1 /\ binary_gcd(c, n) = 1}
  IN  CASE n <= 1                            -> 1
        [] n > 1 /\ good # {}                -> Candidates[Least(good)]
        [] n > 1 /\ good = {} /\ odd # {}    -> Least(odd)
        [] n > 1 /\ good = {} /\ odd = {}    -> 1

(* The steps of one cycle: as many as the limit, if that is more than the  *)
(* range has ids.                                                          *)
MaxSteps(b) == IF b.limit # None /\ b.limit > Size(b) THEN b.limit ELSE Size(b)

(* step * multiplier + offset in u64, then modulo the size of the range.   *)
Permuted(b, step, offset) == ((step * find_coprime(Size(b)) + offset) % U) % Size(b)

(* What AccessDistribution::sample may return below n: Zipfian with a skew *)
(* of exactly 1.0 raises a number below 1 to the power of infinity; a      *)
(* hotspot and its complement, or recent and older ids, are both drawn     *)
(* from, here at pct = 50%; the other distributions reach every index.     *)
Sample(dist, n) ==
  LET half == Larger(n \div 2, 1)
      Zipfian == {0}
      Hotspot == 0 .. half - 1 \union (IF half < n THEN half .. n - 1 ELSE 0 .. n - 1)
      Latest  == n - half .. n - 1 \union (IF n > half THEN 0 .. n - half - 1 ELSE 0 .. n - 1)
  IN  CASE n = 0                                  -> {0}
        [] n > 0 /\ dist = "Zipf1"                -> Zipfian
        [] n > 0 /\ dist = "Hotspot"              -> Hotspot
        [] n > 0 /\ dist = "Latest"               -> Latest
        [] n > 0 /\ dist \in {"Uniform", "Tailed"} -> 0 .. n - 1

(* The index of a step: permuted, or drawn if there is a distribution.     *)
Indices(b, step, offset) ==
  IF b.dist # "Uniform" THEN Sample(b.dist, Size(b)) ELSE {Permuted(b, step, offset)}

-----------------------------------------------------------------------------
(* FilterContext.  `wants` is what a draw against set_ratio may want, {}   *)
(* without a ratio; `passes` what a draw against sample_probability may    *)
(* say, {TRUE} at 1.0.                                                     *)

(* Mutant: the duration is not looked at. *)
check_count(w) == Limit(Of(w)) # None => it[w].yielded < Limit(Of(w))

check_limit(w) ==
  /\ Limit(Of(w)) # None => it[w].yielded < Limit(Of(w))
  /\ ~(Of(w).timed /\ late[w])

matches_filter(b, isSet) ==
  IF b.wants # {} THEN {want = isSet : want \in b.wants}
  ELSE {CASE b.filter = "All" -> TRUE [] b.filter = "Set" -> isSet [] b.filter = "Unset" -> ~isSet}

passes_sampling(b) == b.passes

should_yield(w, isSet) ==
  IF ~check_limit(w) THEN {FALSE}
  ELSE {m /\ p : m \in matches_filter(Of(w), isSet), p \in passes_sampling(Of(w))}

can_use_find_next_set(b)   == b.filter = "Set"   /\ b.wants = {} /\ b.passes = {TRUE}
can_use_find_next_unset(b) == b.filter = "Unset" /\ b.wants = {} /\ b.passes = {TRUE}
Finds(b) == can_use_find_next_set(b) \/ can_use_find_next_unset(b)

-----------------------------------------------------------------------------
(* Building an iterator                                                    *)

(* Mutant: the first id is one too low. *)
BuiltBefore(b, lo, last, offset) == [Unbuilt EXCEPT !.id = lo - 1, !.sub = b.subLo, !.last = last, !.offset = offset]

Built(b, lo, last, offset) == [Unbuilt EXCEPT !.id = lo, !.sub = b.subLo, !.last = last, !.offset = offset]

Start(w, mode, new) ==
  /\ pc[w] = "unbuilt" /\ Of(w).mode = mode
  /\ it' = [it EXCEPT ![w] = new]
  /\ pc' = [pc EXCEPT ![w] = "idle"]
  /\ UNCHANGED <<setup, tracker, given, late, touched, changes>>

BuildSequential(w) ==
  /\ Start(w, "sequential", Built(Of(w), Of(w).lo, Last(Of(w)), 0))
  /\ UNCHANGED <<cursor, deleting>>

BuildRandom(w) ==
  \E offset \in 0 .. Larger(Size(Of(w)), 1) - 1 :
    /\ Start(w, "random", Built(Of(w), Of(w).lo, Last(Of(w)), offset))
    /\ UNCHANGED <<cursor, deleting>>

(* partition(): a worker builds its own part.                              *)
BuildPart(b) == Built(b, PartRange(b)[1], PartRange(b)[2], 0)
BuildPartition(w) ==
  /\ Start(w, "partition", BuildPart(Of(w)))
  /\ UNCHANGED <<cursor, deleting>>

(* partitioned(): all parts at once.                                       *)
BuildPartitioned ==
  LET parts == {w \in Iter : Of(w).mode = "partition"}
  IN  /\ parts # {} /\ \A w \in parts : pc[w] = "unbuilt"
      /\ it' = [w \in Iter |-> IF w \in parts THEN BuildPart(Of(w)) ELSE it[w]]
      /\ pc' = [w \in Iter |-> IF w \in parts THEN "idle" ELSE pc[w]]
      /\ UNCHANGED <<setup, tracker, cursor, deleting, given, late, touched, changes>>

(* write() takes the shared cursor back to 0, continue_write() does not.   *)
BuildWrite(w) ==
  /\ Start(w, "write", Built(Of(w), Of(w).lo, Last(Of(w)), 0))
  /\ cursor' = IF Of(w).reset THEN 0 ELSE cursor
  /\ UNCHANGED deleting

(* Mutant: the flag is not tested. *)
BuildDeleteUntested(w) ==
  /\ Start(w, "delete", Built(Of(w), Of(w).lo, Last(Of(w)), 0))
  /\ deleting' = TRUE
  /\ UNCHANGED cursor

(* delete(): None while another delete iterator lives. *)
BuildDelete(w) ==
  \/ /\ ~deleting
     /\ Start(w, "delete", Built(Of(w), Of(w).lo, Last(Of(w)), 0))
     /\ deleting' = TRUE
     /\ UNCHANGED cursor
  \/ /\ deleting /\ pc[w] = "unbuilt" /\ Of(w).mode = "delete"
     /\ pc' = [pc EXCEPT ![w] = "refused"]
     /\ UNCHANGED <<setup, tracker, cursor, deleting, it, given, late, touched, changes>>

DropDelete(w) ==
  /\ pc[w] = "idle" /\ Of(w).mode = "delete"
  /\ pc' = [pc EXCEPT ![w] = "gone"]
  /\ deleting' = FALSE
  /\ UNCHANGED <<setup, tracker, cursor, it, given, late, touched, changes>>

-----------------------------------------------------------------------------
(* A call of next() and its ends                                           *)

Call(w) ==
  /\ pc[w] = "idle" /\ it[w].calls < MaxCalls
  /\ pc' = [pc EXCEPT ![w] = IF Of(w).mode = "random" THEN "random" ELSE "next"]
  /\ it' = [it EXCEPT ![w].calls = @ + 1, ![w].wasLate = Of(w).timed /\ late[w]]
  /\ UNCHANGED <<setup, tracker, cursor, deleting, given, late, touched, changes>>

Goto(w, label, new) ==
  /\ pc' = [pc EXCEPT ![w] = label]
  /\ it' = [it EXCEPT ![w] = new]
  /\ UNCHANGED given

(* return None *)
NoMore(w) == Goto(w, "idle", [it[w] EXCEPT !.ret = "none"])

(* return Some(item), with record_yield, if it has not been recorded yet.  *)
Hand(w, item, new) ==
  /\ pc' = [pc EXCEPT ![w] = "idle"]
  /\ it' = [it EXCEPT ![w] = [new EXCEPT !.ret = "some", !.yielded = @ + 1]]
  /\ given' = [given EXCEPT ![w] = Append(@, item)]

Reads(w) == UNCHANGED <<setup, tracker, cursor, deleting, late, touched, changes>>

(* Mutant: wrap_around is taken for granted. *)
WrapsAlways(b) == b.mode = "sequential"

(* A duration makes a sequential iterator wrap around; a part never does.  *)
Wraps(b) == b.mode = "sequential" /\ (b.wrap \/ b.timed)

(* Past the last id: from the first again, or None.                        *)
Rewind(w) ==
  \/ Wraps(Of(w)) /\ Goto(w, "next", [it[w] EXCEPT !.id = Of(w).lo, !.sub = Of(w).subLo])
  \/ ~Wraps(Of(w)) /\ NoMore(w)

(* By find_next_set or find_next_unset: the limit, then the next hit. *)
FindStep(w) ==
  LET me   == it[w]
      hits == {i \in me.id .. me.last - 1 : (<<i, 0>> \in bits) = (Of(w).filter = "Set")}
  IN  /\ Finds(Of(w))
      /\ \/ ~check_limit(w) /\ NoMore(w)
         \/ check_limit(w) /\ hits = {} /\ Rewind(w)
         \/ check_limit(w) /\ hits # {} /\ Hand(w, <<Least(hits), 0>>, [me EXCEPT !.id = Least(hits) + 1])

(* By testing one id after another. *)
TestStep(w) ==
  LET me == it[w]
  IN  /\ ~Finds(Of(w))
      /\ \/ me.id >= me.last /\ Rewind(w)
         \/ /\ me.id < me.last
            /\ \E yes \in should_yield(w, <<me.id, 0>> \in bits) :
                 IF yes THEN Hand(w, <<me.id, 0>>, [me EXCEPT !.id = @ + 1])
                 ELSE Goto(w, "next", [me EXCEPT !.id = @ + 1])

(* A hierarchical tracker: the next id's sub-bitmap is locked for reading, *)
(* or the id is passed over.                                               *)
SeekStep(w) ==
  LET me == it[w]
  IN  \/ me.id >= me.last /\ Rewind(w)
      \/ me.id < me.last /\ me.id \in made /\ Goto(w, "sub", me)
      \/ me.id < me.last /\ me.id \notin made /\ Goto(w, "next", [me EXCEPT !.id = @ + 1, !.sub = Of(w).subLo])

(* Under the guard, one sub_id after another. *)
SubStep(w) ==
  LET me == it[w]
  IN  \/ /\ me.sub >= SubEnd(Of(w))
         /\ Goto(w, "next", [me EXCEPT !.id = @ + 1, !.sub = Of(w).subLo])
      \/ /\ me.sub < SubEnd(Of(w))
         /\ \E yes \in should_yield(w, <<me.id, me.sub>> \in bits) :
              IF yes THEN Hand(w, <<me.id, me.sub>>, [me EXCEPT !.sub = @ + 1])
              ELSE Goto(w, "sub", [me EXCEPT !.sub = @ + 1])

Simple(w, mode) == pc[w] = "next" /\ ~hier /\ Of(w).mode = mode /\ (FindStep(w) \/ TestStep(w))
Hierarchical(w, mode) ==
  /\ hier /\ Of(w).mode = mode
  /\ (pc[w] = "next" /\ SeekStep(w)) \/ (pc[w] = "sub" /\ SubStep(w))

SequentialSimple(w)       == Simple(w, "sequential") /\ Reads(w)
SequentialHierarchical(w) == Hierarchical(w, "sequential") /\ Reads(w)
PartitionSimple(w)        == Simple(w, "partition") /\ Reads(w)
PartitionHierarchical(w)  == Hierarchical(w, "partition") /\ Reads(w)

-----------------------------------------------------------------------------
(* RandomIter: the limit once per call, then one index after another.      *)

RandomCheck(w) ==
  /\ pc[w] = "random" /\ Of(w).mode = "random"
  /\ IF check_limit(w) THEN Goto(w, "next", it[w]) ELSE NoMore(w)
  /\ Reads(w)

(* A duration starts the steps of a cycle again. *)
RandomStep(w) ==
  LET b    == Of(w)
      me   == it[w]
      step == IF me.step >= MaxSteps(b) THEN 0 ELSE me.step
      Skip == Goto(w, "next", [me EXCEPT !.step = step + 1])
  IN  /\ pc[w] = "next" /\ b.mode = "random"
      /\ \/ me.step >= MaxSteps(b) /\ ~b.timed /\ NoMore(w)
         \/ /\ me.step < MaxSteps(b) \/ b.timed
            /\ Size(b) = 0 /\ b.dist = "Uniform"
            /\ Goto(w, "idle", [me EXCEPT !.step = step + 1, !.ret = "none"])
         \/ /\ me.step < MaxSteps(b) \/ b.timed
            /\ Size(b) > 0 \/ b.dist # "Uniform"
            /\ \E index \in Indices(b, step, me.offset) :
                 LET i == b.lo + index
                 IN  \/ ~(b.lo <= i /\ i < b.hi) /\ Skip
                     \/ /\ b.lo <= i /\ i < b.hi
                        /\ \E m \in matches_filter(b, i \in primary), p \in passes_sampling(b) :
                             \/ ~(m /\ p) /\ Skip
                             \/ m /\ p /\ hier /\ Goto(w, "pick", [me EXCEPT !.step = step + 1, !.id = i])
                             \/ m /\ p /\ ~hier /\ Hand(w, <<i, 0>>, [me EXCEPT !.step = step + 1])
      /\ Reads(w)

(* Hierarchical: the first sub_id of the id, or 0 if it has none.          *)
RandomPick(w) ==
  LET subs == {p[2] : p \in {q \in bits : q[1] = it[w].id}}
  IN  /\ pc[w] = "pick"
      /\ Hand(w, <<it[w].id, IF subs = {} THEN 0 ELSE Least(subs)>>, it[w])
      /\ Reads(w)

-----------------------------------------------------------------------------
(* Delete iterators of a simple tracker: test_and_clear of one id a turn.  *)

DeleteSimple(w) ==
  LET me == it[w]
  IN  /\ pc[w] = "next" /\ ~hier /\ Of(w).mode = "delete"
      /\ \/ me.id >= me.last /\ NoMore(w) /\ UNCHANGED tracker
         \/ /\ me.id < me.last /\ <<me.id, 0>> \notin bits
            /\ Goto(w, "next", [me EXCEPT !.id = @ + 1]) /\ UNCHANGED tracker
         \/ /\ me.id < me.last /\ <<me.id, 0>> \in bits
            /\ Hand(w, <<me.id, 0>>, [me EXCEPT !.id = @ + 1])
            /\ bits' = bits \ {<<me.id, 0>>} /\ primary' = primary \ {me.id}
            /\ UNCHANGED made
      /\ UNCHANGED <<setup, cursor, deleting, late, touched, changes>>

-----------------------------------------------------------------------------
(* Write iterators of a hierarchical tracker                               *)

(* fetch_add of the cursor, read as a pair by the iterator's own number of *)
(* sub_ids, whatever the others read it by.  Past a pair out of the range  *)
(* next() goes on, in a loop or, with the filter All, by calling itself.   *)
WriteFetch(w) ==
  LET b    == Of(w)
      subs == Larger(Smaller(b.subHi, MaxSub), 1)
      i    == cursor \div subs
      s    == cursor % subs
  IN  /\ pc[w] = "next" /\ hier /\ b.mode = "write"
      /\ cursor' = IF b.filter = "Set" THEN cursor ELSE (cursor + 1) % U
      /\ \/ (b.filter = "Set" \/ i >= it[w].last) /\ NoMore(w)
         \/ b.filter # "Set" /\ i < it[w].last /\ ~Contains(b, i, s) /\ Goto(w, "next", it[w])
         \/ /\ b.filter # "Set" /\ i < it[w].last /\ Contains(b, i, s)
            /\ Goto(w, "claim", [it[w] EXCEPT !.id = i, !.sub = s])
      /\ UNCHANGED <<setup, tracker, deleting, late, touched, changes>>

(* A reader's guard keeps insertions out of the id it is at.               *)
CanInsert(i) == \A w \in Iter : ~(pc[w] = "sub" /\ it[w].id = i)

Insert(i, s) ==
  /\ bits' = bits \union {<<i, s>>}
  /\ made' = made \union {i}
  /\ primary' = IF <<i, s>> \in bits THEN primary ELSE primary \union {i}

(* Mutant: a pair that is there already is returned all the same. *)
WriteClaimAny(w) ==
  LET p == <<it[w].id, it[w].sub>>
  IN  /\ pc[w] = "claim" /\ CanInsert(p[1])
      /\ Hand(w, p, it[w]) /\ Insert(p[1], p[2])
      /\ UNCHANGED <<setup, cursor, deleting, late, touched, changes>>

(* claim_pair, or add_pair with filter All: past the capacity of the       *)
(* sub-bitmap it has made, it panics.                                      *)
WriteClaim(w) ==
  LET p == <<it[w].id, it[w].sub>>
  IN  /\ pc[w] = "claim" /\ CanInsert(p[1])
      /\ \/ /\ p[2] >= SubCapacity
            /\ Goto(w, "panicked", it[w])
            /\ made' = made \union {p[1]} /\ UNCHANGED <<bits, primary>>
         \/ /\ p[2] < SubCapacity /\ p \in bits /\ Of(w).filter = "Unset"
            /\ Goto(w, "next", it[w]) /\ UNCHANGED tracker
         \/ /\ p[2] < SubCapacity /\ (p \notin bits \/ Of(w).filter = "All")
            /\ Hand(w, p, it[w]) /\ Insert(p[1], p[2])
      /\ UNCHANGED <<setup, cursor, deleting, late, touched, changes>>

-----------------------------------------------------------------------------
(* Other callers, and the clock                                            *)

Other == changes < MaxChanges /\ changes' = changes + 1
         /\ UNCHANGED <<setup, cursor, deleting, pc, it, given, late>>

Items == IF hier THEN (0 .. MaxId - 1) \X (0 .. Smaller(MaxSub, SubCapacity) - 1)
                 ELSE (0 .. MaxId - 1) \X {0}

Add(p) ==
  /\ Other /\ p \notin bits /\ CanInsert(p[1])
  /\ bits' = bits \union {p} /\ primary' = primary \union {p[1]}
  /\ made' = IF hier THEN made \union {p[1]} ELSE made
  /\ touched' = touched \union {p}

Remove(p) ==
  /\ Other /\ p \in bits
  /\ bits' = bits \ {p}
  /\ primary' = {q[1] : q \in bits'}
  /\ touched' = touched \union {p}
  /\ UNCHANGED made

Expire(w) ==
  /\ Of(w).timed /\ pc[w] # "unbuilt" /\ ~late[w]
  /\ late' = [late EXCEPT ![w] = TRUE]
  /\ UNCHANGED <<setup, tracker, cursor, deleting, pc, it, given, touched, changes>>

Step(w) == \/ SequentialSimple(w) \/ SequentialHierarchical(w)
           \/ PartitionSimple(w) \/ PartitionHierarchical(w)
           \/ RandomCheck(w) \/ RandomStep(w) \/ RandomPick(w)
           \/ DeleteSimple(w) \/ WriteFetch(w) \/ WriteClaim(w)

BuildIter(w) == \/ BuildSequential(w) \/ BuildRandom(w) \/ BuildPartition(w)
                \/ BuildWrite(w) \/ BuildDelete(w)

Next == \/ \E w \in Iter : BuildIter(w) \/ Call(w) \/ Step(w) \/ DropDelete(w) \/ Expire(w)
        \/ BuildPartitioned
        \/ \E p \in Items : Add(p) \/ Remove(p)

Spec == Init /\ [][Next]_vars

(* A thread inside next() is scheduled again, and time passes.             *)
FairSpec == Spec /\ \A w \in Iter : WF_vars(Step(w)) /\ WF_vars(Expire(w))

-----------------------------------------------------------------------------
(* Properties                                                              *)

Times(w, p) == Cardinality({k \in DOMAIN given[w] : given[w][k] = p})

Changers == {w \in Iter : Of(w).mode \in {"delete", "write"}}

(* The items of a range. *)
Within(b, p) == b.lo <= p[1] /\ p[1] < b.hi /\ (hier => b.subLo <= p[2] /\ p[2] < b.subHi)

(* Items nobody has changed since the start, and that an iterator takes:   *)
(* unset pairs of an id only if it has a sub-bitmap.                       *)
Steady(b) ==
  {p \in Items : /\ p \notin touched /\ \A v \in Changers : Times(v, p) = 0
                 /\ Within(b, p) /\ matches_filter(b, p \in setup.start) = {TRUE}
                 /\ hier => p[1] \in {q[1] : q \in setup.start}}

(* An iterator without limit, duration, wrap-around or sampling.           *)
Plain(b) == b.limit = None /\ ~b.timed /\ ~b.wrap /\ b.wants = {} /\ b.passes = {TRUE}

Done(w) == pc[w] = "idle" /\ it[w].ret = "none"

Ordered(w) ==
  \A j, k \in DOMAIN given[w] : j < k =>
    LET p == given[w][j]  q == given[w][k] IN p[1] < q[1] \/ (p[1] = q[1] /\ p[2] < q[2])

(* The parts that one builder splits its range into, w among them.         *)
Splits(b) == b.mode = "partition" /\ ~b.overlap
Family(w) == {v \in Iter : Splits(Of(v)) /\ [Of(v) EXCEPT !.part = Of(w).part] = Of(w)}

(* A sequential iterator returns items in ascending order, and when it     *)
(* returns None it has returned every item that matched its filter all the *)
(* time; the parts of one range do so together, no item in two of them;    *)
(* and no reader leaves its range, a late part of more parts than there    *)
(* are ids included, whose start lies past its end.                        *)
ScansComplete ==
  /\ \A w \in Iter : Of(w).mode # "random" =>
       \A k \in DOMAIN given[w] : given[w][k][1] < MaxId /\ Within(Of(w), given[w][k])
  /\ \A w \in Iter : Of(w).mode \in {"sequential", "partition"} /\ ~Wraps(Of(w)) => Ordered(w)
  /\ \A w \in Iter : Of(w).mode = "sequential" /\ Plain(Of(w)) /\ Done(w) =>
       \A p \in Steady(Of(w)) : Times(w, p) = 1
  /\ \A w \in Iter : Splits(Of(w)) =>
       /\ \A v \in Family(w), p \in Items : Of(v).part # Of(w).part => Times(v, p) = 0 \/ Times(w, p) = 0
       /\ Plain(Of(w)) /\ (\A v \in Family(w) : Done(v)) /\ {Of(v).part : v \in Family(w)} = 0 .. Of(w).parts - 1 =>
            \A p \in Steady(Of(w)) : \E v \in Family(w) : Times(v, p) = 1

(* A random iterator over a simple tracker, unlimited and uniform, visits  *)
(* each matching id of its range exactly once: the steps, reduced modulo   *)
(* 2^64 and then modulo the size of the range, are a permutation if that   *)
(* size is a power of two, or no product wraps.  For other ranges they are *)
(* none, and ids come twice or never, whatever find_coprime says.          *)
RandomVisitsOnce ==
  \A w \in Iter : /\ Of(w).mode = "random" /\ Of(w).dist = "Uniform" /\ ~hier
                  /\ Plain(Of(w)) /\ Done(w)
                  /\ is_power_of_two(Size(Of(w))) \/ (Size(Of(w)) - 1) * find_coprime(Size(Of(w))) + it[w].offset < U
    => \A p \in Steady(Of(w)) : Times(w, p) = 1

(* No call of a reader that was past its duration when it was called       *)
(* returns an item, no reader returns more than its limit, and the parts   *)
(* of one builder return fewer than the number of parts over its limit,    *)
(* all together.                                                           *)
LimitKept ==
  /\ \A w \in Iter : Of(w).mode \in {"sequential", "random", "partition"} =>
       /\ pc[w] = "idle" /\ it[w].ret = "some" => ~it[w].wasLate
       /\ Of(w).limit # None => Len(given[w]) <= Of(w).limit
  /\ \A w \in Iter : /\ Splits(Of(w)) /\ Of(w).limit # None
                     /\ \A u, v \in Family(w) : u # v => Of(u).part # Of(v).part
       => Cardinality(UNION {{v} \X DOMAIN given[v] : v \in Family(w)}) < Of(w).limit + Of(w).parts

(* One delete iterator at a time; each item it returns was there from the  *)
(* start, unless others have added it, and is gone, returned to nobody     *)
(* else; and when it returns None nothing of its range is left but what    *)
(* others have added since.                                                *)
DeletesComplete ==
  LET deleters == {w \in Iter : Of(w).mode = "delete"}
  IN  /\ Cardinality({w \in deleters : pc[w] \in Running \union {"idle"}}) <= 1
      /\ \A w \in deleters, p \in Items \ touched : Times(w, p) > 0 =>
           /\ Times(w, p) = 1 /\ p \in setup.start \ bits
           /\ \A v \in deleters \ {w} : Times(v, p) = 0
      /\ \A w \in deleters : Done(w) =>
           \A p \in bits : p[1] < MaxId /\ Within(Of(w), p) => p \in touched

(* No pair is handed out by two calls of write iterators with filter       *)
(* Unset, unless it was removed in between; and once the writers, if all   *)
(* read the cursor by the same range, have all returned None, every pair   *)
(* of their range is there, except what was removed.  (With filter Set a   *)
(* write iterator returns None at once.)                                   *)
WritersClaimOnce ==
  LET writers == {w \in Iter : Of(w).mode = "write" /\ Of(w).filter # "Set"}
      Range(b) == <<b.lo, b.hi, b.subLo, b.subHi>>
  IN  /\ \A v, w \in writers, p \in Items \ touched :
           Of(v).filter = "Unset" /\ Of(w).filter = "Unset" =>
             Times(w, p) <= 1 /\ (v # w => Times(v, p) = 0 \/ Times(w, p) = 0)
      /\ (\A v, w \in writers : Done(w) /\ Range(Of(v)) = Range(Of(w))) =>
           \A w \in writers : \A p \in Items : Within(Of(w), p) => p \in bits \union touched

(* A call of next() returns.                                               *)
NextReturns == \A w \in Iter : pc[w] \in Running ~> pc[w] \notin Running
=============================================================================
