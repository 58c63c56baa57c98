------------------------------ MODULE Keyspace ------------------------------
(***************************************************************************)
(* A keyspace as its callers see it: the registry of trackers by prefix,   *)
(* src/lib.rs (PrefixGroupsTracker), and the operations of a simple        *)
(* tracker, src/tracker.rs, one id at a time, by ranges, by patterns, and  *)
(* against snapshots and reference sets, src/config.rs (KeySets).          *)
(*                                                                         *)
(* Callers run beside each other.  An action is a call's access to one     *)
(* word of a bitmap, to one bit, or to one shard of the registry's map,    *)
(* which is locked meanwhile.  The population counters are AtomicBitmap's  *)
(* and not repeated here.                                                  *)
(***************************************************************************)
EXTENDS KeySets

CONSTANTS
  Caller,
  Prefix,
  NShards,      \* shards of the registry's map
  ShardOf,      \* ShardOf[p]: the one prefix p is in
  Configs,      \* what register and the default configuration may say
  Setups,       \* what is there to begin with, what each caller calls, and bound: how often
  Probe,        \* the ids that callers add and remove, one at a time
  Ranges,       \* the ranges <<start, end>> they are called with
  Patterns,     \* the fragmentation patterns
  MaxTrackers   \* bound: trackers made

None == -1

OpName == {"register", "remove_prefix", "clear", "walk",
           "add", "remove", "add_range", "remove_range", "populate_with_pattern",
           "populate_with_profile", "snapshot", "added_since", "removed_since", "missing",
           "restore_from_reference", "iter_missing_from_reference", "iter_intersection", "reference"}

Config  == [max : Nat \union {None}, initial : Nat]
Pattern == [kind : {"None", "Random", "Alternating", "Clustered", "VariableHoles"}, here : Nat, gap : Nat]

ASSUME KeyspaceAssumption ==
  /\ NShards \in Nat \ {0} /\ ShardOf \in [Prefix -> 1 .. NShards]
  /\ Configs \subseteq Config /\ Patterns \subseteq Pattern
  /\ Probe \subseteq 0 .. Largest - 1 /\ Ranges \subseteq Nat \X Nat
  /\ MaxTrackers \in Nat \ {0}
  /\ \A s \in Setups : /\ s.ops \in [Caller -> SUBSET OpName] /\ s.calls \in [Caller -> Nat]
                       /\ s.ids \subseteq Nat /\ s.reference \subseteq 0 .. Largest - 1
                       /\ s.prefix \in Prefix /\ s.config \in Config

VARIABLES
  ops,       \* ops[c]: what caller c calls
  trackers,  \* the trackers made so far: prefix, config.max_id, words, the ids whose bits are 1
  registry,  \* registry[p]: the tracker registered under p, or None
  gone,      \* history: trackers that were taken out
  arc,       \* arc[c]: the tracker that c holds an Arc of, or None
  ref,       \* ref[c]: c's reference set
  meant,     \* history: the ids that it should have
  snap,      \* snap[c]: c's snapshot
  pc,        \* pc[c]: what c's call does next
  call,      \* call[c]: the call
  hist,      \* hist[c]: history: what happened around it
  calls      \* how many calls c may still begin

vars == <<ops, trackers, registry, gone, arc, ref, meant, snap, pc, call, hist, calls>>
shared == <<trackers, registry, gone>>
own    == <<ops, arc, ref, meant, snap>>

Tracker == 1 .. MaxTrackers
Blank == [op |-> "none", at |-> 0, lo |-> 0, hi |-> 0, todo |-> {}, got |-> {}, n |-> 0]
Calm  == [before |-> {}, want |-> {}, flips |-> {}, touched |-> {}, always |-> {}, ever |-> {},
          kept |-> {}, met |-> {}]

(* PrefixTracker::new: room for max_id, or else initial_capacity, in whole *)
(* words and at least one.                                                 *)
New(p, config) ==
  [prefix |-> p, max |-> config.max,
   words |-> CeilDiv(Larger(IF config.max = None THEN config.initial ELSE config.max, W), W), bits |-> {}]

capacity(t) == t.words * W

ASSUME SetupAssumption == \A s \in Setups : \A i \in s.ids : i < capacity(New(s.prefix, s.config))

effective_max_id(t) == IF t.max = None THEN capacity(t) ELSE t.max

Mine(c) == trackers[arc[c]]
Copy(t) == [data |-> Packed(t.bits, t.words), capacity |-> capacity(t), always |-> t.bits, ever |-> t.bits]

RefType == [bitmap : Seq(SUBSET (0 .. W - 1)), max_id : Nat, count : Nat]

TypeOK ==
  /\ \A k \in DOMAIN trackers : /\ trackers[k].prefix \in Prefix
                                /\ trackers[k].bits \subseteq 0 .. capacity(trackers[k]) - 1
  /\ registry \in [Prefix -> Tracker \union {None}] /\ gone \subseteq Tracker
  /\ arc \in [Caller -> DOMAIN trackers \union {None}]
  /\ \A c \in Caller : ref[c] \in RefType /\ meant[c] \subseteq Nat
  /\ pc \in [Caller -> {"idle", "words", "ids", "shards", "return", "panicked"}]
  /\ \A c \in Caller : /\ call[c].op \in OpName \union {"none"}
                       /\ call[c].todo \subseteq Nat /\ call[c].n \in Nat
  /\ calls \in [Caller -> Nat]

Init ==
  \E s \in Setups :
    LET t == [New(s.prefix, s.config) EXCEPT !.bits = s.ids]
    IN  /\ ops = s.ops
        /\ trackers = <<t>>
        /\ registry = [p \in Prefix |-> IF p = s.prefix THEN 1 ELSE None]
        /\ gone = {}
        /\ arc = [c \in Caller |-> 1]
        /\ ref = [c \in Caller |-> from_iter(s.reference)]
        /\ meant = [c \in Caller |-> s.reference]
        /\ snap = [c \in Caller |-> Copy(t)]
        /\ pc = [c \in Caller |-> "idle"]
        /\ call = [c \in Caller |-> Blank]
        /\ hist = [c \in Caller |-> Calm]
        /\ calls = s.calls

-----------------------------------------------------------------------------
(* Calls                                                                   *)

Goto(c, label, new) ==
  /\ pc' = [pc EXCEPT ![c] = label]
  /\ call' = [call EXCEPT ![c] = new]

(* A call of `op` begins, to do what `new` says from `label` on. *)
Begin(c, op, label, new, want) ==
  /\ pc[c] = "idle" /\ op \in ops[c] /\ calls[c] > 0
  /\ Goto(c, label, [new EXCEPT !.op = op])
  /\ calls' = [calls EXCEPT ![c] = @ - 1]
  /\ hist' = LET bits == Mine(c).bits
             IN  [hist EXCEPT ![c] = [Calm EXCEPT !.before = bits, !.always = bits, !.ever = bits, !.want = want,
                                                  !.kept = {registry[p] : p \in Prefix} \ {None},
                                                  !.met = {registry[p] : p \in Prefix} \ {None}]]

Return(c) ==
  /\ pc[c] = "return"
  /\ Goto(c, "idle", Blank)
  /\ hist' = [hist EXCEPT ![c] = Calm]
  /\ UNCHANGED <<shared, own, calls>>

Diff(S, T) == (S \ T) \union (T \ S)

(* The bits of c's tracker become S. *)
Change(c, S) ==
  LET flips == Diff(Mine(c).bits, S)
  IN  /\ trackers' = [trackers EXCEPT ![arc[c]].bits = S]
      /\ hist' = [d \in Caller |->
                    IF pc[d] = "idle" \/ arc[d] # arc[c] THEN hist[d]
                    ELSE [hist[d] EXCEPT !.always = @ \intersect S, !.ever = @ \union S,
                                         !.flips = IF d = c THEN @ \union flips ELSE @,
                                         !.touched = IF d = c THEN @ ELSE @ \union flips]]

(* The ids from lo on, and below hi, in word w. *)
InWord(w, lo, hi) == {i \in w * W .. w * W + W - 1 : lo <= i /\ i < hi}

-----------------------------------------------------------------------------
(* One id: add, remove (claim is add by other means)                       *)

Single(c, op, S) ==
  /\ pc[c] = "idle" /\ op \in ops[c] /\ calls[c] > 0 /\ S # Mine(c).bits
  /\ calls' = [calls EXCEPT ![c] = @ - 1]
  /\ Change(c, S)
  /\ UNCHANGED <<registry, gone, own, pc, call>>

Add(c, i)    == i < effective_max_id(Mine(c)) /\ Single(c, "add", Mine(c).bits \union {i})
Remove(c, i) == i < capacity(Mine(c)) /\ Single(c, "remove", Mine(c).bits \ {i})

(* Past the capacity both panic, add only if there is no max_id.           *)
SinglePanics(c, i) ==
  /\ pc[c] = "idle" /\ i >= capacity(Mine(c))
  /\ "remove" \in ops[c] \/ ("add" \in ops[c] /\ Mine(c).max = None)
  /\ Goto(c, "panicked", call[c])
  /\ UNCHANGED <<shared, own, calls, hist>>

-----------------------------------------------------------------------------
(* Ranges and patterns                                                     *)

(* Mutant: the end of the range is not cut down to max_id. *)
EffectiveEndUncut(t, end) == end

(* add_range stops at max_id; remove_range does not.                       *)
EffectiveEnd(t, end) == IF t.max = None THEN end ELSE Smaller(end, t.max)

AddRange(c, lo, end) ==
  LET hi == EffectiveEnd(Mine(c), end)
      label == CASE lo >= hi                             -> "return"
                 [] lo < hi /\ hi > capacity(Mine(c))    -> "panicked"
                 [] lo < hi /\ hi <= capacity(Mine(c))   -> "words"
  IN  /\ Begin(c, "add_range", label, [Blank EXCEPT !.lo = lo, !.hi = hi, !.at = lo \div W],
               {i \in lo .. end - 1 : i < effective_max_id(Mine(c))})
      /\ UNCHANGED <<shared, own>>

RemoveRange(c, lo, hi) ==
  LET label == CASE lo >= hi                             -> "return"
                 [] lo < hi /\ hi > capacity(Mine(c))    -> "panicked"
                 [] lo < hi /\ hi <= capacity(Mine(c))   -> "words"
  IN  /\ Begin(c, "remove_range", label, [Blank EXCEPT !.lo = lo, !.hi = hi, !.at = lo \div W], lo .. hi - 1)
      /\ UNCHANGED <<shared, own>>

(* What should_exist may say of id i.  `here` ids and then `gap` missing,  *)
(* or for VariableHoles the holes first; Sparse and Aged draw.             *)
should_exist(pattern, i) ==
  LET cycle == pattern.here + pattern.gap
  IN  CASE pattern.kind = "None"          -> {TRUE}
        [] pattern.kind = "Random"        -> BOOLEAN
        [] pattern.kind = "Alternating"   -> {i % pattern.here = 0}
        [] pattern.kind = "Clustered"     -> {i % cycle < pattern.here}
        [] pattern.kind = "VariableHoles" -> {i % cycle >= pattern.gap}

(* The ids a pattern takes, for draws made in advance. *)
Drawn(pattern, max) == {S \in SUBSET (0 .. max - 1) : \A i \in 0 .. max - 1 : (i \in S) \in should_exist(pattern, i)}

(* Id by id, set those that should exist. *)
PopulateWithPattern(c, pattern) ==
  LET max == effective_max_id(Mine(c))
  IN  /\ \E want \in Drawn(pattern, max) :
           Begin(c, "populate_with_pattern", IF want = {} THEN "return" ELSE "ids", [Blank EXCEPT !.todo = want], want)
      /\ UNCHANGED <<shared, own>>

(* All of them by set_range; then, unless there is no pattern, id by id,   *)
(* clear those that should not exist.                                      *)
PopulateWithProfile(c, pattern) ==
  LET max == effective_max_id(Mine(c))
  IN  /\ max > 0
      /\ \E want \in Drawn(pattern, max) :
           Begin(c, "populate_with_profile", "words",
                 [Blank EXCEPT !.hi = max, !.todo = (0 .. max - 1) \ want], want)
      /\ UNCHANGED <<shared, own>>

(* The next word of a range. *)
RangeWord(c) ==
  LET me   == call[c]
      mask == InWord(me.at, me.lo, me.hi)
      sets == me.op # "remove_range"
      bits == Mine(c).bits
      ends == (me.at + 1) * W >= me.hi
      flips == IF sets THEN mask \ bits ELSE mask \intersect bits
  IN  /\ pc[c] = "words" /\ me.op \in {"add_range", "remove_range", "populate_with_profile"}
      /\ Change(c, IF sets THEN bits \union mask ELSE bits \ mask)
      /\ Goto(c, IF ~ends THEN "words" ELSE IF me.todo = {} THEN "return" ELSE "ids",
              [me EXCEPT !.at = @ + 1, !.n = @ + Cardinality(flips)])
      /\ UNCHANGED <<registry, gone, own, calls>>

-----------------------------------------------------------------------------
(* Snapshots                                                               *)

(* snapshot(), alone or as the first half of the calls that compare.       *)
Snapshot(c, op) ==
  /\ op \in {"snapshot", "added_since", "removed_since", "missing", "restore_from_reference"}
  /\ Begin(c, op, "words", Blank, IF op = "restore_from_reference" THEN meant[c] ELSE {})
  /\ UNCHANGED <<shared, own>>

SnapshotWord(c) ==
  LET me    == call[c]
      t     == Mine(c)
      got   == me.got \union (t.bits \intersect InWord(me.at, 0, capacity(t)))
      copy  == [data |-> Packed(got, t.words), capacity |-> capacity(t),
                always |-> hist[c].always, ever |-> hist[c].ever]
      added    == snapshot_difference(copy, snap[c])
      removed  == snapshot_difference(snap[c], copy)
      missing  == missing_in(ref[c], copy)
      Give(S)  == Goto(c, "return", [me EXCEPT !.got = S, !.n = Cardinality(S)])
  IN  /\ pc[c] = "words"
      /\ me.op \in {"snapshot", "added_since", "removed_since", "missing", "restore_from_reference"}
      /\ \/ me.at + 1 < t.words /\ Goto(c, "words", [me EXCEPT !.at = @ + 1, !.got = got]) /\ UNCHANGED snap
         \/ /\ me.at + 1 = t.words /\ me.op = "snapshot"
            /\ Give(got) /\ snap' = [snap EXCEPT ![c] = copy]
         \/ /\ me.at + 1 = t.words /\ me.op # "snapshot" /\ UNCHANGED snap
            /\ CASE me.op = "added_since"   -> Give(added)
                 [] me.op = "removed_since" -> Give(removed)
                 [] me.op = "missing"       -> Give(missing)
                 [] me.op = "restore_from_reference" ->
                      Goto(c, IF missing = {} THEN "return" ELSE "ids", [me EXCEPT !.got = {}, !.todo = missing])
      /\ UNCHANGED <<shared, ops, arc, ref, meant, calls, hist>>

-----------------------------------------------------------------------------
(* Id by id                                                                *)

(* Mutant: without check_bounds. *)
SetIdUnchecked(c) ==
  LET me == call[c]
      i  == Min(me.todo)
  IN  /\ pc[c] = "ids" /\ me.op \in {"restore_from_reference", "populate_with_pattern"}
      /\ Change(c, Mine(c).bits \union {i})
      /\ Goto(c, IF me.todo = {i} THEN "return" ELSE "ids",
              [me EXCEPT !.todo = @ \ {i}, !.n = IF i \in Mine(c).bits THEN @ ELSE @ + 1])
      /\ UNCHANGED <<registry, gone, own, calls>>

(* test_and_set of the next id: past the capacity it panics, with the ids  *)
(* before it set.                                                          *)
SetId(c) ==
  LET me == call[c]
      i  == Min(me.todo)
  IN  /\ pc[c] = "ids" /\ me.op \in {"restore_from_reference", "populate_with_pattern"}
      /\ \/ /\ i >= capacity(Mine(c)) /\ Goto(c, "panicked", me)
            /\ UNCHANGED <<trackers, hist>>
         \/ /\ i < capacity(Mine(c))
            /\ Change(c, Mine(c).bits \union {i})
            /\ Goto(c, IF me.todo = {i} THEN "return" ELSE "ids",
                    [me EXCEPT !.todo = @ \ {i}, !.n = IF i \in Mine(c).bits THEN @ ELSE @ + 1])
      /\ UNCHANGED <<registry, gone, own, calls>>

(* clear of the next id that should not exist. *)
ClearId(c) ==
  LET me == call[c]
      i  == Min(me.todo)
  IN  /\ pc[c] = "ids" /\ me.op = "populate_with_profile"
      /\ Change(c, Mine(c).bits \ {i})
      /\ Goto(c, IF me.todo = {i} THEN "return" ELSE "ids", [me EXCEPT !.todo = @ \ {i}])
      /\ UNCHANGED <<registry, gone, own, calls>>

(* iter_missing_from_reference and iter_intersection: the ids of the       *)
(* reference set that exists() denies, or affirms, each asked in its turn. *)
IterReference(c, op) ==
  /\ op \in {"iter_missing_from_reference", "iter_intersection"}
  /\ Begin(c, op, IF iter(ref[c]) = {} THEN "return" ELSE "ids", [Blank EXCEPT !.todo = iter(ref[c])], {})
  /\ UNCHANGED <<shared, own>>

TestId(c) ==
  LET me == call[c]
      i  == Min(me.todo)
      got == IF (i \in Mine(c).bits) = (me.op = "iter_intersection") THEN me.got \union {i} ELSE me.got
  IN  /\ pc[c] = "ids" /\ me.op \in {"iter_missing_from_reference", "iter_intersection"}
      /\ Goto(c, IF me.todo = {i} THEN "return" ELSE "ids", [me EXCEPT !.todo = @ \ {i}, !.got = got])
      /\ UNCHANGED <<shared, own, calls, hist>>

-----------------------------------------------------------------------------
(* Reference sets                                                          *)

Assign(c, r, S) ==
  /\ pc[c] = "idle" /\ "reference" \in ops[c] /\ calls[c] > 0
  /\ ref' = [ref EXCEPT ![c] = r] /\ meant' = [meant EXCEPT ![c] = S]
  /\ calls' = [calls EXCEPT ![c] = @ - 1]
  /\ UNCHANGED <<shared, ops, arc, snap, pc, call, hist>>

ChangeReference(c) ==
  \/ \E i \in Probe : \/ Assign(c, insert(ref[c], i), meant[c] \union {i})
                      \/ Assign(c, remove(ref[c], i), meant[c] \ {i})
  \/ \E max \in Probe : Assign(c, with_capacity(max), {})
  \/ \E d \in Caller : \/ Assign(c, union(ref[c], ref[d]), meant[c] \union meant[d])
                       \/ Assign(c, intersection(ref[c], ref[d]), meant[c] \intersect meant[d])
                       \/ Assign(c, difference(ref[c], ref[d]), meant[c] \ meant[d])

-----------------------------------------------------------------------------
(* The registry                                                            *)

Registered(r) == {r[p] : p \in Prefix} \ {None}

(* The registry becomes r. *)
Enroll(r, h) ==
  /\ registry' = r
  /\ hist' = [d \in Caller |-> IF pc[d] = "idle" THEN h[d]
                               ELSE [h[d] EXCEPT !.kept = @ \intersect Registered(r), !.met = @ \union Registered(r)]]

Registry(c, op) == pc[c] = "idle" /\ op \in ops[c] /\ calls[c] > 0 /\ calls' = [calls EXCEPT ![c] = @ - 1]

(* Mutant: a new tracker replaces the one that is there. *)
RegisterAnew(c, p, config) ==
  /\ Registry(c, "register") /\ Len(trackers) < MaxTrackers
  /\ trackers' = Append(trackers, New(p, config))
  /\ arc' = [arc EXCEPT ![c] = Len(trackers) + 1]
  /\ Enroll([registry EXCEPT ![p] = Len(trackers) + 1], hist)
  /\ UNCHANGED <<ops, gone, ref, meant, snap, pc, call>>

(* register and get_or_create: the tracker that is there, whatever its     *)
(* configuration, or a new one; both under the entry's lock.               *)
Register(c, p, config) ==
  \/ /\ Registry(c, "register") /\ registry[p] = None /\ Len(trackers) < MaxTrackers
     /\ trackers' = Append(trackers, New(p, config))
     /\ arc' = [arc EXCEPT ![c] = Len(trackers) + 1]
     /\ Enroll([registry EXCEPT ![p] = Len(trackers) + 1], hist)
     /\ UNCHANGED <<ops, gone, ref, meant, snap, pc, call>>
  \/ /\ Registry(c, "register") /\ registry[p] # None
     /\ arc' = [arc EXCEPT ![c] = registry[p]]
     /\ UNCHANGED <<ops, shared, ref, meant, snap, pc, call, hist>>

(* remove(): the caller gets the Arc, others keep theirs.                  *)
RemovePrefix(c, p) ==
  /\ Registry(c, "remove_prefix") /\ registry[p] # None
  /\ arc' = [arc EXCEPT ![c] = registry[p]]
  /\ gone' = gone \union {registry[p]}
  /\ Enroll([registry EXCEPT ![p] = None], hist)
  /\ UNCHANGED <<ops, trackers, ref, meant, snap, pc, call>>

(* clear(), and the reads that visit every tracker: iter, for_each,        *)
(* prefixes, total_count.  They take one shard after another.              *)
Clear(c) == Begin(c, "clear", "shards", Blank, {}) /\ UNCHANGED <<shared, own>>
Walk(c)  == Begin(c, "walk", "shards", Blank, {}) /\ UNCHANGED <<shared, own>>

InShard(s) == {p \in Prefix : ShardOf[p] = s + 1}

(* Mutant: the last shard is not visited. *)
LastShardEarly(c) == call[c].at + 2 >= NShards

LastShard(c) == call[c].at + 1 = NShards

ClearShard(c) ==
  LET out == {registry[p] : p \in InShard(call[c].at)} \ {None}
  IN  /\ pc[c] = "shards" /\ call[c].op = "clear"
      /\ gone' = gone \union out
      /\ Enroll([p \in Prefix |-> IF p \in InShard(call[c].at) THEN None ELSE registry[p]], hist)
      /\ Goto(c, IF LastShard(c) THEN "return" ELSE "shards", [call[c] EXCEPT !.at = @ + 1])
      /\ UNCHANGED <<trackers, own, calls>>

WalkShard(c) ==
  /\ pc[c] = "shards" /\ call[c].op = "walk"
  /\ Goto(c, IF LastShard(c) THEN "return" ELSE "shards",
          [call[c] EXCEPT !.at = @ + 1, !.got = @ \union ({registry[p] : p \in InShard(call[c].at)} \ {None})])
  /\ UNCHANGED <<shared, own, calls, hist>>

-----------------------------------------------------------------------------

TrackerOp(c) ==
  \/ \E i \in Probe : Add(c, i) \/ Remove(c, i) \/ SinglePanics(c, i)
  \/ \E r \in Ranges : AddRange(c, r[1], r[2]) \/ RemoveRange(c, r[1], r[2])
  \/ \E p \in Patterns : PopulateWithPattern(c, p) \/ PopulateWithProfile(c, p)
  \/ \E op \in OpName : Snapshot(c, op) \/ IterReference(c, op)

RegistryOp(c) ==
  \/ \E p \in Prefix : RemovePrefix(c, p) \/ \E config \in Configs : Register(c, p, config)
  \/ Clear(c) \/ Walk(c)

Next ==
  \E c \in Caller : \/ TrackerOp(c) \/ RegistryOp(c) \/ ChangeReference(c)
                    \/ RangeWord(c) \/ SnapshotWord(c) \/ SetId(c) \/ ClearId(c) \/ TestId(c)
                    \/ ClearShard(c) \/ WalkShard(c) \/ Return(c)

Spec == Init /\ [][Next]_vars

-----------------------------------------------------------------------------
(* Properties                                                              *)

(* Whatever calls made it, a reference set holds the ids it should: its    *)
(* count, its iterator, its lookups and its number of words agree, room it *)
(* has grown included, and so do the ids and counts of every comparison    *)
(* with a snapshot, and of two snapshots, that has more words or fewer.    *)
ReferencesExact ==
  \A c \in Caller :
    LET r == ref[c]  m == meant[c]
    IN  /\ iter(r) = m /\ r.count = Cardinality(m) /\ Len(r.bitmap) = CeilDiv(r.max_id, W)
        /\ \A i \in 0 .. W * Len(r.bitmap) : contains(r, i) <=> i \in m
        /\ \A d \in Caller :
             LET s == snap[d]  held == iter_set(s)  own_held == iter_set(snap[c])
             IN  /\ missing_in(r, s) = m \ held /\ existing_in(r, s) = m \intersect held
                 /\ count_missing_in(r, s) = Cardinality(m \ held)
                 /\ snapshot_intersection(snap[c], s) = own_held \intersect held
                 /\ snapshot_intersection_count(snap[c], s) = Cardinality(own_held \intersect held)
                 /\ snapshot_difference_count(snap[c], s) = Cardinality(own_held \ held)
                 /\ \A i \in Probe : test(s, i) <=> i \in held
                 /\ \A q \in Ranges : count_range(s, q[1], q[2]) = Cardinality({i \in held : q[1] <= i /\ i < q[2]})

(* added_since and removed_since return an id only if its bit was the one  *)
(* way at some moment of the snapshot and the other at some moment of the  *)
(* call, and return it if that was so throughout both, although neither    *)
(* copy is of one moment; and so for the ids of a reference set that a     *)
(* tracker has, or lacks.                                                  *)
ChangesSeen ==
  \A c \in Caller : pc[c] = "return" =>
    LET got == call[c].got  h == hist[c]  s == snap[c]
    IN  /\ call[c].op = "added_since" =>
             h.always \ s.ever \subseteq got /\ got \subseteq h.ever \ s.always
        /\ call[c].op = "removed_since" =>
             s.always \ h.ever \subseteq got /\ got \subseteq s.ever \ h.always
        /\ call[c].op \in {"missing", "iter_missing_from_reference"} =>
             meant[c] \ h.ever \subseteq got /\ got \subseteq meant[c] \ h.always
        /\ call[c].op = "iter_intersection" =>
             meant[c] \intersect h.always \subseteq got /\ got \subseteq meant[c] \intersect h.ever

(* What a bulk call leaves of the ids nobody else touched is what it says: *)
(* a restored set or a pattern beside what was there, a profile in place   *)
(* of it, a range added up to max_id or removed; a restore that panics on  *)
(* an id past the capacity has set those before it.  Calls that return a   *)
(* number return that of the ids they flipped, whoever else flips some.    *)
BulkExact ==
  \A c \in Caller : pc[c] \in {"return", "panicked"} =>
    LET me == call[c]  h == hist[c]  t == Mine(c)
        Leaves(S) == \A i \in (S \union t.bits) \ h.touched : i \in S <=> i \in t.bits
        done == IF pc[c] = "return" THEN h.want ELSE {i \in h.want : i < Min(me.todo)}
    IN  /\ me.op \in {"restore_from_reference", "populate_with_pattern"} =>
             Leaves(h.before \union done) /\ me.n = Cardinality(h.flips)
        /\ me.op = "populate_with_profile" => Leaves(h.want \union {i \in h.before : i >= effective_max_id(t)})
        /\ pc[c] = "return" /\ me.op = "add_range" => Leaves(h.before \union h.want) /\ me.n = Cardinality(h.flips)
        /\ pc[c] = "return" /\ me.op = "remove_range" => Leaves(h.before \ h.want) /\ me.n = Cardinality(h.flips)

(* Two callers that hold trackers of one prefix hold the same one, unless  *)
(* one of the two was taken out of the registry.                           *)
OneTrackerPerPrefix ==
  \A c, d \in Caller :
    Mine(c).prefix = Mine(d).prefix /\ arc[c] # arc[d] => arc[c] \in gone \/ arc[d] \in gone

(* A walk over the registry visits every tracker that stays registered all *)
(* the time, none that was not registered at any moment of it, and no two  *)
(* trackers of one prefix, although it holds one shard's lock at a time.   *)
WalkSound ==
  \A c \in Caller : pc[c] = "return" /\ call[c].op = "walk" =>
    /\ hist[c].kept \subseteq call[c].got /\ call[c].got \subseteq hist[c].met
    /\ \A j, k \in call[c].got : j # k => trackers[j].prefix # trackers[k].prefix
=============================================================================
