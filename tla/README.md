# keyspace_tracker in TLA+

A verification development for the Rust library under `src/`: a concurrent bitmap, the trackers built on
it, and the iterators that hand out, read and take back ids. The modules are translated from the code in
`src/src/`; where a doc comment or a document says something else, the code is what is modelled and the
difference is noted (see *Where code and documentation differ*), two of them with a run that TLC refutes.

Run everything from this directory: `tlc -config <run>.cfg <module>` for a run,
`tlapm <module>Proofs.tla` for the proofs. `PROJECT.json` lists the runs, maps every definition to the lines
it stands for, and names for each property a mutated definition that the run must refute.

## The system

| component | state | operations | hard behaviour |
|---|---|---|---|
| `AtomicBitmap` (`bitmap/mod.rs`) | words of 64 bits, one population counter, both atomic and never touched in one step | set, clear, test_and_set, test_and_clear, set_range, clear_range, find_next_set/unset, count_range, snapshot, verify_count, word_fetch_or/and, clear_all | counter lags behind the bits; exchange loops; scans of several words beside writers; ranges that end inside a word |
| word scans (`bitmap/scalar.rs`, `x86.rs`, `arm.rs`) | none | find_first_nonzero, find_first_not_full, popcount_slice | batches of words loaded before any is looked at; lane arithmetic |
| `PrefixTracker`, simple (`tracker.rs`) | one bitmap, a write cursor, a delete flag | add, remove, claim, ranges, snapshot, restore, populate | max_id tests before the bitmap's bounds |
| `PrefixTracker`, hierarchical | a DashMap id -> sub-bitmap, a total, a primary bitmap | add_pair, claim_pair, remove_pair, clear | four pieces of state updated one after the other under a shard lock; panics in between |
| `WriteIter` (`iterators.rs`) | range, filter, wrap flag; shares the tracker's cursor and bitmap | write, continue_write, next | several workers; the cursor is advanced after the claim; wrapping around |
| `DeleteIter` | a position of its own; exclusive per tracker by a flag | delete, next, drop | walks the map while pairs come and go |
| read iterators, builder, `FilterContext` (`iterators.rs`, `config.rs`) | position, limits | sequential, random, partitioned | termination under limits; partition and permutation arithmetic |
| group iterators (`group_iter.rs`) | one position over several trackers | read, write, delete, partitioned | delete flags of several trackers; a claim lost to another writer |
| `PrefixGroupsTracker` (`lib.rs`) | a DashMap prefix -> Arc tracker | get_or_create, remove | removal while others hold the Arc |
| `BitmapSnapshot`, `ReferenceSet` (`config.rs`, `tracker.rs`) | plain word vectors | union, difference, compare | lengths that differ, tail bits |
| distributions (`config.rs`) | random generators | sampling | floating point |

Components meet through shared memory only. A tracker owns its bitmaps; iterators borrow the tracker and
call the bitmap directly, in places behind the tracker's back (that is where the hierarchical `DeleteIter`
goes wrong); group iterators hold `Arc`s of trackers. There are no messages, no timeouts and no persistence,
so crash recovery and message loss do not arise. A panic can cut an operation short, and is modelled.

What makes each component correct:

* bitmap: every flip of a bit is reported to exactly one caller and counted exactly once; a scan returns
  nothing that was never there and skips nothing that was there throughout.
* hierarchical tracker: total, sub-counts and primary bits agree with the pairs whenever nothing is under
  way on them, panics included.
* write iterators: no id to two callers; `None` only when the range is exhausted; everyone gets `None` in
  the end; a wrapped round begins only when the last is over.
* delete iterators: one at a time; nothing missed; the tracker's counts stay right.
* group iterators: the delete flags of several trackers exclude and are given back; nothing is handed out
  twice; a lost claim does not mark a tracker exhausted; a sweep over several trackers misses nothing.
* read iterators: `next()` returns, limits hold, partitions cover the range once, a permutation visits every
  id once.
* word scans: the first hit, and every one bit once, on every machine and for every length.
* snapshots and reference sets: comparisons are exact whatever the lengths, and right about the moments at
  which the tracker was read; bulk operations leave and return what they say.
* registry: one tracker per prefix while it is registered; walks miss nothing that stays.

The `hazards` of `PROJECT.json` list what could go wrong at which line, and which property looks for it.

## Modules

| module | models | used by |
|---|---|---|
| `AtomicBitmap` | the bitmap, one action per atomic access | `MCAtomicBitmap`, `AtomicBitmapProofs` |
| `TalliedSet` | the abstract promise of the bitmap, and of the hierarchical tracker: a set with a count, every change owed by one thread | `AtomicBitmap` (`Tallied == INSTANCE ... WITH`), `HierTracker` (`Whole`, and `SubBitmap(i)` for each id) |
| `LockedPool` | the abstract promise of the group iterators: items handed out and taken back, with a lock per tracker | `GroupIter` (`Pool == INSTANCE ... WITH`) |
| `WriteIter` | the write iterators of a simple tracker, with their shared cursor | `MCWriteIter`, `WriteIterProofs` |
| `HierTracker` | the hierarchical tracker with its shard locks, and its delete iterator | `MCHierTracker`, `HierTrackerProofs` |
| `GroupIter` | group write, delete and read iterators over simple and hierarchical trackers, with their delete flags | `MCGroupIter`, `GroupIterProofs` |
| `WordScan` | the three word functions of each backend, and their dispatch | `MCWordScan`, `WordScanProofs` |
| `TrackerIter` | sequential, random and partitioned readers, simple deleters, hierarchical writers, and the builder | `MCTrackerIter`, `TrackerIterProofs` |
| `KeySets` | the algebra of `ReferenceSet` and `BitmapSnapshot`, word by word | `Keyspace` |
| `Keyspace` | the registry, and a simple tracker's operations by id, range, pattern, snapshot and reference set | `MCKeyspace` |
| `MC*` | values of the constants for TLC | |
| `AtomicBitmapProofs`, `WriteIterProofs`, `HierTrackerProofs`, `GroupIterProofs`, `TrackerIterProofs`, `KeyspaceProofs`, `WordScanProofs` | theorems about the module they are named after | |
| `AtomicBitmapScanProofs` | theorems about the bitmap's scans, on top of `AtomicBitmapProofs` | |

The upper modules rely on the lower: `WriteIter` and `HierTracker` take test_and_set, set, clear and
test_and_clear of one bit as one step, which is what `AtomicBitmap` establishes (`ImplementsTalliedSet`:
a flip is one step of one caller, with nobody else told of it). `HierTracker` promises the same of its pairs
and of each sub-bitmap, so `GroupIter` takes claim_pair and remove_pair as one step, too: a pair is set or
cleared at one of their accesses, and what they count besides is the subject of `HierTracker`.

`AtomicBitmap` in turn takes from `WordScan` that a scan of words it has loaded finds the first hit and counts
all ones; `TrackerIter` and `Keyspace` take single-bit and single-word accesses of the bitmap as steps, and
`TrackerIter` claim_pair and add_pair, whose insides are `HierTracker`'s.

### AtomicBitmap

`bits` is the union of all words; no action reads or writes more than one word (`Word(k)`), so a scan is as
many actions as it loads words. `popcount` is the counter's exact integer value and a load of it is reduced
modulo `CountMod` (2^64 in the code), because wrapping additions commute with the reduction. `pc` and `call`
hold where each thread is and its locals; `delta[t]` the bits t's call has flipped and not yet counted.
`always` and `ever` are history: the bits set at every, or at some, moment of a scan.

| code | actions |
|---|---|
| `set`, `clear` | `Set`/`Clear` (fetch_or/fetch_and), `Settle` (fetch_add/fetch_sub) |
| `test_and_set`, `test_and_clear` | `TestAndSet`/`TestAndClear` (first load), `CasSucceeds` or `CasFails` (weak: may fail on an unchanged word), `Retry`, `Settle` |
| `set_range`, `clear_range` | `SetRange`/`ClearRange` (first word), `NextRangeWord`, one `Settle` |
| `word_fetch_or`, `word_fetch_and` from outside | `FetchWord`: bits change, counter does not |
| `find_next_set`, `find_next_unset` | `FindNextSet`/`FindNextUnset` (first word), `FindWord` (batches, then the tail), `Return` |
| `count_range`, `snapshot`, `verify_count` | `CountRange`/`Snapshot`/`VerifyCount`, `NextCollectWord`, `LoadCount`, `StoreCount`, `Return` |
| `clear_all`, `reset` (`&mut self`) | `ClearAll`, when every thread is idle |

A call that would flip nothing in one access (`set` of a set bit) changes nothing and is left out. Calls with
an index or an end past the capacity panic before any access, or are cut to the capacity, so `Ranges` and
`Index` stay inside it.

### WriteIter

`bits` and `cursor` are the tracker's, `pc`, `at` and `word` a worker's. `LoadCursor`, `Found`, `FindOn`,
`NoneFound`, `Bump`, `Claim`, `Advance`, `Exhaust`, `ClearWord` and `Rewind` are the accesses of `next_simple`
with the Unset filter, in its order; `FetchAdd` and `SetBit` those with the All filter. `iter` holds
the iterators' fields, one of the combinations in `Builds`; `Build` is the moment of `write()` (if `reset`) or
`continue_write()`. `Remove` is any other thread's `remove()` of an id in
`Removable`. `handed` counts how often each id was returned; `left[w]` are the ids of w's range that have been
unset at every moment since w was built. `max_id` never exceeds the capacity, which is a whole number of words
and does not change, so the branches of `next_simple` for ids past the capacity are dead and left out.
The population counter has no part in the iteration and is left out.

### HierTracker

`pairs` are the bits of all sub-bitmaps, `made` the ids that have one, `subcount` their counters, `primary`
and `total` the tracker's. A DashMap guard lives until its operation ends, so `Locks` says that a thread inside
an operation holds its shard, for writing if it came through `entry()` and for reading if through `get()`;
an operation's first action (`AddPair`, `ClaimPair`, `RemovePair`) takes the lock, and `FlipBit`, `CountSub`,
`CountTotal`, `TestEmpty`, `MarkPrimary` are its accesses in the code's order. `Panic` ends an operation whose
sub-id or id is past a capacity, with what it had done left in place and the guard dropped by unwinding.
`OpenDelete`, `CallNext`, `Seek`, `TestAndClear`, `CountDeleted` and `DropDelete` are the delete iterator;
`kept[t]` is history, the pairs present ever since t's iterator was built. `ClearAll` is `clear(&mut self)`.

Its abstract specification is `TalliedSet` again, twice. `Whole` maps the pairs of all sub-bitmaps to the set and
`total` to the count; what a thread owes is its pair, from the flip to `CountTotal`. `SubBitmap(i)` maps the bits
of one id and `subcount[i]`; the debt lasts until `CountSub` or `CountDeleted`. The first holds without delete iterators
only (they do not tell the total), the second with them.

### GroupIter

Each worker has one iterator, built, used, dropped and built again; `iter[w]` says how (`Builds` lists the
combinations), with the trackers the prefix filter leaves in its `list`. `bits` are the items set in all
trackers, an item being <<tracker, id, sub-id>> with sub-id 0 in a simple tracker; `made` the ids that have a
sub-bitmap; `flags` the trackers whose `delete_iter_active` is set. `turn` and `at` are the position: the place
in the list, the id and sub-id.

| code | actions |
|---|---|
| `GroupIterBuilder::build`, `write` | `BuildRead`, `BuildWrite` |
| `GroupIterBuilder::delete` | `BuildDelete`, `Acquire` (one compare_exchange each), then `OpenDelete`, or `Release` of those taken, one by one |
| drop | `Discard`, for a delete iterator followed by `Release` of all |
| `next` of `GroupDeleteIter`, `GroupPartitionedIter` and `GroupIter` in horizontal order | `CallSweep`, `VisitId` in a simple tracker; `EnterRow` (`effective_max_sub_id_for`), `VisitPair`, `LeaveRow` in a hierarchical one; `NextTracker`, `EndSweep` |
| `GroupWriteIter::next` | `CallWrite`, `SelectTracker` or `ReturnNone` |
| `GroupWriteIter::try_claim_at`, simple | `ScanWord` (one word of find_next_unset), `Claim` (test_and_set), `Exhaust` |
| `GroupWriteIter::try_claim_at`, hierarchical | `ClaimPair` (claim_pair), `NextClaimRow`, `Exhaust` |

The policies are modelled by which trackers they may select: `RoundRobin` the next one not exhausted,
`ByCount` and `ByUnsetCount` any whose weight is not 0, and `Any` stands for Random, LeastLoaded, MostLoaded
and the weights that are never 0, with the counts they compare left open. The counts that make a weight 0 are
read in one action. All trackers share `MaxId` and `MaxSub`, which are no more than the capacities, so no call
panics. Of the history, `owed` is how often an item was handed out less how often it was taken back, `lost[w]`
that this call of `next()` lost a claim, and `kept[w]` what w looks for, must find, and has not had ever since
it was built. What it must find is fixed then (`Promised`): everything in its range, but an unset pair only if its id
already has a sub-bitmap, as a sweep asks each id it comes to how many sub-ids it has (`EnterRow`).

Its abstract specification is `LockedPool`: `out` are the `bits`, and `held[w]` the trackers whose flags w has by
its own reckoning (`freed`, `taken`), not by `flags`, which is hidden: that nobody else's `held` has a tracker whose flag
reads false is what the refinement shows. So is that whoever takes an item back has its tracker locked,
and whoever is handed one has nothing locked (a write iterator never looks at the flags).

### WordScan

A word is the set of its one bits and `words` a function from indices. `Scan` is the shape all finds share: the
first whole batch that some test of the batch finds, then the word within it, else the first single word. Each
backend passes its own batch width, batch test (OR or AND of the words, lanes that compare equal, lanes that
compare unequal) and choice of word (a chain of tests with the last word untested, or the lowest lane).
`popcount_slice_*` add what the code adds, for AVX2 lanes 0 and 2 of `popcount256`. `simd_*` dispatch on
a machine's capabilities as the code does. The only action, `Store`, changes a word; the invariants are evaluated
in every state, for every machine and every start.

### TrackerIter

`setup` is the kind of tracker, its items, and what each iterator's builder was told. `it[w]` are the fields of
iterator w; `late[w]` says that its duration is over and is set by `Expire` at any time. A turn of the loop inside
`next()` is an action; `Call` begins one, `Hand` and `NoMore` return.

| code | actions |
|---|---|
| `sequential`, `random`, `partition`, `partitioned`, `write`, `continue_write`, `delete` | `BuildSequential`, `BuildRandom`, `BuildPartition`, `BuildPartitioned`, `BuildWrite`, `BuildDelete` |
| `SequentialIter::next` | `SequentialSimple` (`FindStep` on the fast path, `TestStep` on the standard one), `SequentialHierarchical` (`SeekStep` to a sub-bitmap, `SubStep` under its guard); `Rewind` wraps around or ends |
| `PartitionedIter::next` | `PartitionSimple`, `PartitionHierarchical` |
| `RandomIter::next` | `RandomCheck` (the limit, once), `RandomStep`, `RandomPick` (the first sub-id) |
| `DeleteIter::next_simple`, drop | `DeleteSimple`, `DropDelete` |
| `WriteIter::next_hierarchical` | `WriteFetch` (fetch_add and decoding), `WriteClaim` (claim_pair or add_pair, or the panic past the capacity) |
| `FilterContext` | `check_limit`, `matches_filter`, `passes_sampling`, `should_yield`, `can_use_find_next_*` |
| other callers | `Add`, `Remove` |

Draws are choices: `wants` is what a draw against `set_ratio` may ask for, `passes` what one against
`sample_probability` may answer, `Sample` what a distribution may return. A read guard of a sub-bitmap keeps
insertions into its id out (`CanInsert`). `binary_gcd` is the code's loop as a recursive function (`gcd_loop`), shifts by
trailing zeros are `OddPart` and `TwoPart`; 64-bit products wrap at `U`. `WidthAssumption` says what the proofs use of the
code's constants: the multipliers are odd, `U` is a power of two and ids fit below it.

### KeySets and Keyspace

`KeySets` has one operator for each operation of the two set types, on records with the code's fields. In
`Keyspace` callers hold an Arc (`arc`), a reference set and a snapshot each, and their calls interleave by words,
ids and shards of the registry's map.

| code | actions |
|---|---|
| `add` and `claim`, `remove` | `Add`, `Remove`, `SinglePanics` past the capacity |
| `add_range`, `remove_range` | `AddRange`/`RemoveRange`, then `RangeWord` per word |
| `populate_with_pattern`, `populate_with_profile` | `PopulateWithPattern` and `SetId` per id; `PopulateWithProfile`, `RangeWord`, and `ClearId` per id |
| `snapshot`, `added_since`, `removed_since` | `Snapshot`, `SnapshotWord` per word |
| `restore_from_reference` | `Snapshot`, `SnapshotWord`, then `SetId` per missing id, with the panic past the capacity |
| `iter_missing_from_reference`, `iter_intersection` | `IterReference`, `TestId` per id |
| operations of `ReferenceSet` | `ChangeReference` |
| `register`, `get_or_create`, `get` | `Register` |
| `remove`, `clear` | `RemovePrefix`; `Clear`, `ClearShard` per shard |
| `iter`, `for_each`, `prefixes`, `total_count` | `Walk`, `WalkShard` per shard |

`hist[c]` is what happened around c's call: the ids set throughout and at some moment, what the call itself
and what others flipped, and which trackers were registered throughout or at some moment.

## Runs

| run | shows | bounds |
|---|---|---|
| `bitmap_updates` | `Accounting`, `CountExactWhenQuiet`, typing, and that the bitmap implements `TalliedSet` | 2 threads, all six updates, 2 words of 2 bits, every range |
| `bitmap_finds` | `FindsSound`: scans are sound beside a writer | 3 words of 2 bits, batches of 2: first word, a full batch, and (for the range that starts in word 1) a tail |
| `bitmap_collects` | `CollectSound`; an undisturbed `verify_count` repairs any drift | writer also goes past the counter, up to a drift of `MaxDrift` = 1 on either side |
| `word_scans` | the first hit found, every bit counted, by every function but one | slices of 0 to 13 words of 2 bits, all alike but two; seven machines |
| `popcount_avx2` | refuted: the AVX2 popcount counts every bit | 8 words |
| `write_iter` | unique claims, None only at the end, All: each id exactly once, complete rounds, termination | 3 workers (claiming, one of them resetting the cursor; or all with All; or one that wraps), ids 1..3 of a range that ends past `MaxId`, words of 3 ids, 1 removable id, each id handed out at most 3 times |
| `tracker_iters` | readers miss nothing and keep their limits, parts cover a range once, random order is a permutation where the arithmetic allows, deleters exclude each other, writers share a cursor, every `next()` returns | 2 iterators in 17 combinations, 4 ids (2 with 2 sub-ids), 5 calls each, 1 change by others, `U` = 32 |
| `iter_hang` | refuted: every `next()` returns, for a duration without a filter | 2 iterators, 4 ids |
| `hier_updates` | the pairs and the total are a `TalliedSet`, and primary bits agree with the pairs, although calls panic half-way; typing | 3 threads, 3 ids and 3 sub-ids, of which the last of each is past the capacity, 2 shards |
| `hier_deletes` | each sub-bitmap is a `TalliedSet`, half of the primary bits, nothing missed | 1 updater, 2 deleters |
| `group_iters` | the iterators are a `LockedPool`, delete flags come back, nothing is handed out twice, sweeps miss nothing, None and exhaustion | a simple and a hierarchical tracker of 2 ids and 2 sub-ids, words of 1 id, 3 workers: 1 writes and 2 delete in opposite orders; 2 write (ranges that overlap) and 1 deletes; 1 writes by weight and 2 read, what is set and what is unset; 1 writes by count, 1 in turn, and 1 reads with the filter All; ranges that end past `MaxId` and `MaxSub`, or before, or begin inside |
| `keyspace` | reference sets exact, comparisons right about their moments, bulk operations exact beside others, one tracker per prefix, walks miss nothing | 2 callers, a tracker of 2 words of 2 bits with and without max_id, 6 mixes of operations with 1 to 3 calls each, 3 prefixes in 2 shards, 4 trackers |

Why the bounds are enough. The code treats words alike except the first and last of a range and the last of a
batch; two words (three for scans) with ranges that begin and end inside a word have all of these. Two bits
per word tell a bit from its neighbour, which is what a wrong mask or a lost update disturbs. Two threads
already reach every race of two accesses; three are used where a third party matters (two removals racing an
insertion; two losers of a claim). `CountMod` = 16 is above twice the capacity, so the wrap below zero cannot
be mistaken for a small count. `MaxRounds` ends the runs that would go on for ever: no new call
of `next()` starts once an id was handed out so often, and none is removed that was handed out once less. So
without wrapping the removals stop before it can stop a call of `next()`, and the liveness property is about
the code and not about the bound. `MaxTotal` is the
number of pairs, so it keeps only a drifting total from growing. `MaxDrift` bounds the uncounted word
accesses only. For the group iterators two trackers, one of each kind, are enough to take flags in opposite
orders and to fail on the second, and to end one sweep and begin the next; the third worker is the one that
sets or clears what the other two look for.

For the word scans 13 words are a batch of eight, one of four and a single word, and every shorter remainder
occurs; two words that differ are a hit and the one that must come after it. For the readers four ids divide
evenly by 2 and unevenly by 5 parts, three are no power of two, and `U` = 32 is small enough that products wrap;
`MaxCalls` lets each reader go past its last id. One change by another caller is enough to move a bit behind or
ahead of an iterator, and two iterators disturb each other besides. In `keyspace` one id lies past max_id inside
the capacity and one past the capacity, and reference sets have fewer words than the tracker, as many and more.

Deadlock is checked in the bitmap, hierarchical and group runs, where threads can always begin another call. In
the others the calls are bounded, or workers stop for good after None, and `WordScan` has a bound on stores.

Fairness. `EveryIteratorEnds` and `NextReturns` need it. In `WriteIter`, `FairSpec` is weak fairness of `Step(w)`
for each worker: its thread goes on being scheduled and its caller keeps calling `next()`. Nothing is assumed
about who wins a claim; that the losers of claims get on is a consequence (each lost claim is a bit set for
good). In `TrackerIter` it is weak fairness of the steps inside `next()`, and of `Expire(w)`, that is, time
passes. Nobody need call `next()` again, and callers that add and remove need not.

## What is proved

TLAPS checks these for every value of the constants (threads, sizes, ranges, shards, limits).

`AtomicBitmapProofs`. `TypeCorrect`. `CounterAccounts`: `Accounting`, if no thread calls `verify_count` or the
uncounted word accesses (`CountKept`; with them it is false, see *Where code and documentation differ*). The invariant is
`TypeOK /\ CallInv /\ Accounting`: `CallInv` says what each `pc` implies of the call's operation, its
position and its `delta`, in particular that a call with something to count keeps its kind until `Settle`.
Every step is then classified once (`UpdateEffect`, `ScanEffect`): it counts, or gains bits, or loses bits, or
does neither; the counting arguments are four lemmas about these. `CounterExactWhenQuiet` follows, and
`BitmapImplementsTalliedSet` uses the same classification for the step simulation.

`AtomicBitmapScanProofs`. `FindsAreSound`, `CollectsAreSound` and the action property `VerifyCountRepairs`, from
`ScanInv`: the history brackets the bits of the moment (`HistoryOK`), and a scan in progress has seen, of the words
behind it, all bits that were there throughout and none that never was (`FindOK`, `CollectOK`). Nothing is assumed
of the other threads, uncounted accesses and racing verify_counts included. What remains is the arithmetic of words
and batches (`WordOrder`, the lemmas that follow it).

`WriteIterProofs`. `TypeCorrect` for every mix of workers. `ClaimsAreUnique`, for any ranges: a bit nobody
removes is set exactly if it was handed out (`HandedOnce`). `NoneOnlyWhenExhausted`, if all workers have one
range, the Unset filter and no wrap-around (`OneRange`), needs the reason why the cursor
may run ahead of a slow worker: `NothingBehind`, that below the cursor, behind every scan and before every
claim in progress no lasting id is unset. The assumption is needed: with two ranges on one cursor the code answers None early.
`AllAreHandedOnce`, if workers that all have the All filter have one range and do not reset the cursor
(`TakersShare`): every id the cursor has passed was handed out once or is held by exactly one worker
(`TakenHanded`, `OneTaker`). `RoundsAreEven`, if beside a worker that wraps around the others have an empty range
(`WrappersAlone`): there is a number of rounds that every lasting id was handed out in, and those of this round once
more (`RoundIs`); the words are cleared only when nothing lasting is unset. Both assumptions are about `Builds`,
hold in the run (where TLC evaluates the combinations they allow), and are needed: with a reset ids are handed out again, and two
wrapping workers clear each other's rounds (see *Where code and documentation differ*).

`HierTrackerProofs`. `Base`: typing with integers, the meaning of labels and the exclusion by shard locks.
`SubInv` and `TotalInv`: counters are the pairs, plus the removals and minus the insertions not yet counted;
for the total only if there are no delete iterators (`NoDelete`), and otherwise it is at least that.
`TypeCorrect`, that no counter falls below zero, then rests on the locks: an insertion holds its shard until
it has counted, so the pairs of uncounted insertions are all in (`Written`, `FewerThanWritten`).
`SubCountExact` and `TotalExact` follow. `NoIdIsUnmarked` and, without delete iterators, `PrimaryMarks` add
`PrimaryInv`: of racing removals the last to count sees the sub-bitmap empty (`EmptyMeansEmpty`), and no
insertion slips between that test and the clearing of the bit (`Cleared`). `DeleteMisses` rests on `DeleteInv`:
what an iterator must find is ahead of its position (`KeptAhead`), and every pair in the map is one it gets to
(`PairsReachable`), as the bits an insertion accepts are within the sub-bitmap. With no max_id an id past the primary
bitmap can have pairs (its insertion panics after the bit was set) that the iterator's end excludes; the
property says so. `hier_deletes` has a max_id, so that case is the proof's.
`TrackerImplementsTalliedSet` (without delete iterators) and `SubBitmapsImplementTalliedSet` (with them) need no more
than `Base`: each flip is a `Gain` or a `Lose` of one element, credited to the thread that made it, each count the
`Pay` of that thread, and a call that panics does so before its flip or after its counts, so owing nothing.
`SubCountExact`, `TotalExact` and, for the group iterators, `DeletersExclude` are stated as invariants in the modules but
are in no run: the runs check the refinements, which say more of every step.

`GroupIterProofs`, for all trackers, lists without repetition, ranges, policies and numbers of workers.
`TypeCorrect` needs `PlaceInv` (a write iterator that scans or claims is at a place of its list, and when it
claims, at an id below `MaxId`): with it every item set is one of the trackers'. `DeletersExclude` and `FlagsComeBack` rest on `FlagInv`: at each
stage of building, using and dropping a delete iterator it is known which flags it holds (`Stage`: those of the
trackers after the first `freed` and up to the first `taken` of its list), and a flag is set exactly if
somebody holds it, only one of them (`FlagsHeld`). `HandedOver` is inductive as it stands, with the typing:
only a claim of an unset item and the removal of a set one touch it. `GroupImplementsLockedPool` puts these together:
`FlagInv` makes each successful compare_exchange a `Take` and each store of false a `Give`, and says what is locked when
`Claim`, `ClaimPair` and the deleters' `Visit` become `HandOut` and `TakeBack`.

`SweepMisses` and `NoneMeansAllSet` add `IterInv`, for each iterator: the trackers and places behind a sweep have nothing it
had to find, whatever its filter (`SweepOK`), since an id with a promised pair keeps its sub-bitmap and is entered
(`KeptOK`, `MadeInv`); no cursor of a write iterator has passed an item that was unset throughout, and a tracker
that has one is not exhausted (`WriteOK`); and until a claim is lost there are turns enough left for the trackers
that are not exhausted (`TriesOK`), which is why None then means all of them are.

`TrackerIterProofs`, for all iterators, builders and setups. First come quotients: that the parts of a range are apart and
cover it (`PartsApart`, `PartsCover`), however many parts there are and whatever the last is cut to. Then each step is
classified once by what it does to one iterator (`NextKinds`, and `Turned` for the readers: it goes back, ends, moves on or
returns an item, and passes over nothing that it should have returned), and each property has an invariant that is shown
to survive these. They share the typing, with what each label means (`TypeInv`), and `StateInv`, that an item nobody touched
is as it was at the start. `ScansAreComplete` adds `ScanInv`: the items returned are in range (`RangeOK`), in order and behind the position (`InOrder`),
and what matches throughout and is behind was returned (`Complete`). `LimitsAreKept` adds `LimitInv`: the iterator's own count
is that of its items, and a late call returns none, a random iterator between its one check and its answer included; the
bound for the parts of one builder is the sum over them of the limit divided and rounded up (`FamilySize`). `DeletesAreComplete` adds `DeleteInv`:
whoever is at work owns the flag (`AloneInv`), what it returned is gone (`GoneInv`), and nothing is left behind it (`SweptInv`).
`WritersClaimApart` adds `WriteInv`: what was claimed is set and was claimed by one (`ClaimInv`), and if all writers read the cursor by one range,
every pair whose number is below the cursor is set or being claimed (`CoverInv`); that is where fetch_add before the claim
matters, since a pair fetched belongs to its fetcher only. Decoding is undone by `OneQuotient`.

`RandomVisitsAll` rests on number theory, proved in the same module. Each fact that a textbook proves by induction is proved by
choosing a least counterexample (`LeastOf`): `OddPart` is an odd divisor and the rest a power of two (`OddPartFacts`); a turn of Stein's
loop keeps the common divisors (`LoopTurn`), so the recursive function exists and is the greatest of them (`LoopDefined`,
`LoopValue`, `BinaryGcd`); hence all three branches of `find_coprime` are coprime with the size (`FindsCoprime`). Two steps with the
same index differ by a multiple of the size (`SameRemainder`, `CoprimeFactor`), so no two steps of a cycle do, and an injection of a finite
set into itself is onto (`StepsPermute`); reducing modulo 2^64 first does no harm if nothing wraps or if the size divides 2^64
(`PowersDivide`, `IndexOf`). The iterator's invariant, `RandomInv`, then says that a visitor has returned only indices of the steps behind
it, none twice, and all those whose id matched throughout (`VisitInv`); it needs that the primary bitmap of a simple tracker is its items
(`PrimaryInv`).

`KeyspaceProofs`, first about the operators. An id is a place in a word (`Split`, `Joined`, `InIds`), a count of ones is a
cardinality (`OnesOfIds`), and `Holds(r, m)`, that r's words, count, limit and length are those of the set m, is what
every operation preserves: `InsertHolds`, `RemoveHolds`, `Combined` (union, intersection, difference of sets of
different lengths) and `FromIterHolds`. The last is about a fold over a set: not by induction but by
choosing a least subset on which the fold is wrong (`LeastSubset`, from the well-foundedness of the strict subsets of
a finite set). `Compared` and `ComparedReference` say that comparisons are those of sets.

Then about the calls, by one invariant, `Invariant`. For each caller `SeenOK` says what a reading call has got of
the words or ids behind it, `BulkOK` what a writing one has left so far of the ids that nobody else touched and that its
number is that of its flips, `WalkOK` that a walk has every lasting tracker of the shards behind it. Others'
steps are summed up once (`Meanwhile`, `MeanwhileOK`), and each action has a lemma for its own caller. From it follow
`ReferencesAreExact`, `ChangesAreSeen`, `BulkIsExact`, `OneTracker` and `WalksAreSound`. Two parts of the
invariant are not about the properties and are needed for them: that what is registered has the prefix it is registered
under and that whatever is not registered was taken out (`RegistryOK`), and that a restore which panics on an id has done, or found done,
all that are less (the last but one line of `SetsSoFar`). `ReferenceSet`s grow no further than `Largest`; the ids
given to them are below it (`KeyspaceAssumption`), and `SetupAssumption` says of a setup that its ids fit its tracker.

`WordScanProofs`. `FindsAreFirst`, for slices and words of any size: a batch test that is exact (`OrFirst`, `AndFirst`, `LanesFirst`, `EightsFirst`)
and a choice that is the first hit of its batch (`ChainFirst`, the last word untested) find the first hit of all (`ScanFirst`), since every index before the end of a
batch lies in one (`Batched`). `CountsAreExact`, for the machines in `Counting`, which are all but those that take the AVX2 path (see
*Where code and documentation differ*; the run `popcount_avx2` refutes the property for these): a sum over a set is a cardinality (`SumOfSets`, by a least subset on which it is not), and
the batches and the rest are the slice (`BatchesAndRest`, `EightsEnd` for the batches of four that follow those of eight).

Only model-checked: liveness (`EveryIteratorEnds`, `NextReturns`), which is beyond the proof system. A clear's fetch_sub may overtake
the fetch_add of the set it undoes, and `count()` is then 2^64 - 1
for a moment; `CounterExactWhenQuiet` includes that wrap.

## Where code and documentation differ

Two are runs whose one property TLC refutes; `findings` in `PROJECT.json` quotes the text.

* `popcount_avx2`: `popcount_slice_avx2` adds two of its four partial counts, so `count_range` and `verify_count`
  leave out half of the words on machines with AVX2 and without AVX-512 VPOPCNTDQ.
* `iter_hang`: a sequential iterator with a duration and no fast path (no filter, a mixed ratio, or sampling) goes
  round its range for ever once the duration is over.

The others came out of the same models and have no run of their own:

* `verify_count` is load, compare, store: beside an update it leaves an exact counter wrong (in
  `bitmap_collects` with two threads that set, `CountExactWhenQuiet` fails).
* Write iterators over different ranges share one cursor: one is told None with its range unset.
* Two wrapping workers both clear the range, the later one after ids of the new round were handed out.
* The hierarchical `DeleteIter` leaves `hierarchical_count` as it was. (And the primary bit, which is why beside it
  only `NoIdUnmarked` holds.)
* `GroupWriteIter` starts its cursor at `id_min`, which in a hierarchical tracker it decodes as
  `id * max_sub_id + sub_id`: it claims pairs of ids below the range.
* `RandomIter` reduces its steps modulo 2^64 and then modulo the size of the range. For a size that is no power of
  two some ids come twice and some never, though `src/README.md:207` says that each is visited exactly once;
  `RandomVisitsOnce` is stated for the sizes where it holds.
* `RandomIter` with a duration looks at the clock once per call: with no id that matches, `next()` does not return.
* `AccessDistribution::Zipfian` with a skew of exactly 1.0 always returns index 0 (`Sample`).
* Bitmaps do not grow, though the docs say so, and ids past the initial capacity panic (`Panic` in `HierTracker`,
  `SinglePanics` in `Keyspace`); `remove_range` panics past the capacity where `add_range` stops at max_id.
* `WeightedRandom(ByCount)` returns None at once on a group with nothing set; unset pairs of an id without a
  sub-bitmap are not read, by `SequentialIter` and `PartitionedIter` either (left out of `Promised` in `GroupIter` and of
  `Steady` in `TrackerIter`: the pairs of an id that has one from the start are promised, under every filter).

## Limits of the models

* Interleaving semantics. The code uses Relaxed counters and AcqRel words; each property is about one location
  or about states in which all calls have returned, and no weak-memory reordering is modelled.
* `WriteIter` and `HierTracker` do not repeat the words' exchange loops (see *Modules*). In `TrackerIter` a
  simple tracker's bitmap is one word: scans over several, beside writers, are `AtomicBitmap`'s (`FindsSound`).
* `Keyspace` leaves out the population counters, and with them the verify_count at the end of
  populate_with_profile.
* A shard of the registry is visited in one step, as it is under its lock; which shards and in which order is
  DashMap's, and taken to be a fixed one.
* A panic unwinds, as in a debug or test build; with `panic = "abort"` the process ends there.
* The counters' arithmetic wraps as the hardware's atomics do. Sums of indices do not overflow at the sizes
  modelled; the places where they could are hazards, not yet covered.

## Not modelled

Left out: `GroupIter` in vertical and random order, the partition arithmetic of its builder and the choice by
weight among prefixes; size hints (they change nothing); probabilities, floating-point sampling and
`WorkloadProfile::select_operation` (what may be drawn is modelled, not how often); `IdCursor`, which the
library itself does not use; what a callback of `for_each` does with the shard locked (to register there blocks for ever); vector
intrinsics beyond their lanes, prefetching, benches and examples.

Still to do: the remaining orders of `GroupIter`. Its sweeps visit tracker by tracker; vertical order turns the
two loops round, and what a sweep has passed (`NotPast`) then depends on the id first.
