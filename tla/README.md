# A verification of roga's oblivious histogram

roga keeps counts for keys in a tree-shaped oblivious memory: appends and reads
access one path of buckets each, chosen by a pseudo-random function of the key,
and all branches and addresses are independent of the data. This directory holds
TLA+ models of the code under `crates/oram/src`, the TLC runs that check them on
small instances, and TLAPS proofs of what holds for every instance.

## 1. Inventory

| component | source | state it keeps | operations |
|---|---|---|---|
| Tree index and routing | `oblivious_histogram/{tree,routing}.rs` | none | height for a capacity, node on a path, leaf of a tag, rank key of a path |
| Histogram operations | `oblivious_histogram/{mod,ops}.rs` | tree memory, height, epoch, append and eviction counters, end of the sweep | `new`, `append`, `append_prepared_masked_batch`, `read_total`, `read_dummy`, `set_sweep_window_active`, `reset_metrics` |
| Stash | `oblivious_histogram/stash.rs` | path part and overflow part | `insert`, `insert_batch`, `read_from_path`, `merge_accumulate_for_path`, `read_and_remove`, `write_to_path`, counting of matching blocks |
| Resizing | `oblivious_histogram/resize.rs` | estimator window (`c_sum`, evictions), threshold, `k`, pending signal | `grow`, `enable_auto_resize`, `enable_deferred_auto_resize`, decision after an eviction, deferred growth |
| Blocks and reduction | `block.rs`, `oblivious/reduction.rs` | none | the running merge of equal sort keys |
| Bulk readout | `oblivious_histogram/mod.rs` (second half) | none | `readout`, tree-aware and subtree-partitioned readout, export |
| Sharded histogram, router | `sharded_oblivious_histogram/{mod,router}.rs` | pending batch, frontends, inboxes, shards, worker pool | `append`, `flush`, `read_total`, `grow`, deferred auto-resize, partitioned readout |
| Compaction, distribution | `oblivious/compaction.rs` | none | order-preserving compaction by shifts, its inverse |
| Sorting networks | `oblivious/djbsort.rs` | none | sort, merge of sorted runs |
| Constant-time primitives | `oblivious/ct.rs` | none | comparison, selection, conditional swap |
| Quota solver | `oblivious/binomial_solver.rs` | none | sub-quota for a failure probability |
| PRF | `oblivious/crypto.rs` | AES key schedule | tag of a key |
| Metrics | `metrics.rs` | timers, `peak_overflow` | accumulate, reset |
| Verification harness, benchmarks, third party | `crates/oram/verify`, `crates/oram-benchmarks`, `third_party` | not part of the program's logic | |

How they interact. The sharded histogram owns one histogram per shard; a flush
routes a batch through frontends on a thread pool, pads it per shard with masked
updates, hands each shard its inbox through `append_prepared_masked_batch`, and
then lets shard 0's resize signal grow all shards. A histogram calls its stash
for every path access, and its resize part after every eviction. Shards share
nothing else.

What is hard, and what would be correct:

* *Path accesses.* Copies of a key accumulate in the overflow and along a path;
  every access merges, sorts, assigns levels greedily and lays blocks out by the
  level counts only. Correct: each update is kept exactly once, on its key's
  path, within the slots (`HeldExactlyOnce`, `PathInvariant`, `WithinCapacity`;
  slot by slot `BlocksOnTheirPaths`, `EvictsAllThatFits`, `ImplementsCounts`).
* *Resizing in the middle of other work.* The storage doubles inside an append;
  old blocks are not moved; the eviction period halves for a sweep over the old
  leaves; epochs tell migrated blocks from new ones. Correct: reads still find
  everything (`KeepsPromise`), the sweep misses no leaf
  (`SweepVisitsEveryOldLeaf`), evictions keep their cadence (`EvictsEveryA`),
  the estimator counts each fresh key once (`EpochIsOldest`,
  `EstimatorCountsFreshKeys`, `WindowSamplesDistinctLeaves`).
* *Limits.* A stash, a bucket or a counter that is full; the panics that guard
  them (`NoStashPanic`, `WithinCapacity`), counts that wrap (`KeepsCounts`) or
  that a checked build refuses to add (`NoPanicBelowHalf`).
* *A sharded flush.* Frontends and shards are jobs of a thread pool, a frontend
  or a shard can panic between them, and growth waits for the end of the flush.
  Correct: each update reaches one shard once (`CountedOnce`,
  `DrainedAreDelivered`), a refused batch is dispatched in no part
  (`RefusedForGood`), shards grow in step and no signal waits (`ShardsInStep`),
  calls come back (`CallsReturn`), reads and readouts see everything
  (`ReadoutComplete`, `KeepsPromise`).
* *Networks and bit arithmetic.* Sorting, merging, compaction and distribution
  make the same comparisons and swaps whatever the data: every off-by-one at a
  length that is no power of two misplaces blocks silently (`MovesInOrder`,
  `SortsEveryInput`, `InBounds`, `Terminates`, `BranchFreeIsExact`).
* *Sizes computed from tails.* Quotas, inboxes, slacks and margins come from
  searches over binomial tails; a share of the failure probability that is
  forgotten shows in no test (`SizesCoverTails`, `SearchesAreTight`, `NoiseIsCovered`).

## 2. Modules

| module | models |
|---|---|
| `PathRouting` | index arithmetic: nodes, leaves, paths, shared levels, the sort order of a path access, the eviction order |
| `ObliviousHistogram` | one histogram with its stash, tree and resizing: the state machine |
| `KeyedUpdates` | abstract: a map from keys to the updates appended since the last read |
| `KeyedCounts` | abstract: a table of wrapping counts |
| `HistogramHistory` | the histogram plus history variables that remember the past for properties that compare with it |
| `StashSlots` | the stash and the tree slot by slot: sort keys, running reduction, level counts, marks, networks; a refinement of `KeyedCounts` |
| `Reduction`, `ReduceRuns` | the running reduction of equal neighbours, as operators and block by block |
| `Compaction`, `CompactionRuns` | the compaction and distribution networks, as operators and run on arrays |
| `SortingNetworks` | both sorts and the merge of sorted runs, comparison by comparison |
| `Readouts` | the four ways to read a tree and stash out |
| `ShardedHistogram` | the sharded histogram, its router, frontends and shards |
| `FrontendRouting` | the stages of one frontend's sub-batch |
| `QuotaSearch` | the solver's searches, with tails counted |
| `NoiseSampler` | the sampler of resize noise and its quantile |
| `PreparedKeys` | tag and payload of a key |
| `ConstantTime` | comparison, equality and exchange without branches |
| `MCBlockRoutines` | calls of `ReduceRuns` and `CompactionRuns` and, instantiated beside them, of `SortingNetworks` and `FrontendRouting` |
| `MCPrimitives` | the same for `ConstantTime`, `PreparedKeys`, `QuotaSearch` and `NoiseSampler` |
| `MCHistogram`, `MCHistory`, `MCInstances` | instances of the histogram, with and without history |
| `MCSharded`, `MCFrontend`, `MCReadouts`, `MCStashSlots` | instances of those modules |
| `BasicLemmas` | smallest and largest elements, division, and sums over finite sets |
| `PathAccessProofs` | the order of a path access is a strict total order that follows depth; bit-reversed counters visit every leaf before they visit one again; levels, layout and merging of one path access |
| `ObliviousHistogramProofs` | the inductive invariant and the theorems about the histogram; no update is ever held twice; how many overflow slots prevent every stash panic |
| `PromiseProofs` | the histogram implements `KeyedUpdates` and `KeyedCounts` |
| `HistogramHistoryProofs` | the properties that compare a histogram with its past: evictions, sweep, epochs, estimator |
| `ShardedHistogramProofs` | the inductive invariant of the sharded histogram, its theorems, and that it implements `KeyedUpdates` |
| `ReduceRunsProofs` | the running reduction merges every run exactly, at every length |
| `NetworkProofs` | compaction and distribution keep the order of what they move, at every length; what a frontend routes with them |

How they compose. `ObliviousHistogram` EXTENDS `PathRouting` and instantiates the
two abstract specifications with refinement mappings; `HistogramHistory` EXTENDS
it and conjoins `Observe` to every step. `ShardedHistogram` takes a shard to be
what `ObliviousHistogram` implements, a map from keys to updates, and itself
implements `KeyedUpdates`, over all shards and the pending batch. What one of its frontends
does in one step, `FrontendRouting` does stage by stage with the operators of
`Compaction` and `Reduction`. `StashSlots` is the slot-level counterpart of the
sets in `ObliviousHistogram`, built from the same two modules, and implements
`KeyedCounts` as the histogram does. `Readouts` uses them as well, and takes the
sorting networks to do what `SortingNetworks` shows of them: it checks that it
only merges runs for which that was shown.

### How state and actions correspond to the code

`physical_memory`, `height`, `epoch`, `append_ctr`, `evict_ctr` are the fields of
`ObliviousHistogram` (mod.rs:52-83), `sweep_end` the end of its sweep window,
`auto_resize` its optional `AutoResizeState`, `overflow` the second part of the
stash's blocks, `peak_overflow` the metric. `prf` fixes the tag of every key;
`result` is what the last call returned. `migrating` and `batch` are the loop
variables of `grow` and of `append_prepared_masked_batch`: those calls take one
step per path access or chunk, so that the state between iterations is checked,
and no other call may start in between since each holds `&mut self`.
`panicked` records the assertion that ended the program; after it nothing moves.

`AppendOne` is `append` with the eviction, the estimator and the automatic
resize it may trigger. `AppendChunk` is one iteration of the masked batch.
`ReadTotal` and `ReadDummy` are the reads. `BeginGrow` and `MigrateLeaf` are
`grow`; `DeferredGrow` is what a sharded flush does to each shard when shard 0
signals. A panic is an action of its own (`AppendOverflows`,
`AppendChunkOverflows`, `GrowPastMaxHeight`, ...) or the failing disjunct of
`write_to_path`.

In `ShardedHistogram`, `pending` is the router's buffer, `frontends` what each
frontend has done, `next_chunk` how far each shard's loop has come, `height`,
`shard_epoch` and `grow_signal` the shards' own fields that the sharded code
looks at. `call` and `stage` are the call in progress and where it is:
`begin` opens a call, `ProcessSubBatch` and `ProcessBatchChunk` are the bodies of
the two parallel loops, `Drain` the end of a flush, `HandleDeferredResize`,
`GrowShard` and `FinishGrow` the resize after it, `ReadShard`, `Readout` and
`EmitShard` what calls do after their flush. `Unwind` is a frontend's panic
reaching the caller, who may catch it and go on.

In `SortingNetworks` the variables `p`, `q`, `i`, `j` are those of the loops, each
action is a loop's body or exit, and `todo` the comparisons it entered. In
`Readouts`, `QuotaSearch`, `NoiseSampler` and `PreparedKeys` a `stage` is the
place in the function and an action one round of a loop or one phase.

### Abstractions

* A node index is the string of turns from the root; the code's integers are
  that string after a leading 1, so shifts are prefixes and `leading_zeros` of an
  exclusive-or is a common prefix.
* A block's value is the *set* of updates `<<number, amount>>` added up in it.
  This is finer than the code's sum: a lost, doubled or misplaced update shows
  even when the sum happens to agree. `KeepsCounts` maps it back to the code's
  sum modulo 2^w.
* A bucket is the set of its real blocks. Slots hold no other information: every
  access sorts, and dummies carry none. The layout is modelled as in the code,
  by level counts, not by the assignment it is meant to realise.
* In `ObliviousHistogram` the PRF is ideal: keys have different sort keys. With 63
  bits two keys collide with probability 2^-63. `FrontendRouting` and `Readouts`
  give keys equal tags, tags that differ in unsorted bits, and the tag 0.
* Noise and thresholds of the resize decision are floating-point draws; the model
  chooses any value of `Noise` and `ThresholdUnits`.
* The bucket that a sweep reads from the sibling path is dropped by the code
  after it was read (ops.rs:145-150), so it has no effect here.
* Timers are left out.
* `StashSlots` and `Readouts` sort with some order in which the keys ascend, as
  the networks do; with distinct sort keys there is one.
* A shard in `ShardedHistogram` has no slots: that it can panic at any time for
  want of one is `ShardPanics`. After it the model ends: what a half-dispatched
  batch means is not defined by the code.
* Tails in `QuotaSearch` are numbers of ways to hand keys to shards; the code's
  f64 sums are taken to be exact.

## 3. Runs

| run | instance | question |
|---|---|---|
| `core` | 2 keys in three relative positions, Z = 1, A = 2, S = 4, 6 appends, manual growth to height 2 | is any update lost, doubled, misplaced or misread, and can the stash overflow? |
| `auto_resize` | the same with auto-resize deciding with noise of both signs, 6 appends | evictions, sweep, epochs and estimator against the history |
| `limits` | 3 keys sharing a leaf, one overflow slot, amounts 1 and 3 in a word of 4 values, the benchmark's endless sweep | slots and wrapping counts up to the panic |
| `batches` | masked batches of up to 2 updates, A = 3, deferred growth on a signalling and on a following shard | do batches keep the promise of single appends? |
| `odd_interval` | A = 5, growth by hand | finding, section 5 |
| `stash_slots` | 3 keys, Z = 1, S = 2, heights 1 to 2, 3 updates single or in masked pairs, any leaf evicted at any time | are the slots, the marks and the networks what the sets say they are? |
| `readouts` | 3 keys, height 2, Z = 2, S = 2, copies at any depths and in the stash, shared tags, inboxes of 2 and 8 | do all readouts agree with the export? |
| `block_routines` | compaction and distribution of every marking up to 10 elements; sorts of every two-valued array up to 9 and merges of runs up to 16; the reduction of up to 4 blocks of 2 keys, dummies with values among them, in counters of 3 bits; sub-batches of 4 blocks of 3 keys with every assignment of 5 tags, quotas 1 to 3 | are the networks right away from powers of two, within bounds, to an end? what survives a reduction? does every block come to its shard, once and merged? |
| `primitives` | words of 4 bits, byte strings up to 4, types up to 40 bytes; pairs of keys of up to 4 one-bit bytes under all 24 ciphers of two-bit blocks; batches up to 16 over up to 3 shards and 4 frontends, slacks up to 12 keys, quantiles up to 8 keys; noise of a scale of 4 | comparison and exchange; do payload and tag agree on which keys are the same? do sizes and margins meet the probability they are asked for? |
| `sharded_calls` | 2 shards, 3 keys, three histograms: `Flushing`, `Growing`, `Routing` (below), under fairness | is every update counted once, do shards stay in step, do calls return, whatever the order of the jobs? |
| `sharded_leftover` | a batch of 3 over 2 frontends | finding, section 5 |
| `frontend_many` | 4 shards over a field of one bit | finding, section 5 |

Why these bounds are enough to be interesting. A tree of height 1 that grows to
2 has a root shared by all keys, a level that separates or joins two keys, and
blocks written before and after a resize. With one-slot buckets a second block
is displaced at once, so greedy assignment, displacement to the root and overflow
all occur within six appends, which are three evictions in the ordinary
cadence and six in a sweep: the sweep of the two old leaves completes. In `core` the
stash has a slot for each key and each append of an interval, the sizing under
which it must not overflow; in `limits` it is too small on purpose.
`HeldExactlyOnce` is a theorem for all calls (section 4); `core` alone checks it, `batches`
and `limits` check what it serves, the promise and the counts.
Growth stops at `MAX_TREE_HEIGHT` = 2, where the assertion that bounds the height
is reached as well. Deadlock is not checked: a model that has used its appends or
panicked may stop.

The bounds of the other runs. A compaction of 10 elements has a remainder that
itself has a remainder (10 = 2 + 8, 7 = 3 + 4, 3 = 1 + 2); a network that
sorts all two-valued inputs of a length sorts all inputs of it, and 9 elements make the sort
carry a cut block over to two shorter strides. `sharded_calls` starts from one of three
histograms, as its variable `setup` says. `Flushing` has two frontends, batches of 4, a quota
of 2 for a shard and 5 appends: a sub-batch of two blocks overflows a sub-quota of one
when two keys share a shard and does not when one key repeats; the second frontend may
still be at work when the first panics, and one shard may be a chunk ahead of the
other. `Growing` grows by hand and by signal up to the height limit, around 3
appends. `Routing` calls the router itself with up to 3 blocks over batches of 2 and
a quota for one key. In `stash_slots` three keys that lead to one leaf overfill a path of
two buckets of one slot, so the overflow is used, and growth separates them; the run
ends in the panic as well. In `readouts` inboxes of 2 fail and inboxes of 8,
longer than a local tree, take the fallback to the global sort. In `primitives` the
ways to hand out keys are at most 3^8 or 2^12, all of them listed, so that the tails that are
compared are exact.

Every property has a mutant in PROJECT.json: a plausible bug in a definition
(bits of the counter not reversed, sort key not rotated, epoch kept from the
newest copy, the slack of one side only, ...) that makes the run fail.

### Fairness

One histogram is a sequential object: each call ends when its loop does and
nothing must happen on its own, so its runs assume none. Two specifications do:

* `ShardedHistogram!FairSpec`: weak fairness of each frontend's job, of each
  shard's job, and of the calling thread's own code between them. The thread pool
  runs every job it was given, and none waits for another job of its loop. Calls
  are not fair: nothing makes a caller call, and a shard's panic is never forced.
  `CallsReturn` says that a call in progress comes back or ends in a panic or
  the consuming readout.
* `MCBlockRoutines!FairSpec`: weak fairness of the one thread that sorts. `Terminates`
  says that its nested loops end; its mutant runs forever.

## 4. What is proved

### One histogram

For every set of keys and amounts, bucket size, interval, stash size, height
limit and injective assignment of tags:

* `TypeCorrect`: `Spec => []TypeOK`;
* `BlocksStayOnPath`: `Spec => []PathInvariant`;
* `SlotsSuffice`: `Spec => []WithinCapacity`;
* `UpdatesHeldOnce`: `Spec => []HeldExactlyOnce`;
* `HistogramKeepsPromise`: `Spec => KeepsPromise`, the refinement of `KeyedUpdates`;
* `HistogramKeepsCounts`: `Spec => KeepsCounts`, the refinement of `KeyedCounts`;
* `SlotsPreventPanic`: `Spec => []NoStashPanic`, if S is at least the number of keys
  plus A and the interval of a sweep, max(A / 2, 1), divides A;
* `EvictionsEveryInterval`: `HSpec => []EvictsEveryA`, under the same condition on A;
* `SweepMigratesEveryLeaf`: `HSpec => []SweepVisitsEveryOldLeaf`, if the benchmark does
  not switch the sweep on and off;
* `WindowsSampleDistinctLeaves`: `HSpec => []WindowSamplesDistinctLeaves`, if nobody grows
  the tree by hand;
* `EpochOfOldestUpdate`: `HSpec => []EpochIsOldest`;
* `EstimatorIsExact`: `HSpec => EstimatorCountsFreshKeys`, an action property.

The last five are about `HSpec` of `HistogramHistory`, whose steps are those of the histogram with
`Observe` conjoined, so `IInv` is an invariant there as well. Each condition is needed
and none goes beyond the code. For an odd A of 5 or more
`EvictsEveryA` is false (section 5). `set_sweep_window_active(false)` ends a sweep
where it is, on purpose, and only benchmarks call it. `grow` by hand leaves the open window as it is (section 6),
so the leaves it sampled are those of two trees.

The inductive invariant `IInv` adds to the types that every bucket is a finite
set of at most Z blocks with different keys, each on its key's path (`TreeOK`),
and that the overflow is a finite set of at most S blocks (`StashOK`).
Finiteness is needed because counts are cardinalities.
The argument has seven layers.

1. *Order* (`PathAccessProofs`, first half). Comparing rotated tags is a strict total order
   (`RankIrreflexive`, `RankTransitive`, `RankTotal`), and a block that sorts
   first shares at least as many levels with the evicted path
   (`RankFollowsDepth`). The eviction order: the reversed bits of a counter
   determine its remainder modulo the number of leaves (`SameLeafSameRemainder`), and
   counters less than that number apart have different remainders
   (`DistinctRemainders`). Hence short runs of evictions visit different leaves
   (`VisitsAreDistinct`), and one as long as there are leaves, counted by
   `LeavesCounted`, visits all (`VisitsAreComplete`).
2. *One access* (`PathAccessProofs`, second half). The recursion that assigns levels is well
   founded (`LevelsExist`, by a smallest counterexample among the sets of blocks
   and a last block of it). A block gets the deepest free level it may use
   (`GreedyLevel`); since free levels only disappear, levels descend in sorted
   order (`LevelsDescend`); therefore cutting the sorted sequence by the counts
   gives back the assignment (`LayoutIsAssignment`), and no level gets more than
   Z blocks (`LevelsFit`).
3. *The state machine* (`ObliviousHistogramProofs`). A path write re-establishes
   `TreeOK` and `StashOK` (`PathWritten`), doubling keeps them (`Doubled`), and
   each action preserves `IInv` (one lemma per action, `NextInv`).
4. *Conservation* (`ObliviousHistogramProofs`, second part). `HeldExactlyOnce` is not
   inductive: a new block could repeat an update that is already stored.
   `HeldInv` adds that every stored update's number is at most `append_ctr`
   (`Issued`), so that new numbers are fresh. What an access gathers is apart from
   itself and from the blocks off its path (`GatheredApart`); merging keeps that
   (`MergedApart`), and so does laying out, because each place takes the blocks of
   one level (`WrittenApart`); doubling only adds empty buckets
   (`DoubledAccounted`).
5. *Refinement* (`PromiseProofs`). What a key holds is the union of the values of
   its stored blocks (`Content`). Merging adds values up (`MergedContent`); an
   access splits the stored blocks into what it reads and `OffPath`, and writes
   back all of the first (`ReadAndOffPath`, `WrittenAndOffPath`), so evictions,
   dummy reads, migrations and resizes change no content. A read takes everything
   because, by the path invariant, no block of the key is off the path it reads.
   `PromiseInv` adds that a pending batch is within `MaxBatch`.
   The counts follow from the contents. `CountInv` adds that what a key holds is a finite set of
   updates with numbers up to `append_ctr` (`Numbered`). The sum over a finite set, a recursion
   over its subsets, exists (`SumsExist`) and is additive over disjoint sets (`WeightUnion`)
   and under renaming (`WeightImage`), all in `BasicLemmas`. An append gives each key updates
   with new numbers, one for each entry of its (`NewUpdates`), so that its
   total grows by what the entries carry (`AppendCounts`), modulo the word as in the code
   (`RemainderOfSum`).
6. *Room* (`ObliviousHistogramProofs`, last part). After any access the overflow holds at most one
   block for each key (`AccessRoom`), and since the current interval divides A an
   eviction happens at every multiple of A; so the overflow never exceeds the
   number of keys plus `append_ctr % A` (`RoomInv`). Without divisibility the bound is
   not inductive: toggling the sweep window at the right appends postpones
   evictions past A (section 5).
7. *History* (`HistogramHistoryProofs`). None of the properties is inductive, because
   each looks at one moment (the end of a sweep, an eviction) and leaves open how the past
   led there. Four invariants say it for every moment.
   `SweepInv`: the leaves visited since the last growth are those of an unbroken run of
   eviction counters that began where the sweep did; a sweep that is over is
   as long as the old tree had leaves, and what a leaf of the doubled tree migrates is
   its parent's path (`ParentVisited`). `WindowInv`: the leaves sampled are those of the last
   evictions, fewer than k, and k is at most the number of leaves (`WindowSize`).
   `IntervalInv`: the updates since an eviction are at most `append_ctr % A`, as in layer 6.
   `DatesInv`: every update has the epoch of its append on record, none lies in the future, and every
   stored block is non-empty with the smallest of its updates' epochs; merging
   takes the smaller of two smallest (`OldestDate` and the lemmas after it). Since all copies of a key on a path
   end in one block, whose epoch is current only if all its updates are, counting blocks counts
   fresh keys (`EstimatorIsExact`).

### The sharded histogram

For every set of keys, assignment of keys to shards, number of shards and frontends,
batch, quota and order in which the pool runs the jobs:

* `ShardedTypeCorrect`: `Spec => []TypeOK`;
* `UpdatesCountedOnce`: `Spec => []CountedOnce`;
* `AccessesAreEqual`: `Spec => []EqualAccesses`;
* `ShardsStayInStep`: `Spec => []ShardsInStep`;
* `ReadoutsAreComplete`: `Spec => []ReadoutComplete`;
* `RefusalIsFinal`: `Spec => RefusedForGood`, an action property;
* `DrainLosesNothing`: `Spec => DrainedAreDelivered`, if the number of frontends divides
  the batch (`EvenBatches`);
* `ShardedKeepsPromise`: `Spec => KeepsPromise`, the refinement of `KeyedUpdates`, under the
  same condition.

Without `EvenBatches` the last two can fail: that is the finding `sharded_leftover`. The
other six need no such condition; an update that is lost is not counted twice.

`IInv` of `ShardedHistogramProofs` consists of parts that say what a call left behind at each
stage, because the properties speak of moments between calls or of the end of a loop.

* `StageInv`: which call can be at which stage, and that frontends, chunks and `growing` are at
  rest outside the stage that uses them.
* `FrontendInv`: a frontend that is done has exactly the blocks its sub-batch routes to, within
  its quota, and no shard starts before all frontends are done. `RefusedForGood` needs it: a batch that
  a frontend refused gets no shard started, and since routing is a function of the batch
  it is refused again.
* `LengthInv`: how much is pending at each stage; after a refusal (`caught`) the batch
  stays at the front, however much is appended behind it.
* `UpdateInv`: numbers are fresh (`Numbered`), pending updates are apart (`PendingApart`), shards hold
  their own keys only (`KeysAtHome`), and a pending update is in its shard exactly from
  the moment its chunk was processed (`DeliveredInOrder`). `CountedOnce` is not inductive without the
  last: it says nothing of a block whose chunk has been taken while another shard's has not.
* `AccessInv`: in a flush each shard has as many accesses as chunks behind it, and in a read one
  more after its turn than before.
* `ReadoutInv`: what was emitted so far is what the shards outside `unread` hold.
* `GrowthInv`: shards that already grew in this resize are one height and one epoch ahead of the
  others (`HeightsInStep`, `EpochsInStep`), and the public epoch is behind both (`EpochBehind`). Epochs stop
  at 255, heights do not, so neither follows from the other.
* `SignalInv`: a signal exists only from the chunks of a flush to its end.

The refinement takes a key's updates to be those its shard holds together with those in the
pending batch (`Pending`). The step that buffers blocks is the abstract append (`AppendRefines`), the
turn of the key's own shard in a read is the abstract read (`ReadRefines`: nothing is pending
then, and no other shard holds the key). `ProcessBatchChunk` only adds to a shard what is still in the batch,
`Drain` takes off the batch only what the shards have (`PendingMoved`), and all other steps change neither.

### The reduction of equal runs

For every length, word width, time limit and set of records:

* `RunsAreReduced`: `Spec => []SurvivorsHoldTheirRuns`;
* `NoOverflowBelowHalf`: `Spec => []NoPanicBelowHalf`.

`RunInv` says it for every round of the loop (`Step`). A block that was read is left real just when it
ends its run as far as that was read, and then holds what the run gathered (`ReadInv`); blocks ahead are
as they came (`UnreadInv`); and the accumulator holds the totals (`total`, `oldest`) of the run of the last real
block, however many dummies came after it (`AccInv`). The round itself is
the lemma `TotalContinues`: the totals of a run one block longer are those of the run combined with the block, for sums
modulo the word (`WeightRemove`), smallest and largest times (`MinWithOne`, `MaxWithOne`) and
unions of flags. The second theorem needs one fact more (`OverflowMeansHalf`). The loop adds the accumulator and the
next block also when they are not of one run; but the one is part of the total of a run (`RunGrows`) and
the other a single record, and two numbers that fill a word are not both below half of it.

### Compaction and distribution

For every array shorter than 2^30 and all marks:

* `NetworksMoveInOrder`: `CompactionSpec => []MovesInOrder`.

A network moves elements without looking at them, so `Compaction` describes it as the slot
whose element each slot gets: `compact_halves` and `compact_parts` are one step of the
two recursions, `distribute_halves` and `distribute_parts` the same step with its swaps done first. The
recursions have solutions (`SolutionExists`), because each step is to a smaller length. The argument:

1. *Two halves* (`CompactsHalves`). A power of two is compacted not to its front but cyclically, from an
   offset z on (`Compacts`). The c-th marked element of the left half belongs to slot z + c modulo
   the length, and its half has brought it there or to the slot across; the comparison with `zright`
   exchanges just those that are across (`LeftTarget`). The same holds for the right half, after the m
   marks of the left one (`RightTarget`).
2. *The part beyond a power of two* (`CompactsParts`). The left part is compacted to its front, the
   right part from the offset `right_offset` on, and the exchange of the slots from m on closes
   the gap between them.
3. *The inverse* (`InvertsHalves`, `InvertsParts`). An exchange undoes itself, so distribution takes every slot
   back to where compaction with the same marks took it from.
4. *The marks* (`PrefixMarks`, `RankTaken`). Prefix sums count the marks before a slot, which
   is its rank, and every rank up to their number is taken. So the r-th element of the
   front finds the r-th marked slot, although the marks of `Distribute` are not those of
   `Compact`.

The bound is that of `leading_power`, which takes the powers up to 2^30, the largest TLC can
compute; an array of 2^30 blocks does not fit in memory.

### What a frontend routes

For every set of keys with their tags, sub-batch, order in which a sort may leave it, number of
shards, quota and widths of the fields of tag and sort key, if arrays are shorter than 2^30
(`FrontendSizes`; the number of shards need not be a power of two):

* `UpdatesRoutedOnce`: `Spec => []EveryUpdateOnce`;
* `RoutedWhereShardsFit`: `Spec => []RoutedToOwnShard`, if the shard fits its field of the sort key
  (`ShardsFit`: 64 shards in the code);
* `MergedWhereShardsFit`: `Spec => []MergedUnlessTagsCollide`, under the same condition.

Without `ShardsFit` the second fails: that is the finding `frontend_many`. The first needs no such
condition: a block in a slot of another shard is there once all the same. `RoutingInv` says
after each stage what is kept of the blocks (`Kept`): the real ones are of keys of the
sub-batch under their tags, every key's values add up to the same, and if shards fit, real blocks
ascend by shard and two of one key share their sort key with another key.

1. *Sorting and reduction*. The two lower fields of a sort key are below the upper one
   (`SortKeyParts`), so ascending sort keys put shards in order and keep dummies out from between
   real blocks of equal sort keys (`SortKeyOrder`). One round of the reduction moves a block's value
   to its neighbour of the same key or does nothing (`PassGoesOn`), which keeps the
   sum (`MergeKeeps`); behind it no two neighbours are real and of one key (`Reduced`). So a
   key that still has two real blocks has one of another key between them, with the
   same sort key (`ReducedKept`).
2. *Compaction*. By the theorem on networks the real blocks come to the front in their
   order, and only dummies are blanked behind them (`CompactRealsKeeps`); what moves real
   blocks in order keeps all of the above (`CarriedBlocksKept`).
3. *Distribution*. If no load exceeds the quota, the slots marked are as many as the blocks
   (`SlotsFit`) and the cut to the routed length takes none. The r-th slot of a shard comes
   after as many slots as there are blocks of the shards before it (`RankOfSlot`), and since blocks
   ascend by shard the block of that rank is one of the shard's (`ShardOfRank`).
4. *Panics*. If a load exceeds the quota (`Overfull`), the blocks counted are of different keys
   unless two share a sort key, so the shard has more keys than its quota (`OverfullMerged`).

### Assumptions and limits

The assumptions used are those the modules state by name: sizes are positive, the
keys are finite, amounts are natural numbers (`AmountAssumption`), the fields of a flow record are
words (`WordAssumption`, `ValueAssumption`), `PrfAssumption`, the ideal PRF, and for the sharded histogram
`HeightAssumption`, that shards start at a height the limit allows (tree.rs asserts
it when a shard is made), `KeyAssumption`, that the key of a dummy block is no key, and
`ArrayAssumption`, the bound on the length of an array.

Only model-checked: liveness (`CallsReturn`, `Terminates`), and the modules of section 2
that have no proof module. `Readouts` and `StashSlots` are each a
composition of sorts, merges, reductions and compactions. The last two are proved; the
sorts are not, in `FrontendRouting` neither (its theorems hold for whatever order with ascending
sort keys a sort leaves), because `SortingNetworks` is recursive over sequences and right by the 0-1
principle, an induction over networks. `ConstantTime` and `PreparedKeys` are
built on bitwise operators, `QuotaSearch` and `NoiseSampler` compare with counts of listed
functions, and induction over data through the library's induction
theorems is out of the prover's reach. Where the proofs above need induction they use minimal
elements of finite sets instead (a smallest counterexample), and `leaf_count(h)` = 2^h is
counted as the number of sets of positions among h bits.

## 5. Findings

*Odd intervals postpone evictions* (run `odd_interval`). While a sweep is active
the interval is `max(A / 2, 1)` and an append evicts when its counter is a
multiple of the current interval (ops.rs:72-92). For an odd A of 5 or more the
multiples of A/2 do not include those of A: with A = 5, a `grow()` after four
appends makes the next eviction come at the sixth. The documentation of the type
(mod.rs:45-50) says that an eviction happens every A operations. For A = 1, 3 and
even A the property holds (run `auto_resize` checks A = 2).

*A batch that does not divide loses its rest* (run `sharded_leftover`). A flush
zips frontends with chunks of `batch / frontends` blocks (mod.rs:250-258). With a
batch of 3 and 2 frontends there are three chunks of one block, the third has no frontend, and
the batch is cleared (mod.rs:272): its update is gone, without an error. The
comment at mod.rs:228 says that a flush flushes all pending updates.

*More than 64 shards* (run `frontend_many`). A frontend's sort key has six bits for
the shard (mod.rs:123), and no assertion limits the number of shards. With
more, blocks are sorted as if shard 64 were shard 0, and then distributed to slots of
other shards. The run shows it with a field of one bit and four shards.

Three things worth knowing that contradict no statement about counts. `handle_deferred_resize`
grows every shard, and with it the shard's epoch, but not the sharded histogram's public field
`epoch` (mod.rs:583-602), which mod.rs:294 calls the global resize epoch; shards stamp
blocks with their own, so counts are not affected, and `ShardsInStep` says only that the
field never runs ahead. A frontend
panics when a load exceeds the sub-quota, while the solver bounds the probability that it
reaches it: the quota is larger than needed by one. And `binom_ppf` starts its walk three
deviations below the mean, so for a probability below about 0.00135 it answers
its starting point; the run `primitives` asks for larger ones.

## 6. Not modelled, and why

* Floating point: the evaluation of tails, logarithms and exponentials in the quota
  solver, the thresholds of a resize (`dp_det_threshold`, `dp_epoch_units`), and how the
  sampler's cutoff follows from epsilon. Decisions that depend on them are
  nondeterministic, searches over them are exact.
* AES itself: `PreparedKeys` takes any permutation of blocks.
* Constant time: a property of compiled code, checked by the repository's own
  harness (`crates/oram/verify`), which drives a binary analyser and keeps no state.
* Metrics other than `peak_overflow`, which are timers; re-exports and macros of the
  crate root; benchmarks and third-party code.
* What a caller that catches a panic from *inside* a shard may still do with the
  histogram: the code defines nothing.
* Manual growth with an open estimator window does not reset it (resize.rs:371):
  what the estimate should then mean is stated nowhere, so runs that check the
  estimator leave manual growth out.
* A key whose tag is 0 is a dummy (routing.rs:62); its probability is 2^-64.

## 7. Plan

What is left to prove is what the block routines do that does not
need induction over sequences, such as that the phases of `Readouts` hand on what they were given.
