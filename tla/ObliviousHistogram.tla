------------------------- MODULE ObliviousHistogram -------------------------
(***************************************************************************)
(* One ObliviousHistogram: crates/oram/src/oblivious_histogram/{mod,ops,    *)
(* stash,resize}.rs.  A key's blocks live in buckets along the path to its  *)
(* leaf, or in the overflow part of the stash.  Appending buffers a block   *)
(* in the overflow; every evict interval one path is read into the stash,   *)
(* merged with it and written back as deep as the buckets allow.            *)
(*                                                                         *)
(* A block's value stands for what was added up in it: the set of updates   *)
(* <<number, amount>> it aggregates, so that adding two values is their      *)
(* union.  A bucket is the set of its real blocks (dummies are its free      *)
(* slots), and so is the overflow part; the path part of the stash is empty *)
(* between calls.  Every method takes &mut self, so calls never overlap; a   *)
(* call that loops over path accesses takes one step per iteration, and no  *)
(* other call starts before it is done.                                     *)
(***************************************************************************)
EXTENDS PathRouting

CONSTANTS
  Key, Amount,
  Z, A, S,            \* bucket size, evict interval, overflow slots
  BlockCapacities,    \* arguments of new
  PrfKeys,            \* the possible prf: functions from keys to tags
  TCapacities,        \* AutoResizeConfig.t_capacity
  AutoModes,          \* how auto-resize is enabled: [deferred, emits_grow_signal]
  ThresholdUnits,     \* outcomes of dp_epoch_units, which draws noise
  Noise,              \* outcomes of a CtDiscreteLaplace sample
  Benchmarking,       \* whether set_sweep_window_active is called
  ManualGrow,         \* whether grow is called
  MaxAppends,         \* bound: how many updates are appended
  MaxBatch,           \* bound: updates in one masked batch, 0 for no batches
  Modulus,            \* 2^w for values of w bits
  SweepForever        \* u64::MAX, past every value of evict_ctr

VARIABLES
  prf,                \* prf_tag of every key, fixed by new
  physical_memory,    \* the bucket of every node
  overflow,           \* the real blocks of the stash's overflow part
  height, epoch,
  append_ctr, evict_ctr,
  sweep_end,          \* the value of evict_ctr that ends the post-resize sweep
  auto_resize,
  peak_overflow,      \* metrics.peak_overflow
  result,             \* what the last call returned
  migrating,          \* leaves a grow call has still to rewrite
  batch,              \* updates a masked batch has still to insert
  panicked            \* "no", or the assertion that ended the program

vars == <<prf, physical_memory, overflow, height, epoch, append_ctr, evict_ctr,
          sweep_end, auto_resize, peak_overflow, result, migrating, batch, panicked>>
calls == <<result, migrating, batch>>

ASSUME BucketAssumption == Z \in Nat \ {0}
ASSUME IntervalAssumption == A \in Nat \ {0}
ASSUME StashAssumption == S \in Nat
ASSUME KeyAssumption == IsFiniteSet(Key)
ASSUME AmountAssumption == Amount \subseteq Nat
ASSUME CapacityAssumption ==
  \A c \in BlockCapacities : tree_height_for_capacity(c, Z) \in 1..MAX_TREE_HEIGHT
\* The PRF is ideal: the part of a tag that blocks are sorted by differs from
\* key to key.  (Two keys that share it come together with probability 2^-63.)
ASSUME PrfAssumption ==
  /\ PrfKeys \subseteq [Key -> Tag]
  /\ \A f \in PrfKeys : \A k, l \in Key : k # l => f[k] # f[l]
ASSUME AutoAssumption ==
  /\ TCapacities \subseteq Nat
  /\ AutoModes \subseteq [deferred : BOOLEAN, emits_grow_signal : BOOLEAN]
  /\ ThresholdUnits \subseteq Int
  /\ Noise \subseteq Int
ASSUME BoundAssumption ==
  /\ MaxAppends \in Nat
  /\ MaxBatch \in Nat
  /\ Modulus \in Nat \ {0}
  /\ SweepForever \in Nat
  /\ Benchmarking \in BOOLEAN
  /\ ManualGrow \in BOOLEAN

Update == Nat \X Amount
Block  == [key : Key, epoch : Nat, value : SUBSET Update]
\* An update of a batch.  A masked one fills a slot with some key and the value 0.
Masked == [key |-> CHOOSE k \in Key : TRUE, amount |-> 0, cond |-> 0]
Entry  == [key : Key, amount : Amount, cond : {1}] \cup {Masked}

Panics == {"insert", "batch insert", "write_to_path", "max height"}

\* Option<AutoResizeState>: enabled is whether there is one.
AutoResizeState ==
  [enabled : BOOLEAN, deferred : BOOLEAN, emits_grow_signal : BOOLEAN,
   pending_grow : BOOLEAN, k : Nat, t_capacity : Nat, t_hat_units : Int,
   evictions_since_check : Nat, c_sum : Nat, total_resizes : Nat]

NoAutoResize ==
  [enabled |-> FALSE, deferred |-> FALSE, emits_grow_signal |-> FALSE,
   pending_grow |-> FALSE, k |-> 1, t_capacity |-> 0, t_hat_units |-> 0,
   evictions_since_check |-> 0, c_sum |-> 0, total_resizes |-> 0]

\* Between calls, of a program that has not panicked.
Idle == migrating = 0 /\ batch = <<>> /\ panicked = "no"

sweep_active == evict_ctr < sweep_end

-----------------------------------------------------------------------------
(***************************************************************************)
(* One path access: read_from_path, merge_accumulate_for_path and           *)
(* write_to_path, for the path to leaf.                                      *)
(***************************************************************************)

\* read_from_path fills the path part of the stash; stash is its overflow part.
read_from_path(stash, leaf) ==
  stash \cup UNION {physical_memory[n] : n \in path(leaf, height)}

\* Mutants: the newest epoch is kept, one copy's value is kept.
Mut_reduce_keeps_newest_epoch(blocks) ==
  {[key   |-> k,
    epoch |-> Max({b.epoch : b \in {c \in blocks : c.key = k}}),
    value |-> UNION {b.value : b \in {c \in blocks : c.key = k}}] :
     k \in {b.key : b \in blocks}}
Mut_reduce_keeps_one_copy(blocks) ==
  {CHOOSE b \in blocks : b.key = k : k \in {b.key : b \in blocks}}

\* merge_accumulate_for_path leaves one block for each key: values are added up
\* and the smallest epoch is kept.
merge_accumulate(blocks) ==
  {[key   |-> k,
    epoch |-> Min({b.epoch : b \in {c \in blocks : c.key = k}}),
    value |-> UNION {b.value : b \in {c \in blocks : c.key = k}}] :
     k \in {b.key : b \in blocks}}

\* The blocks that sort_reduce places ahead of b.
ahead_of(blocks, b, leaf) ==
  {c \in blocks : ranks_before(prf[c.key], prf[b.key], leaf, height)}

Overflow == -1

\* Mutant: one block too many is let into a bucket.
Mut_assign_overfills(blocks, level, b, leaf) ==
  {l \in 0..deepest_shared_level(leaf, prf[b.key], height) :
     Cardinality({c \in ahead_of(blocks, b, leaf) : level[c] = l}) <= Z}

\* The levels of the path shared with b that have a free slot when b's turn comes.
free_levels(blocks, level, b, leaf) ==
  {l \in 0..deepest_shared_level(leaf, prf[b.key], height) :
     Cardinality({c \in ahead_of(blocks, b, leaf) : level[c] = l}) < Z}

best_level(blocks, level, b, leaf) ==
  LET room == free_levels(blocks, level, b, leaf)
  IN IF room = {} THEN Overflow ELSE Max(room)

\* The level each block is assigned, in sorted order: the deepest one on both
\* paths with a free slot, or Overflow.
assigned_level(blocks, leaf) ==
  LET level[b \in blocks] == best_level(blocks, level, b, leaf) IN level

\* The layout keeps only how many blocks each level was assigned: the sorted
\* blocks are dealt out in that order, leaf first, the rest to the overflow.
level_count(level, l)   == Cardinality({b \in DOMAIN level : level[b] = l})
deeper_count(level, l)  == Cardinality({b \in DOMAIN level : level[b] > l})
overflow_count(level)   == level_count(level, Overflow)

laid_out(level, l, leaf) ==
  {b \in DOMAIN level :
     LET before == Cardinality(ahead_of(DOMAIN level, b, leaf))
     IN /\ before >= deeper_count(level, l)
        /\ before < deeper_count(level, l) + level_count(level, l)}

\* Mutant: dummies do not replace what a bucket held.
Mut_dummies_not_written(level, leaf) ==
  [n \in Node(height) |->
     IF n \in path(leaf, height)
       THEN physical_memory[n] \cup laid_out(level, Len(n), leaf)
       ELSE physical_memory[n]]

\* The tree and the overflow part after the write.
written_memory(level, leaf) ==
  [n \in Node(height) |->
     IF n \in path(leaf, height) THEN laid_out(level, Len(n), leaf)
                                 ELSE physical_memory[n]]
written_overflow(level, leaf) == laid_out(level, Overflow, leaf)

update_peak_overflow(stash) ==
  peak_overflow' = Max({peak_overflow, Cardinality(stash)})

Panic(where) == panicked' = where

\* Mutant: the path part is taken off the overflow's slots.
Mut_path_counted_twice(level) == overflow_count(level) < S - Z * (height + 1)

\* write_to_path panics unless it leaves one overflow slot free.
fits(level) == overflow_count(level) < S

\* A call that ends with write_to_path.  (The buffers an unwinding call leaves
\* half rearranged are not represented: nothing reads them again.)
write_to_path(blocks, leaf) ==
  LET level == assigned_level(blocks, leaf)
  IN \/ /\ fits(level)
        /\ physical_memory' = written_memory(level, leaf)
        /\ overflow' = written_overflow(level, leaf)
        /\ UNCHANGED panicked
     \/ /\ ~fits(level)
        /\ Panic("write_to_path")
        /\ UNCHANGED <<physical_memory, overflow>>

-----------------------------------------------------------------------------
(***************************************************************************)
(* Resizing.                                                                *)
(***************************************************************************)

\* The smaller of leaf_count and the cube root of t*l/a^2, rounded down, at least 1.
dp_initial_k(t, l) == Max({1} \cup {r \in 1..l : r^3 * A^2 <= t * l})

effective_t_capacity(t) == t * Max({Z \div 4, 1})

\* Mutant: the storage stays as it is.
Mut_storage_not_resized(mem) == mem

\* resize of the vector: old nodes keep their index, new leaves are dummies.
doubled(mem) ==
  [n \in Node(height + 1) |-> IF n \in Node(height) THEN mem[n] ELSE {}]

new_sweep_end(ctr) == ctr + leaf_count(height)

\* mem and ctr are the memory and the eviction counter at the time of the call.
grow_physical_storage(mem, ctr) ==
  /\ height < MAX_TREE_HEIGHT
  /\ physical_memory' = doubled(mem)
  /\ height' = height + 1
  /\ epoch' = Min({epoch + 1, 255})
  /\ sweep_end' = new_sweep_end(ctr)

on_tree_grown(auto, new_height, t_hat) ==
  LET t == 2 * auto.t_capacity
  IN [auto EXCEPT !.total_resizes = @ + 1,
                  !.t_capacity    = t,
                  !.k             = dp_initial_k(effective_t_capacity(t), leaf_count(new_height)),
                  !.t_hat_units   = t_hat]

\* Mutant: blocks from before the resize are counted too.
Mut_count_ignores_epoch(blocks, leaf) ==
  {b \in blocks : to_leaf(prf[b.key], height) = leaf}

\* The blocks an eviction counts: real, of the evicted leaf, of this epoch.
matching_blocks(blocks, leaf) ==
  {b \in blocks : to_leaf(prf[b.key], height) = leaf /\ b.epoch = epoch}

record_eviction(auto, blocks, leaf) ==
  IF auto.enabled
    THEN [auto EXCEPT !.c_sum = @ + Cardinality(matching_blocks(blocks, leaf)),
                      !.evictions_since_check = @ + 1]
    ELSE auto

should_check_epoch(auto) ==
  /\ auto.enabled
  /\ auto.emits_grow_signal => ~auto.pending_grow
  /\ auto.evictions_since_check >= auto.k

\* Mutant: the number of evictions is not reset with their sum.
Mut_window_not_reset(auto) == [auto EXCEPT !.c_sum = 0]

\* The window that evaluate_signal closes.
window_closed(auto) == [auto EXCEPT !.c_sum = 0, !.evictions_since_check = 0]
reset_counters(auto) == [window_closed(auto) EXCEPT !.pending_grow = FALSE]

\* check_and_maybe_resize_post_eviction, with the memory and accounting the
\* eviction arrived at.
check_and_maybe_resize(mem, auto) ==
  \/ /\ ~should_check_epoch(auto)
     /\ physical_memory' = mem
     /\ auto_resize' = auto
     /\ UNCHANGED <<height, epoch, sweep_end, panicked>>
  \/ /\ should_check_epoch(auto)
     /\ \E eta \in Noise :
          LET grow_signal == auto.c_sum + eta > auto.t_hat_units
              evaluated   == window_closed(auto)
          IN \/ /\ auto.deferred
                /\ physical_memory' = mem
                /\ auto_resize' = IF auto.emits_grow_signal
                                    THEN [evaluated EXCEPT !.pending_grow = grow_signal]
                                    ELSE evaluated
                /\ UNCHANGED <<height, epoch, sweep_end, panicked>>
             \/ /\ ~auto.deferred /\ ~grow_signal
                /\ physical_memory' = mem
                /\ auto_resize' = evaluated
                /\ UNCHANGED <<height, epoch, sweep_end, panicked>>
             \/ /\ ~auto.deferred /\ grow_signal
                /\ grow_physical_storage(mem, evict_ctr + 1)
                /\ \E t_hat \in ThresholdUnits :
                     auto_resize' = on_tree_grown(evaluated, height + 1, t_hat)
                /\ UNCHANGED panicked
             \/ /\ ~auto.deferred /\ grow_signal /\ height = MAX_TREE_HEIGHT
                /\ Panic("max height")
                /\ physical_memory' = mem
                /\ auto_resize' = evaluated
                /\ UNCHANGED <<height, epoch, sweep_end>>

-----------------------------------------------------------------------------
(***************************************************************************)
(* Appending.  stash is the overflow part with the new blocks in it.        *)
(***************************************************************************)

\* Mutant: the sweep evicts half as often instead of twice.
Mut_interval_doubled == IF sweep_active THEN 2 * A ELSE A

current_evict_interval == IF sweep_active THEN Max({A \div 2, 1}) ELSE A

\* The sibling bucket that a sweep reads goes to scratch memory and is dropped.
evict_after_insert(stash) ==
  LET leaf   == bit_reversed_leaf(evict_ctr, height)
      blocks == merge_accumulate(read_from_path(stash, leaf))
      level  == assigned_level(blocks, leaf)
  IN /\ evict_ctr' = evict_ctr + 1
     /\ \/ /\ fits(level)
           /\ overflow' = written_overflow(level, leaf)
           /\ update_peak_overflow(written_overflow(level, leaf))
           /\ check_and_maybe_resize(written_memory(level, leaf),
                                     record_eviction(auto_resize, blocks, leaf))
        \/ /\ ~fits(level)
           /\ Panic("write_to_path")
           /\ overflow' = stash
           /\ auto_resize' = record_eviction(auto_resize, blocks, leaf)
           /\ UNCHANGED <<physical_memory, height, epoch, sweep_end, peak_overflow>>

\* The eviction that ends an append when the counter reaches ctr.
finish_append_after_insert(stash, ctr) ==
  \/ ctr % current_evict_interval = 0 /\ evict_after_insert(stash)
  \/ /\ ctr % current_evict_interval # 0
     /\ overflow' = stash
     /\ UNCHANGED <<physical_memory, height, epoch, sweep_end, evict_ctr,
                    auto_resize, peak_overflow, panicked>>

new_block(entry, number) ==
  [key |-> entry.key, epoch |-> epoch, value |-> {<<number, entry.amount>>}]

AppendOne(key, amount) ==
  /\ Idle /\ append_ctr < MaxAppends
  /\ Cardinality(overflow) < S
  /\ append_ctr' = append_ctr + 1
  /\ LET block == new_block([key |-> key, amount |-> amount], append_ctr + 1)
     IN finish_append_after_insert(overflow \cup {block}, append_ctr + 1)
  /\ result' = {}
  /\ UNCHANGED <<prf, migrating, batch>>

AppendOverflows ==
  /\ Idle /\ append_ctr < MaxAppends
  /\ Cardinality(overflow) >= S
  /\ Panic("insert")
  /\ UNCHANGED <<prf, physical_memory, overflow, height, epoch, append_ctr, evict_ctr,
                 sweep_end, auto_resize, peak_overflow, calls>>

\* append_prepared_masked_batch is called by the sharded histogram's flush.
BeginBatch(entries) ==
  /\ Idle /\ append_ctr + Len(entries) <= MaxAppends
  /\ batch' = entries
  /\ result' = {}
  /\ UNCHANGED <<prf, physical_memory, overflow, height, epoch, append_ctr, evict_ctr,
                 sweep_end, auto_resize, peak_overflow, migrating, panicked>>

\* The updates inserted before the next multiple of the evict interval.
chunk_len ==
  Min({Len(batch), current_evict_interval - (append_ctr % current_evict_interval)})

\* Mutant: masked updates are inserted like the others.
Mut_chunk_ignores_mask == {new_block(batch[i], append_ctr + i) : i \in 1..chunk_len}

chunk_blocks ==
  {new_block(batch[i], append_ctr + i) : i \in {j \in 1..chunk_len : batch[j].cond = 1}}

\* One iteration of the loop: insert a chunk, and evict if that reaches a multiple.
AppendChunk ==
  /\ batch # <<>> /\ panicked = "no"
  /\ Cardinality(overflow \cup chunk_blocks) <= S
  /\ append_ctr' = append_ctr + chunk_len
  /\ batch' = SubSeq(batch, chunk_len + 1, Len(batch))
  /\ finish_append_after_insert(overflow \cup chunk_blocks, append_ctr + chunk_len)
  /\ result' = {}
  /\ UNCHANGED <<prf, migrating>>

AppendChunkOverflows ==
  /\ batch # <<>> /\ panicked = "no"
  /\ Cardinality(overflow \cup chunk_blocks) > S
  /\ Panic("batch insert")
  /\ UNCHANGED <<prf, physical_memory, overflow, height, epoch, append_ctr, evict_ctr,
                 sweep_end, auto_resize, peak_overflow, calls>>

-----------------------------------------------------------------------------
(***************************************************************************)
(* Reading.                                                                 *)
(***************************************************************************)

\* Mutant: the block that was read stays.
Mut_remove_nothing(blocks, key) == blocks

without(blocks, key) == {b \in blocks : b.key # key}

path_access_unchanged == <<prf, height, epoch, append_ctr, evict_ctr, sweep_end,
                           auto_resize>>

\* read_total: the value of key's block is returned and the block becomes a dummy.
ReadTotal(key) ==
  LET leaf   == to_leaf(prf[key], height)
      blocks == merge_accumulate(read_from_path(overflow, leaf))
      rest   == without(blocks, key)
  IN /\ Idle
     /\ write_to_path(rest, leaf)
     /\ IF panicked' = "no"
          THEN /\ result' = UNION {b.value : b \in {c \in blocks : c.key = key}}
               /\ update_peak_overflow(overflow')
          ELSE UNCHANGED <<result, peak_overflow>>
     /\ UNCHANGED <<path_access_unchanged, migrating, batch>>

\* read_dummy accesses the path of a random leaf.
ReadDummy(leaf) ==
  /\ Idle
  /\ write_to_path(merge_accumulate(read_from_path(overflow, leaf)), leaf)
  /\ IF panicked' = "no"
       THEN result' = {} /\ update_peak_overflow(overflow')
       ELSE UNCHANGED <<result, peak_overflow>>
  /\ UNCHANGED <<path_access_unchanged, migrating, batch>>

-----------------------------------------------------------------------------
(***************************************************************************)
(* Resizing by hand, by a deferred signal, and configuration.               *)
(***************************************************************************)

\* grow: the storage is doubled, then every path is rewritten, left to right.
BeginGrow ==
  /\ Idle /\ ManualGrow
  /\ grow_physical_storage(physical_memory, evict_ctr)
  /\ \E t_hat \in ThresholdUnits :
       auto_resize' = IF auto_resize.enabled
                        THEN on_tree_grown(auto_resize, height + 1, t_hat)
                        ELSE auto_resize
  /\ migrating' = leaf_count(height + 1)
  /\ result' = {}
  /\ UNCHANGED <<prf, overflow, append_ctr, evict_ctr, peak_overflow, batch, panicked>>

MigrateLeaf ==
  LET leaf == leaf_at(leaf_count(height) - migrating, height)
  IN /\ migrating > 0 /\ panicked = "no"
     /\ write_to_path(merge_accumulate(read_from_path(overflow, leaf)), leaf)
     /\ migrating' = migrating - 1
     /\ UNCHANGED <<path_access_unchanged, peak_overflow, result, batch>>

GrowPastMaxHeight ==
  /\ Idle /\ ManualGrow /\ height = MAX_TREE_HEIGHT
  /\ Panic("max height")
  /\ UNCHANGED <<prf, physical_memory, overflow, height, epoch, append_ctr, evict_ctr,
                 sweep_end, auto_resize, peak_overflow, calls>>

\* enable_auto_resize and enable_deferred_auto_resize.
EnableAutoResize(t, mode) ==
  /\ Idle
  /\ \E t_hat \in ThresholdUnits :
       auto_resize' =
         [NoAutoResize EXCEPT
            !.enabled = TRUE,
            !.deferred = mode.deferred,
            !.emits_grow_signal = mode.emits_grow_signal,
            !.k = dp_initial_k(effective_t_capacity(t), leaf_count(height)),
            !.t_capacity = t,
            !.t_hat_units = t_hat]
  /\ result' = {}
  /\ UNCHANGED <<prf, physical_memory, overflow, height, epoch, append_ctr, evict_ctr,
                 sweep_end, peak_overflow, migrating, batch, panicked>>

\* A flush of the sharded histogram took the emitting shard's signal: every shard
\* applies it (take_deferred_auto_resize_signal, apply_deferred_auto_resize_grow).
DeferredGrow ==
  /\ Idle /\ auto_resize.enabled /\ auto_resize.deferred
  /\ auto_resize.emits_grow_signal => auto_resize.pending_grow
  /\ grow_physical_storage(physical_memory, evict_ctr)
  /\ \E t_hat \in ThresholdUnits :
       auto_resize' = on_tree_grown(reset_counters(auto_resize), height + 1, t_hat)
  /\ result' = {}
  /\ UNCHANGED <<prf, overflow, append_ctr, evict_ctr, peak_overflow, migrating, batch,
                 panicked>>

DeferredGrowPastMaxHeight ==
  /\ Idle /\ auto_resize.enabled /\ auto_resize.deferred
  /\ auto_resize.emits_grow_signal => auto_resize.pending_grow
  /\ height = MAX_TREE_HEIGHT
  /\ Panic("max height")
  /\ auto_resize' = reset_counters(auto_resize)
  /\ UNCHANGED <<prf, physical_memory, overflow, height, epoch, append_ctr, evict_ctr,
                 sweep_end, peak_overflow, calls>>

\* For benchmarks: opens a sweep that never ends, or ends the current one.
SetSweepWindowActive(active) ==
  /\ Idle /\ Benchmarking
  /\ sweep_end' = IF active THEN SweepForever ELSE 0
  /\ result' = {}
  /\ UNCHANGED <<prf, physical_memory, overflow, height, epoch, append_ctr, evict_ctr,
                 auto_resize, peak_overflow, migrating, batch, panicked>>

ResetMetrics ==
  /\ Idle
  /\ peak_overflow' = 0
  /\ result' = {}
  /\ UNCHANGED <<prf, physical_memory, overflow, height, epoch, append_ctr, evict_ctr,
                 sweep_end, auto_resize, migrating, batch, panicked>>

-----------------------------------------------------------------------------
new(block_capacity) ==
  /\ height = tree_height_for_capacity(block_capacity, Z)
  /\ physical_memory = [n \in Node(height) |-> {}]

Init ==
  /\ prf \in PrfKeys
  /\ \E c \in BlockCapacities : new(c)
  /\ overflow = {}
  /\ epoch = 0
  /\ append_ctr = 0 /\ evict_ctr = 0 /\ sweep_end = 0
  /\ auto_resize = NoAutoResize
  /\ peak_overflow = 0
  /\ result = {}
  /\ migrating = 0
  /\ batch = <<>>
  /\ panicked = "no"

Next ==
  \/ \E key \in Key, amount \in Amount : AppendOne(key, amount)
  \/ AppendOverflows
  \/ \E n \in 1..MaxBatch : \E entries \in [1..n -> Entry] : BeginBatch(entries)
  \/ AppendChunk
  \/ AppendChunkOverflows
  \/ \E key \in Key : ReadTotal(key)
  \/ \E leaf \in Leaf(height) : ReadDummy(leaf)
  \/ BeginGrow
  \/ MigrateLeaf
  \/ GrowPastMaxHeight
  \/ \E t \in TCapacities, mode \in AutoModes : EnableAutoResize(t, mode)
  \/ DeferredGrow
  \/ DeferredGrowPastMaxHeight
  \/ \E active \in BOOLEAN : SetSweepWindowActive(active)
  \/ ResetMetrics

Spec == Init /\ [][Next]_vars

-----------------------------------------------------------------------------
(***************************************************************************)
(* What must be true of every reachable state.                              *)
(***************************************************************************)

\* The variables keep their types: in particular a tree of the current height
\* has a bucket for each of its nodes, whatever resized it.
TypeOK ==
  /\ prf \in [Key -> Tag]
  /\ height \in 1..MAX_TREE_HEIGHT
  /\ physical_memory \in [Node(height) -> SUBSET Block]
  /\ overflow \in SUBSET Block
  /\ epoch \in Nat
  /\ append_ctr \in Nat /\ evict_ctr \in Nat /\ sweep_end \in Nat
  /\ auto_resize \in AutoResizeState
  /\ peak_overflow \in Nat
  /\ result \in SUBSET Update
  /\ migrating \in Nat
  /\ batch \in Seq(Entry)
  /\ panicked \in {"no"} \cup Panics

\* mod.rs:199-200, on which the tree-aware readouts and every read rely: a block
\* is stored on the path to its key's leaf, at every height the tree has had, and
\* no bucket holds two blocks of a key, so no depth does.
PathInvariant ==
  \A n \in Node(height) : \A b \in physical_memory[n] :
    /\ n \in path(to_leaf(prf[b.key], height), height)
    /\ \A c \in physical_memory[n] : c.key = b.key => c = b

\* An update is in one block, in one place: merging, laying out and rewriting
\* buckets never leaves a copy of a value behind.
HeldExactlyOnce ==
  /\ \A n \in Node(height), m \in Node(height) :
       \A b \in physical_memory[n], c \in physical_memory[m] :
         n # m \/ b # c => b.value \cap c.value = {}
  /\ \A n \in Node(height) : \A b \in physical_memory[n], c \in overflow :
       b.value \cap c.value = {}
  /\ \A b, c \in overflow : b # c => b.value \cap c.value = {}

\* A bucket's blocks fit its Z slots and the buffered ones the S overflow slots:
\* the layout never runs past the memory it was given.
WithinCapacity ==
  /\ \A n \in Node(height) : Cardinality(physical_memory[n]) <= Z
  /\ Cardinality(overflow) <= S

\* With a slot for every key and for every append up to the next eviction the
\* stash never overflows, however the tree's buckets fill up and whatever resizes.
NoStashPanic == panicked \in {"no", "max height"}

-----------------------------------------------------------------------------
\* What a read of key would find.
Pending(key) ==
  UNION ({b.value : b \in {c \in overflow : c.key = key}} \cup
         UNION {{b.value : b \in {c \in physical_memory[n] : c.key = key}} :
                  n \in Node(height)})

\* The histogram keeps the promise of KeyedUpdates: a read returns every update
\* appended to the key since it was last read, and no call loses or repeats one.
Promise == INSTANCE KeyedUpdates WITH
  pending <- [key \in Key |-> Pending(key)], issued <- append_ctr,
  MaxBatch <- Max({1, MaxBatch})

KeepsPromise == Promise!Spec

\* README.md:11, reduction.rs:43-48: for its user it is a table of counts in a
\* word of Modulus values, however the amounts met on their way through the tree.
sum_of(updates) == MapThenSumSet(LAMBDA u : u[2], updates) % Modulus
Counts == INSTANCE KeyedCounts WITH
  total <- [key \in Key |-> sum_of(Pending(key))], returned <- sum_of(result),
  MaxBatch <- Max({1, MaxBatch})

KeepsCounts == Counts!Spec
=============================================================================
