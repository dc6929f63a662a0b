--------------------------- MODULE FrontendRouting ---------------------------
(***************************************************************************)
(* What a frontend does with its sub-batch, stage by stage: process_sub_batch *)
(* of crates/oram/src/sharded_oblivious_histogram/mod.rs, the routing helpers *)
(* of router.rs and sort_reduce_compact of oblivious/compaction.rs.          *)
(* ShardedHistogram takes the outcome of these stages in one step.           *)
(*                                                                         *)
(* Tags are numbers of LowBits + 1 + ShardField bits, LowBits = 57 and       *)
(* ShardField = 6 in the code; a shard is read off a tag at bit RouteShift,  *)
(* 32 in the code.  The sorting network is what SortingNetworks shows of it: *)
(* some order in which the sort keys ascend.                                 *)
(***************************************************************************)
EXTENDS Compaction, Functions

CONSTANTS
  Key,
  Prfs,                 \* the possible prf: functions from keys to tags
  ShardCount,           \* a power of two
  SubQuotas,            \* the quotas of a shard in a sub-batch
  SubBatchSize,
  LowBits, ShardField, RouteShift

VARIABLES
  prf,                  \* the tag of every key
  per_shard_sub_quota,
  batch_slice,          \* the sub-batch
  router_blocks,
  reduced_len, router_counts,
  stage

given == <<prf, per_shard_sub_quota, batch_slice>>
vars == <<given, router_blocks, reduced_len, router_counts, stage>>

Plus(a, b) == a + b

INSTANCE Reduction WITH combine <- Plus, DefaultValue <- 0

Shard == 0..(ShardCount - 1)

\* The shards are counted in powers of two: & (shard_count - 1) is a remainder.
shard_index_for_tag(tag) == (tag \div 2^RouteShift) % ShardCount

\* The shard and the dummy bit alone.
sort_key_of_shard(block) ==
  shard_index_for_tag(block.tag) * 2^(LowBits + 1) + (IF ct_is_real(block) THEN 0 ELSE 2^LowBits)

\* Shard, then real before dummy, then the low bits of the tag; what of the shard does not
\* fit its field is shifted out.
sort_key(block) ==
  ((shard_index_for_tag(block.tag) * 2^(LowBits + 1)) % 2^(LowBits + 1 + ShardField))
    + (IF ct_is_real(block) THEN 0 ELSE 2^LowBits)
    + (block.tag % 2^LowBits)

Dummy == [tag |-> 0, key |-> "none", value |-> 0, epoch |-> 0]

\* The last real block is blanked too.
blanked_from_last(blocks, len) ==
  [k \in DOMAIN blocks |-> IF k >= len THEN [blocks[k] EXCEPT !.tag = 0] ELSE blocks[k]]

\* The first len blocks, dummies in the other slots.
blanked(blocks, len) ==
  [k \in DOMAIN blocks |-> IF k > len THEN [blocks[k] EXCEPT !.tag = 0] ELSE blocks[k]]

\* Vec::resize.
resized(blocks, len) == [k \in 1..len |-> IF k <= Len(blocks) THEN blocks[k] ELSE Dummy]

\* count_shard_loads_oblivious.
shard_loads(blocks, len) ==
  [s \in Shard |->
     Cardinality({k \in 1..len : ct_is_real(blocks[k]) /\ shard_index_for_tag(blocks[k].tag) = s})]

\* build_distribute_marks_router: shard s's slots are filled from the first on.
slots_for(counts) ==
  UNION {{s * per_shard_sub_quota + r : r \in 1..counts[s]} : s \in Shard}

\* The orders in which a sort can leave the blocks.
Orders == Bijection(1..SubBatchSize, 1..SubBatchSize)

SortReduce ==
  /\ stage = "taken"
  /\ \E order \in Orders :
       LET sorted == [k \in DOMAIN batch_slice |-> batch_slice[order[k]]]
       IN  /\ \A k \in 2..Len(sorted) : sort_key(sorted[k - 1]) <= sort_key(sorted[k])
           /\ router_blocks' = reduce_equal_runs(sorted)
  /\ stage' = "reduced"
  /\ UNCHANGED <<given, reduced_len, router_counts>>

CompactReals ==
  /\ stage = "reduced"
  /\ LET marks == compact_marks(router_blocks, real_blocks(router_blocks))
     IN  /\ reduced_len' = marks[Len(marks)]
         /\ router_blocks' = blanked(compact_payload(router_blocks, marks), reduced_len')
  /\ stage' = "compacted"
  /\ UNCHANGED <<given, router_counts>>

CountLoads ==
  /\ stage = "compacted"
  /\ router_counts' = shard_loads(router_blocks, reduced_len)
  /\ stage' = IF Max({router_counts'[s] : s \in Shard}) > per_shard_sub_quota
              THEN "panicked" ELSE "counted"
  /\ UNCHANGED <<given, router_blocks, reduced_len>>

DistributeToShards ==
  /\ stage = "counted"
  /\ LET blocks == resized(router_blocks, ShardCount * per_shard_sub_quota)
     IN  router_blocks' =
           distribute_payload(blocks, prefix_marks(slots_for(router_counts), Len(blocks)))
  /\ stage' = "routed"
  /\ UNCHANGED <<given, reduced_len, router_counts>>

Init ==
  /\ prf \in Prfs
  /\ per_shard_sub_quota \in SubQuotas
  /\ \E keys \in [1..SubBatchSize -> Key \cup {"none"}] :
       batch_slice = [k \in 1..SubBatchSize |->
                        IF keys[k] = "none" THEN Dummy
                        ELSE [tag |-> prf[keys[k]], key |-> keys[k], value |-> 2^k, epoch |-> 0]]
  /\ router_blocks = batch_slice
  /\ reduced_len = 0
  /\ router_counts = [s \in Shard |-> 0]
  /\ stage = "taken"

Next == SortReduce \/ CompactReals \/ CountLoads \/ DistributeToShards
Spec == Init /\ [][Next]_vars
-----------------------------------------------------------------------------
blocks_of(blocks, key) ==
  {k \in DOMAIN blocks : ct_is_real(blocks[k]) /\ blocks[k].key = key}

value_of(blocks, key) ==
  LET value == [k \in DOMAIN blocks |-> blocks[k].value]
  IN  MapThenSumSet(LAMBDA k : value[k], blocks_of(blocks, key))

keys_of_shard(s) ==
  {key \in Key : blocks_of(batch_slice, key) # {} /\ shard_index_for_tag(prf[key]) = s}

\* The sort cannot tell the key apart from another one of the sub-batch: their tags differ
\* in high bits or not at all.
shares_sort_key(key) ==
  \E other \in Key \ {key} :
    /\ blocks_of(batch_slice, other) # {}
    /\ shard_index_for_tag(prf[other]) = shard_index_for_tag(prf[key])
    /\ prf[other] % 2^LowBits = prf[key] % 2^LowBits

\* A block lies where its shard looks for it: what shard s processes of the routed blocks
\* are blocks whose tag names shard s.
RoutedToOwnShard ==
  stage = "routed" =>
    \A k \in DOMAIN router_blocks :
      ct_is_real(router_blocks[k]) =>
        shard_index_for_tag(router_blocks[k].tag) = (k - 1) \div per_shard_sub_quota

\* Reduction, compaction, the cut or extension to the routed length and the distribution
\* keep every update exactly once (of a key whose tag is 0 every update is a dummy from
\* the start); with the values powers of two, the sums tell every update.
EveryUpdateOnce ==
  stage # "panicked" => \A key \in Key : value_of(router_blocks, key) = value_of(batch_slice, key)

\* Repetitions of a key take one slot: it is routed in one block, and a frontend panics only
\* when a shard has more different keys than its sub-quota.  Only keys that share a sort
\* key can keep each other's blocks apart and unmerged.
MergedUnlessTagsCollide ==
  /\ stage = "routed" =>
       \A key \in Key : Cardinality(blocks_of(router_blocks, key)) > 1 => shares_sort_key(key)
  /\ stage = "panicked" =>
       \E s \in Shard : \/ Cardinality(keys_of_shard(s)) > per_shard_sub_quota
                        \/ \E key \in keys_of_shard(s) : shares_sort_key(key)
=============================================================================
