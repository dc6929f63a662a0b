-------------------------- MODULE MCBlockRoutines --------------------------
(***************************************************************************)
(* Calls of the routines that rearrange arrays of blocks: the networks of    *)
(* CompactionRuns and SortingNetworks, the pass of ReduceRuns and the stages *)
(* of FrontendRouting, which is made of them.  They share no state; `called` *)
(* is the one that was called, and the variables of the others are empty.    *)
(* Init and Next are those of ReduceRuns; its variables stage and input are  *)
(* also those of SortingNetworks and FrontendRouting.                        *)
(***************************************************************************)
EXTENDS ReduceRuns, CompactionRuns

VARIABLES
  called,
  routine, n, split, arrays, todo, p, q, i, j, at,                 \* SortingNetworks
  prf, per_shard_sub_quota, batch_slice, router_blocks, reduced_len, router_counts
                                                                   \* FrontendRouting

shared == <<stage, input>>
sorting_vars == <<routine, n, split, arrays, todo, p, q, i, j, at>>
reduction_vars == <<checked, run, next>>
routing_vars ==
  <<prf, per_shard_sub_quota, batch_slice, router_blocks, reduced_len, router_counts>>
call_vars == <<called, shared, compaction_vars, sorting_vars, reduction_vars, routing_vars>>

\* Arrays of up to 9 elements, runs of up to 16.
Sorting == INSTANCE SortingNetworks WITH MaxLen <- 9, MaxRunExp <- 4

flow(count, first, last, flags) ==
  [packet_count |-> count, first_seen |-> first, last_seen |-> last, tcp_flags |-> flags]

\* With counters of three bits, records of 3 packets fit twice, and a run of two and a record
\* of another run do not fit together.
Flows == {flow(1, 2, 2, {"SYN"}), flow(3, 1, 3, {"ACK"})}

\* Tags for three keys, up to a permutation of the keys: 0 makes dummies, 1 and 5 are sorted
\* alike, 1 and 2 are tags of two shards.
Ascending ==
  {[a |-> t[1], b |-> t[2], c |-> t[3]] :
     t \in {u \in [1..3 -> {0, 1, 2, 3, 5}] : u[1] <= u[2] /\ u[2] <= u[3]}}

Routing ==
  INSTANCE FrontendRouting
    WITH Key <- {"a", "b", "c"}, Prfs <- Ascending, ShardCount <- 2, SubQuotas <- {1, 2, 3},
         SubBatchSize <- 4, LowBits <- 2, ShardField <- 1, RouteShift <- 1

NoCompaction == kept = {} /\ slots = {} /\ arr = <<>> /\ phase = "none"
NoSorting ==
  /\ routine = "none" /\ n = 0 /\ split = 0 /\ arrays = <<>> /\ todo = <<>>
  /\ p = 0 /\ q = 0 /\ i = 0 /\ j = 0 /\ at = "none"
NoReduction == checked = FALSE /\ run = <<>> /\ next = 0
NoRouting ==
  /\ prf = <<>> /\ per_shard_sub_quota = 0 /\ batch_slice = <<>>
  /\ router_blocks = <<>> /\ reduced_len = 0 /\ router_counts = <<>>

CallInit ==
  \/ /\ called = "compaction" /\ CompactionInit
     /\ stage = "none" /\ input = <<>> /\ NoSorting /\ NoReduction /\ NoRouting
  \/ /\ called = "sorting" /\ Sorting!Init
     /\ stage = "none" /\ NoCompaction /\ NoReduction /\ NoRouting
  \/ /\ called = "reduction" /\ Init
     /\ NoCompaction /\ NoSorting /\ NoRouting
  \/ /\ called = "routing" /\ Routing!Init
     /\ input = <<>> /\ NoCompaction /\ NoSorting /\ NoReduction

Move ==
  /\ called = "compaction" /\ CompactionNext
  /\ UNCHANGED <<called, shared, sorting_vars, reduction_vars, routing_vars>>
Sort ==
  /\ called = "sorting" /\ Sorting!Next
  /\ UNCHANGED <<called, stage, compaction_vars, reduction_vars, routing_vars>>
Reduce ==
  /\ called = "reduction" /\ Next
  /\ UNCHANGED <<called, compaction_vars, sorting_vars, routing_vars>>
Route ==
  /\ called = "routing" /\ Routing!Next
  /\ UNCHANGED <<called, input, compaction_vars, sorting_vars, reduction_vars>>

CallNext == Move \/ Sort \/ Reduce \/ Route

\* The thread that sorts goes on.
FairSpec == CallInit /\ [][CallNext]_call_vars /\ WF_call_vars(Sort)
-----------------------------------------------------------------------------
\* sort_by, sort_with_payload and merge_sorted_by leave a sorted array, keys with payloads.
SortsEveryInput == called = "sorting" => Sorting!SortsEveryInput

\* The networks compare through raw pointers only what is in the array.
InBounds == called = "sorting" => Sorting!InBounds

\* The loops of the networks end.
Terminates == called = "sorting" => Sorting!Terminates

\* process_sub_batch brings every update into the slots of its own shard, and each once.
RoutedOnceToOwnShard ==
  called = "routing" => Routing!RoutedToOwnShard /\ Routing!EveryUpdateOnce

\* In process_sub_batch repetitions of a key take one slot, unless another key shares its
\* sort key.
MergedUnlessTagsCollide == called = "routing" => Routing!MergedUnlessTagsCollide
=============================================================================
