--------------------------- MODULE CompactionRuns ---------------------------
(***************************************************************************)
(* The networks of Compaction run on arrays of every length up to MaxArray:  *)
(* an array is compacted, then its front is distributed over as many slots.  *)
(* Elements are the numbers of the slots they start in.                      *)
(***************************************************************************)
EXTENDS Compaction

CONSTANT MaxArray         \* bound: the longest array

VARIABLES
  kept,                   \* the slots marked for compaction
  slots,                  \* the slots marked for distribution
  arr,
  phase

compaction_vars == <<kept, slots, arr, phase>>

\* 2^30 blocks are beyond memory; leading_power is that of the lengths below 2^31.
ASSUME ArrayAssumption == MaxArray \in Nat /\ MaxArray < 2^30

CompactionInit ==
  \E n \in 0..MaxArray :
    /\ kept \in SUBSET (1..n)
    /\ arr = [k \in 1..n |-> k]
    /\ slots = {}
    /\ phase = "filled"

Compact ==
  /\ phase = "filled"
  /\ arr' = compact_payload(arr, compact_marks(arr, kept))
  /\ phase' = "compacted"
  /\ UNCHANGED <<kept, slots>>

Distribute ==
  /\ phase = "compacted"
  /\ slots' \in kSubset(Cardinality(kept), DOMAIN arr)
  /\ arr' = distribute_payload(arr, prefix_marks(slots', Len(arr)))
  /\ phase' = "distributed"
  /\ UNCHANGED kept

CompactionNext == Compact \/ Distribute
CompactionSpec == CompactionInit /\ [][CompactionNext]_compaction_vars
-----------------------------------------------------------------------------
\* The slot of arr that the element takes, counted among a set of slots.
rank(slot, marked) == Cardinality({s \in marked : s <= slot})

\* Both networks keep the order of what they move, also at lengths that are no powers of
\* two: compact_payload brings the r-th marked element to slot r, and distribute_payload,
\* with other marks as in the router, the r-th element of the front to the r-th marked slot.
MovesInOrder ==
  /\ phase = "compacted" => \A e \in kept : arr[rank(e, kept)] = e
  /\ phase = "distributed" =>
       \A s \in slots : \E e \in kept : rank(e, kept) = rank(s, slots) /\ arr[s] = e
=============================================================================
