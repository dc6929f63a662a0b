--------------------------- MODULE HistogramHistory ---------------------------
(***************************************************************************)
(* ObliviousHistogram with a memory of what happened, for the properties    *)
(* that compare the state with the past: when evictions come, what a resize *)
(* sweep visits, which epoch a block belongs to, what the resize estimator  *)
(* counts.  The history variables observe the histogram and never           *)
(* influence it.                                                            *)
(***************************************************************************)
EXTENDS ObliviousHistogram

VARIABLES
  since_evict,  \* updates appended since the last eviction
  born,         \* the epoch in which each update was appended
  visited,      \* leaves evicted since the last resize
  sampled       \* leaves counted since auto-resize last decided

history == <<since_evict, born, visited, sampled>>
hvars   == <<vars, history>>

evicted      == evict_ctr' # evict_ctr
evicted_leaf == bit_reversed_leaf(evict_ctr, height)
\* The eviction was counted and left the window open.
counted ==
  evicted /\ auto_resize'.evictions_since_check = auto_resize.evictions_since_check + 1

Observe ==
  /\ since_evict' = IF evicted THEN 0 ELSE since_evict + (append_ctr' - append_ctr)
  /\ born' = born \o [i \in 1..(append_ctr' - append_ctr) |-> epoch]
  /\ visited' = IF height' # height THEN {}
                ELSE visited \cup (IF evicted THEN {evicted_leaf} ELSE {})
  /\ sampled' = IF counted THEN sampled \cup {evicted_leaf}
                ELSE IF auto_resize'.evictions_since_check = 0 THEN {} ELSE sampled

HInit == Init /\ since_evict = 0 /\ born = <<>> /\ visited = {} /\ sampled = {}
HNext == Next /\ Observe
HSpec == HInit /\ [][HNext]_hvars

-----------------------------------------------------------------------------
\* mod.rs:50: "Deterministic path eviction occurs every `A` operations".  A sweep
\* may evict earlier, nothing may let A appends pass without an eviction: the
\* overflow is sized for that.
EvictsEveryA == since_evict < A

\* resize.rs:349, ops.rs:129-144: the sweep that follows a resize goes over the
\* leaves the tree had before, each once, and has seen them all when it ends.
old_leaves_seen == {node_on_path(leaf, height - 1) : leaf \in visited}
SweepVisitsEveryOldLeaf ==
  epoch > 0 =>
    LET old == leaf_count(height - 1)
    IN IF sweep_active
         THEN Cardinality(old_leaves_seen) = evict_ctr - (sweep_end - old)
         ELSE old_leaves_seen = Leaf(height - 1)

\* reduction.rs:96-104, through every merge and resize: a block carries the epoch
\* of the oldest update in it, which is what tells migrated keys from new ones.
EpochIsOldest ==
  \A b \in overflow \cup UNION {physical_memory[n] : n \in Node(height)} :
    b.epoch = Min({born[u[1]] : u \in b.value})

\* resize.rs:387-395: an eviction adds to c_sum the number of keys of the evicted
\* leaf all of whose pending updates were appended since the last resize, wherever
\* on the path or in the stash their blocks were.
fresh_keys(leaf) ==
  {key \in Key : /\ to_leaf(prf[key], height) = leaf
                 /\ Pending(key)' # {}
                 /\ \A u \in Pending(key)' : born'[u[1]] = epoch}
EstimatorCountsFreshKeys ==
  [][counted => auto_resize'.c_sum =
                  auto_resize.c_sum + Cardinality(fresh_keys(evicted_leaf))]_hvars

\* resize.rs:196-213, 232-237: the estimate is a sum over k different leaves, so a
\* window never samples a key twice.  (A pending signal freezes the decision while
\* counting goes on; the flush that takes the signal discards the count.)
WindowSamplesDistinctLeaves ==
  auto_resize.enabled /\ ~auto_resize.pending_grow =>
    /\ Cardinality(sampled) = auto_resize.evictions_since_check
    /\ \A leaf \in sampled : leaf \in Leaf(height)
=============================================================================
