------------------------ MODULE HistogramHistoryProofs ------------------------
(***************************************************************************)
(* The properties of ObliviousHistogram that compare its state with its      *)
(* past, proved of HistogramHistory: when evictions come, what a resize      *)
(* sweep visits, which epoch a block belongs to and what the resize          *)
(* estimator counts.  Each has an invariant of its own that ties one history *)
(* variable to the counters; all of them rest on IInv.                       *)
(***************************************************************************)
EXTENDS HistogramHistory, PromiseProofs

\* IInv holds of the histogram that is observed.
LEMMA ObservedInv == HSpec => []IInv
<1>1. HInit => IInv
  BY InitInv DEF HInit
<1>2. IInv /\ [HNext]_hvars => IInv'
  <2>1. [HNext]_hvars => [Next]_vars
    BY DEF HNext, hvars
  <2> QED BY <2>1, NextInv
<1> QED BY <1>1, <1>2, PTL DEF HSpec

-----------------------------------------------------------------------------
(***************************************************************************)
(* What a step does to the counters.                                        *)
(***************************************************************************)

\* The accounting that an eviction hands to check_and_maybe_resize.
evicted_blocks(stash) == merge_accumulate(read_from_path(stash, evicted_leaf))
recorded(stash) == record_eviction(auto_resize, evicted_blocks(stash), evicted_leaf)

\* An eviction counts itself, closes the estimator's window, or grows the tree.
EvictionCounts(stash) ==
  /\ UNCHANGED <<height, epoch, sweep_end>>
  /\ auto_resize' = recorded(stash)
  /\ panicked' = "no" => ~should_check_epoch(recorded(stash))
EvictionCloses(stash) ==
  /\ UNCHANGED <<height, epoch, sweep_end>>
  /\ auto_resize.enabled
  /\ auto_resize'.evictions_since_check = 0
  /\ auto_resize'.k = auto_resize.k
EvictionGrows(stash) ==
  /\ \E mem : grow_physical_storage(mem, evict_ctr + 1)
  /\ auto_resize.enabled
  /\ auto_resize'.evictions_since_check = 0
  /\ \E t \in Nat : auto_resize'.k = dp_initial_k(t, leaf_count(height + 1))
Eviction(stash) ==
  /\ evict_ctr' = evict_ctr + 1
  /\ panicked = "no"
  /\ EvictionCounts(stash) \/ EvictionCloses(stash) \/ EvictionGrows(stash)

\* A resize that is no part of an eviction: by hand, or for a signal.
Growth ==
  /\ evict_ctr' = evict_ctr
  /\ grow_physical_storage(physical_memory, evict_ctr)
  /\ \/ ManualGrow
     \/ /\ auto_resize'.evictions_since_check = 0
        /\ \E t \in Nat : auto_resize'.k = dp_initial_k(t, leaf_count(height + 1))

\* Any other step: the estimator is left alone, reset or enabled anew.
Quiet ==
  /\ UNCHANGED <<evict_ctr, height, epoch>>
  /\ sweep_end' = sweep_end \/ Benchmarking
  /\ \/ auto_resize' = auto_resize
     \/ /\ auto_resize'.evictions_since_check = 0
        /\ auto_resize.enabled
        /\ auto_resize'.k = auto_resize.k
     \/ /\ auto_resize'.evictions_since_check = 0
        /\ \E t \in Nat : auto_resize'.k = dp_initial_k(t, leaf_count(height))

\* The capacity that sizes the estimator's window is a natural number.
LEMMA CapacityIsNat ==
  ASSUME NEW t \in Nat
  PROVE  effective_t_capacity(t) \in Nat
<1> DEFINE quarter == Z \div 4
           m == Max({quarter, 1})
<1>1. quarter \in Int /\ 1 \in Int
  BY BucketAssumption
<1>2. m \in {quarter, 1} /\ m >= 1
  <2> HIDE DEF quarter
  <2> QED BY ONLY <1>1, MaxOfTwo DEF m
<1> HIDE DEF quarter
<1>3. m \in Nat
  BY <1>1, <1>2
<1> HIDE DEF m
<1>4. t * m \in Nat
  BY <1>3
<1> QED BY <1>4 DEF effective_t_capacity, m, quarter

\* What a resize does to the estimator.
LEMMA TreeGrown ==
  ASSUME NEW auto \in AutoResizeState, NEW h \in Nat, NEW t_hat
  PROVE  LET grown == on_tree_grown(auto, h, t_hat)
         IN /\ grown.evictions_since_check = auto.evictions_since_check
            /\ \E t \in Nat : grown.k = dp_initial_k(t, leaf_count(h))
<1> DEFINE t == 2 * auto.t_capacity
           k == dp_initial_k(effective_t_capacity(t), leaf_count(h))
<1>1. t \in Nat
  BY DEF AutoResizeState
<1>2. effective_t_capacity(t) \in Nat
  BY <1>1, CapacityIsNat
<1>3. on_tree_grown(auto, h, t_hat) =
        [auto EXCEPT !.total_resizes = auto.total_resizes + 1,
                     !.t_capacity = t, !.k = k, !.t_hat_units = t_hat]
  BY DEF on_tree_grown
<1> DEFINE e == effective_t_capacity(t)
<1>4. k = dp_initial_k(e, leaf_count(h)) /\ e \in Nat
  BY <1>2
<1> HIDE DEF k, t, e
<1>5. on_tree_grown(auto, h, t_hat).evictions_since_check = auto.evictions_since_check
      /\ on_tree_grown(auto, h, t_hat).k = k
  BY <1>3 DEF AutoResizeState
<1> QED BY <1>4, <1>5

\* What closing the window does to it.
LEMMA WindowClosed ==
  ASSUME NEW auto \in AutoResizeState
  PROVE  /\ window_closed(auto).evictions_since_check = 0
         /\ window_closed(auto).k = auto.k
         /\ reset_counters(auto).evictions_since_check = 0
         /\ reset_counters(auto).k = auto.k
         /\ \A g : /\ [window_closed(auto) EXCEPT !.pending_grow = g].evictions_since_check = 0
                   /\ [window_closed(auto) EXCEPT !.pending_grow = g].k = auto.k
BY DEF window_closed, reset_counters, AutoResizeState

\* An eviction, in these terms.
LEMMA EvictionKinds ==
  ASSUME IInv, panicked = "no", NEW stash, StashOK(stash), evict_after_insert(stash)
  PROVE  Eviction(stash)
<1> DEFINE level == assigned_level(evicted_blocks(stash), evicted_leaf)
           mem   == written_memory(level, evicted_leaf)
           auto  == recorded(stash)
<1>1. auto \in AutoResizeState /\ height + 1 \in Nat
  <2>1. evicted_leaf \in Leaf(height)
    BY EvictionLeaf DEF evicted_leaf
  <2>2. IsFiniteSet(evicted_blocks(stash))
    BY <2>1, Gathered DEF evicted_blocks
  <2> QED BY <2>2, RecordEvictionType DEF recorded, IInv, TypeOK
<1>2. evict_ctr' = evict_ctr + 1
  BY DEF evict_after_insert
<1>3. \/ check_and_maybe_resize(mem, auto)
      \/ /\ Panic("write_to_path")
         /\ auto_resize' = auto
         /\ UNCHANGED <<height, epoch, sweep_end>>
  BY Zenon DEF evict_after_insert, evicted_leaf, evicted_blocks, recorded
<1>4. auto.enabled = auto_resize.enabled /\ auto.k = auto_resize.k
  BY DEF recorded, record_eviction, AutoResizeState, IInv, TypeOK
<1> HIDE DEF mem, auto
<1>5. /\ window_closed(auto) \in AutoResizeState
      /\ window_closed(auto).evictions_since_check = 0
      /\ window_closed(auto).k = auto.k
      /\ \A g : /\ [window_closed(auto) EXCEPT !.pending_grow = g].evictions_since_check = 0
                /\ [window_closed(auto) EXCEPT !.pending_grow = g].k = auto.k
  BY <1>1, WindowClosed, AutoResizeTypes
<1>6. CASE check_and_maybe_resize(mem, auto) /\ ~should_check_epoch(auto)
  <2>1. auto_resize' = auto /\ UNCHANGED <<height, epoch, sweep_end>>
    BY <1>6 DEF check_and_maybe_resize
  <2> QED BY <1>2, <1>6, <2>1 DEF Eviction, EvictionCounts, auto
<1>7. CASE check_and_maybe_resize(mem, auto) /\ should_check_epoch(auto)
  <2>1. auto_resize.enabled
    BY <1>4, <1>7 DEF should_check_epoch
  <2>2. \/ /\ UNCHANGED <<height, epoch, sweep_end>>
           /\ \/ auto_resize' = window_closed(auto)
              \/ \E g : auto_resize' = [window_closed(auto) EXCEPT !.pending_grow = g]
        \/ /\ grow_physical_storage(mem, evict_ctr + 1)
           /\ \E t_hat : auto_resize' = on_tree_grown(window_closed(auto), height + 1, t_hat)
    BY <1>7, Zenon DEF check_and_maybe_resize
  <2>3. CASE /\ UNCHANGED <<height, epoch, sweep_end>>
             /\ \/ auto_resize' = window_closed(auto)
                \/ \E g : auto_resize' = [window_closed(auto) EXCEPT !.pending_grow = g]
    <3>1. auto_resize'.evictions_since_check = 0 /\ auto_resize'.k = auto_resize.k
      BY <1>4, <1>5, <2>3
    <3> QED BY <1>2, <2>1, <2>3, <3>1 DEF Eviction, EvictionCloses
  <2>4. CASE /\ grow_physical_storage(mem, evict_ctr + 1)
             /\ \E t_hat : auto_resize' = on_tree_grown(window_closed(auto), height + 1, t_hat)
    <3>1. /\ auto_resize'.evictions_since_check = 0
          /\ \E t \in Nat : auto_resize'.k = dp_initial_k(t, leaf_count(height + 1))
      BY <1>1, <1>5, <2>4, TreeGrown
    <3> QED BY <1>2, <2>1, <2>4, <3>1 DEF Eviction, EvictionGrows
  <2> QED BY <2>2, <2>3, <2>4
<1>8. CASE /\ Panic("write_to_path")
           /\ auto_resize' = auto
           /\ UNCHANGED <<height, epoch, sweep_end>>
  BY <1>2, <1>8 DEF Eviction, EvictionCounts, Panic, auto
<1> QED BY <1>3, <1>6, <1>7, <1>8

\* The appends that evict, and those that do not.
LEMMA AppendKinds ==
  ASSUME IInv, panicked = "no", NEW stash, StashOK(stash), NEW ctr,
         finish_append_after_insert(stash, ctr)
  PROVE  Eviction(stash) \/ Quiet
<1>1. CASE evict_after_insert(stash)
  BY <1>1, EvictionKinds
<1>2. CASE UNCHANGED <<height, epoch, sweep_end, evict_ctr, auto_resize>>
  BY <1>2 DEF Quiet
<1> QED BY <1>1, <1>2 DEF finish_append_after_insert

\* Every step is one of these, and none follows a panic.
LEMMA StepKinds ==
  ASSUME IInv, Next
  PROVE  /\ panicked = "no"
         /\ (\E stash : StashOK(stash) /\ Eviction(stash)) \/ Growth \/ Quiet
<1> DEFINE Kind == (\E stash : StashOK(stash) /\ Eviction(stash)) \/ Growth \/ Quiet
<1>1. panicked = "no"
  BY DEF Next, Idle, AppendOne, AppendOverflows, BeginBatch, AppendChunk,
         AppendChunkOverflows, ReadTotal, ReadDummy, BeginGrow, MigrateLeaf,
         GrowPastMaxHeight, EnableAutoResize, DeferredGrow, DeferredGrowPastMaxHeight,
         SetSweepWindowActive, ResetMetrics
<1>2. ASSUME NEW key \in Key, NEW amount \in Amount, AppendOne(key, amount) PROVE Kind
  <2> DEFINE stash == overflow \cup {new_block([key |-> key, amount |-> amount], append_ctr + 1)}
  <2>1. StashOK(stash)
    BY <1>2, AppendOneStash
  <2>2. finish_append_after_insert(stash, append_ctr + 1)
    BY <1>2 DEF AppendOne
  <2> HIDE DEF stash
  <2> QED BY <1>1, <2>1, <2>2, AppendKinds
<1>3. CASE AppendChunk
  <2>1. finish_append_after_insert(overflow \cup chunk_blocks, append_ctr + chunk_len)
    BY <1>3 DEF AppendChunk
  <2> QED BY <1>1, <1>3, <2>1, AppendChunkStash, AppendKinds
<1>4. auto_resize \in AutoResizeState /\ height \in Nat
  BY Heights DEF IInv, TypeOK
<1>5. CASE BeginGrow
  BY <1>1, <1>5 DEF BeginGrow, Growth
<1>6. CASE DeferredGrow
  <2> DEFINE auto == reset_counters(auto_resize)
  <2>1. auto \in AutoResizeState /\ auto.evictions_since_check = 0
    BY <1>4, AutoResizeTypes, WindowClosed
  <2>2. \E t_hat : auto_resize' = on_tree_grown(auto, height + 1, t_hat)
    BY <1>6 DEF DeferredGrow
  <2> HIDE DEF auto
  <2>3. /\ auto_resize'.evictions_since_check = 0
        /\ \E t \in Nat : auto_resize'.k = dp_initial_k(t, leaf_count(height + 1))
    BY <1>4, <2>1, <2>2, TreeGrown
  <2> QED BY <1>1, <1>6, <2>3 DEF DeferredGrow, Growth
<1>7. CASE DeferredGrowPastMaxHeight
  <2>1. auto_resize' = reset_counters(auto_resize) /\ auto_resize.enabled
    BY <1>7 DEF DeferredGrowPastMaxHeight
  <2>2. auto_resize'.evictions_since_check = 0 /\ auto_resize'.k = auto_resize.k
    BY <1>4, <2>1, WindowClosed
  <2> QED BY <1>1, <1>7, <2>1, <2>2 DEF DeferredGrowPastMaxHeight, Quiet
<1>8. ASSUME NEW t \in TCapacities, NEW mode \in AutoModes, EnableAutoResize(t, mode)
      PROVE  Kind
  <2> DEFINE e == effective_t_capacity(t)
             k == dp_initial_k(e, leaf_count(height))
  <2>1. e \in Nat
    BY AutoAssumption, CapacityIsNat
  <2>2. \E t_hat : auto_resize' =
          [NoAutoResize EXCEPT !.enabled = TRUE, !.deferred = mode.deferred,
             !.emits_grow_signal = mode.emits_grow_signal,
             !.k = k, !.t_capacity = t, !.t_hat_units = t_hat]
    BY <1>8 DEF EnableAutoResize
  <2>3. auto_resize'.evictions_since_check = 0 /\ auto_resize'.k = k
    <3> HIDE DEF k
    <3> QED BY <2>2 DEF NoAutoResize
  <2>4. \E i \in Nat : auto_resize'.k = dp_initial_k(i, leaf_count(height))
    <3> HIDE DEF e
    <3> QED BY <2>1, <2>3
  <2>5. UNCHANGED <<evict_ctr, height, epoch, sweep_end>>
    BY <1>8 DEF EnableAutoResize
  <2> QED BY <2>3, <2>4, <2>5 DEF Quiet
<1>9. ASSUME NEW active \in BOOLEAN, SetSweepWindowActive(active) PROVE Kind
  BY <1>9 DEF SetSweepWindowActive, Quiet
<1>10. CASE UNCHANGED <<evict_ctr, height, epoch, sweep_end, auto_resize>>
  BY <1>1, <1>10 DEF Quiet
<1>11. \/ \E key \in Key, amount \in Amount : AppendOne(key, amount)
       \/ AppendChunk \/ BeginGrow \/ DeferredGrow \/ DeferredGrowPastMaxHeight
       \/ \E t \in TCapacities, mode \in AutoModes : EnableAutoResize(t, mode)
       \/ \E active \in BOOLEAN : SetSweepWindowActive(active)
       \/ UNCHANGED <<evict_ctr, height, epoch, sweep_end, auto_resize>>
  BY DEF Next, AppendOverflows, BeginBatch, AppendChunkOverflows, ReadTotal, ReadDummy,
         path_access_unchanged, MigrateLeaf, GrowPastMaxHeight, ResetMetrics
<1> QED BY <1>1, <1>2, <1>3, <1>5, <1>6, <1>7, <1>8, <1>9, <1>10, <1>11
-----------------------------------------------------------------------------
(***************************************************************************)
(* The sweep after a resize.                                                *)
(***************************************************************************)

\* Since the last resize the counter has gone on from where the sweep began.
SweepInv ==
  epoch > 0 =>
    LET first == sweep_end - leaf_count(height - 1)
    IN /\ height > 1
       /\ first \in 0..evict_ctr
       /\ visited = visits(first, evict_ctr - 1, height)

\* The leaves visited while the counter stands still, and one step further.
LEMMA VisitsGrow ==
  ASSUME NEW first \in Int, NEW ctr \in Int, first <= ctr, NEW h
  PROVE  /\ visits(ctr, ctr - 1, h) = {}
         /\ visits(first, (ctr + 1) - 1, h)
              = visits(first, ctr - 1, h) \cup {bit_reversed_leaf(ctr, h)}
<1>1. ctr..(ctr - 1) = {} /\ first..((ctr + 1) - 1) = (first..(ctr - 1)) \cup {ctr}
  OBVIOUS
<1> QED BY <1>1 DEF visits

\* A resize starts a sweep from the counter of that moment.
LEMMA SweepStarts ==
  ASSUME IInv, IInv', height' = height + 1, sweep_end' = evict_ctr' + leaf_count(height), Observe
  PROVE  SweepInv'
<1>1. height \in Nat /\ height >= 1 /\ evict_ctr' \in Nat
  BY Heights DEF IInv, TypeOK
<1>2. height' - 1 = height /\ height' > 1 /\ height' # height
  BY <1>1
<1>3. leaf_count(height) \in Nat
  BY <1>1, LeafCount
<1> DEFINE old == leaf_count(height)
           ctr == evict_ctr'
<1>4. sweep_end' - old = ctr
  <2>1. old \in Nat /\ ctr \in Nat /\ sweep_end' = ctr + old
    BY <1>1, <1>3
  <2> HIDE DEF old, ctr
  <2> QED BY <2>1
<1>5. visited' = {}
  BY <1>2 DEF Observe
<1>6. visits(ctr, ctr - 1, height') = {}
  <2> HIDE DEF ctr
  <2> QED BY <1>1, VisitsGrow DEF ctr
<1>7. sweep_end' - leaf_count(height' - 1) = ctr
  BY <1>2, <1>4
<1>8. ctr \in 0..ctr
  BY <1>1
<1> QED BY <1>2, <1>5, <1>6, <1>7, <1>8 DEF SweepInv

\* The sweep goes on from leaf to leaf.
LEMMA SweepNext ==
  ASSUME IInv, SweepInv, Benchmarking = FALSE, [HNext]_hvars
  PROVE  SweepInv'
<1>1. CASE UNCHANGED hvars
  BY <1>1 DEF hvars, vars, history, SweepInv, visits
<1>2. CASE HNext
  <2>1. Next /\ Observe
    BY <1>2 DEF HNext
  <2>2. IInv'
    BY <2>1, NextInv
  <2>3. height \in Nat /\ evict_ctr \in Nat /\ epoch \in Nat
    BY Heights DEF IInv, TypeOK
  <2>4. ASSUME NEW mem, NEW ctr, ctr = evict_ctr', grow_physical_storage(mem, ctr)
        PROVE  SweepInv'
    <3>1. height' = height + 1 /\ sweep_end' = evict_ctr' + leaf_count(height)
      BY <2>4 DEF grow_physical_storage, new_sweep_end
    <3> QED BY <2>1, <2>2, <3>1, SweepStarts
  <2>5. ASSUME evict_ctr' = evict_ctr + 1, UNCHANGED <<height, epoch, sweep_end>>
        PROVE  SweepInv'
    <3>1. CASE epoch > 0
      <4> DEFINE first == sweep_end - leaf_count(height - 1)
      <4>1. height > 1 /\ first \in 0..evict_ctr /\ visited = visits(first, evict_ctr - 1, height)
        BY <3>1 DEF SweepInv
      <4> HIDE DEF first
      <4>2. visited' = visited \cup {bit_reversed_leaf(evict_ctr, height)}
        BY <2>1, <2>3, <2>5 DEF Observe, evicted, evicted_leaf
      <4>3. visited' = visits(first, evict_ctr' - 1, height)
        BY <2>3, <2>5, <4>1, <4>2, VisitsGrow
      <4>4. first \in 0..evict_ctr'
        BY <2>3, <2>5, <4>1
      <4>5. first = sweep_end' - leaf_count(height' - 1)
        BY <2>5 DEF first
      <4> QED BY <2>5, <4>1, <4>3, <4>4, <4>5 DEF SweepInv
    <3> QED BY <2>5, <3>1 DEF SweepInv
  <2>6. ASSUME UNCHANGED <<evict_ctr, height, epoch, sweep_end>>
        PROVE  SweepInv'
    <3>1. visited' = visited
      BY <2>1, <2>6 DEF Observe, evicted
    <3> QED BY <2>6, <3>1 DEF SweepInv, visits
  <2>7. \/ \E stash : Eviction(stash)
        \/ Growth
        \/ UNCHANGED <<evict_ctr, height, epoch, sweep_end>>
    BY <2>1, StepKinds DEF Quiet
  <2>8. CASE \E stash : Eviction(stash)
    BY <2>4, <2>5, <2>8 DEF Eviction, EvictionCounts, EvictionCloses, EvictionGrows
  <2>9. CASE Growth
    BY <2>4, <2>9 DEF Growth
  <2> QED BY <2>6, <2>7, <2>8, <2>9
<1> QED BY <1>1, <1>2

\* What the invariant says of the leaves of the tree before the resize.
LEMMA SweepSees ==
  ASSUME IInv, SweepInv
  PROVE  SweepVisitsEveryOldLeaf
<1> SUFFICES ASSUME epoch > 0
             PROVE  LET old == leaf_count(height - 1)
                    IN IF sweep_active
                         THEN Cardinality(old_leaves_seen) = evict_ctr - (sweep_end - old)
                         ELSE old_leaves_seen = Leaf(height - 1)
  BY DEF SweepVisitsEveryOldLeaf
<1> DEFINE h     == height - 1
           old   == leaf_count(h)
           first == sweep_end - old
           last  == evict_ctr - 1
<1>1. height > 1 /\ first \in 0..evict_ctr /\ visited = visits(first, last, height)
  BY DEF SweepInv
<1>2. height \in Nat /\ h \in Nat /\ evict_ctr \in Nat /\ sweep_end \in Nat /\ last \in Int
  BY <1>1, Heights DEF IInv, TypeOK
<1>3. old \in Nat
  BY <1>2, LeafCount
<1>4. old_leaves_seen = visits(first, last, h)
  <2>1. \A c : node_on_path(bit_reversed_leaf(c, height), h) = bit_reversed_leaf(c, h)
    BY <1>1, <1>2, ParentVisited
  <2> HIDE DEF h, first, last
  <2>2. old_leaves_seen = {node_on_path(leaf, h) : leaf \in visits(first, last, height)}
    BY <1>1 DEF old_leaves_seen, h
  <2> QED BY <2>1, <2>2 DEF visits
<1>5. first \in Nat /\ sweep_end = first + old
  <2> HIDE DEF old
  <2> QED BY <1>1, <1>2, <1>3
<1>6. CASE sweep_active
  <2>1. last - first < old /\ first <= last + 1 /\ last + 1 - first = evict_ctr - first
    <3>1. evict_ctr < sweep_end
      BY <1>6 DEF sweep_active
    <3> HIDE DEF old, first
    <3> QED BY <1>1, <1>2, <1>3, <1>5, <3>1
  <2>2. Cardinality(visits(first, last, h)) = evict_ctr - first
    <3> HIDE DEF h, first, last
    <3> QED BY <1>2, <1>5, <2>1, VisitsAreDistinct DEF old
  <2> QED BY <1>4, <1>6, <2>2
<1>7. CASE ~sweep_active
  <2>1. last + 1 - first >= old
    <3>1. evict_ctr >= sweep_end
      BY <1>2, <1>7 DEF sweep_active
    <3> HIDE DEF old, first
    <3> QED BY <1>2, <1>3, <1>5, <3>1
  <2>2. Leaf(h) \subseteq visits(first, last, h)
    <3> HIDE DEF h, first, last
    <3> QED BY <1>2, <1>5, <2>1, VisitsAreComplete DEF old
  <2>3. visits(first, last, h) \subseteq Leaf(h)
    BY DEF visits, bit_reversed_leaf, bit_of, Leaf, Bit
  <2> HIDE DEF first, last
  <2> QED BY <1>4, <1>7, <2>2, <2>3
<1> QED BY <1>6, <1>7

\* resize.rs:349, ops.rs:129-144: while a sweep lasts every eviction is of a leaf of
\* the old tree not evicted since the resize, and when it ends each has been; appends,
\* reads, batches and further resizes that come in between change nothing of that.
\* (set_sweep_window_active, for benchmarks, ends a sweep early.)
THEOREM SweepMigratesEveryLeaf ==
  ASSUME Benchmarking = FALSE
  PROVE  HSpec => []SweepVisitsEveryOldLeaf
<1>1. HInit => SweepInv
  BY DEF HInit, Init, SweepInv
<1>2. IInv /\ SweepInv /\ [HNext]_hvars => SweepInv'
  BY SweepNext
<1>3. IInv /\ SweepInv => SweepVisitsEveryOldLeaf
  BY SweepSees
<1> QED BY ObservedInv, <1>1, <1>2, <1>3, PTL DEF HSpec
-----------------------------------------------------------------------------
(***************************************************************************)
(* The window of the resize estimator.                                      *)
(***************************************************************************)

\* A window is no longer than the tree has leaves, and while no signal waits the
\* leaves it counted are those of the last evictions, fewer than k until it closes.
WindowInv ==
  auto_resize.enabled =>
    /\ auto_resize.k \in 1..leaf_count(height)
    /\ ~auto_resize.pending_grow =>
         LET n == auto_resize.evictions_since_check
         IN /\ n <= evict_ctr /\ n <= auto_resize.k
            /\ panicked = "no" => n < auto_resize.k
            /\ sampled = visits(evict_ctr - n, evict_ctr - 1, height)

\* The window that dp_initial_k chooses has at least one eviction and at most one
\* for each leaf.
LEMMA WindowSize ==
  ASSUME NEW t, NEW h \in Nat
  PROVE  dp_initial_k(t, leaf_count(h)) \in 1..leaf_count(h)
<1> DEFINE l == leaf_count(h)
           candidates == {1} \cup {r \in 1..l : r^3 * A^2 <= t * l}
<1>1. l \in Nat \ {0}
  BY PowerOfTwo DEF leaf_count
<1> HIDE DEF l
<1>2. candidates \in SUBSET Int /\ candidates # {} /\ \A x \in candidates : x \in 1..l /\ x <= l
  BY <1>1
<1>3. Max(candidates) \in candidates
  <2> HIDE DEF candidates
  <2> QED BY <1>1, <1>2, MaxOfBounded
<1> QED BY <1>2, <1>3 DEF dp_initial_k, l

\* A window that starts anew has counted nothing.
LEMMA WindowStarts ==
  ASSUME IInv, IInv', Observe, auto_resize'.evictions_since_check = 0,
         auto_resize'.k \in 1..leaf_count(height')
  PROVE  WindowInv'
<1>1. auto_resize.evictions_since_check \in Nat /\ evict_ctr' \in Nat
  BY DEF IInv, TypeOK, AutoResizeState
<1>2. sampled' = {}
  BY <1>1 DEF Observe, counted
<1> DEFINE ctr == evict_ctr'
<1>3. visits(ctr, ctr - 1, height') = {}
  <2> HIDE DEF ctr
  <2> QED BY <1>1, VisitsGrow DEF ctr
<1>4. ctr - 0 = ctr
  <2>1. ctr \in Nat
    BY <1>1
  <2> HIDE DEF ctr
  <2> QED BY <2>1
<1> QED BY <1>1, <1>2, <1>3, <1>4 DEF WindowInv

\* A window that an eviction extends, or leaves to a waiting signal.
LEMMA WindowGoesOn ==
  ASSUME IInv, WindowInv, panicked = "no", Observe, NEW stash,
         evict_ctr' = evict_ctr + 1, EvictionCounts(stash)
  PROVE  WindowInv'
<1> DEFINE n == auto_resize.evictions_since_check
<1>1. n \in Nat /\ evict_ctr \in Nat /\ auto_resize \in AutoResizeState
  BY DEF IInv, TypeOK, AutoResizeState
<1>2. auto_resize' = record_eviction(auto_resize, evicted_blocks(stash), evicted_leaf)
      /\ height' = height
  BY DEF EvictionCounts, recorded
<1> SUFFICES ASSUME auto_resize.enabled PROVE WindowInv'
  BY <1>2 DEF WindowInv, record_eviction
<1>3. /\ auto_resize'.evictions_since_check = n + 1
      /\ auto_resize'.k = auto_resize.k
      /\ auto_resize'.enabled = auto_resize.enabled
      /\ auto_resize'.pending_grow = auto_resize.pending_grow
  BY <1>1, <1>2 DEF record_eviction, AutoResizeState
<1>4. auto_resize.k \in 1..leaf_count(height)
  BY DEF WindowInv
<1>5. CASE auto_resize.pending_grow
  BY <1>2, <1>3, <1>4, <1>5 DEF WindowInv
<1>6. CASE ~auto_resize.pending_grow
  <2>1. n <= evict_ctr /\ n < auto_resize.k /\ sampled = visits(evict_ctr - n, evict_ctr - 1, height)
    BY <1>6 DEF WindowInv
  <2>2. sampled' = sampled \cup {bit_reversed_leaf(evict_ctr, height)}
    BY <1>1, <1>3 DEF Observe, counted, evicted, evicted_leaf
  <2>3. auto_resize.k \in Int
    BY <1>1 DEF AutoResizeState
  <2>4. n + 1 <= evict_ctr' /\ n + 1 <= auto_resize.k
    BY <1>1, <2>1, <2>3
  <2>5. panicked' = "no" => n + 1 < auto_resize.k
    <3>1. panicked' = "no" => ~should_check_epoch(auto_resize')
      BY DEF EvictionCounts
    <3> QED BY <1>1, <1>3, <1>6, <2>3, <3>1 DEF should_check_epoch
  <2>6. sampled' = visits(evict_ctr' - (n + 1), evict_ctr' - 1, height')
    <3> DEFINE first == evict_ctr - n
    <3>1. first \in Int /\ first <= evict_ctr /\ evict_ctr' - (n + 1) = first
      BY <1>1, <2>1
    <3> HIDE DEF first
    <3>2. sampled' = visits(first, (evict_ctr + 1) - 1, height)
      BY <1>1, <2>1, <2>2, <3>1, VisitsGrow DEF first
    <3> QED BY <1>2, <3>1, <3>2
  <2> HIDE DEF n
  <2> QED BY <1>2, <1>3, <1>4, <2>4, <2>5, <2>6 DEF WindowInv
<1> QED BY <1>5, <1>6

\* Every step keeps to the window.
LEMMA WindowNext ==
  ASSUME IInv, WindowInv, ManualGrow = FALSE, [HNext]_hvars
  PROVE  WindowInv'
<1>1. CASE UNCHANGED hvars
  BY <1>1 DEF hvars, vars, history, WindowInv, visits
<1>2. CASE HNext
  <2>1. Next /\ Observe
    BY <1>2 DEF HNext
  <2>2. IInv' /\ panicked = "no"
    BY <2>1, NextInv, StepKinds
  <2>3. height \in Nat /\ height + 1 \in Nat /\ evict_ctr \in Nat
    BY Heights DEF IInv, TypeOK
  <2>4. ASSUME UNCHANGED height, auto_resize'.evictions_since_check = 0,
               auto_resize.enabled, auto_resize'.k = auto_resize.k
        PROVE  WindowInv'
    <3>1. auto_resize'.k \in 1..leaf_count(height')
      BY <2>4 DEF WindowInv
    <3> QED BY <2>1, <2>2, <2>4, <3>1, WindowStarts
  <2>5. ASSUME NEW t, height' \in Nat, auto_resize'.evictions_since_check = 0,
               auto_resize'.k = dp_initial_k(t, leaf_count(height'))
        PROVE  WindowInv'
    <3>1. auto_resize'.k \in 1..leaf_count(height')
      BY <2>5, WindowSize
    <3> QED BY <2>1, <2>2, <2>5, <3>1, WindowStarts
  <2>6. ASSUME UNCHANGED <<evict_ctr, height, auto_resize>> PROVE WindowInv'
    <3>1. sampled' = IF auto_resize.evictions_since_check = 0 THEN {} ELSE sampled
      BY <2>1, <2>6 DEF Observe, counted, evicted
    <3>2. ASSUME auto_resize.evictions_since_check = 0
          PROVE  visits(evict_ctr - auto_resize.evictions_since_check, evict_ctr - 1, height) = {}
      <4>1. evict_ctr - 0 = evict_ctr /\ evict_ctr <= evict_ctr /\ evict_ctr \in Int
        BY <2>3
      <4> QED BY <3>2, <4>1, VisitsGrow
    <3>3. ASSUME auto_resize.enabled, ~auto_resize.pending_grow
          PROVE  sampled' = visits(evict_ctr - auto_resize.evictions_since_check, evict_ctr - 1, height)
      BY <3>1, <3>2, <3>3 DEF WindowInv
    <3> QED BY <2>2, <2>6, <3>3 DEF WindowInv
  <2>7. ASSUME NEW stash, Eviction(stash) PROVE WindowInv'
    <3>1. evict_ctr' = evict_ctr + 1
      BY <2>7 DEF Eviction
    <3>2. CASE EvictionCounts(stash)
      BY <2>1, <2>2, <3>1, <3>2, WindowGoesOn
    <3>3. CASE EvictionCloses(stash)
      BY <2>4, <3>3 DEF EvictionCloses
    <3>4. CASE EvictionGrows(stash)
      <4>1. height' = height + 1
        BY <3>4 DEF EvictionGrows, grow_physical_storage
      <4> QED BY <2>3, <2>5, <3>4, <4>1 DEF EvictionGrows
    <3> QED BY <2>7, <3>2, <3>3, <3>4 DEF Eviction
  <2>8. CASE Growth
    <3>1. height' = height + 1
      BY <2>8 DEF Growth, grow_physical_storage
    <3> QED BY <2>3, <2>5, <2>8, <3>1 DEF Growth
  <2>9. CASE Quiet
    BY <2>3, <2>4, <2>5, <2>6, <2>9 DEF Quiet
  <2> QED BY <2>1, <2>7, <2>8, <2>9, StepKinds
<1> QED BY <1>1, <1>2

\* resize.rs:196-213, 232-237: between two decisions no leaf is evicted twice, so each
\* key is counted at most once and c_sum estimates a fraction of the tree; for every
\* capacity, height and eviction counter at which a window may open.  (grow by hand
\* does not close the window, so a window open across it mixes two trees' leaves.)
THEOREM WindowsSampleDistinctLeaves ==
  ASSUME ManualGrow = FALSE
  PROVE  HSpec => []WindowSamplesDistinctLeaves
<1>1. HInit => WindowInv
  BY DEF HInit, Init, NoAutoResize, WindowInv
<1>2. IInv /\ WindowInv /\ [HNext]_hvars => WindowInv'
  BY WindowNext
<1>3. IInv /\ WindowInv => WindowSamplesDistinctLeaves
  <2> SUFFICES ASSUME IInv, WindowInv, auto_resize.enabled, ~auto_resize.pending_grow
               PROVE  /\ Cardinality(sampled) = auto_resize.evictions_since_check
                      /\ \A leaf \in sampled : leaf \in Leaf(height)
    BY DEF WindowSamplesDistinctLeaves
  <2> DEFINE n == auto_resize.evictions_since_check
             first == evict_ctr - n
             last  == evict_ctr - 1
             l     == leaf_count(height)
  <2>1. n <= evict_ctr /\ n <= auto_resize.k /\ auto_resize.k \in 1..l
        /\ sampled = visits(first, last, height)
    BY DEF WindowInv
  <2>2. n \in Nat /\ evict_ctr \in Nat /\ height \in Nat
    BY Heights DEF IInv, TypeOK, AutoResizeState
  <2>3. l \in Nat
    BY <2>2, LeafCount
  <2> HIDE DEF n, l
  <2>4. first \in Nat /\ last \in Int /\ last - first < l /\ first <= last + 1 /\ last + 1 - first = n
    BY <2>1, <2>2, <2>3
  <2> HIDE DEF first, last
  <2>5. Cardinality(sampled) = n /\ sampled \subseteq Leaf(height)
    BY <2>1, <2>2, <2>4, VisitsAreDistinct DEF l
  <2> QED BY <2>5 DEF n
<1> QED BY ObservedInv, <1>1, <1>2, <1>3, PTL DEF HSpec
-----------------------------------------------------------------------------
(***************************************************************************)
(* Evictions every A appends.                                               *)
(***************************************************************************)

\* No more updates than since the last multiple of A have waited for an eviction.
IntervalInv == since_evict \in Nat /\ since_evict <= append_ctr % A

\* The end of an append of len updates that goes no further than the next multiple.
LEMMA AppendInterval ==
  ASSUME IInv, SweepIntervalDivides, IntervalInv, Observe, NEW len \in Nat, NEW stash,
         append_ctr' = append_ctr + len, (append_ctr % A) + len <= A,
         finish_append_after_insert(stash, append_ctr + len)
  PROVE  IntervalInv'
<1>1. append_ctr \in Nat /\ evict_ctr \in Nat /\ A \in Nat \ {0} /\ append_ctr + len \in Nat
  BY IntervalAssumption DEF IInv, TypeOK
<1>2. append_ctr % A \in 0..(A - 1) /\ append_ctr' % A \in 0..(A - 1)
  BY <1>1, Division
<1>3. CASE evict_ctr' = evict_ctr + 1
  <2>1. since_evict' = 0
    BY <1>1, <1>3 DEF Observe, evicted
  <2> QED BY <1>2, <2>1 DEF IntervalInv
<1>4. CASE (append_ctr + len) % current_evict_interval # 0 /\ evict_ctr' = evict_ctr
  <2>1. append_ctr' % A = (append_ctr % A) + len
    BY <1>4, InsideInterval
  <2>2. since_evict' = since_evict + len
    BY <1>1, <1>4 DEF Observe, evicted
  <2> DEFINE here == append_ctr % A
  <2>3. here \in Nat /\ since_evict \in Nat /\ since_evict <= here
    BY <1>2 DEF IntervalInv
  <2> HIDE DEF here
  <2>4. since_evict' \in Nat /\ since_evict' <= here + len
    BY <2>2, <2>3
  <2> QED BY <2>1, <2>4 DEF IntervalInv, here
<1> QED BY <1>3, <1>4 DEF finish_append_after_insert, evict_after_insert

\* Every step keeps to the interval.
LEMMA IntervalNext ==
  ASSUME IInv, IntervalInv, SweepIntervalDivides, [HNext]_hvars
  PROVE  IntervalInv'
<1>1. append_ctr \in Nat /\ A \in Nat \ {0}
  BY IntervalAssumption DEF IInv, TypeOK
<1>2. CASE UNCHANGED hvars
  BY <1>2 DEF hvars, vars, history, IntervalInv
<1>3. CASE HNext
  <2>1. Next /\ Observe
    BY <1>3 DEF HNext
  <2>2. ASSUME NEW key \in Key, NEW amount \in Amount, AppendOne(key, amount) PROVE IntervalInv'
    <3>1. append_ctr % A \in 0..(A - 1)
      BY <1>1, Division
    <3>2. (append_ctr % A) + 1 <= A
      BY <1>1, <3>1
    <3> DEFINE stash == overflow \cup
                          {new_block([key |-> key, amount |-> amount], append_ctr + 1)}
    <3>3. append_ctr' = append_ctr + 1 /\ finish_append_after_insert(stash, append_ctr + 1)
      BY <2>2 DEF AppendOne
    <3> HIDE DEF stash
    <3> QED BY <2>1, <3>2, <3>3, AppendInterval
  <2>3. CASE AppendChunk
    <3>1. /\ batch # <<>> /\ append_ctr' = append_ctr + chunk_len
          /\ finish_append_after_insert(overflow \cup chunk_blocks, append_ctr + chunk_len)
      BY <2>3 DEF AppendChunk
    <3> QED BY <2>1, <3>1, ChunkInsideInterval, AppendInterval
  <2>4. CASE UNCHANGED <<append_ctr, evict_ctr>>
    <3>1. since_evict' = since_evict + (append_ctr - append_ctr)
      BY <2>1, <2>4 DEF Observe, evicted
    <3>2. since_evict' = since_evict
      BY <1>1, <3>1 DEF IntervalInv
    <3> QED BY <2>4, <3>2 DEF IntervalInv
  <2>5. \/ \E key \in Key, amount \in Amount : AppendOne(key, amount)
        \/ AppendChunk
        \/ UNCHANGED <<append_ctr, evict_ctr>>
    BY <2>1 DEF Next, AppendOverflows, BeginBatch, AppendChunkOverflows, ReadTotal, ReadDummy,
         path_access_unchanged, BeginGrow, MigrateLeaf, GrowPastMaxHeight, EnableAutoResize,
         DeferredGrow, DeferredGrowPastMaxHeight, SetSweepWindowActive, ResetMetrics
  <2> QED BY <2>2, <2>3, <2>4, <2>5
<1> QED BY <1>2, <1>3

\* mod.rs:50: "Deterministic path eviction occurs every `A` operations".  It does when
\* the halved interval of a sweep divides A, wherever sweeps begin and end and however
\* appends are batched; without that it does not (the run odd_interval has A = 5).
THEOREM EvictionsEveryInterval ==
  ASSUME SweepIntervalDivides
  PROVE  HSpec => []EvictsEveryA
<1>1. HInit => IntervalInv
  <2> SUFFICES ASSUME HInit PROVE IntervalInv
    OBVIOUS
  <2>1. append_ctr = 0 /\ since_evict = 0 /\ A \in Nat \ {0}
    BY IntervalAssumption DEF HInit, Init
  <2>2. append_ctr % A \in 0..(A - 1)
    BY <2>1, Division
  <2> QED BY <2>1, <2>2 DEF IntervalInv
<1>2. IInv /\ IntervalInv /\ [HNext]_hvars => IntervalInv'
  BY IntervalNext
<1>3. IInv /\ IntervalInv => EvictsEveryA
  <2> SUFFICES ASSUME IInv, IntervalInv PROVE since_evict < A
    BY DEF EvictsEveryA
  <2>1. append_ctr \in Nat /\ A \in Nat \ {0}
    BY IntervalAssumption DEF IInv, TypeOK
  <2>2. append_ctr % A \in 0..(A - 1)
    BY <2>1, Division
  <2> QED BY <2>1, <2>2 DEF IntervalInv
<1> QED BY ObservedInv, <1>1, <1>2, <1>3, PTL DEF HSpec
-----------------------------------------------------------------------------
(***************************************************************************)
(* Epochs.                                                                  *)
(***************************************************************************)

\* A block has updates, all of known date, and the epoch of the oldest.
dates_of(b, dates) == {dates[u[1]] : u \in b.value}
Dated(b, dates) ==
  /\ b.value # {}
  /\ \A u \in b.value : u[1] \in 1..Len(dates)
  /\ b.epoch = Min(dates_of(b, dates))
AllDated(blocks, dates) == \A b \in blocks : Dated(b, dates)

\* Every update has a date, none in the future, and every stored block is dated.
DatesInv ==
  /\ born \in Seq(Nat) /\ Len(born) = append_ctr
  /\ epoch <= 255
  /\ \A i \in 1..append_ctr : born[i] <= epoch
  /\ AllDated(Stored(physical_memory, height, overflow), born)

\* The dates of a block's updates are numbers, and its epoch is the smallest.
LEMMA OldestDate ==
  ASSUME NEW dates \in Seq(Nat), NEW b, Dated(b, dates)
  PROVE  /\ dates_of(b, dates) \in SUBSET Nat /\ dates_of(b, dates) # {}
         /\ b.epoch \in dates_of(b, dates) /\ b.epoch \in Nat
         /\ \A x \in dates_of(b, dates) : b.epoch <= x
<1>1. dates_of(b, dates) \in SUBSET Nat /\ dates_of(b, dates) # {}
  BY DEF Dated, dates_of
<1>2. b.epoch = Min(dates_of(b, dates))
  BY DEF Dated
<1> QED BY <1>1, <1>2, MinOfNat

\* The smallest number of a set is the only one of its members below all others.
LEMMA SmallestIsMin ==
  ASSUME NEW T \in SUBSET Nat, NEW m \in T, \A x \in T : m <= x
  PROVE  m = Min(T)
<1>1. Min(T) \in T /\ \A x \in T : Min(T) <= x
  BY MinOfNat
<1>2. Min(T) \in Nat /\ m \in Nat /\ Min(T) <= m /\ m <= Min(T)
  BY <1>1
<1> QED BY ONLY <1>2

\* Merging keeps the oldest date of all copies of a key.
LEMMA MergedDated ==
  ASSUME NEW dates \in Seq(Nat), NEW blocks \in SUBSET Block, AllDated(blocks, dates)
  PROVE  AllDated(merge_accumulate(blocks), dates)
<1> SUFFICES ASSUME NEW b \in merge_accumulate(blocks) PROVE Dated(b, dates)
  BY DEF AllDated
<1> DEFINE copies(k) == {c \in blocks : c.key = k}
           one(k) == [key |-> k, epoch |-> Min({c.epoch : c \in copies(k)}),
                      value |-> UNION {c.value : c \in copies(k)}]
<1>1. PICK k \in {c.key : c \in blocks} : b = one(k)
  BY Zenon DEF merge_accumulate
<1> DEFINE epochs == {c.epoch : c \in copies(k)}
           all == dates_of(b, dates)
<1>2. b.epoch = Min(epochs) /\ b.value = UNION {c.value : c \in copies(k)}
  BY <1>1
<1>3. copies(k) # {} /\ \A c \in copies(k) : Dated(c, dates)
  BY <1>1 DEF AllDated
<1> HIDE DEF one, copies
<1>4. \A c \in copies(k) : /\ dates_of(c, dates) \subseteq all
                           /\ dates_of(c, dates) \in SUBSET Nat
                           /\ c.epoch \in dates_of(c, dates) /\ c.epoch \in Nat
                           /\ \A x \in dates_of(c, dates) : c.epoch <= x
  <2> TAKE c \in copies(k)
  <2>1. dates_of(c, dates) \subseteq all
    BY <1>2 DEF dates_of
  <2>2. Dated(c, dates)
    BY <1>3
  <2> HIDE DEF all
  <2> QED BY <2>1, <2>2, OldestDate
<1>5. \A x \in all : \E c \in copies(k) : x \in dates_of(c, dates)
  BY <1>2 DEF dates_of
<1>6. all \in SUBSET Nat
  BY <1>4, <1>5
<1>7. epochs \in SUBSET Nat /\ epochs # {}
  BY <1>3, <1>4
<1>8. Min(epochs) \in epochs /\ \A x \in epochs : Min(epochs) <= x
  <2> HIDE DEF epochs
  <2> QED BY <1>7, MinOfNat
<1>9. PICK c \in copies(k) : c.epoch = Min(epochs)
  BY <1>8
<1>10. \A d \in copies(k) : Min(epochs) <= d.epoch
  BY <1>8
<1> HIDE DEF epochs, all
<1>11. Min(epochs) \in all
  BY <1>4, <1>9
<1>12. \A x \in all : Min(epochs) <= x
  <2> TAKE x \in all
  <2>1. PICK d \in copies(k) : x \in dates_of(d, dates)
    BY <1>5
  <2>2. Min(epochs) <= d.epoch /\ d.epoch <= x /\ d.epoch \in Nat /\ x \in Nat /\ Min(epochs) \in Nat
    BY <1>4, <1>6, <1>10, <1>11, <2>1
  <2> QED BY ONLY <2>2
<1>13. Min(epochs) = Min(all)
  BY <1>6, <1>11, <1>12, SmallestIsMin
<1>14. b.value # {} /\ \A u \in b.value : u[1] \in 1..Len(dates)
  BY <1>2, <1>3 DEF Dated
<1> QED BY <1>2, <1>13, <1>14 DEF Dated, all

\* Writing back some of what an access merged leaves only dated blocks.
LEMMA AccessDated ==
  ASSUME IInv, NEW leaf \in Leaf(height), NEW stash, StashOK(stash), NEW dates \in Seq(Nat),
         AllDated(Stored(physical_memory, height, stash), dates),
         NEW kept \in SUBSET merge_accumulate(read_from_path(stash, leaf))
  PROVE  LET level == assigned_level(kept, leaf)
         IN AllDated(Stored(written_memory(level, leaf), height, written_overflow(level, leaf)),
                     dates)
<1> DEFINE level    == assigned_level(kept, leaf)
           gathered == read_from_path(stash, leaf)
           merged   == merge_accumulate(gathered)
<1>1. gathered \in SUBSET Block
  BY ReadType DEF StashOK
<1>2. merged \in SUBSET Block /\ IsFiniteSet(merged) /\ Distinct(merged)
  BY Gathered
<1>3. Stored(physical_memory, height, stash) = gathered \cup OffPath(leaf)
  BY ReadAndOffPath
<1> HIDE DEF gathered
<1>4. AllDated(gathered, dates) /\ AllDated(OffPath(leaf), dates)
  BY <1>3 DEF AllDated
<1>5. AllDated(merged, dates)
  BY <1>1, <1>4, MergedDated
<1>6. kept \in SUBSET merged
  BY DEF gathered
<1> HIDE DEF merged
<1>7. kept \in SUBSET Block /\ IsFiniteSet(kept) /\ Distinct(kept) /\ AllDated(kept, dates)
  <2>1. kept \in SUBSET Block /\ Distinct(kept) /\ AllDated(kept, dates)
    BY <1>2, <1>5, <1>6 DEF Distinct, AllDated
  <2>2. IsFiniteSet(kept)
    BY <1>2, <1>6, FS_Subset
  <2> QED BY <2>1, <2>2
<1>8. Stored(written_memory(level, leaf), height, written_overflow(level, leaf))
        = kept \cup OffPath(leaf)
  BY <1>7, WrittenAndOffPath
<1> QED BY <1>4, <1>7, <1>8 DEF AllDated

\* So does an eviction, whether it resizes or panics.
LEMMA FinishAppendDated ==
  ASSUME IInv, NEW stash, StashOK(stash), NEW dates \in Seq(Nat), NEW ctr,
         AllDated(Stored(physical_memory, height, stash), dates),
         finish_append_after_insert(stash, ctr)
  PROVE  AllDated(Stored(physical_memory', height', overflow'), dates)
<1> DEFINE leaf  == bit_reversed_leaf(evict_ctr, height)
           level == assigned_level(merge_accumulate(read_from_path(stash, leaf)), leaf)
           mem   == written_memory(level, leaf)
           over  == written_overflow(level, leaf)
<1>1. AllDated(Stored(mem, height, over), dates)
  <2>1. leaf \in Leaf(height)
    BY EvictionLeaf
  <2> HIDE DEF leaf
  <2> QED BY <2>1, AccessDated
<1>2. \/ overflow' = over /\ \E auto : check_and_maybe_resize(mem, auto)
      \/ overflow' = stash /\ physical_memory' = physical_memory /\ height' = height
  BY Zenon DEF finish_append_after_insert, evict_after_insert
<1> HIDE DEF mem, over
<1>3. CASE overflow' = over /\ \E auto : check_and_maybe_resize(mem, auto)
  <2>1. Stored(physical_memory', height', over) = Stored(mem, height, over)
    BY <1>3, Heights, CheckContent
  <2> QED BY <1>1, <1>3, <2>1
<1>4. CASE overflow' = stash /\ physical_memory' = physical_memory /\ height' = height
  BY <1>4
<1> QED BY <1>2, <1>3, <1>4

\* And a read or a migration.
LEMMA WriteDated ==
  ASSUME IInv, NEW leaf \in Leaf(height), NEW dates \in Seq(Nat),
         AllDated(Stored(physical_memory, height, overflow), dates),
         NEW kept \in SUBSET merge_accumulate(read_from_path(overflow, leaf)),
         write_to_path(kept, leaf), height' = height
  PROVE  AllDated(Stored(physical_memory', height', overflow'), dates)
<1> DEFINE level == assigned_level(kept, leaf)
           mem   == written_memory(level, leaf)
           over  == written_overflow(level, leaf)
<1>1. AllDated(Stored(mem, height, over), dates)
  BY AccessDated DEF IInv
<1>2. \/ physical_memory' = mem /\ overflow' = over
      \/ UNCHANGED <<physical_memory, overflow>>
  BY DEF write_to_path
<1> HIDE DEF mem, over
<1> QED BY <1>1, <1>2

-----------------------------------------------------------------------------
\* The dates of the updates appended by a step.
LEMMA DatesExtended ==
  ASSUME IInv, DatesInv, Observe, NEW len \in Nat, append_ctr' = append_ctr + len
  PROVE  /\ born' \in Seq(Nat) /\ Len(born') = append_ctr + len
         /\ \A i \in 1..append_ctr : born'[i] = born[i]
         /\ \A i \in 1..len : born'[append_ctr + i] = epoch
<1>1. append_ctr \in Nat /\ epoch \in Nat /\ born \in Seq(Nat) /\ Len(born) = append_ctr
  BY DEF IInv, TypeOK, DatesInv
<1> DEFINE more == [i \in 1..len |-> epoch]
<1>2. more \in Seq(Nat) /\ Len(more) = len /\ \A i \in 1..len : more[i] = epoch
  BY <1>1
<1>3. born' = born \o more
  <2>1. append_ctr' - append_ctr = len
    BY <1>1
  <2> QED BY <2>1 DEF Observe
<1> HIDE DEF more
<1>4. born \o more \in Seq(Nat) /\ Len(born \o more) = append_ctr + len
  BY <1>1, <1>2
<1>5. ASSUME NEW i \in 1..append_ctr PROVE (born \o more)[i] = born[i]
  BY <1>1, <1>2
<1>6. ASSUME NEW i \in 1..len PROVE (born \o more)[append_ctr + i] = epoch
  <2>1. append_ctr + i \in 1..(append_ctr + len) /\ append_ctr + i > append_ctr
        /\ (append_ctr + i) - append_ctr = i
    BY <1>1
  <2>2. (born \o more)[append_ctr + i] = more[(append_ctr + i) - append_ctr]
    BY <1>1, <1>2, <2>1
  <2> QED BY <1>2, <2>1, <2>2
<1> QED BY <1>3, <1>4, <1>5, <1>6

\* A block keeps its date when others are appended.
LEMMA StillDated ==
  ASSUME NEW dates \in Seq(Nat), NEW longer \in Seq(Nat), Len(dates) <= Len(longer),
         \A i \in 1..Len(dates) : longer[i] = dates[i],
         NEW b, Dated(b, dates)
  PROVE  Dated(b, longer)
<1>1. dates_of(b, longer) = dates_of(b, dates)
  BY DEF dates_of, Dated
<1> QED BY <1>1 DEF Dated

\* A new block is of the current epoch.
LEMMA NewBlockDated ==
  ASSUME NEW dates \in Seq(Nat), NEW entry, NEW number \in 1..Len(dates),
         dates[number] = epoch, epoch \in Nat
  PROVE  Dated(new_block(entry, number), dates)
<1> DEFINE b == new_block(entry, number)
<1>1. b.value = {<<number, entry.amount>>} /\ b.epoch = epoch
  BY DEF new_block
<1> HIDE DEF b
<1>2. dates_of(b, dates) = {epoch}
  BY <1>1 DEF dates_of
<1>3. epoch = Min({epoch})
  BY SmallestIsMin
<1> QED BY <1>1, <1>2, <1>3 DEF Dated, b

\* What an append gives its eviction is dated.
LEMMA AppendedDated ==
  ASSUME IInv, DatesInv, Observe, NEW len \in Nat, append_ctr' = append_ctr + len, NEW blocks,
         \A b \in blocks : \E entry : \E i \in 1..len : b = new_block(entry, append_ctr + i)
  PROVE  AllDated(Stored(physical_memory, height, overflow \cup blocks), born')
<1>1. append_ctr \in Nat /\ epoch \in Nat /\ born \in Seq(Nat) /\ Len(born) = append_ctr
      /\ AllDated(Stored(physical_memory, height, overflow), born)
  BY DEF IInv, TypeOK, DatesInv
<1>2. /\ born' \in Seq(Nat) /\ Len(born') = append_ctr + len
      /\ \A i \in 1..append_ctr : born'[i] = born[i]
      /\ \A i \in 1..len : born'[append_ctr + i] = epoch
  BY DatesExtended
<1> DEFINE dates == born'
<1> HIDE DEF dates
<1>3. AllDated(Stored(physical_memory, height, overflow), dates)
  <2>1. Len(born) <= Len(dates)
    BY <1>1, <1>2 DEF dates
  <2> QED BY <1>1, <1>2, <2>1, StillDated DEF AllDated, dates
<1>4. AllDated(blocks, dates)
  <2> SUFFICES ASSUME NEW b \in blocks PROVE Dated(b, dates)
    BY DEF AllDated
  <2>1. PICK entry : \E j \in 1..len : b = new_block(entry, append_ctr + j)
    OBVIOUS
  <2> PICK i \in 1..len : b = new_block(entry, append_ctr + i)
    BY <2>1
  <2>2. append_ctr + i \in 1..(append_ctr + len)
    BY <1>1
  <2>3. Len(dates) = append_ctr + len /\ dates \in Seq(Nat) /\ dates[append_ctr + i] = epoch
    BY <1>2 DEF dates
  <2> QED BY <1>1, <2>2, <2>3, NewBlockDated
<1>5. Stored(physical_memory, height, overflow \cup blocks)
        = Stored(physical_memory, height, overflow) \cup blocks
  BY DEF Stored
<1> QED BY <1>3, <1>4, <1>5 DEF AllDated, dates
\* Epochs never go back, and stop at 255.
LEMMA EpochMoves ==
  ASSUME IInv, Next, epoch <= 255
  PROVE  epoch' \in Nat /\ epoch <= epoch' /\ epoch' <= 255
<1>1. epoch \in Nat
  BY DEF IInv, TypeOK
<1>2. ASSUME NEW mem, NEW ctr, grow_physical_storage(mem, ctr)
      PROVE  epoch' \in Nat /\ epoch <= epoch' /\ epoch' <= 255
  <2>1. epoch + 1 \in Nat /\ 255 \in Nat
    BY <1>1
  <2> DEFINE next == epoch + 1
  <2>2. Min({next, 255}) \in {next, 255} /\ Min({next, 255}) <= 255
    <3> HIDE DEF next
    <3> QED BY ONLY <2>1, MinOfTwo DEF next
  <2>3. epoch' = Min({next, 255})
    BY <1>2 DEF grow_physical_storage
  <2> QED BY <1>1, <2>2, <2>3
<1>3. \/ epoch' = epoch
      \/ \E mem, ctr : grow_physical_storage(mem, ctr)
  BY StepKinds DEF Eviction, EvictionCounts, EvictionCloses, EvictionGrows, Growth, Quiet
<1> QED BY <1>1, <1>2, <1>3

\* A step that leaves dated blocks behind keeps the invariant.
LEMMA DatesKept ==
  ASSUME IInv, DatesInv, Next, Observe, NEW len \in Nat, append_ctr' = append_ctr + len,
         AllDated(Stored(physical_memory', height', overflow'), born')
  PROVE  DatesInv'
<1>1. /\ append_ctr \in Nat /\ epoch \in Nat /\ epoch <= 255
      /\ \A i \in 1..append_ctr : born[i] <= epoch /\ born[i] \in Nat
  BY DEF IInv, TypeOK, DatesInv
<1>2. /\ born' \in Seq(Nat) /\ Len(born') = append_ctr + len
      /\ \A i \in 1..append_ctr : born'[i] = born[i]
      /\ \A i \in 1..len : born'[append_ctr + i] = epoch
  BY DatesExtended
<1>3. epoch' \in Nat /\ epoch <= epoch' /\ epoch' <= 255
  BY <1>1, EpochMoves
<1>4. ASSUME NEW i \in 1..(append_ctr + len) PROVE born'[i] <= epoch'
  <2>1. CASE i \in 1..append_ctr
    <3>1. born'[i] = born[i] /\ born[i] <= epoch /\ born[i] \in Nat
      BY <1>1, <1>2, <2>1
    <3> QED BY <1>1, <1>3, <3>1
  <2>2. CASE i \notin 1..append_ctr
    <3> DEFINE j == i - append_ctr
    <3>1. j \in 1..len /\ i = append_ctr + j
      BY <1>1, <2>2
    <3> HIDE DEF j
    <3>2. born'[i] = epoch
      BY <1>2, <3>1
    <3> QED BY <1>3, <3>2
  <2> QED BY <2>1, <2>2
<1>5. (AllDated(Stored(physical_memory, height, overflow), born))'
  BY DEF AllDated, Stored, Dated, dates_of
<1> QED BY <1>2, <1>3, <1>4, <1>5 DEF DatesInv

\* What the two appending actions insert.
Inserting(stash, len) ==
  /\ StashOK(stash)
  /\ len \in Nat /\ append_ctr' = append_ctr + len
  /\ finish_append_after_insert(stash, append_ctr + len)
  /\ AllDated(Stored(physical_memory, height, stash), born')

LEMMA AppendOneInserts ==
  ASSUME IInv, DatesInv, Observe, NEW key \in Key, NEW amount \in Amount, AppendOne(key, amount)
  PROVE  \E stash : Inserting(stash, 1)
<1> DEFINE entry == [key |-> key, amount |-> amount]
           block == new_block(entry, append_ctr + 1)
           stash == overflow \cup {block}
<1>1. append_ctr' = append_ctr + 1 /\ finish_append_after_insert(stash, append_ctr + 1)
  BY DEF AppendOne
<1>2. StashOK(stash)
  BY AppendOneStash
<1>3. \A b \in {block} : \E e : \E i \in 1..1 : b = new_block(e, append_ctr + i)
  <2>1. 1 \in 1..1
    OBVIOUS
  <2> HIDE DEF entry
  <2> QED BY <2>1
<1> HIDE DEF block
<1>4. AllDated(Stored(physical_memory, height, stash), born')
  BY <1>1, <1>3, AppendedDated
<1> QED BY <1>1, <1>2, <1>4 DEF Inserting

LEMMA AppendChunkInserts ==
  ASSUME IInv, DatesInv, Observe, AppendChunk
  PROVE  \E stash : Inserting(stash, chunk_len)
<1> DEFINE stash == overflow \cup chunk_blocks
<1>1. /\ append_ctr' = append_ctr + chunk_len /\ batch # <<>>
      /\ finish_append_after_insert(stash, append_ctr + chunk_len)
  BY DEF AppendChunk
<1>2. StashOK(stash)
  BY AppendChunkStash
<1>3. chunk_len \in Nat
  <2>1. batch \in Seq(Entry) /\ chunk_len \in 1..Len(batch)
    BY <1>1, Chunk DEF IInv, TypeOK
  <2> QED BY <2>1
<1>4. \A b \in chunk_blocks : \E e : \E i \in 1..chunk_len : b = new_block(e, append_ctr + i)
  BY Zenon DEF chunk_blocks
<1>5. AllDated(Stored(physical_memory, height, stash), born')
  BY <1>1, <1>3, <1>4, AppendedDated
<1> QED BY <1>1, <1>2, <1>3, <1>5 DEF Inserting

\* Every step keeps blocks dated.
LEMMA DatesNext ==
  ASSUME IInv, DatesInv, [HNext]_hvars
  PROVE  DatesInv'
<1>1. CASE UNCHANGED hvars
  BY <1>1 DEF hvars, vars, history, DatesInv, AllDated, Stored, Dated, dates_of
<1>2. CASE HNext
  <2>1. Next /\ Observe
    BY <1>2 DEF HNext
  <2>2. append_ctr \in Nat /\ born \in Seq(Nat) /\ Len(born) = append_ctr
        /\ AllDated(Stored(physical_memory, height, overflow), born)
    BY DEF IInv, TypeOK, DatesInv
  <2>3. ASSUME NEW stash, NEW len, Inserting(stash, len) PROVE DatesInv'
    <3>1. len \in Nat /\ append_ctr' = append_ctr + len
      BY <2>3 DEF Inserting
    <3> DEFINE dates == born'
    <3>2. dates \in Seq(Nat)
      BY <2>1, <3>1, DatesExtended
    <3>3. AllDated(Stored(physical_memory, height, stash), dates)
      BY <2>3 DEF Inserting
    <3> HIDE DEF dates
    <3>4. AllDated(Stored(physical_memory', height', overflow'), dates)
      BY <2>3, <3>2, <3>3, FinishAppendDated DEF Inserting
    <3> QED BY <2>1, <3>1, <3>4, DatesKept DEF dates
  <2>4. ASSUME append_ctr' = append_ctr,
               \A dates \in Seq(Nat) :
                 AllDated(Stored(physical_memory, height, overflow), dates)
                   => AllDated(Stored(physical_memory', height', overflow'), dates)
        PROVE  DatesInv'
    <3>1. append_ctr' = append_ctr + 0
      BY <2>2, <2>4
    <3> DEFINE dates == born'
    <3>2. dates \in Seq(Nat) /\ Len(born) <= Len(dates) /\ \A i \in 1..Len(born) : dates[i] = born[i]
      <4>1. /\ born' \in Seq(Nat) /\ Len(born') = append_ctr + 0
            /\ \A i \in 1..append_ctr : born'[i] = born[i]
        BY <2>1, <3>1, DatesExtended
      <4> QED BY <2>2, <4>1
    <3> HIDE DEF dates
    <3>3. AllDated(Stored(physical_memory, height, overflow), dates)
      BY <2>2, <3>2, StillDated DEF AllDated
    <3>4. AllDated(Stored(physical_memory', height', overflow'), dates)
      BY <2>4, <3>2, <3>3
    <3> QED BY <2>1, <3>1, <3>4, DatesKept DEF dates
  <2>5. ASSUME NEW leaf \in Leaf(height), append_ctr' = append_ctr, height' = height,
               NEW kept \in SUBSET merge_accumulate(read_from_path(overflow, leaf)),
               write_to_path(kept, leaf)
        PROVE  DatesInv'
    BY <2>4, <2>5, WriteDated
  <2>6. ASSUME append_ctr' = append_ctr, overflow' = overflow,
               NEW ctr, grow_physical_storage(physical_memory, ctr)
        PROVE  DatesInv'
    <3>1. Stored(physical_memory', height', overflow') = Stored(physical_memory, height, overflow)
      BY <2>6, Heights, DoubledStored DEF grow_physical_storage
    <3> QED BY <2>4, <2>6, <3>1
  <2>7. ASSUME UNCHANGED <<append_ctr, overflow, physical_memory, height>> PROVE DatesInv'
    BY <2>4, <2>7
  <2>8. ASSUME NEW key \in Key, ReadTotal(key) PROVE DatesInv'
    <3> DEFINE leaf == to_leaf(prf[key], height)
               merged == merge_accumulate(read_from_path(overflow, leaf))
               rest == without(merged, key)
    <3>1. leaf \in Leaf(height)
      BY KeyLeaf
    <3>2. rest \in SUBSET merged /\ write_to_path(rest, leaf)
          /\ append_ctr' = append_ctr /\ height' = height
      BY <2>8 DEF without, ReadTotal, path_access_unchanged
    <3> HIDE DEF leaf, rest
    <3> QED BY <2>5, <3>1, <3>2
  <2>9. ASSUME NEW leaf \in Leaf(height), ReadDummy(leaf) PROVE DatesInv'
    BY <2>5, <2>9 DEF ReadDummy, path_access_unchanged
  <2>10. CASE MigrateLeaf
    <3> DEFINE leaf == leaf_at(leaf_count(height) - migrating, height)
    <3>1. leaf \in Leaf(height)
      BY DEF leaf_at, bit_of, Leaf, Bit
    <3>2. /\ write_to_path(merge_accumulate(read_from_path(overflow, leaf)), leaf)
          /\ append_ctr' = append_ctr /\ height' = height
      BY <2>10 DEF MigrateLeaf, path_access_unchanged
    <3> HIDE DEF leaf
    <3> QED BY <2>5, <3>1, <3>2
  <2>11. CASE BeginGrow \/ DeferredGrow
    BY <2>6, <2>11 DEF BeginGrow, DeferredGrow
  <2>12. \/ \E key \in Key, amount \in Amount : AppendOne(key, amount)
         \/ AppendChunk
         \/ \E key \in Key : ReadTotal(key)
         \/ \E leaf \in Leaf(height) : ReadDummy(leaf)
         \/ MigrateLeaf
         \/ BeginGrow \/ DeferredGrow
         \/ UNCHANGED <<append_ctr, overflow, physical_memory, height>>
    BY <2>1 DEF Next, AppendOverflows, BeginBatch, AppendChunkOverflows, GrowPastMaxHeight,
         EnableAutoResize, DeferredGrowPastMaxHeight, SetSweepWindowActive, ResetMetrics
  <2> QED BY <2>1, <2>3, <2>7, <2>8, <2>9, <2>10, <2>11, <2>12, AppendOneInserts, AppendChunkInserts
<1> QED BY <1>1, <1>2

\* The invariant holds in every reachable state.
LEMMA DatesInvariance == HSpec => []DatesInv
<1>1. HInit => DatesInv
  <2> SUFFICES ASSUME HInit PROVE DatesInv
    OBVIOUS
  <2>1. /\ born = <<>> /\ append_ctr = 0 /\ epoch = 0 /\ overflow = {}
        /\ physical_memory = [n \in Node(height) |-> {}]
    BY DEF HInit, Init, new
  <2>2. Stored(physical_memory, height, overflow) = {}
    BY <2>1 DEF Stored
  <2>3. born \in Seq(Nat) /\ Len(born) = 0
    BY <2>1
  <2>4. 1..append_ctr = {} /\ epoch <= 255 /\ Len(born) = append_ctr
    BY <2>1, <2>3
  <2> QED BY <2>2, <2>3, <2>4 DEF DatesInv, AllDated
<1>2. IInv /\ DatesInv /\ [HNext]_hvars => DatesInv'
  BY DatesNext
<1> QED BY ObservedInv, <1>1, <1>2, PTL DEF HSpec

\* reduction.rs:96-104, resize.rs:340-352: a block's epoch is that of the oldest update
\* in it, through every merge, write, resize and batch; on it rests the distinction
\* between keys that were there before a resize and keys that came since.
THEOREM EpochOfOldestUpdate == HSpec => []EpochIsOldest
<1>1. DatesInv => EpochIsOldest
  <2> SUFFICES ASSUME DatesInv,
                      NEW b \in overflow \cup (UNION {physical_memory[n] : n \in Node(height)})
               PROVE  b.epoch = Min({born[u[1]] : u \in b.value})
    BY DEF EpochIsOldest
  <2>1. b \in Stored(physical_memory, height, overflow)
    BY DEF Stored
  <2> QED BY <2>1 DEF DatesInv, AllDated, Dated, dates_of
<1> QED BY DatesInvariance, <1>1, PTL
-----------------------------------------------------------------------------
(***************************************************************************)
(* What the estimator counts.                                               *)
(***************************************************************************)

\* The updates of a key of the evicted leaf are all gathered: none is off the path.
LEMMA AllOnPath ==
  ASSUME IInv, NEW leaf \in Leaf(height), NEW stash, StashOK(stash),
         NEW key \in Key, to_leaf(prf[key], height) = leaf
  PROVE  Content(Stored(physical_memory, height, stash), key)
           = Content(merge_accumulate(read_from_path(stash, leaf)), key)
<1> DEFINE gathered == read_from_path(stash, leaf)
<1>1. gathered \in SUBSET Block
  BY ReadType DEF StashOK
<1>2. Stored(physical_memory, height, stash) = gathered \cup OffPath(leaf)
  BY ReadAndOffPath
<1>3. Content(OffPath(leaf), key) = {}
  <2>1. ASSUME NEW b \in OffPath(leaf), b.key = key PROVE FALSE
    <3>1. PICK n \in Node(height) \ path(leaf, height) : b \in physical_memory[n]
      BY <2>1 DEF OffPath
    <3>2. n \in path(to_leaf(prf[b.key], height), height)
      BY <3>1 DEF IInv, TreeOK
    <3> QED BY <2>1, <3>1, <3>2
  <2> QED BY <2>1 DEF Content
<1> HIDE DEF gathered
<1>4. Content(merge_accumulate(gathered), key) = Content(gathered, key)
  BY <1>1, MergedContent
<1>5. Content(gathered \cup OffPath(leaf), key)
        = Content(gathered, key) \cup Content(OffPath(leaf), key)
  BY ContentOfUnion
<1> QED BY <1>2, <1>3, <1>4, <1>5 DEF gathered

\* An eviction that is counted was of an enabled estimator whose window goes on.
LEMMA CountedMeansRecorded ==
  ASSUME IInv, NEW stash, Eviction(stash), counted
  PROVE  /\ auto_resize' = recorded(stash)
         /\ auto_resize.enabled
<1>1. auto_resize.evictions_since_check \in Nat
      /\ auto_resize'.evictions_since_check = auto_resize.evictions_since_check + 1
  BY DEF IInv, TypeOK, AutoResizeState, counted
<1>2. EvictionCounts(stash)
  BY <1>1 DEF Eviction, EvictionCloses, EvictionGrows
<1>3. auto_resize' = record_eviction(auto_resize, evicted_blocks(stash), evicted_leaf)
  BY <1>2 DEF EvictionCounts, recorded
<1>4. auto_resize.enabled
  BY <1>1, <1>3 DEF record_eviction
<1> QED BY <1>3, <1>4 DEF recorded

\* A dated block is of the current epoch when all its updates are.
LEMMA OfThisEpoch ==
  ASSUME NEW dates \in Seq(Nat), NEW b, Dated(b, dates), epoch \in Nat,
         \A i \in 1..Len(dates) : dates[i] <= epoch
  PROVE  b.epoch = epoch <=> \A u \in b.value : dates[u[1]] = epoch
<1>1. /\ dates_of(b, dates) \in SUBSET Nat
      /\ b.epoch \in dates_of(b, dates) /\ b.epoch \in Nat
      /\ \A x \in dates_of(b, dates) : b.epoch <= x
  BY OldestDate
<1>2. \A u \in b.value : dates[u[1]] \in dates_of(b, dates) /\ dates[u[1]] <= epoch
  BY DEF dates_of, Dated
<1>3. ASSUME b.epoch = epoch, NEW u \in b.value PROVE dates[u[1]] = epoch
  <2>1. dates[u[1]] \in Nat /\ epoch <= dates[u[1]] /\ dates[u[1]] <= epoch
    BY <1>1, <1>2, <1>3
  <2> QED BY <2>1
<1>4. ASSUME \A u \in b.value : dates[u[1]] = epoch PROVE b.epoch = epoch
  <2>1. \A x \in dates_of(b, dates) : x = epoch
    BY <1>4 DEF dates_of
  <2> QED BY <1>1, <2>1
<1> QED BY <1>3, <1>4

\* The blocks an eviction counts are one for each key all of whose updates are new.
LEMMA OneBlockPerFreshKey ==
  ASSUME IInv, NEW leaf, leaf \in Leaf(height), NEW stash, StashOK(stash),
         NEW dates \in Seq(Nat), \A i \in 1..Len(dates) : dates[i] <= epoch,
         AllDated(Stored(physical_memory, height, stash), dates)
  PROVE  LET merged == merge_accumulate(read_from_path(stash, leaf))
             found(key) == Content(Stored(physical_memory, height, stash), key)
             fresh == {key \in Key : /\ to_leaf(prf[key], height) = leaf
                                     /\ found(key) # {}
                                     /\ \A u \in found(key) : dates[u[1]] = epoch}
         IN Cardinality(matching_blocks(merged, leaf)) = Cardinality(fresh)
<1> DEFINE gathered == read_from_path(stash, leaf)
           merged   == merge_accumulate(gathered)
           found(key) == Content(Stored(physical_memory, height, stash), key)
           fresh == {key \in Key : /\ to_leaf(prf[key], height) = leaf
                                   /\ found(key) # {}
                                   /\ \A u \in found(key) : dates[u[1]] = epoch}
           matching == matching_blocks(merged, leaf)
           f == [b \in matching |-> b.key]
<1>1. merged \in SUBSET Block /\ IsFiniteSet(merged) /\ Distinct(merged)
  BY Gathered
<1>2. \A key \in Key : to_leaf(prf[key], height) = leaf => found(key) = Content(merged, key)
  BY AllOnPath
<1>3. AllDated(merged, dates)
  <2>1. gathered \in SUBSET Block
    BY ReadType DEF StashOK
  <2>2. Stored(physical_memory, height, stash) = gathered \cup OffPath(leaf)
    BY ReadAndOffPath
  <2> HIDE DEF gathered
  <2>3. AllDated(gathered, dates)
    BY <2>2 DEF AllDated
  <2> QED BY <2>1, <2>3, MergedDated
<1>4. epoch \in Nat
  BY DEF IInv, TypeOK
<1> HIDE DEF merged, found
<1>5. \A b \in merged : Content(merged, b.key) = b.value /\ b.value # {} /\ b.key \in Key
  <2> TAKE b \in merged
  <2>1. \A c \in merged : c.key = b.key => c = b
    BY <1>1 DEF Distinct
  <2>2. b.value # {} /\ b.key \in Key
    BY <1>1, <1>3 DEF AllDated, Dated, Block
  <2> QED BY <2>1, <2>2 DEF Content
<1>6. \A b \in merged : b.epoch = epoch <=> \A u \in b.value : dates[u[1]] = epoch
  BY <1>3, <1>4, OfThisEpoch DEF AllDated
<1>7. \A b \in merged : b \in matching <=> b.key \in fresh
  <2> TAKE b \in merged
  <2>1. b \in matching <=> to_leaf(prf[b.key], height) = leaf /\ b.epoch = epoch
    BY DEF matching_blocks
  <2>2. to_leaf(prf[b.key], height) = leaf => found(b.key) = b.value
    BY <1>2, <1>5
  <2>3. b.key \in Key /\ b.value # {}
    BY <1>5
  <2> QED BY <1>6, <2>1, <2>2, <2>3
<1>8. \A key \in fresh : \E b \in merged : b.key = key
  <2> TAKE key \in fresh
  <2>1. Content(merged, key) # {}
    BY <1>2
  <2> QED BY <2>1 DEF Content
<1>9. matching \in SUBSET merged
  BY DEF matching_blocks
<1> HIDE DEF matching, fresh
<1>10. f \in Bijection(matching, fresh)
  <2>1. f \in [matching -> fresh]
    BY <1>7, <1>9
  <2>2. \A b, c \in matching : f[b] = f[c] => b = c
    BY <1>1, <1>9 DEF Distinct
  <2>3. \A key \in fresh : \E b \in matching : f[b] = key
    BY <1>7, <1>8
  <2> HIDE DEF f
  <2> QED BY <2>1, <2>2, <2>3 DEF Bijection, Injection, Surjection, IsInjective
<1>11. IsFiniteSet(matching)
  BY <1>1, <1>9, FS_Subset
<1> HIDE DEF f
<1>12. ExistsBijection(matching, fresh)
  BY <1>10 DEF ExistsBijection
<1>13. Cardinality(fresh) = Cardinality(matching)
  BY <1>11, <1>12, FS_Bijection
<1> QED BY <1>13 DEF matching, fresh, found, merged

\* What an appending step counts, said of the state after it.
LEMMA InsertionCounts ==
  ASSUME IInv, DatesInv, Next, Observe, NEW stash, NEW len, Inserting(stash, len), counted
  PROVE  auto_resize'.c_sum = auto_resize.c_sum + Cardinality(fresh_keys(evicted_leaf))
<1> DEFINE dates == born'
           found(key) == Content(Stored(physical_memory, height, stash), key)
           fresh == {key \in Key : /\ to_leaf(prf[key], height) = evicted_leaf
                                   /\ found(key) # {}
                                   /\ \A u \in found(key) : dates[u[1]] = epoch}
<1>1. /\ StashOK(stash) /\ len \in Nat /\ append_ctr' = append_ctr + len
      /\ finish_append_after_insert(stash, append_ctr + len)
      /\ AllDated(Stored(physical_memory, height, stash), born')
  BY DEF Inserting
<1>2. evict_ctr \in Nat /\ auto_resize \in AutoResizeState /\ epoch \in Nat /\ append_ctr \in Nat
  BY DEF IInv, TypeOK
<1>3. evict_after_insert(stash)
  BY <1>1, <1>2 DEF finish_append_after_insert, counted, evicted
<1>4. Eviction(stash)
  BY <1>1, <1>3, StepKinds, EvictionKinds
<1>5. auto_resize' = record_eviction(auto_resize, evicted_blocks(stash), evicted_leaf)
      /\ auto_resize.enabled
  BY <1>4, CountedMeansRecorded DEF recorded
<1>6. auto_resize'.c_sum = auto_resize.c_sum
                            + Cardinality(matching_blocks(evicted_blocks(stash), evicted_leaf))
  BY <1>2, <1>5 DEF record_eviction, AutoResizeState
<1>7. evicted_leaf \in Leaf(height)
  BY EvictionLeaf DEF evicted_leaf
<1>8. dates \in Seq(Nat) /\ \A i \in 1..Len(dates) : dates[i] <= epoch
  <2>1. /\ born' \in Seq(Nat) /\ Len(born') = append_ctr + len
        /\ \A i \in 1..append_ctr : born'[i] = born[i]
        /\ \A i \in 1..len : born'[append_ctr + i] = epoch
    BY <1>1, DatesExtended
  <2>2. \A i \in 1..append_ctr : born[i] <= epoch
    BY DEF DatesInv
  <2>3. ASSUME NEW i \in 1..(append_ctr + len) PROVE born'[i] <= epoch
    <3>1. CASE i \in 1..append_ctr
      BY <2>1, <2>2, <3>1
    <3>2. CASE i \notin 1..append_ctr
      <4> DEFINE j == i - append_ctr
      <4>1. j \in 1..len /\ i = append_ctr + j
        BY <1>1, <1>2, <3>2
      <4> HIDE DEF j
      <4>2. born'[i] = epoch
        BY <2>1, <4>1
      <4> QED BY <1>2, <4>2
    <3> QED BY <3>1, <3>2
  <2> QED BY <2>1, <2>3
<1>9. AllDated(Stored(physical_memory, height, stash), dates)
  BY <1>1
<1> HIDE DEF dates
<1>10. Cardinality(matching_blocks(evicted_blocks(stash), evicted_leaf)) = Cardinality(fresh)
  BY <1>1, <1>7, <1>8, <1>9, OneBlockPerFreshKey DEF evicted_blocks
<1>11. \A key \in Key : Pending(key)' = found(key)
  <2>1. HoldsNext(Stored(physical_memory, height, stash))
    BY <1>1, <1>3, EvictContent
  <2> TAKE key \in Key
  <2>2. Pending(key)' = Content(Stored(physical_memory', height', overflow'), key)
    BY DEF Pending, Content, Stored
  <2> QED BY <2>1, <2>2 DEF HoldsNext
<1> HIDE DEF found
<1>12. fresh_keys(evicted_leaf) = fresh
  BY <1>11 DEF fresh_keys, dates
<1> QED BY <1>6, <1>10, <1>12

\* resize.rs:387-395: each eviction that leaves the window open adds to c_sum exactly the
\* number of keys of its leaf all of whose pending updates came after the last resize:
\* none is missed for lying deeper, higher or in the stash, and none counted twice.
THEOREM EstimatorIsExact == HSpec => EstimatorCountsFreshKeys
<1>1. ASSUME IInv, DatesInv, HNext, counted
      PROVE  auto_resize'.c_sum = auto_resize.c_sum + Cardinality(fresh_keys(evicted_leaf))
  <2>1. Next /\ Observe
    BY <1>1 DEF HNext
  <2>2. evict_ctr' # evict_ctr
    BY <1>1 DEF counted, evicted
  <2>3. \/ \E key \in Key, amount \in Amount : AppendOne(key, amount)
        \/ AppendChunk
    BY <2>1, <2>2 DEF Next, AppendOverflows, BeginBatch, AppendChunkOverflows, ReadTotal,
       ReadDummy, path_access_unchanged, BeginGrow, MigrateLeaf, GrowPastMaxHeight,
       EnableAutoResize, DeferredGrow, DeferredGrowPastMaxHeight, SetSweepWindowActive,
       ResetMetrics
  <2>4. \E stash, len : Inserting(stash, len)
    BY <1>1, <2>1, <2>3, AppendOneInserts, AppendChunkInserts
  <2> QED BY <1>1, <2>1, <2>4, InsertionCounts
<1>2. IInv /\ DatesInv /\ [HNext]_hvars =>
        [counted => auto_resize'.c_sum =
                      auto_resize.c_sum + Cardinality(fresh_keys(evicted_leaf))]_hvars
  BY <1>1
<1> QED BY ObservedInv, DatesInvariance, <1>2, PTL DEF HSpec, EstimatorCountsFreshKeys
=============================================================================
