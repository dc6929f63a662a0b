----------------------- MODULE ObliviousHistogramProofs -----------------------
(***************************************************************************)
(* The inductive invariant IInv of ObliviousHistogram, preserved by every   *)
(* action, and the theorems that follow from it.  HeldInv conjoins with it  *)
(* that no update is ever in two blocks; RoomInv bounds what the overflow    *)
(* part has to hold.                                                        *)
(***************************************************************************)
EXTENDS PathAccessProofs

\* Every bucket of a tree of height h is finite, fits its slots, and holds blocks
\* of different keys on whose paths it lies.
TreeOK(mem, h) ==
  /\ mem \in [Node(h) -> SUBSET Block]
  /\ \A n \in Node(h) : /\ IsFiniteSet(mem[n])
                        /\ Cardinality(mem[n]) <= Z
                        /\ Distinct(mem[n])
                        /\ \A b \in mem[n] : n \in path(to_leaf(prf[b.key], h), h)

\* The buffered blocks fit the overflow slots.
StashOK(stash) ==
  /\ stash \in SUBSET Block
  /\ IsFiniteSet(stash)
  /\ Cardinality(stash) <= S

\* The inductive invariant.
IInv == /\ TypeOK
        /\ prf \in PrfKeys
        /\ TreeOK(physical_memory, height)
        /\ StashOK(overflow)

\* The invariant gives what a path access relies on.
LEMMA RoutedByInv ==
  ASSUME IInv
  PROVE  Routed
BY PrfAssumption DEF IInv, TypeOK, Routed

\* The height and the maximal height are natural numbers.
LEMMA Heights ==
  ASSUME IInv
  PROVE  height \in Nat /\ height \in 0..MAX_TREE_HEIGHT /\ MAX_TREE_HEIGHT \in Nat
BY MaxTreeHeightAssumption DEF IInv, TypeOK

\* A path access gathers real blocks only.
LEMMA ReadType ==
  ASSUME IInv, NEW leaf \in Leaf(height), NEW stash \in SUBSET Block
  PROVE  read_from_path(stash, leaf) \in SUBSET Block
<1>1. \A n \in path(leaf, height) : physical_memory[n] \in SUBSET Block
  BY Heights, PathNodes DEF IInv, TreeOK
<1> QED BY <1>1 DEF read_from_path

\* Where a path write leaves the blocks: at their assigned level, and elsewhere
\* nothing changes.
LEMMA WrittenPlaces ==
  ASSUME IInv, NEW leaf \in Leaf(height), NEW blocks \in SUBSET Block, Distinct(blocks),
         IsFiniteSet(blocks)
  PROVE  LET level == assigned_level(blocks, leaf)
         IN /\ written_overflow(level, leaf) = {b \in blocks : level[b] = Overflow}
            /\ \A n \in Node(height) : written_memory(level, leaf)[n] =
                 IF n \in path(leaf, height) THEN {b \in blocks : level[b] = Len(n)}
                                             ELSE physical_memory[n]
            /\ \A b \in blocks : level[b] \in Overflow..height
<1> DEFINE level  == assigned_level(blocks, leaf)
           at(l)  == {b \in blocks : level[b] = l}
<1>1. Routed /\ height \in Nat
  BY RoutedByInv, Heights
<1>2. \A l \in Overflow..height : laid_out(level, l, leaf) = at(l)
  BY <1>1, LayoutIsAssignment
<1>3. \A n \in path(leaf, height) : laid_out(level, Len(n), leaf) = at(Len(n))
  <2> TAKE n \in path(leaf, height)
  <2>1. Len(n) \in 0..height
    BY <1>1, PathNodes
  <2>2. Len(n) \in Overflow..height
    BY <2>1, <1>1 DEF Overflow
  <2> QED BY <1>2, <2>2
<1>4. \A n \in Node(height) : written_memory(level, leaf)[n] =
        IF n \in path(leaf, height) THEN at(Len(n)) ELSE physical_memory[n]
  BY <1>3 DEF written_memory
<1>5. Overflow \in Overflow..height
  BY <1>1 DEF Overflow
<1>6. written_overflow(level, leaf) = at(Overflow)
  BY <1>2, <1>5 DEF written_overflow
<1>7. \A b \in blocks : level[b] \in Overflow..height
  BY <1>1, GreedyLevel
<1> QED BY <1>4, <1>6, <1>7

\* Writing a path back keeps the tree and the stash in order.
LEMMA PathWritten ==
  ASSUME IInv, NEW leaf \in Leaf(height), NEW blocks \in SUBSET Block, Distinct(blocks),
         IsFiniteSet(blocks), fits(assigned_level(blocks, leaf))
  PROVE  LET level == assigned_level(blocks, leaf)
         IN /\ TreeOK(written_memory(level, leaf), height)
            /\ StashOK(written_overflow(level, leaf))
<1> DEFINE level  == assigned_level(blocks, leaf)
           at(l)  == {b \in blocks : level[b] = l}
           mem    == written_memory(level, leaf)
<1>1. Routed /\ height \in Nat /\ height \in 0..MAX_TREE_HEIGHT
  BY RoutedByInv, Heights
<1>2. \A l : at(l) \in SUBSET blocks /\ at(l) \in SUBSET Block /\ IsFiniteSet(at(l)) /\ Distinct(at(l))
  BY FS_Subset DEF Distinct
<1>3. \A l : level_count(level, l) = Cardinality(at(l))
  <2>1. DOMAIN level = blocks
    BY <1>1, LevelEquation
  <2> QED BY <2>1 DEF level_count
<1>4. \A l \in 0..height : Cardinality(at(l)) <= Z
  BY <1>1, <1>3, LevelsFit
<1>5. \A n \in path(leaf, height) : Len(n) \in 0..height /\ n = node_on_path(leaf, Len(n))
  BY <1>1, PathNodes
<1>6. ASSUME NEW l \in 0..height, NEW b \in at(l)
      PROVE  node_on_path(leaf, l) \in path(to_leaf(prf[b.key], height), height)
  <2>1. l <= deepest_shared_level(leaf, prf[b.key], height)
    BY <1>1, GreedyLevel
  <2>2. prf[b.key] \in Tag
    BY <1>1 DEF Routed, Block
  <2>3. node_on_path(leaf, l) = node_on_path(to_leaf(prf[b.key], height), l)
    BY <1>1, <2>1, <2>2, SharedLevel, SharedMeansZeros
  <2> QED BY <2>3 DEF path
<1>7. \A n \in Node(height) : mem[n] = IF n \in path(leaf, height)
                                         THEN at(Len(n)) ELSE physical_memory[n]
  BY WrittenPlaces
<1>8. \A n \in Node(height) : /\ mem[n] \in SUBSET Block
                              /\ IsFiniteSet(mem[n])
                              /\ Cardinality(mem[n]) <= Z
                              /\ Distinct(mem[n])
                              /\ \A b \in mem[n] : n \in path(to_leaf(prf[b.key], height), height)
  <2> HIDE DEF mem, level, at
  <2> TAKE n \in Node(height)
  <2>1. CASE n \in path(leaf, height)
    <3>1. mem[n] = at(Len(n)) /\ Len(n) \in 0..height /\ n = node_on_path(leaf, Len(n))
      BY <1>5, <1>7, <2>1
    <3> QED BY <1>2, <1>4, <1>6, <3>1
  <2>2. CASE n \notin path(leaf, height)
    <3>1. mem[n] = physical_memory[n]
      BY <1>7, <2>2
    <3> QED BY <3>1 DEF IInv, TreeOK
  <2> QED BY <2>1, <2>2
<1>9. TreeOK(mem, height)
  <2>1. mem = [n \in Node(height) |-> mem[n]]
    BY DEF written_memory
  <2> HIDE DEF mem
  <2>2. mem \in [Node(height) -> SUBSET Block]
    BY <1>8, <2>1
  <2> QED BY <1>8, <2>2 DEF TreeOK
<1>10. StashOK(written_overflow(level, leaf))
  <2>1. written_overflow(level, leaf) = at(Overflow)
    BY WrittenPlaces
  <2>2. Cardinality(at(Overflow)) < S
    BY <1>3 DEF fits, overflow_count
  <2>3. Cardinality(at(Overflow)) \in Nat
    BY <1>2, FS_CardinalityType
  <2> HIDE DEF at, level
  <2> QED BY <1>2, <2>1, <2>2, <2>3, StashAssumption DEF StashOK
<1> QED BY <1>9, <1>10

-----------------------------------------------------------------------------
\* Doubling the tree keeps every block on its key's path.
LEMMA Doubled ==
  ASSUME IInv, NEW mem, TreeOK(mem, height), height < MAX_TREE_HEIGHT
  PROVE  TreeOK(doubled(mem), height + 1)
<1>1. height \in Nat /\ height \in 0..MAX_TREE_HEIGHT /\ MAX_TREE_HEIGHT \in Nat
  BY Heights
<1>2. Node(height) \subseteq Node(height + 1)
  BY <1>1 DEF Node
<1>3. ASSUME NEW n \in Node(height + 1)
      PROVE  /\ doubled(mem)[n] = IF n \in Node(height) THEN mem[n] ELSE {}
  BY DEF doubled
<1>4. ASSUME NEW t \in Tag, NEW n \in path(to_leaf(t, height), height)
      PROVE  n \in path(to_leaf(t, height + 1), height + 1)
  <2>1. PICK d \in 0..height : n = node_on_path(to_leaf(t, height), d)
    BY DEF path
  <2>2. node_on_path(to_leaf(t, height), d) = node_on_path(to_leaf(t, height + 1), d)
    BY <1>1 DEF node_on_path, to_leaf
  <2>3. d \in 0..(height + 1)
    BY <1>1
  <2> QED BY <2>1, <2>2, <2>3 DEF path
<1>5. ASSUME NEW n \in Node(height + 1)
      PROVE  /\ doubled(mem)[n] \in SUBSET Block
             /\ IsFiniteSet(doubled(mem)[n])
             /\ Cardinality(doubled(mem)[n]) <= Z
             /\ Distinct(doubled(mem)[n])
             /\ \A b \in doubled(mem)[n] :
                  n \in path(to_leaf(prf[b.key], height + 1), height + 1)
  <2>1. CASE n \in Node(height)
    <3>1. doubled(mem)[n] = mem[n]
      BY <1>3, <2>1
    <3>2. \A b \in mem[n] : prf[b.key] \in Tag
      BY <2>1, RoutedByInv DEF TreeOK, Routed, Block
    <3> QED BY <1>4, <2>1, <3>1, <3>2 DEF TreeOK
  <2>2. CASE n \notin Node(height)
    <3>1. doubled(mem)[n] = {}
      BY <1>3, <2>2
    <3> QED BY <3>1, FS_EmptySet, BucketAssumption DEF Distinct
  <2> QED BY <2>1, <2>2
<1>6. doubled(mem) = [n \in Node(height + 1) |-> doubled(mem)[n]]
  BY DEF doubled
<1>7. doubled(mem) \in [Node(height + 1) -> SUBSET Block]
  BY <1>5, <1>6
<1> QED BY <1>5, <1>7 DEF TreeOK

\* The arithmetic of resizing stays within the natural numbers.
LEMMA LeafCount ==
  ASSUME NEW h \in Nat
  PROVE  leaf_count(h) \in Nat
<1>1. IsFiniteSet(1..h) /\ Cardinality(1..h) = h
  BY FS_Interval
<1>2. IsFiniteSet(SUBSET (1..h)) /\ Cardinality(SUBSET (1..h)) = 2^h
  BY <1>1, FS_SUBSET
<1> QED BY <1>2, FS_CardinalityType DEF leaf_count

\* The number of evictions in an estimator window (dp_initial_k) is a natural number.
LEMMA DpInitialK ==
  ASSUME NEW t, NEW l \in Nat
  PROVE  dp_initial_k(t, l) \in Nat
<1> DEFINE candidates == {1} \cup {r \in 1..l : r^3 * A^2 <= t * l}
<1>1. candidates \in SUBSET Int /\ candidates # {} /\ l + 1 \in Int /\ \A x \in candidates : x <= l + 1
  OBVIOUS
<1>2. candidates \in SUBSET Nat
  OBVIOUS
<1>3. Max(candidates) \in candidates
  <2> HIDE DEF candidates
  <2> QED BY <1>1, MaxOfBounded
<1> QED BY <1>2, <1>3 DEF dp_initial_k

\* The interval between evictions is positive, in a sweep and outside one.
LEMMA EvictInterval ==
  current_evict_interval \in Nat \ {0}
<1>1. A \div 2 \in Int
  BY IntervalAssumption
<1>2. Max({A \div 2, 1}) \in {A \div 2, 1} /\ Max({A \div 2, 1}) >= 1
  BY <1>1, MaxOfTwo
<1> QED BY <1>1, <1>2, IntervalAssumption DEF current_evict_interval

-----------------------------------------------------------------------------
\* The resize estimator's state keeps its type.
LEMMA AutoResizeTypes ==
  ASSUME NEW auto \in AutoResizeState
  PROVE  /\ window_closed(auto) \in AutoResizeState
         /\ reset_counters(auto) \in AutoResizeState
         /\ \A g \in BOOLEAN : [auto EXCEPT !.pending_grow = g] \in AutoResizeState
         /\ \A h \in Nat, t_hat \in ThresholdUnits :
              on_tree_grown(auto, h, t_hat) \in AutoResizeState
<1>1. /\ window_closed(auto) \in AutoResizeState
      /\ reset_counters(auto) \in AutoResizeState
      /\ \A g \in BOOLEAN : [auto EXCEPT !.pending_grow = g] \in AutoResizeState
  BY DEF AutoResizeState, window_closed, reset_counters
<1>2. ASSUME NEW h \in Nat, NEW t_hat \in ThresholdUnits
      PROVE  on_tree_grown(auto, h, t_hat) \in AutoResizeState
  <2> DEFINE t == 2 * auto.t_capacity
             k == dp_initial_k(effective_t_capacity(t), leaf_count(h))
  <2>1. t \in Nat /\ auto.total_resizes + 1 \in Nat /\ t_hat \in Int
    BY AutoAssumption DEF AutoResizeState
  <2>2. k \in Nat
    BY LeafCount, DpInitialK
  <2>3. on_tree_grown(auto, h, t_hat) =
          [auto EXCEPT !.total_resizes = auto.total_resizes + 1,
                       !.t_capacity = t, !.k = k, !.t_hat_units = t_hat]
    BY DEF on_tree_grown
  <2> HIDE DEF t, k
  <2> QED BY <2>1, <2>2, <2>3 DEF AutoResizeState
<1> QED BY <1>1, <1>2

\* Accounting for an eviction keeps the type of the estimator.
LEMMA RecordEvictionType ==
  ASSUME NEW auto \in AutoResizeState, NEW blocks, IsFiniteSet(blocks), NEW leaf
  PROVE  record_eviction(auto, blocks, leaf) \in AutoResizeState
<1> DEFINE n == Cardinality(matching_blocks(blocks, leaf))
<1>1. n \in Nat
  <2>1. matching_blocks(blocks, leaf) \in SUBSET blocks
    BY DEF matching_blocks
  <2> QED BY <2>1, FS_Subset, FS_CardinalityType
<1>2. auto.c_sum + n \in Nat /\ auto.evictions_since_check + 1 \in Nat
  BY <1>1 DEF AutoResizeState
<1>3. \/ record_eviction(auto, blocks, leaf) = auto
      \/ record_eviction(auto, blocks, leaf) =
           [auto EXCEPT !.c_sum = auto.c_sum + n,
                        !.evictions_since_check = auto.evictions_since_check + 1]
  BY DEF record_eviction
<1> HIDE DEF n
<1> QED BY <1>2, <1>3 DEF AutoResizeState

\* A resize in the middle of a call keeps the tree in order.
LEMMA GrowStep ==
  ASSUME IInv, prf' = prf, NEW mem, TreeOK(mem, height), NEW ctr \in Nat,
         grow_physical_storage(mem, ctr)
  PROVE  /\ TreeOK(physical_memory, height)'
         /\ height' \in 1..MAX_TREE_HEIGHT
         /\ epoch' \in Nat /\ sweep_end' \in Nat
<1>1. height' = height + 1 /\ height < MAX_TREE_HEIGHT /\ physical_memory' = doubled(mem)
  BY DEF grow_physical_storage
<1>2. TreeOK(doubled(mem), height + 1)
  BY <1>1, Doubled
<1>3. TreeOK(physical_memory, height)'
  BY <1>1, <1>2 DEF TreeOK
<1>4. height' \in 1..MAX_TREE_HEIGHT
  BY <1>1, MaxTreeHeightAssumption DEF IInv, TypeOK
<1>5. epoch' \in Nat
  <2>1. epoch \in Nat /\ epoch + 1 \in Nat /\ 255 \in Nat
    BY DEF IInv, TypeOK
  <2>2. Min({epoch + 1, 255}) \in {epoch + 1, 255}
    BY <2>1, MinOfTwo
  <2> QED BY <2>1, <2>2 DEF grow_physical_storage
<1>6. sweep_end' \in Nat
  BY Heights, LeafCount DEF grow_physical_storage, new_sweep_end
<1> QED BY <1>3, <1>4, <1>5, <1>6

\* The decision after an eviction, with the growth it may cause, keeps the tree well formed.
LEMMA CheckStep ==
  ASSUME IInv, prf' = prf, NEW mem, TreeOK(mem, height), NEW auto \in AutoResizeState,
         check_and_maybe_resize(mem, auto)
  PROVE  /\ TreeOK(physical_memory, height)'
         /\ height' \in 1..MAX_TREE_HEIGHT
         /\ epoch' \in Nat /\ sweep_end' \in Nat
         /\ auto_resize' \in AutoResizeState
         /\ panicked' \in {"no"} \cup Panics
<1>1. window_closed(auto) \in AutoResizeState
  BY AutoResizeTypes
<1>2. ASSUME physical_memory' = mem, UNCHANGED <<height, epoch, sweep_end>>
      PROVE  /\ TreeOK(physical_memory, height)'
             /\ height' \in 1..MAX_TREE_HEIGHT
             /\ epoch' \in Nat /\ sweep_end' \in Nat
  BY <1>2 DEF TreeOK, IInv, TypeOK
<1>3. CASE ~should_check_epoch(auto)
  <2>1. /\ physical_memory' = mem /\ auto_resize' = auto
        /\ UNCHANGED <<height, epoch, sweep_end, panicked>>
    BY <1>3 DEF check_and_maybe_resize
  <2> QED BY <1>2, <2>1 DEF IInv, TypeOK
<1>4. CASE should_check_epoch(auto)
  <2> DEFINE evaluated == window_closed(auto)
  <2>1. PICK eta \in Noise :
          \/ /\ physical_memory' = mem
             /\ \/ auto_resize' = evaluated
                \/ auto_resize' =
                     [evaluated EXCEPT !.pending_grow = auto.c_sum + eta > auto.t_hat_units]
             /\ UNCHANGED <<height, epoch, sweep_end>>
             /\ UNCHANGED panicked \/ Panic("max height")
          \/ /\ grow_physical_storage(mem, evict_ctr + 1)
             /\ \E t_hat \in ThresholdUnits :
                  auto_resize' = on_tree_grown(evaluated, height + 1, t_hat)
             /\ UNCHANGED panicked
    BY <1>4, Zenon DEF check_and_maybe_resize
  <2>2. CASE /\ physical_memory' = mem
             /\ \/ auto_resize' = evaluated
                \/ auto_resize' =
                     [evaluated EXCEPT !.pending_grow = auto.c_sum + eta > auto.t_hat_units]
             /\ UNCHANGED <<height, epoch, sweep_end>>
             /\ UNCHANGED panicked \/ Panic("max height")
    <3>1. auto_resize' \in AutoResizeState
      <4> DEFINE signal == auto.c_sum + eta > auto.t_hat_units
      <4>1. signal \in BOOLEAN
        OBVIOUS
      <4> HIDE DEF signal, evaluated
      <4>2. auto_resize' = evaluated \/ auto_resize' = [evaluated EXCEPT !.pending_grow = signal]
        BY <2>2 DEF signal
      <4>3. evaluated \in AutoResizeState
        BY <1>1 DEF evaluated
      <4> QED BY <4>1, <4>2, <4>3, AutoResizeTypes
    <3>2. panicked' \in {"no"} \cup Panics
      BY <2>2 DEF Panic, Panics, IInv, TypeOK
    <3> QED BY <1>2, <2>2, <3>1, <3>2
  <2>3. CASE /\ grow_physical_storage(mem, evict_ctr + 1)
             /\ \E t_hat \in ThresholdUnits :
                  auto_resize' = on_tree_grown(evaluated, height + 1, t_hat)
             /\ UNCHANGED panicked
    <3>1. evict_ctr + 1 \in Nat /\ height + 1 \in Nat
      BY Heights DEF IInv, TypeOK
    <3>2. auto_resize' \in AutoResizeState
      <4> HIDE DEF evaluated
      <4> QED BY <1>1, <2>3, <3>1, AutoResizeTypes DEF evaluated
    <3> QED BY <2>3, <3>1, <3>2, GrowStep DEF IInv, TypeOK
  <2> QED BY <2>1, <2>2, <2>3
<1> QED BY <1>3, <1>4

-----------------------------------------------------------------------------
\* The part of the invariant that evictions and path accesses touch.
MachineOK ==
  /\ TreeOK(physical_memory, height)
  /\ StashOK(overflow)
  /\ height \in 1..MAX_TREE_HEIGHT
  /\ epoch \in Nat /\ evict_ctr \in Nat /\ sweep_end \in Nat
  /\ auto_resize \in AutoResizeState
  /\ peak_overflow \in Nat
  /\ panicked \in {"no"} \cup Panics

\* The invariant, part by part.
LEMMA InvParts ==
  /\ MachineOK
  /\ prf \in PrfKeys
  /\ append_ctr \in Nat
  /\ result \in SUBSET Update
  /\ migrating \in Nat
  /\ batch \in Seq(Entry)
  => IInv
BY PrfAssumption DEF IInv, MachineOK, TypeOK, TreeOK, StashOK

\* A step that keeps the machine well formed and the call's types keeps the invariant.
LEMMA InvPartsNext ==
  ASSUME MachineOK', prf' = prf, prf \in PrfKeys, append_ctr' \in Nat,
         result' \in SUBSET Update, migrating' \in Nat, batch' \in Seq(Entry)
  PROVE  IInv'
BY PrfAssumption DEF IInv, MachineOK, TypeOK, TreeOK, StashOK

\* Evictions visit leaves of the current tree.
LEMMA EvictionLeaf ==
  ASSUME IInv
  PROVE  bit_reversed_leaf(evict_ctr, height) \in Leaf(height)
BY DEF bit_reversed_leaf, bit_of, Leaf, Bit

\* peak_overflow stays a natural number.
LEMMA PeakOverflow ==
  ASSUME IInv, NEW stash, StashOK(stash), update_peak_overflow(stash)
  PROVE  peak_overflow' \in Nat
<1> DEFINE n == Cardinality(stash)
<1>1. peak_overflow \in Nat /\ n \in Nat
  BY FS_CardinalityType DEF IInv, TypeOK, StashOK
<1>2. peak_overflow' = Max({peak_overflow, n})
  BY DEF update_peak_overflow
<1> HIDE DEF n
<1>3. Max({peak_overflow, n}) \in {peak_overflow, n}
  <2>1. peak_overflow \in Int /\ n \in Int
    BY <1>1
  <2> QED BY ONLY <2>1, MaxOfTwo
<1> QED BY <1>1, <1>2, <1>3

\* What a path access reads and merges satisfies the premises of the write.
LEMMA Gathered ==
  ASSUME IInv, NEW leaf \in Leaf(height), NEW stash, StashOK(stash)
  PROVE  LET blocks == merge_accumulate(read_from_path(stash, leaf))
         IN blocks \in SUBSET Block /\ IsFiniteSet(blocks) /\ Distinct(blocks)
<1>1. read_from_path(stash, leaf) \in SUBSET Block
  BY ReadType DEF StashOK
<1> QED BY <1>1, MergeProperties

\* An eviction keeps the tree and the stash well formed, also when it panics.
LEMMA EvictStep ==
  ASSUME IInv, prf' = prf, NEW stash, StashOK(stash), evict_after_insert(stash)
  PROVE  MachineOK'
<1> DEFINE leaf   == bit_reversed_leaf(evict_ctr, height)
           blocks == merge_accumulate(read_from_path(stash, leaf))
           level  == assigned_level(blocks, leaf)
           auto   == record_eviction(auto_resize, blocks, leaf)
           mem    == written_memory(level, leaf)
           over   == written_overflow(level, leaf)
<1>1. leaf \in Leaf(height)
  BY EvictionLeaf
<1>2. blocks \in SUBSET Block /\ IsFiniteSet(blocks) /\ Distinct(blocks)
  <2> HIDE DEF leaf
  <2> QED BY <1>1, Gathered
<1>3. auto \in AutoResizeState
  <2> HIDE DEF leaf, blocks
  <2> QED BY <1>2, RecordEvictionType DEF IInv, TypeOK
<1>4. evict_ctr' \in Nat
  BY DEF evict_after_insert, IInv, TypeOK
<1>5. \/ /\ fits(level)
         /\ overflow' = over
         /\ update_peak_overflow(over)
         /\ check_and_maybe_resize(mem, auto)
      \/ /\ ~fits(level)
         /\ Panic("write_to_path")
         /\ overflow' = stash
         /\ auto_resize' = auto
         /\ UNCHANGED <<physical_memory, height, epoch, sweep_end, peak_overflow>>
  BY Zenon DEF evict_after_insert
<1>6. CASE /\ fits(level)
           /\ overflow' = over
           /\ update_peak_overflow(over)
           /\ check_and_maybe_resize(mem, auto)
  <2>1. TreeOK(mem, height) /\ StashOK(over)
    <3> HIDE DEF leaf, blocks
    <3> QED BY <1>1, <1>2, <1>6, PathWritten
  <2> HIDE DEF leaf, blocks, level, auto, mem, over
  <2>2. StashOK(overflow)'
    BY <1>6, <2>1 DEF StashOK
  <2>3. peak_overflow' \in Nat
    BY <1>6, <2>1, PeakOverflow
  <2> QED BY <1>3, <1>4, <1>6, <2>1, <2>2, <2>3, CheckStep DEF MachineOK
<1>7. CASE /\ ~fits(level)
           /\ Panic("write_to_path")
           /\ overflow' = stash
           /\ auto_resize' = auto
           /\ UNCHANGED <<physical_memory, height, epoch, sweep_end, peak_overflow>>
  <2> HIDE DEF leaf, blocks, level, auto, mem, over
  <2>1. TreeOK(physical_memory, height)'
    BY <1>7 DEF IInv, TreeOK
  <2>2. StashOK(overflow)'
    BY <1>7 DEF StashOK
  <2>3. panicked' \in {"no"} \cup Panics
    BY <1>7 DEF Panic, Panics
  <2> QED BY <1>3, <1>4, <1>7, <2>1, <2>2, <2>3 DEF MachineOK, IInv, TypeOK
<1> QED BY <1>5, <1>6, <1>7

\* So does the end of an append, whether or not it evicts.
LEMMA FinishAppendStep ==
  ASSUME IInv, prf' = prf, NEW stash, StashOK(stash), NEW ctr,
         finish_append_after_insert(stash, ctr)
  PROVE  MachineOK'
<1>1. CASE evict_after_insert(stash)
  BY <1>1, EvictStep
<1>2. CASE /\ overflow' = stash
           /\ UNCHANGED <<physical_memory, height, epoch, sweep_end, evict_ctr,
                          auto_resize, peak_overflow, panicked>>
  <2>1. TreeOK(physical_memory, height)' /\ StashOK(overflow)'
    BY <1>2 DEF IInv, TreeOK, StashOK
  <2> QED BY <1>2, <2>1 DEF MachineOK, IInv, TypeOK
<1> QED BY <1>1, <1>2 DEF finish_append_after_insert

\* A path access by a read, a dummy read or a migration.
LEMMA WriteStep ==
  ASSUME IInv, prf' = prf, height' = height, NEW leaf \in Leaf(height),
         NEW blocks \in SUBSET Block, IsFiniteSet(blocks), Distinct(blocks),
         write_to_path(blocks, leaf)
  PROVE  /\ TreeOK(physical_memory, height)'
         /\ StashOK(overflow)'
         /\ panicked' \in {"no"} \cup Panics
<1> DEFINE level == assigned_level(blocks, leaf)
<1>1. CASE /\ fits(level)
           /\ physical_memory' = written_memory(level, leaf)
           /\ overflow' = written_overflow(level, leaf)
           /\ UNCHANGED panicked
  <2>1. TreeOK(written_memory(level, leaf), height) /\ StashOK(written_overflow(level, leaf))
    BY <1>1, PathWritten
  <2> HIDE DEF level
  <2> QED BY <1>1, <2>1 DEF TreeOK, StashOK, IInv, TypeOK
<1>2. CASE /\ Panic("write_to_path")
           /\ UNCHANGED <<physical_memory, overflow>>
  BY <1>2 DEF TreeOK, StashOK, IInv, TypeOK, Panic, Panics
<1> QED BY <1>1, <1>2 DEF write_to_path

-----------------------------------------------------------------------------
\* The initial state.
LEMMA InitInv == Init => IInv
<1> SUFFICES ASSUME Init PROVE IInv
  OBVIOUS
<1>1. prf \in PrfKeys /\ prf \in [Key -> Tag]
  BY PrfAssumption DEF Init
<1>2. height \in 1..MAX_TREE_HEIGHT /\ physical_memory = [n \in Node(height) |-> {}]
  BY CapacityAssumption DEF Init, new
<1>3. TreeOK(physical_memory, height)
  BY <1>2, FS_EmptySet, BucketAssumption DEF TreeOK, Distinct
<1>4. StashOK(overflow)
  BY FS_EmptySet, StashAssumption DEF Init, StashOK
<1>5. auto_resize \in AutoResizeState
  BY DEF Init, NoAutoResize, AutoResizeState
<1>6. batch \in Seq(Entry)
  BY DEF Init
<1>7. MachineOK
  BY <1>2, <1>3, <1>4, <1>5 DEF Init, MachineOK
<1> QED BY <1>1, <1>6, <1>7, InvParts DEF Init

\* A block made from an update.
LEMMA NewBlock ==
  ASSUME IInv, NEW entry, entry.key \in Key, entry.amount \in Amount, NEW number \in Nat
  PROVE  new_block(entry, number) \in Block
BY DEF new_block, Block, Update, IInv, TypeOK

\* An append leaves the overflow within its slots, by the check of insert.
LEMMA AppendOneStash ==
  ASSUME IInv, NEW key \in Key, NEW amount \in Amount, AppendOne(key, amount)
  PROVE  LET block == new_block([key |-> key, amount |-> amount], append_ctr + 1)
         IN block \in Block /\ StashOK(overflow \cup {block})
<1> DEFINE block == new_block([key |-> key, amount |-> amount], append_ctr + 1)
<1>1. block \in Block
  <2>1. append_ctr + 1 \in Nat
    BY DEF IInv, TypeOK
  <2> QED BY <2>1, NewBlock
<1> HIDE DEF block
<1>2. overflow \in SUBSET Block /\ IsFiniteSet(overflow) /\ Cardinality(overflow) < S
  BY DEF IInv, StashOK, AppendOne
<1> DEFINE n == Cardinality(overflow)
           m == Cardinality(overflow \cup {block})
<1>3. n \in Nat /\ IsFiniteSet(overflow \cup {block}) /\ m \in {n, n + 1}
  BY <1>2, FS_CardinalityType, FS_AddElement
<1>4. m <= S
  <2>1. n < S
    BY <1>2
  <2> HIDE DEF n, m
  <2> QED BY <1>3, <2>1, StashAssumption
<1>5. StashOK(overflow \cup {block})
  BY <1>1, <1>2, <1>3, <1>4 DEF StashOK
<1> QED BY <1>1, <1>5 DEF block

\* append preserves the invariant.
LEMMA AppendOneStep ==
  ASSUME IInv, NEW key \in Key, NEW amount \in Amount, AppendOne(key, amount)
  PROVE  IInv'
<1> DEFINE block == new_block([key |-> key, amount |-> amount], append_ctr + 1)
<1>1. StashOK(overflow \cup {block})
  BY AppendOneStash
<1>2. /\ prf' = prf
      /\ finish_append_after_insert(overflow \cup {block}, append_ctr + 1)
      /\ append_ctr' = append_ctr + 1 /\ result' = {} /\ UNCHANGED <<migrating, batch>>
  BY DEF AppendOne
<1> HIDE DEF block
<1>3. MachineOK'
  BY <1>1, <1>2, FinishAppendStep
<1> QED BY <1>2, <1>3, InvPartsNext DEF IInv, TypeOK

\* A chunk of a masked batch is not empty, and its real updates are blocks.
LEMMA Chunk ==
  ASSUME IInv, batch # <<>>
  PROVE  /\ chunk_len \in 1..Len(batch)
         /\ chunk_blocks \in SUBSET Block
         /\ IsFiniteSet(chunk_blocks)
<1> DEFINE gap == current_evict_interval - (append_ctr % current_evict_interval)
           taken == {j \in 1..chunk_len : batch[j].cond = 1}
<1>1. batch \in Seq(Entry) /\ append_ctr \in Nat
  BY DEF IInv, TypeOK
<1>2. Len(batch) \in Nat /\ Len(batch) >= 1
  BY <1>1
<1>3. gap \in Nat /\ gap >= 1
  <2> DEFINE i == current_evict_interval
  <2>1. i \in Nat \ {0}
    BY EvictInterval
  <2> HIDE DEF i
  <2>2. append_ctr % i \in 0..(i - 1)
    BY <1>1, <2>1
  <2>3. i - (append_ctr % i) \in Nat /\ i - (append_ctr % i) >= 1
    BY <2>1, <2>2
  <2> QED BY <2>3 DEF i
<1>4. chunk_len \in 1..Len(batch)
  <2>1. chunk_len = Min({Len(batch), gap})
    BY DEF chunk_len
  <2> HIDE DEF gap
  <2>2. Min({Len(batch), gap}) \in {Len(batch), gap} /\ Min({Len(batch), gap}) <= Len(batch)
    BY <1>2, <1>3, MinOfTwo
  <2> QED BY <1>2, <1>3, <2>1, <2>2
<1>5. ASSUME NEW i \in taken PROVE new_block(batch[i], append_ctr + i) \in Block
  <2>1. batch[i] \in Entry /\ batch[i].cond = 1 /\ append_ctr + i \in Nat
    BY <1>1, <1>4
  <2>2. batch[i].key \in Key /\ batch[i].amount \in Amount
    BY <2>1 DEF Entry, Masked
  <2> QED BY <2>1, <2>2, NewBlock
<1>6. chunk_blocks = {new_block(batch[i], append_ctr + i) : i \in taken}
  BY DEF chunk_blocks
<1>7. IsFiniteSet(chunk_blocks)
  <2>1. IsFiniteSet(taken)
    <3>1. IsFiniteSet(1..chunk_len)
      BY <1>4, FS_Interval
    <3>2. taken \in SUBSET (1..chunk_len)
      OBVIOUS
    <3> QED BY ONLY <3>1, <3>2, FS_Subset
  <2> DEFINE f == [i \in taken |-> new_block(batch[i], append_ctr + i)]
  <2>2. f \in Surjection(taken, chunk_blocks)
    BY <1>6 DEF Surjection
  <2> HIDE DEF f, taken
  <2> QED BY <2>1, <2>2, FS_Surjection
<1> HIDE DEF taken
<1> QED BY <1>4, <1>5, <1>6, <1>7

\* A chunk leaves the overflow within its slots, by the check of insert_batch.
LEMMA AppendChunkStash ==
  ASSUME IInv, AppendChunk
  PROVE  StashOK(overflow \cup chunk_blocks)
<1>1. batch # <<>> /\ Cardinality(overflow \cup chunk_blocks) <= S
  BY DEF AppendChunk
<1>2. chunk_blocks \in SUBSET Block /\ IsFiniteSet(chunk_blocks)
  BY <1>1, Chunk
<1> QED BY <1>1, <1>2, FS_Union DEF IInv, StashOK

\* A chunk of a masked batch preserves the invariant.
LEMMA AppendChunkStep ==
  ASSUME IInv, AppendChunk
  PROVE  IInv'
<1>1. chunk_len \in 1..Len(batch)
  BY Chunk DEF AppendChunk
<1>2. MachineOK'
  BY AppendChunkStash, FinishAppendStep DEF AppendChunk
<1>3. batch' \in Seq(Entry)
  <2>1. batch \in Seq(Entry) /\ batch' = SubSeq(batch, chunk_len + 1, Len(batch))
    BY DEF IInv, TypeOK, AppendChunk
  <2> QED BY <1>1, <2>1
<1>4. append_ctr' \in Nat
  BY <1>1 DEF IInv, TypeOK, AppendChunk
<1>5. prf' = prf /\ result' = {} /\ migrating' = migrating
  BY DEF AppendChunk
<1> QED BY <1>2, <1>3, <1>4, <1>5, InvPartsNext DEF IInv, TypeOK

\* A call that only panics, or only writes variables outside the tree.
LEMMA MachineStutters ==
  ASSUME IInv, prf' = prf,
         UNCHANGED <<physical_memory, overflow, height, epoch, evict_ctr>>,
         sweep_end' \in Nat, auto_resize' \in AutoResizeState, peak_overflow' \in Nat,
         panicked' \in {"no"} \cup Panics
  PROVE  MachineOK'
BY DEF MachineOK, IInv, TypeOK, TreeOK, StashOK

\* A panic that leaves the memory alone preserves the invariant.
LEMMA PanicStep ==
  ASSUME IInv, \/ AppendOverflows \/ AppendChunkOverflows
               \/ GrowPastMaxHeight \/ DeferredGrowPastMaxHeight
  PROVE  IInv'
<1>1. reset_counters(auto_resize) \in AutoResizeState
  BY AutoResizeTypes DEF IInv, TypeOK
<1>2. /\ UNCHANGED <<prf, physical_memory, overflow, height, epoch, append_ctr, evict_ctr,
                     sweep_end, peak_overflow, result, migrating, batch>>
      /\ auto_resize' \in {auto_resize, reset_counters(auto_resize)}
      /\ panicked' \in Panics
  BY DEF AppendOverflows, AppendChunkOverflows, GrowPastMaxHeight,
         DeferredGrowPastMaxHeight, Panic, Panics, calls
<1>3. MachineOK'
  BY <1>1, <1>2, MachineStutters DEF IInv, TypeOK
<1> QED BY <1>2, <1>3, InvPartsNext DEF IInv, TypeOK

\* The start of a masked batch preserves the invariant.
LEMMA BeginBatchStep ==
  ASSUME IInv, NEW n \in 1..MaxBatch, NEW entries \in [1..n -> Entry], BeginBatch(entries)
  PROVE  IInv'
<1>1. entries \in Seq(Entry)
  BY BoundAssumption
<1>2. MachineOK'
  BY MachineStutters DEF BeginBatch, IInv, TypeOK
<1> QED BY <1>1, <1>2, InvPartsNext DEF BeginBatch, IInv, TypeOK

\* read_total preserves the invariant.
LEMMA ReadTotalStep ==
  ASSUME IInv, NEW key \in Key, ReadTotal(key)
  PROVE  IInv'
<1> DEFINE leaf   == to_leaf(prf[key], height)
           blocks == merge_accumulate(read_from_path(overflow, leaf))
           rest   == without(blocks, key)
<1>1. leaf \in Leaf(height)
  BY Heights DEF to_leaf, Leaf, IInv, TypeOK, Tag, Routing
<1>2. blocks \in SUBSET Block /\ IsFiniteSet(blocks) /\ Distinct(blocks)
  <2> HIDE DEF leaf
  <2> QED BY <1>1, Gathered DEF IInv
<1>3. rest \in SUBSET Block /\ IsFiniteSet(rest) /\ Distinct(rest)
  <2>1. rest \in SUBSET blocks
    BY DEF without
  <2> HIDE DEF rest, blocks
  <2> QED BY <1>2, <2>1, FS_Subset DEF Distinct
<1>4. /\ write_to_path(rest, leaf)
      /\ prf' = prf
      /\ UNCHANGED <<height, epoch, append_ctr, evict_ctr, sweep_end, auto_resize,
                     migrating, batch>>
      /\ \/ /\ result' = UNION {b.value : b \in {c \in blocks : c.key = key}}
            /\ update_peak_overflow(overflow')
         \/ UNCHANGED <<result, peak_overflow>>
  BY DEF ReadTotal, path_access_unchanged
<1> HIDE DEF leaf, rest
<1>5. TreeOK(physical_memory, height)' /\ StashOK(overflow)' /\ panicked' \in {"no"} \cup Panics
  BY <1>1, <1>3, <1>4, WriteStep
<1>6. result' \in SUBSET Update
  <2>1. UNION {b.value : b \in {c \in blocks : c.key = key}} \in SUBSET Update
    BY <1>2 DEF Block
  <2> QED BY <1>4, <2>1 DEF IInv, TypeOK
<1>7. peak_overflow' \in Nat
  <2>1. StashOK(overflow')
    BY <1>5 DEF StashOK
  <2> QED BY <1>4, <2>1, PeakOverflow DEF IInv, TypeOK
<1>8. MachineOK'
  BY <1>4, <1>5, <1>7 DEF MachineOK, IInv, TypeOK
<1> QED BY <1>4, <1>6, <1>8, InvPartsNext DEF IInv, TypeOK

\* read_dummy preserves the invariant.
LEMMA ReadDummyStep ==
  ASSUME IInv, NEW leaf \in Leaf(height), ReadDummy(leaf)
  PROVE  IInv'
<1> DEFINE blocks == merge_accumulate(read_from_path(overflow, leaf))
<1>1. blocks \in SUBSET Block /\ IsFiniteSet(blocks) /\ Distinct(blocks)
  BY Gathered DEF IInv
<1>2. /\ write_to_path(blocks, leaf)
      /\ prf' = prf
      /\ UNCHANGED <<height, epoch, append_ctr, evict_ctr, sweep_end, auto_resize,
                     migrating, batch>>
      /\ \/ result' = {} /\ update_peak_overflow(overflow')
         \/ UNCHANGED <<result, peak_overflow>>
  BY DEF ReadDummy, path_access_unchanged
<1> HIDE DEF blocks
<1>3. TreeOK(physical_memory, height)' /\ StashOK(overflow)' /\ panicked' \in {"no"} \cup Panics
  BY <1>1, <1>2, WriteStep
<1>4. peak_overflow' \in Nat
  <2>1. StashOK(overflow')
    BY <1>3 DEF StashOK
  <2> QED BY <1>2, <2>1, PeakOverflow DEF IInv, TypeOK
<1>5. MachineOK'
  BY <1>2, <1>3, <1>4 DEF MachineOK, IInv, TypeOK
<1> QED BY <1>2, <1>5, InvPartsNext DEF IInv, TypeOK

\* Rewriting one path of a grown tree preserves the invariant.
LEMMA MigrateLeafStep ==
  ASSUME IInv, MigrateLeaf
  PROVE  IInv'
<1> DEFINE leaf   == leaf_at(leaf_count(height) - migrating, height)
           blocks == merge_accumulate(read_from_path(overflow, leaf))
<1>1. leaf \in Leaf(height)
  BY DEF leaf_at, bit_of, Leaf, Bit
<1> HIDE DEF leaf
<1>2. blocks \in SUBSET Block /\ IsFiniteSet(blocks) /\ Distinct(blocks)
  BY <1>1, Gathered DEF IInv
<1>3. /\ write_to_path(blocks, leaf)
      /\ prf' = prf /\ migrating > 0 /\ migrating' = migrating - 1
      /\ UNCHANGED <<height, epoch, append_ctr, evict_ctr, sweep_end, auto_resize,
                     peak_overflow, result, batch>>
  BY DEF MigrateLeaf, path_access_unchanged, leaf
<1> HIDE DEF blocks
<1>4. TreeOK(physical_memory, height)' /\ StashOK(overflow)' /\ panicked' \in {"no"} \cup Panics
  BY <1>1, <1>2, <1>3, WriteStep
<1>5. MachineOK'
  BY <1>3, <1>4 DEF MachineOK, IInv, TypeOK
<1>6. migrating' \in Nat
  BY <1>3 DEF IInv, TypeOK
<1> QED BY <1>3, <1>5, <1>6, InvPartsNext DEF IInv, TypeOK

\* Doubling the storage by hand preserves the invariant.
LEMMA BeginGrowStep ==
  ASSUME IInv, BeginGrow
  PROVE  IInv'
<1>1. /\ grow_physical_storage(physical_memory, evict_ctr)
      /\ migrating' = leaf_count(height + 1) /\ result' = {}
      /\ UNCHANGED <<prf, overflow, append_ctr, evict_ctr, peak_overflow, batch, panicked>>
      /\ \E t_hat \in ThresholdUnits :
           auto_resize' \in {on_tree_grown(auto_resize, height + 1, t_hat), auto_resize}
  BY DEF BeginGrow
<1>2. height + 1 \in Nat /\ auto_resize \in AutoResizeState /\ evict_ctr \in Nat
      /\ TreeOK(physical_memory, height)
  BY Heights DEF IInv, TypeOK
<1>3. auto_resize' \in AutoResizeState
  BY <1>1, <1>2, AutoResizeTypes
<1>4. migrating' \in Nat
  BY <1>1, <1>2, LeafCount
<1>5. /\ TreeOK(physical_memory, height)' /\ height' \in 1..MAX_TREE_HEIGHT
      /\ epoch' \in Nat /\ sweep_end' \in Nat
  BY <1>1, <1>2, GrowStep
<1>6. MachineOK'
  BY <1>1, <1>3, <1>5 DEF MachineOK, IInv, TypeOK, StashOK
<1> QED BY <1>1, <1>4, <1>6, InvPartsNext DEF IInv, TypeOK

\* A deferred growth preserves the invariant.
LEMMA DeferredGrowStep ==
  ASSUME IInv, DeferredGrow
  PROVE  IInv'
<1>1. /\ grow_physical_storage(physical_memory, evict_ctr)
      /\ result' = {}
      /\ UNCHANGED <<prf, overflow, append_ctr, evict_ctr, peak_overflow, migrating, batch,
                     panicked>>
      /\ \E t_hat \in ThresholdUnits :
           auto_resize' = on_tree_grown(reset_counters(auto_resize), height + 1, t_hat)
  BY DEF DeferredGrow
<1>2. height + 1 \in Nat /\ auto_resize \in AutoResizeState /\ evict_ctr \in Nat
      /\ TreeOK(physical_memory, height)
  BY Heights DEF IInv, TypeOK
<1>3. auto_resize' \in AutoResizeState
  <2>1. reset_counters(auto_resize) \in AutoResizeState
    BY <1>2, AutoResizeTypes
  <2> QED BY <1>1, <1>2, <2>1, AutoResizeTypes
<1>4. /\ TreeOK(physical_memory, height)' /\ height' \in 1..MAX_TREE_HEIGHT
      /\ epoch' \in Nat /\ sweep_end' \in Nat
  BY <1>1, <1>2, GrowStep
<1>5. MachineOK'
  BY <1>1, <1>3, <1>4 DEF MachineOK, IInv, TypeOK, StashOK
<1> QED BY <1>1, <1>5, InvPartsNext DEF IInv, TypeOK

\* Enabling auto-resize preserves the invariant.
LEMMA EnableAutoResizeStep ==
  ASSUME IInv, NEW t \in TCapacities, NEW mode \in AutoModes, EnableAutoResize(t, mode)
  PROVE  IInv'
<1> DEFINE k == dp_initial_k(effective_t_capacity(t), leaf_count(height))
<1>1. k \in Nat /\ t \in Nat /\ mode.deferred \in BOOLEAN /\ mode.emits_grow_signal \in BOOLEAN
      /\ ThresholdUnits \subseteq Int
  BY Heights, LeafCount, DpInitialK, AutoAssumption
<1>2. /\ \E t_hat \in ThresholdUnits :
           auto_resize' = [NoAutoResize EXCEPT
                             !.enabled = TRUE,
                             !.deferred = mode.deferred,
                             !.emits_grow_signal = mode.emits_grow_signal,
                             !.k = k, !.t_capacity = t, !.t_hat_units = t_hat]
      /\ result' = {}
      /\ UNCHANGED <<prf, physical_memory, overflow, height, epoch, append_ctr, evict_ctr,
                     sweep_end, peak_overflow, migrating, batch, panicked>>
  BY DEF EnableAutoResize
<1> HIDE DEF k
<1>3. auto_resize' \in AutoResizeState
  <2> DEFINE d == mode.deferred
             e == mode.emits_grow_signal
  <2>1. PICK t_hat \in ThresholdUnits :
          auto_resize' = [NoAutoResize EXCEPT !.enabled = TRUE, !.deferred = d,
                            !.emits_grow_signal = e, !.k = k, !.t_capacity = t,
                            !.t_hat_units = t_hat]
    BY <1>2
  <2>2. NoAutoResize \in AutoResizeState
    BY DEF NoAutoResize, AutoResizeState
  <2>3. d \in BOOLEAN /\ e \in BOOLEAN /\ t_hat \in Int
    BY <1>1
  <2> HIDE DEF d, e
  <2> QED BY <1>1, <2>1, <2>2, <2>3 DEF AutoResizeState
<1>4. MachineOK'
  BY <1>2, <1>3, MachineStutters DEF IInv, TypeOK
<1> QED BY <1>2, <1>4, InvPartsNext DEF IInv, TypeOK

\* Opening or closing the sweep window preserves the invariant.
LEMMA SetSweepWindowActiveStep ==
  ASSUME IInv, NEW active \in BOOLEAN, SetSweepWindowActive(active)
  PROVE  IInv'
<1>1. sweep_end' \in Nat
  BY BoundAssumption DEF SetSweepWindowActive
<1>2. MachineOK'
  BY <1>1, MachineStutters DEF SetSweepWindowActive, IInv, TypeOK
<1> QED BY <1>2, InvPartsNext DEF SetSweepWindowActive, IInv, TypeOK

\* reset_metrics preserves the invariant.
LEMMA ResetMetricsStep ==
  ASSUME IInv, ResetMetrics
  PROVE  IInv'
<1>1. MachineOK'
  BY MachineStutters DEF ResetMetrics, IInv, TypeOK
<1> QED BY <1>1, InvPartsNext DEF ResetMetrics, IInv, TypeOK

\* A step that changes nothing preserves the invariant.
LEMMA StutterStep ==
  ASSUME IInv, UNCHANGED vars
  PROVE  IInv'
<1>1. MachineOK'
  BY MachineStutters DEF vars, IInv, TypeOK
<1> QED BY <1>1, InvPartsNext DEF vars, IInv, TypeOK

-----------------------------------------------------------------------------
\* Every call keeps the invariant.
LEMMA NextInv == IInv /\ [Next]_vars => IInv'
<1> SUFFICES ASSUME IInv, [Next]_vars PROVE IInv'
  OBVIOUS
<1>1. ASSUME NEW key \in Key, NEW amount \in Amount, AppendOne(key, amount) PROVE IInv'
  BY <1>1, AppendOneStep
<1>2. CASE AppendOverflows \/ AppendChunkOverflows \/ GrowPastMaxHeight \/ DeferredGrowPastMaxHeight
  BY <1>2, PanicStep
<1>3. ASSUME NEW n \in 1..MaxBatch, NEW entries \in [1..n -> Entry], BeginBatch(entries)
      PROVE  IInv'
  BY <1>3, BeginBatchStep
<1>4. CASE AppendChunk
  BY <1>4, AppendChunkStep
<1>5. ASSUME NEW key \in Key, ReadTotal(key) PROVE IInv'
  BY <1>5, ReadTotalStep
<1>6. ASSUME NEW leaf \in Leaf(height), ReadDummy(leaf) PROVE IInv'
  BY <1>6, ReadDummyStep
<1>7. CASE BeginGrow
  BY <1>7, BeginGrowStep
<1>8. CASE MigrateLeaf
  BY <1>8, MigrateLeafStep
<1>9. ASSUME NEW t \in TCapacities, NEW mode \in AutoModes, EnableAutoResize(t, mode)
      PROVE  IInv'
  BY <1>9, EnableAutoResizeStep
<1>10. CASE DeferredGrow
  BY <1>10, DeferredGrowStep
<1>11. ASSUME NEW active \in BOOLEAN, SetSweepWindowActive(active) PROVE IInv'
  BY <1>11, SetSweepWindowActiveStep
<1>12. CASE ResetMetrics
  BY <1>12, ResetMetricsStep
<1>13. CASE UNCHANGED vars
  BY <1>13, StutterStep
<1> QED BY <1>1, <1>2, <1>3, <1>4, <1>5, <1>6, <1>7, <1>8, <1>9, <1>10, <1>11, <1>12, <1>13
        DEF Next

\* The invariant holds in every reachable state, for all keys, bucket and stash
\* sizes, intervals and tag assignments.
THEOREM Invariance == Spec => []IInv
<1>1. IInv /\ [Next]_vars => IInv'
  BY NextInv
<1> QED BY InitInv, <1>1, PTL DEF Spec

\* The variables keep their types; in particular the tree always has a bucket
\* for every node of its height, whatever resized it (resize.rs:340-352).
THEOREM TypeCorrect == Spec => []TypeOK
<1>1. IInv => TypeOK
  BY DEF IInv
<1> QED BY Invariance, <1>1, PTL

\* A block is stored on the path of its key, at every height the tree has had, and
\* no bucket holds two blocks of a key (mod.rs:199-200): sorting by the rotated key
\* and dealing blocks out by level counts never moves one off its path.
THEOREM BlocksStayOnPath == Spec => []PathInvariant
<1>1. IInv => PathInvariant
  BY DEF IInv, TreeOK, PathInvariant, Distinct
<1> QED BY Invariance, <1>1, PTL

\* No bucket is given more blocks than it has slots, and the overflow part never
\* more than its own (stash.rs:80-115, 165-209).
THEOREM SlotsSuffice == Spec => []WithinCapacity
<1>1. IInv => WithinCapacity
  BY DEF IInv, TreeOK, StashOK, WithinCapacity
<1> QED BY Invariance, <1>1, PTL

-----------------------------------------------------------------------------
(***************************************************************************)
(* No update is ever in two blocks.  The invariant also says that stored    *)
(* updates have been appended, so that the numbers of new ones are fresh.   *)
(***************************************************************************)

\* No two blocks of different places or different contents share an update.
TreeApart(mem, h) ==
  \A n \in Node(h), m \in Node(h) : \A b \in mem[n], c \in mem[m] :
    n # m \/ b # c => b.value \cap c.value = {}
Apart(mem, h, stash) ==
  /\ TreeApart(mem, h)
  /\ \A n \in Node(h) : \A b \in mem[n], c \in stash : b.value \cap c.value = {}
  /\ \A b, c \in stash : b # c => b.value \cap c.value = {}

\* Every stored update has been appended.
TreeIssued(mem, h, ctr) == \A n \in Node(h) : \A b \in mem[n] : \A u \in b.value : u[1] <= ctr
Issued(mem, h, stash, ctr) ==
  /\ TreeIssued(mem, h, ctr)
  /\ \A b \in stash : \A u \in b.value : u[1] <= ctr

Accounted(mem, h, stash, ctr) == Apart(mem, h, stash) /\ Issued(mem, h, stash, ctr)

HeldInv == IInv /\ Accounted(physical_memory, height, overflow, append_ctr)

\* Blocks off the path to leaf.
OffPath(leaf) == UNION {physical_memory[n] : n \in Node(height) \ path(leaf, height)}

\* What a path access gathers is apart from itself and from what it leaves.
Gatherable(blocks, leaf, ctr) ==
  /\ blocks \in SUBSET Block
  /\ \A b, c \in blocks : b # c => b.value \cap c.value = {}
  /\ \A b \in blocks, c \in OffPath(leaf) : b.value \cap c.value = {}
  /\ \A b \in blocks : \A u \in b.value : u[1] <= ctr

\* What an access gathers is apart because the memory and the stash are.
LEMMA GatheredApart ==
  ASSUME IInv, NEW leaf \in Leaf(height), NEW stash \in SUBSET Block, NEW ctr \in Nat,
         Apart(physical_memory, height, stash), Issued(physical_memory, height, stash, ctr)
  PROVE  Gatherable(read_from_path(stash, leaf), leaf, ctr)
<1> DEFINE blocks == read_from_path(stash, leaf)
<1>1. path(leaf, height) \subseteq Node(height)
  BY Heights, PathNodes
<1>2. blocks \in SUBSET Block
  BY ReadType
<1>3. \A b \in blocks : b \in stash \/ \E n \in path(leaf, height) : b \in physical_memory[n]
  BY DEF read_from_path
<1> HIDE DEF blocks
<1>4. ASSUME NEW b \in blocks, NEW c \in blocks, b # c PROVE b.value \cap c.value = {}
  BY <1>1, <1>3, <1>4 DEF Apart, TreeApart
<1>5. ASSUME NEW b \in blocks, NEW c \in OffPath(leaf) PROVE b.value \cap c.value = {}
  <2>1. PICK m \in Node(height) \ path(leaf, height) : c \in physical_memory[m]
    BY DEF OffPath
  <2> QED BY <1>1, <1>3, <2>1 DEF Apart, TreeApart
<1>6. \A b \in blocks : \A u \in b.value : u[1] <= ctr
  BY <1>1, <1>3 DEF Issued, TreeIssued
<1> QED BY <1>2, <1>4, <1>5, <1>6 DEF Gatherable, blocks

\* Merging keeps them apart.
LEMMA MergedApart ==
  ASSUME NEW leaf, NEW blocks, NEW ctr, Gatherable(blocks, leaf, ctr)
  PROVE  Gatherable(merge_accumulate(blocks), leaf, ctr)
<1> DEFINE merged == merge_accumulate(blocks)
<1>1. blocks \in SUBSET Block
  BY DEF Gatherable
<1>2. /\ merged \in SUBSET Block /\ Distinct(merged)
      /\ \A b \in merged : b.value = UNION {c.value : c \in {d \in blocks : d.key = b.key}}
  BY <1>1, MergeProperties
<1> HIDE DEF merged
<1>3. \A b \in merged : \A u \in b.value : \E c \in blocks : c.key = b.key /\ u \in c.value
  BY <1>2
<1>4. ASSUME NEW b \in merged, NEW c \in merged, b # c, NEW u \in b.value \cap c.value
      PROVE  FALSE
  <2>1. PICK d \in blocks : d.key = b.key /\ u \in d.value
    BY <1>3
  <2>2. PICK e \in blocks : e.key = c.key /\ u \in e.value
    BY <1>3
  <2>3. b.key # c.key
    BY <1>2, <1>4 DEF Distinct
  <2>4. d # e
    BY <2>1, <2>2, <2>3
  <2> QED BY <2>1, <2>2, <2>4 DEF Gatherable
<1>5. ASSUME NEW b \in merged, NEW c \in OffPath(leaf), NEW u \in b.value \cap c.value
      PROVE  FALSE
  <2>1. PICK d \in blocks : u \in d.value
    BY <1>3
  <2> QED BY <2>1 DEF Gatherable
<1>6. \A b \in merged : \A u \in b.value : u[1] <= ctr
  BY <1>3 DEF Gatherable
<1> QED BY <1>2, <1>4, <1>5, <1>6 DEF Gatherable, merged

\* Writing keeps them apart.
LEMMA WrittenApart ==
  ASSUME IInv, NEW leaf \in Leaf(height), NEW blocks, NEW ctr, Gatherable(blocks, leaf, ctr),
         IsFiniteSet(blocks), Distinct(blocks), TreeApart(physical_memory, height),
         TreeIssued(physical_memory, height, ctr)
  PROVE  LET level == assigned_level(blocks, leaf)
         IN /\ Apart(written_memory(level, leaf), height, written_overflow(level, leaf))
            /\ Issued(written_memory(level, leaf), height, written_overflow(level, leaf), ctr)
<1> DEFINE level == assigned_level(blocks, leaf)
           mem   == written_memory(level, leaf)
           over  == written_overflow(level, leaf)
           Moved(b, l) == b \in blocks /\ level[b] = l
           Left(b, n)  == b \in physical_memory[n] /\ b \in OffPath(leaf)
<1>1. blocks \in SUBSET Block
  BY DEF Gatherable
<1>2. \A b \in over : Moved(b, Overflow)
  BY <1>1, WrittenPlaces
<1>3. \A n \in Node(height) : \A b \in mem[n] :
        (Moved(b, Len(n)) /\ n \in path(leaf, height)) \/ Left(b, n)
  <2> TAKE n \in Node(height)
  <2>1. mem[n] = IF n \in path(leaf, height) THEN {b \in blocks : level[b] = Len(n)}
                                             ELSE physical_memory[n]
    BY <1>1, WrittenPlaces
  <2> QED BY <2>1 DEF OffPath
<1>4. \A b, c \in blocks : b # c => b.value \cap c.value = {}
  BY DEF Gatherable
<1>5. \A b \in blocks, c \in OffPath(leaf) : b.value \cap c.value = {}
  BY DEF Gatherable
<1>6. \A n \in path(leaf, height) : Len(n) \in 0..height /\ n = node_on_path(leaf, Len(n))
  BY Heights, PathNodes
<1>7. ASSUME NEW n \in path(leaf, height), NEW b, NEW c,
             Moved(b, Len(n)), Moved(c, Overflow)
      PROVE  b # c
  <2>1. Len(n) # Overflow
    BY <1>6, Heights DEF Overflow
  <2> HIDE DEF level
  <2> QED BY <1>7, <2>1
<1> HIDE DEF level, mem, over
<1>8. ASSUME NEW n \in Node(height), NEW m \in Node(height), NEW b \in mem[n], NEW c \in mem[m],
             n # m \/ b # c
      PROVE  b.value \cap c.value = {}
  <2>1. CASE Left(b, n) /\ Left(c, m)
    BY <1>8, <2>1 DEF TreeApart
  <2>2. CASE Left(b, n) /\ Moved(c, Len(m))
    BY <2>2, <1>5
  <2>3. CASE Moved(b, Len(n)) /\ Left(c, m)
    BY <2>3, <1>5
  <2>4. CASE /\ Moved(b, Len(n)) /\ n \in path(leaf, height)
             /\ Moved(c, Len(m)) /\ m \in path(leaf, height)
    <3>1. b # c
      BY <1>6, <1>8, <2>4
    <3> QED BY <1>4, <2>4, <3>1
  <2> QED BY <1>3, <2>1, <2>2, <2>3, <2>4
<1>9. ASSUME NEW n \in Node(height), NEW b \in mem[n], NEW c \in over
      PROVE  b.value \cap c.value = {}
  <2>1. CASE Left(b, n)
    BY <1>2, <1>5, <2>1
  <2>2. CASE Moved(b, Len(n)) /\ n \in path(leaf, height)
    BY <1>2, <1>4, <1>7, <2>2
  <2> QED BY <1>3, <2>1, <2>2
<1>10. ASSUME NEW b \in over, NEW c \in over, b # c PROVE b.value \cap c.value = {}
  BY <1>2, <1>4, <1>10
<1>11. \A n \in Node(height) : \A b \in mem[n] : \A u \in b.value : u[1] <= ctr
  BY <1>3 DEF Gatherable, TreeIssued
<1>12. \A b \in over : \A u \in b.value : u[1] <= ctr
  BY <1>2 DEF Gatherable
<1> QED BY <1>8, <1>9, <1>10, <1>11, <1>12
        DEF Apart, TreeApart, Issued, TreeIssued, level, mem, over

\* One path access that writes back some of what it gathered and merged.
LEMMA AccessAccounted ==
  ASSUME IInv, NEW leaf \in Leaf(height), NEW stash, StashOK(stash), NEW ctr \in Nat,
         Accounted(physical_memory, height, stash, ctr),
         NEW kept \in SUBSET merge_accumulate(read_from_path(stash, leaf))
  PROVE  LET level == assigned_level(kept, leaf)
         IN Accounted(written_memory(level, leaf), height, written_overflow(level, leaf), ctr)
<1> DEFINE merged == merge_accumulate(read_from_path(stash, leaf))
<1>1. Gatherable(read_from_path(stash, leaf), leaf, ctr)
  BY GatheredApart DEF Accounted, StashOK
<1>2. Gatherable(merged, leaf, ctr)
  BY <1>1, MergedApart
<1>3. IsFiniteSet(merged) /\ Distinct(merged)
  BY Gathered
<1> HIDE DEF merged
<1>4. Gatherable(kept, leaf, ctr) /\ IsFiniteSet(kept) /\ Distinct(kept)
  <2>1. kept \in SUBSET merged
    BY DEF merged
  <2> QED BY <1>2, <1>3, <2>1, FS_Subset DEF Gatherable, Distinct
<1>5. TreeApart(physical_memory, height) /\ TreeIssued(physical_memory, height, ctr)
  BY DEF Accounted, Apart, Issued
<1> QED BY <1>4, <1>5, WrittenApart DEF Accounted

\* New leaves are empty.
LEMMA DoubledAccounted ==
  ASSUME NEW mem, NEW stash, NEW ctr, Accounted(mem, height, stash, ctr)
  PROVE  Accounted(doubled(mem), height + 1, stash, ctr)
<1>1. \A n \in Node(height + 1) :
        doubled(mem)[n] = IF n \in Node(height) THEN mem[n] ELSE {}
  BY DEF doubled
<1>2. \A n \in Node(height + 1) : \A b \in doubled(mem)[n] : n \in Node(height) /\ b \in mem[n]
  BY <1>1
<1>3. TreeApart(doubled(mem), height + 1)
  BY <1>2 DEF Accounted, Apart, TreeApart
<1>4. TreeIssued(doubled(mem), height + 1, ctr)
  BY <1>2 DEF Accounted, Issued, TreeIssued
<1> QED BY <1>2, <1>3, <1>4 DEF Accounted, Apart, Issued

\* The decision after an eviction keeps updates apart, whether or not it grows the tree.
LEMMA CheckAccounted ==
  ASSUME NEW mem, NEW auto, NEW stash, NEW ctr, Accounted(mem, height, stash, ctr),
         check_and_maybe_resize(mem, auto)
  PROVE  Accounted(physical_memory', height', stash, ctr)
<1>1. \/ physical_memory' = mem /\ height' = height
      \/ physical_memory' = doubled(mem) /\ height' = height + 1
  BY DEF check_and_maybe_resize, grow_physical_storage
<1> QED BY <1>1, DoubledAccounted

\* An eviction keeps updates apart.
LEMMA EvictAccounted ==
  ASSUME IInv, NEW stash, StashOK(stash), NEW ctr \in Nat,
         Accounted(physical_memory, height, stash, ctr), evict_after_insert(stash)
  PROVE  Accounted(physical_memory', height', overflow', ctr)
<1> DEFINE leaf   == bit_reversed_leaf(evict_ctr, height)
           blocks == merge_accumulate(read_from_path(stash, leaf))
           level  == assigned_level(blocks, leaf)
           mem    == written_memory(level, leaf)
           over   == written_overflow(level, leaf)
<1>1. Accounted(mem, height, over, ctr)
  <2>1. leaf \in Leaf(height)
    BY EvictionLeaf
  <2> HIDE DEF leaf
  <2> QED BY <2>1, AccessAccounted
<1>2. \/ overflow' = over /\ \E auto : check_and_maybe_resize(mem, auto)
      \/ overflow' = stash /\ physical_memory' = physical_memory /\ height' = height
  BY Zenon DEF evict_after_insert
<1> HIDE DEF mem, over
<1> QED BY <1>1, <1>2, CheckAccounted

\* So does the end of an append.
LEMMA FinishAppendAccounted ==
  ASSUME IInv, NEW stash, StashOK(stash), NEW ctr \in Nat, NEW at,
         Accounted(physical_memory, height, stash, ctr), finish_append_after_insert(stash, at)
  PROVE  Accounted(physical_memory', height', overflow', ctr)
BY EvictAccounted DEF finish_append_after_insert

\* Updates with new numbers go into the overflow.
LEMMA InsertAccounted ==
  ASSUME HeldInv, NEW blocks \in SUBSET Block, NEW ctr \in Nat, append_ctr <= ctr,
         \A b, c \in blocks : b # c => b.value \cap c.value = {},
         \A b \in blocks : \A u \in b.value : u[1] > append_ctr /\ u[1] <= ctr
  PROVE  Accounted(physical_memory, height, overflow \cup blocks, ctr)
<1> DEFINE stash == overflow \cup blocks
<1>1. append_ctr \in Nat /\ physical_memory \in [Node(height) -> SUBSET Block]
      /\ overflow \in SUBSET Block
  BY DEF HeldInv, IInv, TypeOK
<1>2. \A b \in Block : \A u \in b.value : u[1] \in Nat
  BY DEF Block, Update
<1>3. \A n \in Node(height) : \A b \in physical_memory[n] : \A u \in b.value : u[1] <= append_ctr
  BY DEF HeldInv, Accounted, Issued, TreeIssued
<1>4. \A b \in overflow : \A u \in b.value : u[1] <= append_ctr
  BY DEF HeldInv, Accounted, Issued
<1>5. ASSUME NEW n \in Node(height), NEW b \in physical_memory[n], NEW c \in stash
      PROVE  b.value \cap c.value = {}
  <2>1. CASE c \in overflow
    BY <2>1 DEF HeldInv, Accounted, Apart
  <2>2. CASE c \in blocks
    <3>1. b \in Block
      BY <1>1
    <3> QED BY <1>1, <1>2, <1>3, <2>2, <3>1
  <2> QED BY <2>1, <2>2
<1>6. ASSUME NEW b \in stash, NEW c \in stash, b # c PROVE b.value \cap c.value = {}
  <2>1. CASE b \in overflow /\ c \in overflow
    BY <1>6, <2>1 DEF HeldInv, Accounted, Apart
  <2>2. CASE b \in blocks /\ c \in blocks
    BY <1>6, <2>2
  <2>3. CASE b \in overflow /\ c \in blocks
    BY <1>1, <1>2, <1>4, <2>3
  <2>4. CASE b \in blocks /\ c \in overflow
    BY <1>1, <1>2, <1>4, <2>4
  <2> QED BY <2>1, <2>2, <2>3, <2>4
<1>7. Apart(physical_memory, height, stash)
  BY <1>5, <1>6 DEF Apart, HeldInv, Accounted
<1>8. \A n \in Node(height) : \A b \in physical_memory[n] : \A u \in b.value : u[1] <= ctr
  <2> TAKE n \in Node(height)
  <2> TAKE b \in physical_memory[n]
  <2> TAKE u \in b.value
  <2>1. u[1] \in Nat /\ u[1] <= append_ctr
    BY <1>1, <1>2, <1>3
  <2> QED BY <1>1, <2>1
<1>9. \A b \in stash : \A u \in b.value : u[1] <= ctr
  <2> TAKE b \in stash
  <2> TAKE u \in b.value
  <2>1. CASE b \in overflow
    <3>1. u[1] \in Nat /\ u[1] <= append_ctr
      BY <1>1, <1>2, <1>4, <2>1
    <3> QED BY <1>1, <3>1
  <2> QED BY <2>1
<1> QED BY <1>7, <1>8, <1>9 DEF Accounted, Issued, TreeIssued

-----------------------------------------------------------------------------
\* append adds one update with a fresh number.
LEMMA AppendOneAccounted ==
  ASSUME HeldInv, NEW key \in Key, NEW amount \in Amount, AppendOne(key, amount)
  PROVE  Accounted(physical_memory', height', overflow', append_ctr')
<1> DEFINE block == new_block([key |-> key, amount |-> amount], append_ctr + 1)
<1>1. IInv /\ append_ctr \in Nat
  BY DEF HeldInv, IInv, TypeOK
<1>2. block \in Block /\ StashOK(overflow \cup {block})
  BY <1>1, AppendOneStash
<1>3. block.value = {<<append_ctr + 1, amount>>}
  BY DEF new_block
<1>4. finish_append_after_insert(overflow \cup {block}, append_ctr + 1)
      /\ append_ctr' = append_ctr + 1
  BY DEF AppendOne
<1> HIDE DEF block
<1>5. Accounted(physical_memory, height, overflow \cup {block}, append_ctr + 1)
  <2> DEFINE blocks == {block}
  <2>1. \A b \in blocks : \A u \in b.value : u[1] > append_ctr /\ u[1] <= append_ctr + 1
    BY <1>1, <1>3
  <2>2. \A b, c \in blocks : b # c => b.value \cap c.value = {}
    OBVIOUS
  <2>3. blocks \in SUBSET Block
    BY <1>2
  <2>4. append_ctr + 1 \in Nat /\ append_ctr <= append_ctr + 1
    BY <1>1
  <2> HIDE DEF blocks
  <2>5. Accounted(physical_memory, height, overflow \cup blocks, append_ctr + 1)
    BY <2>1, <2>2, <2>3, <2>4, InsertAccounted
  <2> QED BY <2>5 DEF blocks
<1> QED BY <1>1, <1>2, <1>4, <1>5, FinishAppendAccounted

\* A chunk adds updates with fresh and different numbers.
LEMMA AppendChunkAccounted ==
  ASSUME HeldInv, AppendChunk
  PROVE  Accounted(physical_memory', height', overflow', append_ctr')
<1>1. IInv /\ append_ctr \in Nat /\ batch # <<>>
  BY DEF HeldInv, IInv, TypeOK, AppendChunk
<1>2. chunk_len \in 1..Len(batch) /\ chunk_blocks \in SUBSET Block /\ chunk_len \in Nat
  BY <1>1, Chunk
<1>3. \A b \in chunk_blocks : \E i \in 1..chunk_len :
        b = new_block(batch[i], append_ctr + i) /\ b.value = {<<append_ctr + i, batch[i].amount>>}
  BY DEF chunk_blocks, new_block
<1>4. ASSUME NEW b \in chunk_blocks, NEW c \in chunk_blocks, b # c, NEW u \in b.value \cap c.value
      PROVE  FALSE
  <2>1. PICK i \in 1..chunk_len : b = new_block(batch[i], append_ctr + i)
                                  /\ b.value = {<<append_ctr + i, batch[i].amount>>}
    BY <1>3
  <2>2. PICK j \in 1..chunk_len : c = new_block(batch[j], append_ctr + j)
                                  /\ c.value = {<<append_ctr + j, batch[j].amount>>}
    BY <1>3
  <2>3. u[1] = append_ctr + i /\ u[1] = append_ctr + j
    BY <2>1, <2>2
  <2>4. i = j
    BY <1>1, <1>2, <2>3
  <2> QED BY <1>4, <2>1, <2>2, <2>4
<1>5. \A b \in chunk_blocks : \A u \in b.value :
        u[1] > append_ctr /\ u[1] <= append_ctr + chunk_len
  <2> TAKE b \in chunk_blocks
  <2> TAKE u \in b.value
  <2>1. PICK i \in 1..chunk_len : b.value = {<<append_ctr + i, batch[i].amount>>}
    BY <1>3
  <2>2. u[1] = append_ctr + i
    BY <2>1
  <2> QED BY <1>1, <1>2, <2>2
<1>6. Accounted(physical_memory, height, overflow \cup chunk_blocks, append_ctr + chunk_len)
  <2>1. append_ctr + chunk_len \in Nat /\ append_ctr <= append_ctr + chunk_len
    BY <1>1, <1>2
  <2> QED BY <1>2, <1>4, <1>5, <2>1, InsertAccounted
<1>7. /\ finish_append_after_insert(overflow \cup chunk_blocks, append_ctr + chunk_len)
      /\ append_ctr' = append_ctr + chunk_len
  BY DEF AppendChunk
<1>8. append_ctr + chunk_len \in Nat
  BY <1>1, <1>2
<1> QED BY <1>1, <1>6, <1>7, <1>8, AppendChunkStash, FinishAppendAccounted

\* Reads, dummy reads and migrations write back some of what they merged.
LEMMA WriteAccounted ==
  ASSUME HeldInv, NEW leaf \in Leaf(height),
         NEW kept \in SUBSET merge_accumulate(read_from_path(overflow, leaf)),
         write_to_path(kept, leaf), height' = height, append_ctr' = append_ctr
  PROVE  Accounted(physical_memory', height', overflow', append_ctr')
<1>1. IInv /\ StashOK(overflow) /\ append_ctr \in Nat
      /\ Accounted(physical_memory, height, overflow, append_ctr)
  BY DEF HeldInv, IInv, TypeOK
<1> DEFINE level == assigned_level(kept, leaf)
<1>2. Accounted(written_memory(level, leaf), height, written_overflow(level, leaf), append_ctr)
  BY <1>1, AccessAccounted
<1>3. \/ /\ physical_memory' = written_memory(level, leaf)
         /\ overflow' = written_overflow(level, leaf)
      \/ UNCHANGED <<physical_memory, overflow>>
  BY DEF write_to_path
<1> HIDE DEF level
<1> QED BY <1>1, <1>2, <1>3

\* Doubling the storage keeps updates apart.
LEMMA GrowAccounted ==
  ASSUME HeldInv, NEW ctr, grow_physical_storage(physical_memory, ctr),
         UNCHANGED <<overflow, append_ctr>>
  PROVE  Accounted(physical_memory', height', overflow', append_ctr')
BY DoubledAccounted DEF HeldInv, grow_physical_storage

\* A key's blocks belong to a leaf of the tree.
LEMMA KeyLeaf ==
  ASSUME IInv, NEW key \in Key
  PROVE  to_leaf(prf[key], height) \in Leaf(height)
BY Heights DEF to_leaf, Leaf, IInv, TypeOK, Tag, Routing

\* Every step keeps updates apart.
LEMMA NextAccounted ==
  ASSUME HeldInv, [Next]_vars
  PROVE  Accounted(physical_memory', height', overflow', append_ctr')
<1>1. IInv
  BY DEF HeldInv
<1>2. ASSUME NEW key \in Key, NEW amount \in Amount, AppendOne(key, amount)
      PROVE  Accounted(physical_memory', height', overflow', append_ctr')
  BY <1>2, AppendOneAccounted
<1>3. CASE AppendChunk
  BY <1>3, AppendChunkAccounted
<1>4. ASSUME NEW key \in Key, ReadTotal(key)
      PROVE  Accounted(physical_memory', height', overflow', append_ctr')
  <2> DEFINE leaf   == to_leaf(prf[key], height)
             merged == merge_accumulate(read_from_path(overflow, leaf))
             rest   == without(merged, key)
  <2>1. leaf \in Leaf(height)
    BY <1>1, KeyLeaf
  <2>2. rest \in SUBSET merged /\ write_to_path(rest, leaf)
        /\ height' = height /\ append_ctr' = append_ctr
    BY <1>4 DEF without, ReadTotal, path_access_unchanged
  <2> HIDE DEF leaf, rest
  <2> QED BY <2>1, <2>2, WriteAccounted
<1>5. ASSUME NEW leaf \in Leaf(height), ReadDummy(leaf)
      PROVE  Accounted(physical_memory', height', overflow', append_ctr')
  BY <1>5, WriteAccounted DEF ReadDummy, path_access_unchanged
<1>6. CASE MigrateLeaf
  <2> DEFINE leaf == leaf_at(leaf_count(height) - migrating, height)
  <2>1. leaf \in Leaf(height)
    BY DEF leaf_at, bit_of, Leaf, Bit
  <2>2. /\ write_to_path(merge_accumulate(read_from_path(overflow, leaf)), leaf)
        /\ height' = height /\ append_ctr' = append_ctr
    BY <1>6 DEF MigrateLeaf, path_access_unchanged
  <2> HIDE DEF leaf
  <2> QED BY <2>1, <2>2, WriteAccounted
<1>7. CASE BeginGrow \/ DeferredGrow
  <2>1. grow_physical_storage(physical_memory, evict_ctr) /\ UNCHANGED <<overflow, append_ctr>>
    BY <1>7 DEF BeginGrow, DeferredGrow
  <2> QED BY <2>1, GrowAccounted
<1>8. CASE UNCHANGED <<physical_memory, height, overflow, append_ctr>>
  BY <1>8 DEF HeldInv
<1>9. \/ \E key \in Key, amount \in Amount : AppendOne(key, amount)
      \/ AppendChunk
      \/ \E key \in Key : ReadTotal(key)
      \/ \E leaf \in Leaf(height) : ReadDummy(leaf)
      \/ MigrateLeaf
      \/ BeginGrow \/ DeferredGrow
      \/ UNCHANGED <<physical_memory, height, overflow, append_ctr>>
  BY DEF Next, vars, AppendOverflows, BeginBatch, AppendChunkOverflows, GrowPastMaxHeight,
         EnableAutoResize, DeferredGrowPastMaxHeight, SetSweepWindowActive, ResetMetrics
<1> QED BY <1>2, <1>3, <1>4, <1>5, <1>6, <1>7, <1>8, <1>9

\* Each update is held in one block in one place: no path access, resize or panic
\* leaves a copy behind that a later merge would add again (stash.rs:117-149).
THEOREM UpdatesHeldOnce == Spec => []HeldExactlyOnce
<1>1. Init => HeldInv
  <2> SUFFICES ASSUME Init PROVE HeldInv
    OBVIOUS
  <2>1. overflow = {} /\ \A n \in Node(height) : physical_memory[n] = {}
    BY DEF Init, new
  <2> QED BY <2>1, InitInv
          DEF HeldInv, Accounted, Apart, TreeApart, Issued, TreeIssued
<1>2. HeldInv /\ [Next]_vars => HeldInv'
  <2>1. HeldInv /\ [Next]_vars => IInv'
    BY NextInv DEF HeldInv
  <2> QED BY <2>1, NextAccounted
          DEF HeldInv, Accounted, Apart, TreeApart, Issued, TreeIssued
<1>3. HeldInv => HeldExactlyOnce
  BY DEF HeldInv, Accounted, Apart, TreeApart, HeldExactlyOnce
<1> QED BY <1>1, <1>2, <1>3, PTL DEF Spec
-----------------------------------------------------------------------------
(***************************************************************************)
(* How many overflow slots the histogram needs.  Every path access leaves    *)
(* at most one block for each key in the overflow, and between two evictions *)
(* fewer than A blocks are added; so a slot for each key and each append of  *)
(* an interval suffices, as long as the shorter interval of a sweep divides  *)
(* A (otherwise toggling the sweep can postpone evictions).                  *)
(***************************************************************************)

\* The sizing, and the interval for which it is enough.
EnoughSlots == S >= Cardinality(Key) + A
SweepIntervalDivides == A % Max({A \div 2, 1}) = 0

\* The overflow holds a block for each key and the appends since a multiple of A.
RoomInv == /\ IInv
           /\ NoStashPanic
           /\ Cardinality(overflow) <= Cardinality(Key) + (append_ctr % A)

-----------------------------------------------------------------------------
(***************************************************************************)
(* Arithmetic of a counter and its intervals.                               *)
(***************************************************************************)

\* A counter that advances by k inside an interval of length a, or to its end.
LEMMA Advance ==
  ASSUME NEW c \in Nat, NEW a \in Nat \ {0}, NEW k \in Nat, (c % a) + k <= a
  PROVE  /\ (c % a) + k = a => (c + k) % a = 0
         /\ (c % a) + k # a => (c + k) % a = (c % a) + k
<1> DEFINE q == c \div a
           r == c % a
<1>1. q \in Nat /\ r \in 0..(a - 1) /\ c = a * q + r
  BY Division
<1> HIDE DEF q, r
<1>2. CASE r + k = a
  <2>1. c + k = a * (q + 1) + 0
    BY <1>1, <1>2
  <2>2. q + 1 \in Nat /\ 0 \in 0..(a - 1)
    BY <1>1
  <2>3. (a * (q + 1) + 0) % a = 0
    BY <2>2, Remainder
  <2> QED BY <1>2, <2>1, <2>3 DEF r
<1>3. CASE r + k < a
  <2>1. c + k = a * q + (r + k)
    BY <1>1
  <2>2. r + k \in 0..(a - 1)
    BY <1>1, <1>3
  <2>3. (a * q + (r + k)) % a = r + k
    BY <1>1, <2>2, Remainder
  <2> QED BY <1>3, <2>1, <2>3 DEF r
<1>4. r + k \in Nat /\ r + k <= a
  BY <1>1 DEF r
<1> QED BY <1>2, <1>3, <1>4

\* A multiple of w*m is one of w.
LEMMA MultipleOfDivisor ==
  ASSUME NEW c \in Nat, NEW w \in Nat \ {0}, NEW m \in Nat \ {0}, c % (w * m) = 0
  PROVE  c % w = 0
<1> DEFINE a == w * m
           q == c \div a
<1>1. a \in Nat \ {0}
  OBVIOUS
<1>2. q \in Nat /\ c = a * q + (c % a)
  <2> HIDE DEF a
  <2> QED BY <1>1, Division
<1> HIDE DEF q
<1>3. c = w * (m * q) + 0
  <2>1. c = (w * m) * q
    BY <1>1, <1>2
  <2>2. (w * m) * q = w * (m * q)
    <3> HIDE DEF a
    <3> QED BY ONLY <1>2, w \in Nat, m \in Nat, q \in Nat
  <2> HIDE DEF a
  <2> QED BY ONLY <2>1, <2>2, <1>2, w \in Nat, m \in Nat, q \in Nat
<1>4. m * q \in Nat /\ 0 \in 0..(w - 1)
  BY <1>2
<1>5. (w * (m * q) + 0) % w = 0
  <2> DEFINE n == m * q
  <2> HIDE DEF n, a
  <2> QED BY ONLY <1>4, Remainder, w \in Nat \ {0} DEF n
<1> QED BY ONLY <1>3, <1>5

\* The next multiple of w*m is no earlier than that of w.
LEMMA NextMultiple ==
  ASSUME NEW c \in Nat, NEW w \in Nat \ {0}, NEW m \in Nat \ {0}
  PROVE  w - (c % w) <= w * m - (c % (w * m))
<1> DEFINE a == w * m
           q == c \div a
           r == c % a
           p == c \div w
           s == c % w
<1>1. a \in Nat \ {0}
  OBVIOUS
<1>2. q \in Nat /\ r \in 0..(a - 1) /\ c = a * q + r
  <2> HIDE DEF a
  <2> QED BY <1>1, Division
<1>3. p \in Nat /\ s \in 0..(w - 1) /\ c = w * p + s
  BY Division
<1> HIDE DEF q, r, p, s
<1>4. c = w * (m * q) + r
  BY <1>2
<1> DEFINE d == p - m * q
<1>5. d \in Int /\ w * d = r - s
  BY <1>2, <1>3, <1>4
<1>6. w * d < w * m
  BY <1>2, <1>3, <1>5
<1> HIDE DEF d
<1>7. d <= m - 1
  <2>1. CASE d >= m
    <3>1. w * d >= w * m
      BY <1>5, <2>1, Monotone
    <3>2. w * d \in Int /\ w * m \in Int
      BY <1>5
    <3> QED BY <1>6, <3>1, <3>2
  <2> QED BY <1>5, <2>1
<1>8. w * d <= w * (m - 1)
  BY <1>5, <1>7, Monotone
<1>9. w * (m - 1) = w * m - w
  OBVIOUS
<1>10. r - s <= w * m - w /\ r \in Int /\ s \in Int /\ w * m \in Int
  BY <1>2, <1>3, <1>5, <1>8, <1>9
<1>11. w - s <= w * m - r
  <2> DEFINE x == w * m
  <2>1. r - s <= x - w /\ r \in Int /\ s \in Int /\ x \in Int
    BY <1>10
  <2> HIDE DEF x
  <2>2. w - s <= x - r
    BY <2>1
  <2> QED BY <2>2 DEF x
<1> QED BY <1>11 DEF r, s

\* The current interval divides A.
LEMMA IntervalDivides ==
  ASSUME SweepIntervalDivides
  PROVE  /\ current_evict_interval \in Nat \ {0}
         /\ \E m \in Nat \ {0} : A = current_evict_interval * m
<1> DEFINE half == Max({A \div 2, 1})
<1>1. A \in Nat \ {0} /\ A \div 2 \in Int
  BY IntervalAssumption
<1>2. half \in {A \div 2, 1} /\ half >= 1
  <2> DEFINE h == A \div 2
  <2>1. h \in Int /\ 1 \in Int
    BY <1>1
  <2> HIDE DEF h
  <2>2. Max({h, 1}) \in {h, 1} /\ Max({h, 1}) >= 1
    BY ONLY <2>1, MaxOfTwo
  <2> QED BY ONLY <2>2 DEF half, h
<1>3. half \in Nat \ {0}
  <2> HIDE DEF half
  <2>1. half \in Int
    BY ONLY <1>1, <1>2
  <2> QED BY ONLY <1>2, <2>1
<1>4. current_evict_interval \in {half, A}
  BY DEF current_evict_interval
<1>5. A % half = 0
  BY DEF SweepIntervalDivides
<1> HIDE DEF half
<1>6. \E m \in Nat \ {0} : A = half * m
  <2>1. A \div half \in Nat /\ A = half * (A \div half) + (A % half)
    BY <1>1, <1>3, Division
  <2>2. A = half * (A \div half)
    BY <1>1, <1>3, <1>5, <2>1
  <2>3. A \div half # 0
    BY <1>1, <1>3, <2>2
  <2> QED BY <2>1, <2>2, <2>3
<1>7. A = A * 1 /\ 1 \in Nat \ {0}
  BY <1>1
<1> QED BY <1>1, <1>3, <1>4, <1>6, <1>7

-----------------------------------------------------------------------------
\* The sizes are numbers, and with enough slots one is left when each key has one.
LEMMA Sizes ==
  ASSUME EnoughSlots
  PROVE  /\ Cardinality(Key) \in Nat /\ A \in Nat \ {0} /\ S \in Nat
         /\ Cardinality(Key) < S
BY KeyAssumption, FS_CardinalityType, IntervalAssumption, StashAssumption DEF EnoughSlots

\* Blocks of different keys are no more than there are keys.
LEMMA OneBlockPerKey ==
  ASSUME NEW blocks \in SUBSET Block, Distinct(blocks)
  PROVE  IsFiniteSet(blocks) /\ Cardinality(blocks) <= Cardinality(Key)
<1> DEFINE f == [b \in blocks |-> b.key]
<1>1. f \in Injection(blocks, Key)
  BY DEF Injection, IsInjective, Distinct, Block
<1> HIDE DEF f
<1> QED BY <1>1, KeyAssumption, FS_Injection

\* Any write of what an access merged fits, and leaves a block for each key at most.
LEMMA AccessRoom ==
  ASSUME IInv, EnoughSlots, NEW leaf \in Leaf(height), NEW stash, StashOK(stash),
         NEW kept \in SUBSET merge_accumulate(read_from_path(stash, leaf))
  PROVE  LET level == assigned_level(kept, leaf)
         IN /\ fits(level)
            /\ Cardinality(written_overflow(level, leaf)) \in 0..Cardinality(Key)
<1> DEFINE level == assigned_level(kept, leaf)
           merged == merge_accumulate(read_from_path(stash, leaf))
           left == {b \in kept : level[b] = Overflow}
<1>1. merged \in SUBSET Block /\ Distinct(merged)
  BY Gathered
<1>2. kept \in SUBSET Block /\ Distinct(kept) /\ IsFiniteSet(kept)
  <2> HIDE DEF merged
  <2>1. kept \in SUBSET merged
    BY DEF merged
  <2>2. kept \in SUBSET Block /\ Distinct(kept)
    BY <1>1, <2>1 DEF Distinct
  <2> QED BY <2>2, OneBlockPerKey
<1>3. left \in SUBSET Block /\ Distinct(left)
  BY <1>2 DEF Distinct
<1> HIDE DEF left
<1>4. Cardinality(left) \in Nat /\ Cardinality(left) <= Cardinality(Key)
  BY <1>3, OneBlockPerKey, FS_CardinalityType
<1>5. written_overflow(level, leaf) = left
  BY <1>2, WrittenPlaces DEF left
<1>6. overflow_count(level) = Cardinality(left)
  <2>1. DOMAIN level = kept
    <3>1. Routed
      BY RoutedByInv
    <3> QED BY <1>2, <3>1, LevelEquation
  <2> QED BY <2>1 DEF overflow_count, level_count, left
<1> HIDE DEF level
<1>7. Cardinality(Key) \in Nat /\ S \in Nat /\ Cardinality(Key) < S
  BY Sizes
<1>8. fits(level)
  BY <1>4, <1>6, <1>7 DEF fits
<1>9. Cardinality(written_overflow(level, leaf)) \in 0..Cardinality(Key)
  BY <1>4, <1>5, <1>7
<1> QED BY <1>8, <1>9 DEF level

-----------------------------------------------------------------------------
\* An eviction leaves a block for each key, and does not panic for want of slots.
LEMMA EvictRoom ==
  ASSUME IInv, NoStashPanic, EnoughSlots, NEW stash, StashOK(stash), evict_after_insert(stash)
  PROVE  NoStashPanic' /\ Cardinality(overflow') \in 0..Cardinality(Key)
<1> DEFINE leaf   == bit_reversed_leaf(evict_ctr, height)
           merged == merge_accumulate(read_from_path(stash, leaf))
           level  == assigned_level(merged, leaf)
           over   == written_overflow(level, leaf)
<1>1. fits(level) /\ Cardinality(over) \in 0..Cardinality(Key)
  <2>1. leaf \in Leaf(height)
    BY EvictionLeaf
  <2> HIDE DEF leaf
  <2> QED BY <2>1, AccessRoom
<1>2. \/ overflow' = over /\ \E mem, auto : check_and_maybe_resize(mem, auto)
      \/ ~fits(level)
  BY Zenon DEF evict_after_insert
<1> HIDE DEF level, over
<1>3. ASSUME NEW mem, NEW auto, check_and_maybe_resize(mem, auto)
      PROVE  NoStashPanic'
  BY <1>3 DEF check_and_maybe_resize, NoStashPanic, Panic
<1> QED BY <1>1, <1>2, <1>3

\* Where the counter stands after an append of len updates that does not evict: the
\* multiples of A are multiples of the current interval, so it passed none of them.
LEMMA InsideInterval ==
  ASSUME IInv, SweepIntervalDivides, NEW len \in Nat, (append_ctr % A) + len <= A,
         (append_ctr + len) % current_evict_interval # 0
  PROVE  (append_ctr + len) % A = (append_ctr % A) + len
<1> DEFINE w == current_evict_interval
           here == append_ctr % A
<1>1. append_ctr \in Nat /\ A \in Nat \ {0} /\ append_ctr + len \in Nat
  BY IntervalAssumption DEF IInv, TypeOK
<1>2. /\ here + len = A => (append_ctr + len) % A = 0
      /\ here + len # A => (append_ctr + len) % A = here + len
  BY <1>1, Advance
<1>3. here + len # A
  <2> SUFFICES ASSUME here + len = A PROVE FALSE
    OBVIOUS
  <2>1. PICK m \in Nat \ {0} : A = w * m
    BY IntervalDivides
  <2>2. (append_ctr + len) % A = 0 /\ w \in Nat \ {0}
    BY <1>2, IntervalDivides
  <2>3. (append_ctr + len) % w # 0
    OBVIOUS
  <2> HIDE DEF w, here
  <2>4. (append_ctr + len) % w = 0
    BY <1>1, <2>1, <2>2, MultipleOfDivisor
  <2> QED BY <2>3, <2>4
<1> QED BY <1>2, <1>3

\* A chunk of a batch ends no later than the next multiple of A.
LEMMA ChunkInsideInterval ==
  ASSUME IInv, SweepIntervalDivides, batch # <<>>
  PROVE  chunk_len \in Nat /\ (append_ctr % A) + chunk_len <= A
<1> DEFINE w == current_evict_interval
           gap == w - (append_ctr % w)
<1>1. append_ctr \in Nat /\ batch \in Seq(Entry) /\ Len(batch) \in Nat /\ A \in Nat \ {0}
  BY IntervalAssumption DEF IInv, TypeOK
<1>2. chunk_len \in 1..Len(batch)
  BY Chunk
<1>3. w \in Nat \ {0} /\ \E m \in Nat \ {0} : A = w * m
  BY IntervalDivides
<1>4. append_ctr % A \in 0..(A - 1)
  BY <1>1, Division
<1> HIDE DEF w
<1>5. append_ctr % w \in 0..(w - 1)
  BY <1>1, <1>3, Division
<1>6. gap \in Nat /\ gap <= A - (append_ctr % A)
  <2>1. PICK m \in Nat \ {0} : A = w * m
    BY <1>3
  <2>2. w - (append_ctr % w) <= w * m - (append_ctr % (w * m))
    BY <1>1, <1>3, NextMultiple
  <2>3. gap <= A - (append_ctr % A)
    BY <2>1, <2>2
  <2> QED BY <1>3, <1>5, <2>3
<1>7. chunk_len <= gap
  <2>1. chunk_len = Min({Len(batch), gap})
    BY DEF chunk_len, w
  <2> HIDE DEF gap
  <2>2. Min({Len(batch), gap}) <= gap
    BY <1>1, <1>6, MinOfTwo
  <2> QED BY <2>1, <2>2
<1> HIDE DEF gap
<1> QED BY <1>1, <1>2, <1>4, <1>6, <1>7

\* The end of an append that brings the counter to append_ctr + len, inside the
\* current interval or to its end.
LEMMA FinishAppendRoom ==
  ASSUME RoomInv, EnoughSlots, SweepIntervalDivides, NEW stash, StashOK(stash),
         NEW len \in Nat, append_ctr' = append_ctr + len,
         Cardinality(stash) <= Cardinality(Key) + (append_ctr % A) + len,
         (append_ctr % A) + len <= A,
         finish_append_after_insert(stash, append_ctr + len)
  PROVE  NoStashPanic' /\ Cardinality(overflow') <= Cardinality(Key) + (append_ctr' % A)
<1> DEFINE w == current_evict_interval
           here == append_ctr % A
           there == append_ctr' % A
<1>1. IInv /\ NoStashPanic /\ append_ctr \in Nat
  BY DEF RoomInv, IInv, TypeOK
<1>2. Cardinality(Key) \in Nat /\ A \in Nat \ {0}
  BY Sizes
<1>3. here \in 0..(A - 1)
  BY <1>1, <1>2, Division
<1>4. there = IF here + len = A THEN 0 ELSE here + len
  <2>1. /\ (append_ctr % A) + len = A => (append_ctr + len) % A = 0
        /\ (append_ctr % A) + len # A => (append_ctr + len) % A = (append_ctr % A) + len
    BY <1>1, <1>2, Advance
  <2> QED BY <2>1
<1>5. Cardinality(stash) \in Nat
  BY FS_CardinalityType DEF StashOK
<1>6. CASE evict_after_insert(stash)
  <2>1. NoStashPanic' /\ Cardinality(overflow') \in 0..Cardinality(Key)
    BY <1>1, <1>6, EvictRoom
  <2>2. there \in Nat
    BY <1>3, <1>4
  <2> HIDE DEF there
  <2> QED BY <1>2, <2>1, <2>2 DEF there
<1>7. CASE (append_ctr + len) % w # 0 /\ overflow' = stash /\ panicked' = panicked
  <2>2. there = here + len
    BY <1>1, <1>7, InsideInterval
  <2>3. Cardinality(overflow') <= Cardinality(Key) + here + len
    BY <1>7
  <2> HIDE DEF here, there
  <2>4. Cardinality(overflow') <= Cardinality(Key) + there
    BY <1>2, <1>3, <2>2, <2>3
  <2> QED BY <1>1, <1>7, <2>4 DEF there, NoStashPanic
<1> HIDE DEF w
<1> QED BY <1>6, <1>7 DEF finish_append_after_insert, w

\* How far a chunk may advance the counter, and how many blocks it has.
LEMMA ChunkRoom ==
  ASSUME RoomInv, EnoughSlots, SweepIntervalDivides, batch # <<>>
  PROVE  /\ chunk_len \in Nat
         /\ (append_ctr % A) + chunk_len <= A
         /\ Cardinality(overflow \cup chunk_blocks)
              <= Cardinality(Key) + (append_ctr % A) + chunk_len
<1>1. IInv /\ append_ctr \in Nat /\ batch \in Seq(Entry) /\ Len(batch) \in Nat
  BY DEF RoomInv, IInv, TypeOK
<1>2. chunk_len \in 1..Len(batch) /\ IsFiniteSet(chunk_blocks)
  BY <1>1, Chunk
<1>3. Cardinality(Key) \in Nat /\ A \in Nat \ {0}
  BY Sizes
<1>4. append_ctr % A \in 0..(A - 1)
  BY <1>1, <1>3, Division
<1>5. (append_ctr % A) + chunk_len <= A
  BY <1>1, ChunkInsideInterval
<1>6. Cardinality(chunk_blocks) \in Nat /\ Cardinality(chunk_blocks) <= chunk_len
  <2> DEFINE taken == {j \in 1..chunk_len : batch[j].cond = 1}
             f == [i \in taken |-> new_block(batch[i], append_ctr + i)]
  <2>1. f \in Surjection(taken, chunk_blocks)
    BY DEF Surjection, chunk_blocks
  <2>2. IsFiniteSet(1..chunk_len) /\ Cardinality(1..chunk_len) = chunk_len
    BY <1>2, FS_Interval
  <2>3. taken \in SUBSET (1..chunk_len)
    OBVIOUS
  <2> HIDE DEF taken, f
  <2>4. IsFiniteSet(taken) /\ Cardinality(taken) <= chunk_len
    BY <2>2, <2>3, FS_Subset
  <2>5. Cardinality(chunk_blocks) <= Cardinality(taken)
    BY <2>1, <2>4, FS_Surjection
  <2>6. Cardinality(chunk_blocks) \in Nat /\ Cardinality(taken) \in Nat
    BY <1>2, <2>4, FS_CardinalityType
  <2> QED BY <1>2, <2>4, <2>5, <2>6
<1>7. IsFiniteSet(overflow) /\ Cardinality(overflow) <= Cardinality(Key) + (append_ctr % A)
  BY DEF RoomInv, IInv, StashOK
<1>8. Cardinality(overflow \cup chunk_blocks) <= Cardinality(overflow) + Cardinality(chunk_blocks)
       /\ Cardinality(overflow \cup chunk_blocks) \in Nat /\ Cardinality(overflow) \in Nat
  <2>1. Cardinality(overflow \cap chunk_blocks) \in Nat
    BY <1>7, FS_Intersection, FS_CardinalityType
  <2>2. Cardinality(overflow) \in Nat
    BY <1>7, FS_CardinalityType
  <2>3. Cardinality(overflow \cup chunk_blocks)
          = Cardinality(overflow) + Cardinality(chunk_blocks) - Cardinality(overflow \cap chunk_blocks)
    BY <1>2, <1>7, FS_Union
  <2>4. IsFiniteSet(overflow \cup chunk_blocks)
    BY <1>2, <1>7, FS_Union
  <2>5. Cardinality(overflow \cup chunk_blocks) \in Nat
    BY <2>4, FS_CardinalityType
  <2> QED BY <1>6, <2>1, <2>2, <2>3, <2>5
<1> QED BY <1>2, <1>3, <1>4, <1>5, <1>6, <1>7, <1>8

-----------------------------------------------------------------------------
\* append, at the end of an interval or inside it.
LEMMA AppendOneRoom ==
  ASSUME RoomInv, EnoughSlots, SweepIntervalDivides,
         NEW key \in Key, NEW amount \in Amount, AppendOne(key, amount)
  PROVE  NoStashPanic' /\ Cardinality(overflow') <= Cardinality(Key) + (append_ctr' % A)
<1> DEFINE block == new_block([key |-> key, amount |-> amount], append_ctr + 1)
           stash == overflow \cup {block}
<1>1. IInv /\ append_ctr \in Nat
  BY DEF RoomInv, IInv, TypeOK
<1>2. StashOK(stash)
  BY <1>1, AppendOneStash
<1>3. finish_append_after_insert(stash, append_ctr + 1) /\ append_ctr' = append_ctr + 1
  BY DEF AppendOne
<1>4. Cardinality(Key) \in Nat /\ A \in Nat \ {0}
  BY Sizes
<1>5. append_ctr % A \in 0..(A - 1)
  BY <1>1, <1>4, Division
<1> HIDE DEF block
<1>6. Cardinality(stash) <= Cardinality(overflow) + 1 /\ Cardinality(overflow) \in Nat
  <2>1. IsFiniteSet(overflow)
    BY <1>1 DEF IInv, StashOK
  <2>2. Cardinality(overflow) \in Nat
    BY ONLY <2>1, FS_CardinalityType
  <2>3. \/ Cardinality(stash) = Cardinality(overflow)
        \/ Cardinality(stash) = Cardinality(overflow) + 1
    BY ONLY <2>1, FS_AddElement DEF stash
  <2> QED BY ONLY <2>2, <2>3
<1>7. Cardinality(overflow) <= Cardinality(Key) + (append_ctr % A)
  BY DEF RoomInv
<1>8. Cardinality(stash) \in Nat
  BY <1>2, FS_CardinalityType DEF StashOK
<1> HIDE DEF stash
<1>9. Cardinality(stash) <= Cardinality(Key) + (append_ctr % A) + 1
  BY <1>4, <1>5, <1>6, <1>7, <1>8
<1>10. (append_ctr % A) + 1 <= A /\ 1 \in Nat
  BY <1>4, <1>5
<1> QED BY <1>2, <1>3, <1>9, <1>10, FinishAppendRoom

\* A chunk of a masked batch.
LEMMA AppendChunkRoom ==
  ASSUME RoomInv, EnoughSlots, SweepIntervalDivides, AppendChunk
  PROVE  NoStashPanic' /\ Cardinality(overflow') <= Cardinality(Key) + (append_ctr' % A)
<1>1. /\ batch # <<>> /\ append_ctr' = append_ctr + chunk_len
      /\ finish_append_after_insert(overflow \cup chunk_blocks, append_ctr + chunk_len)
  BY DEF AppendChunk
<1>2. StashOK(overflow \cup chunk_blocks)
  BY AppendChunkStash DEF RoomInv
<1> QED BY <1>1, <1>2, ChunkRoom, FinishAppendRoom

\* The checks before an insertion never fail.
LEMMA InsertRoom ==
  ASSUME RoomInv, EnoughSlots, SweepIntervalDivides
  PROVE  ~AppendOverflows /\ ~AppendChunkOverflows
<1>1. IInv /\ append_ctr \in Nat
  BY DEF RoomInv, IInv, TypeOK
<1>2. Cardinality(Key) \in Nat /\ A \in Nat \ {0} /\ S \in Nat /\ S >= Cardinality(Key) + A
  BY Sizes DEF EnoughSlots
<1>3. append_ctr % A \in 0..(A - 1)
  BY <1>1, <1>2, Division
<1>4. Cardinality(overflow) \in Nat /\ Cardinality(overflow) <= Cardinality(Key) + (append_ctr % A)
  BY <1>1, FS_CardinalityType DEF RoomInv, IInv, StashOK
<1>5. ~AppendOverflows
  <2>1. Cardinality(overflow) < S
    BY <1>2, <1>3, <1>4
  <2> QED BY <1>2, <1>4, <2>1 DEF AppendOverflows
<1>6. ~AppendChunkOverflows
  <2> SUFFICES ASSUME AppendChunkOverflows PROVE FALSE
    OBVIOUS
  <2>1. batch # <<>> /\ Cardinality(overflow \cup chunk_blocks) > S
    BY DEF AppendChunkOverflows
  <2>2. IsFiniteSet(overflow \cup chunk_blocks)
    BY <1>1, <2>1, Chunk, FS_Union DEF IInv, StashOK
  <2>3. Cardinality(overflow \cup chunk_blocks) \in Nat
    BY <2>2, FS_CardinalityType
  <2>4. /\ chunk_len \in Nat /\ (append_ctr % A) + chunk_len <= A
        /\ Cardinality(overflow \cup chunk_blocks)
             <= Cardinality(Key) + (append_ctr % A) + chunk_len
    BY <2>1, ChunkRoom
  <2> QED BY <1>2, <1>3, <2>1, <2>3, <2>4
<1> QED BY <1>5, <1>6

\* A path access that writes back some of what it merged.
LEMMA WriteRoom ==
  ASSUME RoomInv, EnoughSlots, NEW leaf \in Leaf(height),
         NEW kept \in SUBSET merge_accumulate(read_from_path(overflow, leaf)),
         write_to_path(kept, leaf), append_ctr' = append_ctr
  PROVE  NoStashPanic' /\ Cardinality(overflow') <= Cardinality(Key) + (append_ctr' % A)
<1> DEFINE level == assigned_level(kept, leaf)
<1>1. IInv /\ StashOK(overflow) /\ NoStashPanic /\ append_ctr \in Nat
  BY DEF RoomInv, IInv, TypeOK
<1>2. fits(level) /\ Cardinality(written_overflow(level, leaf)) \in 0..Cardinality(Key)
  BY <1>1, AccessRoom
<1>3. \/ overflow' = written_overflow(level, leaf) /\ panicked' = panicked
      \/ ~fits(level)
  BY DEF write_to_path
<1> HIDE DEF level
<1>4. Cardinality(Key) \in Nat /\ A \in Nat \ {0}
  BY Sizes
<1>5. append_ctr % A \in 0..(A - 1)
  BY <1>1, <1>4, Division
<1>6. NoStashPanic'
  BY <1>1, <1>2, <1>3 DEF NoStashPanic
<1>7. Cardinality(overflow') <= Cardinality(Key) + (append_ctr % A)
  BY <1>2, <1>3, <1>4, <1>5
<1> QED BY <1>6, <1>7

\* Every step leaves enough slots.
LEMMA NextRoom ==
  ASSUME RoomInv, EnoughSlots, SweepIntervalDivides, [Next]_vars
  PROVE  RoomInv'
<1> DEFINE Room == NoStashPanic /\ Cardinality(overflow) <= Cardinality(Key) + (append_ctr % A)
<1>1. IInv /\ IInv'
  BY NextInv DEF RoomInv
<1>2. ASSUME NEW key \in Key, NEW amount \in Amount, AppendOne(key, amount) PROVE Room'
  BY <1>2, AppendOneRoom
<1>3. ASSUME AppendChunk PROVE Room'
  BY <1>3, AppendChunkRoom
<1>4. ASSUME NEW key \in Key, ReadTotal(key) PROVE Room'
  <2> DEFINE leaf   == to_leaf(prf[key], height)
             merged == merge_accumulate(read_from_path(overflow, leaf))
             rest   == without(merged, key)
  <2>1. leaf \in Leaf(height)
    BY <1>1, KeyLeaf
  <2>2. rest \in SUBSET merged /\ write_to_path(rest, leaf) /\ append_ctr' = append_ctr
    BY <1>4 DEF without, ReadTotal, path_access_unchanged
  <2> HIDE DEF leaf, rest
  <2> QED BY <2>1, <2>2, WriteRoom
<1>5. ASSUME NEW leaf \in Leaf(height), ReadDummy(leaf) PROVE Room'
  BY <1>5, WriteRoom DEF ReadDummy, path_access_unchanged
<1>6. ASSUME MigrateLeaf PROVE Room'
  <2> DEFINE leaf == leaf_at(leaf_count(height) - migrating, height)
  <2>1. leaf \in Leaf(height)
    BY DEF leaf_at, bit_of, Leaf, Bit
  <2>2. /\ write_to_path(merge_accumulate(read_from_path(overflow, leaf)), leaf)
        /\ append_ctr' = append_ctr
    BY <1>6 DEF MigrateLeaf, path_access_unchanged
  <2> HIDE DEF leaf
  <2> QED BY <2>1, <2>2, WriteRoom
<1>7. ASSUME UNCHANGED <<overflow, append_ctr>> /\ panicked' \in {panicked, "max height"}
      PROVE  Room'
  BY <1>7 DEF RoomInv, NoStashPanic
<1>8. \/ \E key \in Key, amount \in Amount : AppendOne(key, amount)
      \/ AppendChunk
      \/ AppendOverflows \/ AppendChunkOverflows
      \/ \E key \in Key : ReadTotal(key)
      \/ \E leaf \in Leaf(height) : ReadDummy(leaf)
      \/ MigrateLeaf
      \/ UNCHANGED <<overflow, append_ctr>> /\ panicked' \in {panicked, "max height"}
  BY DEF Next, vars, Panic, BeginBatch, GrowPastMaxHeight, BeginGrow, DeferredGrow,
         EnableAutoResize, DeferredGrowPastMaxHeight, SetSweepWindowActive, ResetMetrics
<1>9. Room'
  BY <1>2, <1>3, <1>4, <1>5, <1>6, <1>7, <1>8, InsertRoom
<1> QED BY <1>1, <1>9 DEF RoomInv

\* With a slot for each key and for each append of an interval, and a sweep interval
\* that divides A, no call ever panics for want of a slot, whatever appends, reads,
\* batches, resizes and sweeps it is mixed with (stash.rs:55-62, 80-115, 165-209).
THEOREM SlotsPreventPanic ==
  ASSUME EnoughSlots, SweepIntervalDivides
  PROVE  Spec => []NoStashPanic
<1>1. Init => RoomInv
  <2> SUFFICES ASSUME Init PROVE RoomInv
    OBVIOUS
  <2>1. overflow = {} /\ append_ctr = 0 /\ panicked = "no"
    BY DEF Init
  <2>2. Cardinality(Key) \in Nat /\ A \in Nat \ {0}
    BY Sizes
  <2>3. append_ctr % A \in 0..(A - 1)
    BY <2>1, <2>2
  <2>4. Cardinality(overflow) = 0
    BY <2>1, FS_EmptySet
  <2> QED BY <2>1, <2>2, <2>3, <2>4, InitInv DEF RoomInv, NoStashPanic
<1>2. RoomInv /\ [Next]_vars => RoomInv'
  BY NextRoom
<1>3. RoomInv => NoStashPanic
  BY DEF RoomInv
<1> QED BY <1>1, <1>2, <1>3, PTL DEF Spec
=============================================================================
