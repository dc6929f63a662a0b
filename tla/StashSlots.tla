----------------------------- MODULE StashSlots -----------------------------
(***************************************************************************)
(* The stash slot by slot: crates/oram/src/oblivious_histogram/stash.rs.     *)
(* blocks is its path part, Z slots a level, and then S slots of overflow;   *)
(* a path access sorts and reduces all of it, deals the blocks out to levels *)
(* by counts alone, and lets the compaction and distribution networks bring  *)
(* each block to a slot of its level.  Dummies keep what they held before.   *)
(* ObliviousHistogram has sets in the place of these arrays.                 *)
(*                                                                         *)
(* When its caller evicts which leaf is left open here, and so is when it    *)
(* doubles the tree.                                                         *)
(***************************************************************************)
EXTENDS Compaction, SequencesExt, Bitwise

CONSTANTS
  Key, Amount,
  Prfs,               \* the possible tags of the keys
  Z, S, MinHeight, MaxHeight,
  MAX_TREE_HEIGHT, IdentityBits,
  MaxBatch, Modulus,
  MaxTotal            \* bound: how many updates are inserted

VARIABLES prf, height, physical_memory, blocks, inserted, returned, panicked

vars == <<prf, height, physical_memory, blocks, inserted, returned, panicked>>

Plus(a, b) == (a + b) % Modulus
INSTANCE Reduction WITH combine <- Plus, DefaultValue <- 0

Dummy == [tag |-> 0, key |-> CHOOSE k \in Key : TRUE, value |-> 0, epoch |-> 0]
dummies(len) == [k \in 1..len |-> Dummy]
path_size == (height + 1) * Z
overflow == SubSeq(blocks, path_size + 1, path_size + S)
occupancy(slots) == Cardinality(real_blocks(slots))

leaves == 2^height..(2^(height + 1) - 1)
ct_node_on_path(leaf, depth) == leaf \div 2^(height - depth)
routing_bits(tag) == tag % 2^MAX_TREE_HEIGHT
to_leaf(tag) == 2^height + routing_bits(tag) \div 2^(MAX_TREE_HEIGHT - height)

deepest_shared_level(leaf, tag) ==
  Max({d \in 0..height : ct_node_on_path(leaf, d) = ct_node_on_path(to_leaf(tag), d)})

\* Dummies last, then by how far from the leaf's path, then by identity.
path_rank_key(tag, leaf) ==
  LET ranked == routing_bits(tag) ^^ ((leaf % 2^height) * 2^(MAX_TREE_HEIGHT - height))
  IN  ((IF tag = 0 THEN 1 ELSE 0) * 2^MAX_TREE_HEIGHT + ranked) * 2^IdentityBits
        + tag \div 2^MAX_TREE_HEIGHT

\* Bucket depth of the path goes to the depth-th Z slots.
read_from_path(leaf) ==
  FlattenSeq([d \in 1..(height + 1) |->
                LET node == ct_node_on_path(leaf, d - 1)
                IN  SubSeq(physical_memory, node * Z + 1, (node + 1) * Z)])
    \o overflow

merge_accumulate_for_path(slots, leaf) ==
  reduce_equal_runs(
    SortSeq(slots, LAMBDA a, b : path_rank_key(a.tag, leaf) < path_rank_key(b.tag, leaf)))

read_and_remove(slots, key) ==
  [k \in DOMAIN slots |-> IF slots[k].key = key THEN [slots[k] EXCEPT !.tag = 0] ELSE slots[k]]

\* The last block that matches, although there is at most one.
value_of(slots, key) ==
  LET matching == {k \in DOMAIN slots : slots[k].key = key /\ ct_is_real(slots[k])}
  IN  IF matching = {} THEN 0 ELSE slots[Max(matching)].value

\* Mutant: the levels are tried from the root on.
assigned_from_root(counts, block, leaf) ==
  LET open == {d \in 0..deepest_shared_level(leaf, block.tag) : counts[d] < Z}
  IN  IF ~ ct_is_real(block) THEN counts
      ELSE [counts EXCEPT ![IF open = {} THEN -1 ELSE Min(open)] = @ + 1]

\* One block's turn: it counts for the deepest level it may go to that is not full.
assigned(counts, block, leaf) ==
  LET open == {d \in 0..deepest_shared_level(leaf, block.tag) : counts[d] < Z}
  IN  IF ~ ct_is_real(block) THEN counts
      ELSE [counts EXCEPT ![IF open = {} THEN -1 ELSE Max(open)] = @ + 1]

\* How many blocks each level gets; at -1, the overflow.
level_counts(slots, leaf) ==
  FoldLeft(LAMBDA counts, block : assigned(counts, block, leaf),
           [d \in -1..height |-> 0], slots)

\* Mutant: root first.
layout_root_to_leaf(counts) ==
  UNION {{d * Z + r : r \in 1..counts[d]} : d \in 0..height}
    \cup {path_size + r : r \in 1..counts[-1]}

\* build_leaf_to_root_layout_marks: the leaf's slots first.
layout(counts) ==
  UNION {{(height - d) * Z + r : r \in 1..counts[d]} : d \in 0..height}
    \cup {path_size + r : r \in 1..counts[-1]}

\* Real blocks to the front, in their order, and from there to the marked slots.
arranged(slots, counts) ==
  distribute_payload(compact_payload(slots, compact_marks(slots, real_blocks(slots))),
                     prefix_marks(layout(counts), Len(slots)))

\* The path's buckets get the path part, the deepest first.
copied_back(slots, leaf) ==
  [k \in DOMAIN physical_memory |->
     LET node == (k - 1) \div Z
         d    == CHOOSE e \in 0..height : node \in 2^e..(2^(e + 1) - 1)
     IN  IF node # 0 /\ ct_node_on_path(leaf, d) = node
         THEN slots[(height - d) * Z + k - node * Z]
         ELSE physical_memory[k]]

Panic ==
  /\ panicked' = TRUE /\ returned' = 0
  /\ UNCHANGED <<prf, height, physical_memory, blocks, inserted>>

\* With read TRUE the block of a key is taken out on the way, and its value returned.
access_path(leaf, read, key) ==
  LET merged == merge_accumulate_for_path(read_from_path(leaf), leaf)
      slots  == IF read THEN read_and_remove(merged, key) ELSE merged
      counts == level_counts(slots, leaf)
      laid   == arranged(slots, counts)
  IN  IF counts[-1] >= S THEN Panic
      ELSE /\ physical_memory' = copied_back(laid, leaf)
           /\ blocks' = dummies(path_size) \o SubSeq(laid, path_size + 1, Len(laid))
           /\ returned' = IF read THEN value_of(merged, key) ELSE 0
           /\ UNCHANGED <<prf, height, inserted, panicked>>
-----------------------------------------------------------------------------
real_block(entry) ==
  [tag |-> prf[entry.key], key |-> entry.key, value |-> entry.amount, epoch |-> 0]

Insert(entry) ==
  LET free == {k \in (path_size + 1)..Len(blocks) : ~ ct_is_real(blocks[k])}
  IN  /\ ~ panicked /\ inserted < MaxTotal
      /\ IF free = {} THEN Panic
         ELSE /\ blocks' = [blocks EXCEPT ![Min(free)] = real_block(entry)]
              /\ inserted' = inserted + 1 /\ returned' = 0
              /\ UNCHANGED <<prf, height, physical_memory, panicked>>

\* Masked entries leave a dummy in the scratch array, of which the overflow is the front.
InsertBatch(entries) ==
  LET fresh   == [i \in DOMAIN entries |->
                    IF entries[i].cond = 1 THEN real_block(entries[i]) ELSE Dummy]
      scratch == overflow \o fresh
      real    == occupancy(scratch)
      packed  == compact_payload(scratch, compact_marks(scratch, real_blocks(scratch)))
  IN  /\ ~ panicked /\ inserted + Len(entries) <= MaxTotal
      /\ IF real > S THEN Panic
         ELSE /\ blocks' = SubSeq(blocks, 1, path_size)
                             \o [k \in 1..S |-> IF k <= real THEN packed[k]
                                                ELSE [packed[k] EXCEPT !.tag = 0]]
              /\ inserted' = inserted + Len(entries) /\ returned' = 0
              /\ UNCHANGED <<prf, height, physical_memory, panicked>>

EvictPath(leaf) == ~ panicked /\ access_path(leaf, FALSE, Dummy.key)

ReadTotal(key) == ~ panicked /\ access_path(to_leaf(prf[key]), TRUE, key)

\* Mutant: the path part is extended at the end of the stash.
extended_at_end == blocks \o dummies(Z)

\* grow_extend_path_buffer.
extended == SubSeq(blocks, 1, path_size) \o dummies(Z) \o overflow

\* The vector doubles, and the path part gets a bucket's slots more.
Grow ==
  /\ ~ panicked /\ height < MaxHeight
  /\ height' = height + 1
  /\ physical_memory' = physical_memory \o dummies(Len(physical_memory))
  /\ blocks' = extended
  /\ returned' = 0
  /\ UNCHANGED <<prf, inserted, panicked>>

Total(key, slots) ==
  MapThenSumSet(LAMBDA k : slots[k].value,
                {k \in DOMAIN slots : ct_is_real(slots[k]) /\ slots[k].key = key})

Counts == INSTANCE KeyedCounts
            WITH total <- [k \in Key |-> (Total(k, physical_memory) + Total(k, blocks)) % Modulus]

Init ==
  /\ prf \in Prfs
  /\ height = MinHeight
  /\ physical_memory = dummies(2^(MinHeight + 1) * Z)
  /\ blocks = dummies(path_size + S)
  /\ inserted = 0 /\ returned = 0 /\ panicked = FALSE

Next ==
  \/ \E k \in Key, x \in Amount : Insert([key |-> k, amount |-> x, cond |-> 1])
  \/ \E entries \in Counts!Batch : Len(entries) > 1 /\ InsertBatch(entries)
  \/ \E leaf \in leaves : EvictPath(leaf)
  \/ \E k \in Key : ReadTotal(k)
  \/ Grow

Spec == Init /\ [][Next]_vars
-----------------------------------------------------------------------------
\* Through every rearrangement of the slots, the blocks of a key hold what was appended to
\* it, and a read returns and clears just that.
ImplementsCounts == Counts!Spec

\* Counting per level and moving by the networks is the same as carrying each block to its
\* level: every block lies in a bucket of its own path, none is left in the path part, and
\* the unused bucket of index 0 stays empty.
BlocksOnTheirPaths ==
  /\ \A k \in DOMAIN physical_memory : ct_is_real(physical_memory[k]) =>
       \E d \in 0..height : ct_node_on_path(to_leaf(physical_memory[k].tag), d) = (k - 1) \div Z
  /\ \A k \in 1..path_size : ~ ct_is_real(blocks[k])

\* The blocks, one a key, that an access of the path to a leaf has to find room for.
to_place(leaf) ==
  {k \in Key : \E i \in DOMAIN read_from_path(leaf) :
                 ct_is_real(read_from_path(leaf)[i]) /\ read_from_path(leaf)[i].key = k}

\* What no assignment can avoid: those that only share the first d + 1 buckets of the path,
\* beyond what these hold.
excess(leaf) ==
  Max({0} \cup {Cardinality({k \in to_place(leaf) : deepest_shared_level(leaf, prf[k]) <= d})
                  - Z * (d + 1) : d \in 0..height})

\* Whatever the stash and the path hold, an eviction leaves no more in the overflow than it
\* must, so it panics only when a full overflow cannot be avoided.
EvictsAllThatFits ==
  ~ panicked => \A leaf \in leaves :
    level_counts(merge_accumulate_for_path(read_from_path(leaf), leaf), leaf)[-1] = excess(leaf)
=============================================================================
