------------------------------ MODULE Readouts ------------------------------
(***************************************************************************)
(* The bulk readouts of a histogram: readout, readout_tree_aware,            *)
(* into_readout_tree_aware and readout_subtree_partitioned of                *)
(* crates/oram/src/oblivious_histogram/mod.rs, against export_entries.       *)
(* They read the tree and the overflow part of the stash and change neither; *)
(* the path part of the stash is empty between calls.                        *)
(*                                                                         *)
(* The networks are what SortingNetworks shows of them: sort_by sorts, and   *)
(* merge_sorted_by sorts two ascending runs of power-of-two lengths, the     *)
(* first no shorter, and nothing is said of what it does to others.  Chunks  *)
(* of a partitioned readout share nothing; they are taken in turn here.      *)
(***************************************************************************)
EXTENDS Compaction, SequencesExt, TLC

CONSTANTS
  Key,                \* payloads, as numbers in the order of their bytes
  Prfs,               \* the possible tags of the keys
  Z, S, Height, MAX_TREE_HEIGHT,
  InboxLens,          \* powers of two the solver may suggest for an inbox
  MaxBuffered         \* bound: copies of a key in the overflow stash

VARIABLES
  prf,
  physical_memory, overflow,
  routine, local_height, inbox_len,
  chunks,             \* the arrays being sorted, one a subtree
  chunk, depth,       \* the array and the level at work
  stage

stored == <<prf, physical_memory, overflow>>
request == <<routine, local_height, inbox_len>>
vars == <<stored, request, chunks, chunk, depth, stage>>

Plus(a, b) == a + b
INSTANCE Reduction WITH combine <- Plus, DefaultValue <- 0

Dummy == [tag |-> 0, key |-> 0, value |-> 0, epoch |-> 0]
dummies(len) == [k \in 1..len |-> Dummy]
is_power_of_two(len) == len \in {2^e : e \in 0..30}

routing_bits(tag) == tag % 2^MAX_TREE_HEIGHT
to_leaf(tag, height) == (routing_bits(tag) + 2^MAX_TREE_HEIGHT) \div 2^(MAX_TREE_HEIGHT - height)
tree_len(height) == 2^(height + 1) * Z

dummy_after_real(a, b) == ~ ct_is_real(a) /\ ct_is_real(b)

payload_gt(a, b) ==
  dummy_after_real(a, b) \/ (ct_is_real(a) /\ ct_is_real(b) /\ a.key > b.key)

\* A tag's routing bits, then its high bits.
tag_order(block) ==
  <<routing_bits(block.tag), block.tag \div 2^MAX_TREE_HEIGHT>>

precedes(a, b) == a[1] < b[1] \/ (a[1] = b[1] /\ a[2] < b[2])

\* Keys that share a tag are left in any order.
tree_readout_gt_by_tag(a, b) ==
  \/ dummy_after_real(a, b)
  \/ ct_is_real(a) /\ ct_is_real(b) /\ precedes(tag_order(b), tag_order(a))

tree_readout_gt(a, b) ==
  \/ dummy_after_real(a, b)
  \/ /\ ct_is_real(a) /\ ct_is_real(b)
     /\ \/ precedes(tag_order(b), tag_order(a))
        \/ tag_order(a) = tag_order(b) /\ a.key > b.key

\* sort_by with each of the two orders.
sorted_by_payload(blocks) == SortSeq(blocks, LAMBDA a, b : payload_gt(b, a))
sorted_by_tag(blocks) == SortSeq(blocks, LAMBDA a, b : tree_readout_gt(b, a))

compacted(blocks) == compact_payload(blocks, compact_marks(blocks, real_blocks(blocks)))

oblivious_readout(blocks) == compacted(reduce_equal_runs(sorted_by_payload(blocks)))

\* The real blocks, those of equal payload added up: what all readouts are to agree on.
export_entries ==
  LET blocks == physical_memory \o overflow
      reals  == {k \in DOMAIN blocks : ct_is_real(blocks[k])}
  IN  {[tag   |-> blocks[k].tag,
        key   |-> blocks[k].key,
        value |-> MapThenSumSet(LAMBDA l : blocks[l].value,
                                {l \in reals : blocks[l].key = blocks[k].key})] : k \in reals}
-----------------------------------------------------------------------------
subtree_count == 2^(Height - local_height)

\* Whether a tree of a height, followed by an overflow run, is merged level by level.
mergeable(overflow_len, height) == is_power_of_two(overflow_len) /\ overflow_len <= tree_len(height)

begin_chunks(arrays, overflow_len, height) ==
  /\ chunk' = 1 /\ depth' = 0
  /\ IF mergeable(overflow_len, height)
     THEN chunks' = arrays /\ stage' = "level"
     ELSE chunks' = [c \in DOMAIN arrays |-> oblivious_readout(arrays[c])] /\ stage' = "done"

Readout ==
  /\ stage = "called" /\ routine = "readout"
  /\ chunks' = <<oblivious_readout(physical_memory \o overflow)>>
  /\ stage' = "done"
  /\ UNCHANGED <<stored, request, chunk, depth>>

\* readout_tree_aware, and a partitioned readout asked for no proper subtree.
TreeAware ==
  /\ stage = "called"
  /\ routine = "readout_tree_aware" \/ (routine = "partitioned" /\ local_height >= Height)
  /\ begin_chunks(<<physical_memory \o overflow>>, S, Height)
  /\ UNCHANGED <<stored, request>>

\* The blocks above the cut and in the stash, reduced and at the front.
upper ==
  compacted(reduce_equal_runs(
    sorted_by_tag(SubSeq(physical_memory, 1, subtree_count * Z) \o overflow)))

\* The subtree a tag leads into.
destination(tag) == routing_bits(tag) \div 2^(MAX_TREE_HEIGHT - (Height - local_height))

counts(blocks) ==
  [s \in 0..(subtree_count - 1) |->
     Cardinality({k \in DOMAIN blocks : ct_is_real(blocks[k]) /\ destination(blocks[k].tag) = s})]

\* Each subtree's inbox: the blocks of the reduced upper part that lead into it.
inboxes(blocks) ==
  LET loads == counts(blocks)
      len   == subtree_count * inbox_len
      slots == UNION {{s * inbox_len + r : r \in 1..loads[s]} : s \in DOMAIN loads}
  IN  distribute_payload([k \in 1..len |-> IF k <= Len(blocks) THEN blocks[k] ELSE Dummy],
                         prefix_marks(slots, len))

\* The nodes of a subtree at one of its depths, a breadth-first range of the tree.
subtree_level(s, local_depth) ==
  LET nodes == 2^local_depth
      first == 2^(Height - local_height + local_depth) + s * nodes
  IN  SubSeq(physical_memory, first * Z + 1, (first + nodes) * Z)

\* Node zero of a local tree is the dummy bucket.
local_tree(s) ==
  dummies(Z) \o FlattenSeq([d \in 1..(local_height + 1) |-> subtree_level(s, d - 1)])

RouteUpper ==
  /\ stage = "called" /\ routine = "partitioned" /\ local_height < Height
  /\ LET blocks == upper
         routed == inboxes(blocks)
     IN  IF Max({counts(blocks)[s] : s \in 0..(subtree_count - 1)}) > inbox_len
         THEN stage' = "inbox overflow" /\ UNCHANGED <<chunks, chunk, depth>>
         ELSE begin_chunks([c \in 1..subtree_count |->
                              local_tree(c - 1)
                                \o SubSeq(routed, (c - 1) * inbox_len + 1, c * inbox_len)],
                           inbox_len, local_height)
  /\ UNCHANGED <<stored, request>>
-----------------------------------------------------------------------------
\* oblivious_tree_readout, on one chunk after the other.
chunk_height == IF routine = "partitioned" /\ local_height < Height THEN local_height ELSE Height

level_start == 2^depth * Z
level_end == 2 * level_start

\* Dummies stay between the buckets.
prepared_in_place(level) ==
  FlattenSeq([b \in 1..(Len(level) \div Z) |->
                sorted_by_tag(SubSeq(level, (b - 1) * Z + 1, b * Z))])

\* Buckets sorted one by one, the dummies between them moved behind.
prepared(level) ==
  compacted(FlattenSeq([b \in 1..(Len(level) \div Z) |->
                          sorted_by_tag(SubSeq(level, (b - 1) * Z + 1, b * Z))]))

\* For runs that RunsReadyToMerge describes.
merge_sorted_by(blocks) == sorted_by_tag(blocks)

replaced(first, blocks) ==
  [chunks EXCEPT ![chunk] =
     SubSeq(@, 1, first) \o blocks \o SubSeq(@, first + Len(blocks) + 1, Len(@))]

PrepareLevel ==
  /\ stage = "level" /\ depth <= chunk_height
  /\ chunks' = replaced(level_start, prepared(SubSeq(chunks[chunk], level_start + 1, level_end)))
  /\ stage' = "merge"
  /\ UNCHANGED <<stored, request, chunk, depth>>

\* Everything before this level is one run, the level the other.
MergeLevel ==
  /\ stage = "merge" /\ depth <= chunk_height
  /\ chunks' = replaced(0, merge_sorted_by(SubSeq(chunks[chunk], 1, level_end)))
  /\ depth' = depth + 1
  /\ stage' = "level"
  /\ UNCHANGED <<stored, request, chunk>>

PrepareOverflow ==
  /\ stage = "level" /\ depth > chunk_height
  /\ LET len == tree_len(chunk_height)
     IN  chunks' = replaced(len, sorted_by_tag(SubSeq(chunks[chunk], len + 1, Len(chunks[chunk]))))
  /\ stage' = "merge"
  /\ UNCHANGED <<stored, request, chunk, depth>>

MergeOverflow ==
  /\ stage = "merge" /\ depth > chunk_height
  /\ chunks' = replaced(0, reduce_equal_runs(merge_sorted_by(chunks[chunk])))
  /\ depth' = 0
  /\ IF chunk < Len(chunks)
     THEN chunk' = chunk + 1 /\ stage' = "level"
     ELSE chunk' = chunk /\ stage' = "done"
  /\ UNCHANGED <<stored, request>>
-----------------------------------------------------------------------------
\* A key's copies lie on the path to its leaf, at most one a bucket, and in the stash; the
\* values are different powers of two, so that a sum tells the copies in it.
bucket(node, depths) ==
  LET copies == {k \in Key : \E d \in depths[k] : to_leaf(prf[k], d) = node}
      level  == CHOOSE d \in 0..Height : node \in 2^d..(2^(d + 1) - 1)
      blocks == [i \in 1..Cardinality(copies) |->
                   LET k == SetToSortSeq(copies, >)[i]
                   IN  [tag |-> prf[k], key |-> k, value |-> 2^level, epoch |-> 0]]
  IN  dummies(Z - Len(blocks)) \o blocks

stash_of(buffered) ==
  FlattenSeq([i \in 1..Cardinality(Key) |->
                LET k == SetToSortSeq(Key, >)[i]
                IN  [c \in 1..buffered[k] |->
                       [tag |-> prf[k], key |-> k, value |-> 2^(Height + c), epoch |-> 0]]])

Init ==
  /\ prf \in Prfs
  /\ \E depths \in [Key -> SUBSET (0..Height)], buffered \in [Key -> 0..MaxBuffered] :
       /\ \A node \in 1..(2^(Height + 1) - 1) :
            Cardinality({k \in Key : \E d \in depths[k] : to_leaf(prf[k], d) = node}) <= Z
       /\ MapThenSumSet(LAMBDA k : buffered[k], Key) <= S
       /\ physical_memory =
            dummies(Z) \o FlattenSeq([n \in 1..(2^(Height + 1) - 1) |-> bucket(n, depths)])
       /\ overflow = stash_of(buffered)
                       \o dummies(S - MapThenSumSet(LAMBDA k : buffered[k], Key))
  /\ routine \in {"readout", "readout_tree_aware", "partitioned"}
  /\ IF routine = "partitioned"
     THEN local_height \in 0..Height /\ inbox_len \in InboxLens
     ELSE local_height = 0 /\ inbox_len = 1
  /\ chunks = <<>> /\ chunk = 0 /\ depth = 0
  /\ stage = "called"

Next ==
  \/ Readout \/ TreeAware \/ RouteUpper
  \/ PrepareLevel \/ MergeLevel \/ PrepareOverflow \/ MergeOverflow

Spec == Init /\ [][Next]_vars
-----------------------------------------------------------------------------
\* A readout loses no copy, counts none twice and leaves one block for each key, wherever
\* in the tree and the stash the copies are, also for keys that share a tag: it holds what
\* export_entries exports.  A partitioned one fails instead only when more different keys
\* with a copy above the cut or in the stash lead into one subtree than its inbox holds.
ReadoutIsExact ==
  /\ stage = "done" =>
       LET blocks == FlattenSeq(chunks)
       IN  /\ {[tag |-> blocks[k].tag, key |-> blocks[k].key, value |-> blocks[k].value] :
                 k \in real_blocks(blocks)} = export_entries
           /\ Cardinality(real_blocks(blocks)) = Cardinality(export_entries)
  /\ stage = "inbox overflow" =>
       LET above == SubSeq(physical_memory, 1, subtree_count * Z) \o overflow
           keys(s) == {above[k].key :
                         k \in {l \in real_blocks(above) : destination(above[l].tag) = s}}
       IN  \E s \in 0..(subtree_count - 1) : Cardinality(keys(s)) > inbox_len

\* The merging network is only given what it can merge: two runs whose lengths are powers
\* of two, the second no longer, both ascending (a level is, because blocks lie on the
\* paths of their tags and the compaction of a level is stable).
RunsReadyToMerge ==
  stage = "merge" =>
    LET split == IF depth <= chunk_height THEN level_start ELSE tree_len(chunk_height)
        end   == IF depth <= chunk_height THEN level_end ELSE Len(chunks[chunk])
    IN  /\ is_power_of_two(split) /\ is_power_of_two(end - split) /\ end - split <= split
        /\ \A k \in 2..end :
             k # split + 1 => ~ tree_readout_gt(chunks[chunk][k - 1], chunks[chunk][k])
=============================================================================
