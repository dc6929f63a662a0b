---------------------------- MODULE PromiseProofs ----------------------------
(***************************************************************************)
(* ObliviousHistogram implements KeyedUpdates, and KeyedCounts with its sums *)
(* (second half).  A read of a key finds what the stored blocks of the key   *)
(* hold together (Content of Stored); path accesses, resizes and panics      *)
(* leave that alone, appends add to it, and a read takes all of it, because  *)
(* no block of the key is off its path.                                      *)
(***************************************************************************)
EXTENDS ObliviousHistogramProofs

\* All blocks of a tree and a stash, and what the blocks of a key hold.
Stored(mem, h, stash) == stash \cup UNION {mem[n] : n \in Node(h)}
Content(blocks, key)  == UNION {b.value : b \in {c \in blocks : c.key = key}}

Contents == [key \in Key |-> Content(Stored(physical_memory, height, overflow), key)]

\* What the keys hold after a step, said of the variables' next values.
HoldsNext(blocks) ==
  \A key \in Key :
    Content(Stored(physical_memory', height', overflow'), key) = Content(blocks, key)

\* A batch call was given a batch of a legal length.
PromiseInv == IInv /\ Len(batch) <= MaxBatch

\* Whether an update is held by a set of blocks.
LEMMA InContent ==
  ASSUME NEW blocks, NEW key, NEW u
  PROVE  u \in Content(blocks, key) <=> \E b \in blocks : b.key = key /\ u \in b.value
BY DEF Content

\* Two sets of blocks taken together hold what each of them does.
LEMMA ContentOfUnion ==
  ASSUME NEW B, NEW C, NEW key
  PROVE  Content(B \cup C, key) = Content(B, key) \cup Content(C, key)
BY DEF Content

\* The refinement mapping, in these terms.
LEMMA PendingIsContent ==
  [key \in Key |-> Pending(key)] = Contents
<1>1. ASSUME NEW key \in Key
      PROVE  Pending(key) = Content(Stored(physical_memory, height, overflow), key)
  BY DEF Pending, Content, Stored
<1> QED BY <1>1 DEF Contents

\* The same after a step.
LEMMA PendingIsContentNext ==
  [key \in Key |-> Pending(key)]' = Contents'
<1>1. ASSUME NEW key \in Key
      PROVE  Pending(key)' = Content(Stored(physical_memory', height', overflow'), key)
  BY DEF Pending, Content, Stored
<1> QED BY <1>1 DEF Contents

-----------------------------------------------------------------------------
\* Merging adds values up: a key holds what its copies held.
LEMMA MergedContent ==
  ASSUME NEW blocks \in SUBSET Block, NEW key
  PROVE  Content(merge_accumulate(blocks), key) = Content(blocks, key)
<1> DEFINE merged == merge_accumulate(blocks)
<1>1. /\ \A b \in merged : b.value = UNION {c.value : c \in {d \in blocks : d.key = b.key}}
      /\ \A b \in blocks : \E c \in merged : c.key = b.key
  BY MergeProperties
<1> HIDE DEF merged
<1>2. ASSUME NEW u, NEW b \in merged, b.key = key, u \in b.value
      PROVE  \E c \in blocks : c.key = key /\ u \in c.value
  BY <1>1, <1>2
<1>3. ASSUME NEW u, NEW b \in blocks, b.key = key, u \in b.value
      PROVE  \E c \in merged : c.key = key /\ u \in c.value
  <2>1. PICK c \in merged : c.key = key
    BY <1>1, <1>3
  <2>2. u \in c.value
    BY <1>1, <1>3, <2>1
  <2> QED BY <2>1, <2>2
<1> QED BY <1>2, <1>3 DEF Content, merged

\* Before an access: what is read, and what is not.
LEMMA ReadAndOffPath ==
  ASSUME IInv, NEW leaf \in Leaf(height), NEW stash
  PROVE  Stored(physical_memory, height, stash) = read_from_path(stash, leaf) \cup OffPath(leaf)
<1>1. path(leaf, height) \subseteq Node(height)
  BY Heights, PathNodes
<1> QED BY <1>1 DEF Stored, read_from_path, OffPath

\* After it: what was written, and the same rest.
LEMMA WrittenAndOffPath ==
  ASSUME IInv, NEW leaf \in Leaf(height), NEW blocks \in SUBSET Block, Distinct(blocks),
         IsFiniteSet(blocks)
  PROVE  LET level == assigned_level(blocks, leaf)
         IN Stored(written_memory(level, leaf), height, written_overflow(level, leaf))
              = blocks \cup OffPath(leaf)
<1> DEFINE level == assigned_level(blocks, leaf)
           mem   == written_memory(level, leaf)
           over  == written_overflow(level, leaf)
<1>1. /\ over = {b \in blocks : level[b] = Overflow}
      /\ \A n \in Node(height) : mem[n] =
           IF n \in path(leaf, height) THEN {b \in blocks : level[b] = Len(n)}
                                       ELSE physical_memory[n]
      /\ \A b \in blocks : level[b] \in Overflow..height
  BY WrittenPlaces
<1>2. /\ path(leaf, height) \subseteq Node(height)
      /\ \A d \in 0..height : /\ node_on_path(leaf, d) \in path(leaf, height)
                              /\ Len(node_on_path(leaf, d)) = d
      /\ height \in Nat
  BY Heights, PathNodes
<1> HIDE DEF level, mem, over
<1>3. ASSUME NEW b \in blocks PROVE b \in over \/ \E n \in Node(height) : b \in mem[n]
  <2>1. CASE level[b] = Overflow
    BY <1>1, <2>1
  <2>2. CASE level[b] # Overflow
    <3>1. level[b] \in 0..height
      BY <1>1, <1>2, <2>2 DEF Overflow
    <3> DEFINE n == node_on_path(leaf, level[b])
    <3>2. n \in path(leaf, height) /\ n \in Node(height) /\ Len(n) = level[b]
      BY <1>2, <3>1
    <3> HIDE DEF n
    <3> QED BY <1>1, <3>2
  <2> QED BY <2>1, <2>2
<1>4. ASSUME NEW b \in OffPath(leaf) PROVE \E n \in Node(height) : b \in mem[n]
  BY <1>1 DEF OffPath
<1>5. ASSUME NEW n \in Node(height), NEW b \in mem[n] PROVE b \in blocks \cup OffPath(leaf)
  BY <1>1 DEF OffPath
<1>6. Stored(mem, height, over) = blocks \cup OffPath(leaf)
  BY <1>1, <1>3, <1>4, <1>5 DEF Stored
<1> QED BY <1>6 DEF level, mem, over

\* An access that writes back all it gathered changes no content.
LEMMA AccessContent ==
  ASSUME IInv, NEW leaf \in Leaf(height), NEW stash, StashOK(stash), NEW key
  PROVE  LET level == assigned_level(merge_accumulate(read_from_path(stash, leaf)), leaf)
         IN Content(Stored(written_memory(level, leaf), height, written_overflow(level, leaf)), key)
              = Content(Stored(physical_memory, height, stash), key)
<1> DEFINE gathered == read_from_path(stash, leaf)
           merged   == merge_accumulate(gathered)
           level    == assigned_level(merged, leaf)
<1>1. gathered \in SUBSET Block
  BY ReadType DEF StashOK
<1>2. merged \in SUBSET Block /\ IsFiniteSet(merged) /\ Distinct(merged)
  BY Gathered
<1>3. Content(merged, key) = Content(gathered, key)
  <2> HIDE DEF gathered
  <2> QED BY <1>1, MergedContent
<1>4. Stored(physical_memory, height, stash) = gathered \cup OffPath(leaf)
  BY ReadAndOffPath
<1> HIDE DEF gathered, merged
<1>5. Stored(written_memory(level, leaf), height, written_overflow(level, leaf))
        = merged \cup OffPath(leaf)
  BY <1>2, WrittenAndOffPath
<1>6. Content(merged \cup OffPath(leaf), key) = Content(gathered \cup OffPath(leaf), key)
  <2>1. Content(merged \cup OffPath(leaf), key)
          = Content(merged, key) \cup Content(OffPath(leaf), key)
    BY ContentOfUnion
  <2>2. Content(gathered \cup OffPath(leaf), key)
          = Content(gathered, key) \cup Content(OffPath(leaf), key)
    BY ContentOfUnion
  <2> QED BY <1>3, <2>1, <2>2
<1> QED BY <1>4, <1>5, <1>6 DEF gathered, merged

\* New leaves hold nothing.
LEMMA DoubledStored ==
  ASSUME height \in Nat, NEW mem, NEW stash
  PROVE  Stored(doubled(mem), height + 1, stash) = Stored(mem, height, stash)
<1>1. Node(height) \subseteq Node(height + 1)
  BY DEF Node
<1>2. \A n \in Node(height + 1) :
        doubled(mem)[n] = IF n \in Node(height) THEN mem[n] ELSE {}
  BY DEF doubled
<1> QED BY <1>1, <1>2 DEF Stored

-----------------------------------------------------------------------------
\* Nor does an eviction change content, whether it resizes or panics.
LEMMA CheckContent ==
  ASSUME height \in Nat, NEW mem, NEW auto, check_and_maybe_resize(mem, auto), NEW stash
  PROVE  Stored(physical_memory', height', stash) = Stored(mem, height, stash)
<1>1. \/ physical_memory' = mem /\ height' = height
      \/ physical_memory' = doubled(mem) /\ height' = height + 1
  BY DEF check_and_maybe_resize, grow_physical_storage
<1> QED BY <1>1, DoubledStored

\* Nor does an eviction.
LEMMA EvictContent ==
  ASSUME IInv, NEW stash, StashOK(stash), evict_after_insert(stash)
  PROVE  HoldsNext(Stored(physical_memory, height, stash))
<1> DEFINE leaf  == bit_reversed_leaf(evict_ctr, height)
           level == assigned_level(merge_accumulate(read_from_path(stash, leaf)), leaf)
           mem   == written_memory(level, leaf)
           over  == written_overflow(level, leaf)
<1>1. \A key \in Key :
        Content(Stored(mem, height, over), key)
          = Content(Stored(physical_memory, height, stash), key)
  <2>1. leaf \in Leaf(height)
    BY EvictionLeaf
  <2> HIDE DEF leaf
  <2> QED BY <2>1, AccessContent
<1>2. \/ overflow' = over /\ \E auto : check_and_maybe_resize(mem, auto)
      \/ overflow' = stash /\ physical_memory' = physical_memory /\ height' = height
  BY Zenon DEF evict_after_insert
<1> HIDE DEF mem, over
<1>3. CASE overflow' = over /\ \E auto : check_and_maybe_resize(mem, auto)
  <2>1. Stored(physical_memory', height', over) = Stored(mem, height, over)
    BY <1>3, Heights, CheckContent
  <2> QED BY <1>1, <1>3, <2>1 DEF HoldsNext
<1>4. CASE overflow' = stash /\ physical_memory' = physical_memory /\ height' = height
  BY <1>4 DEF HoldsNext
<1> QED BY <1>2, <1>3, <1>4

\* Nor does the end of an append.
LEMMA FinishAppendContent ==
  ASSUME IInv, NEW stash, StashOK(stash), NEW at, finish_append_after_insert(stash, at)
  PROVE  HoldsNext(Stored(physical_memory, height, stash))
<1>1. CASE evict_after_insert(stash)
  BY <1>1, EvictContent
<1>2. CASE overflow' = stash /\ physical_memory' = physical_memory /\ height' = height
  BY <1>2 DEF HoldsNext
<1> QED BY <1>1, <1>2 DEF finish_append_after_insert

\* Blocks in the overflow are stored.
LEMMA InsertContent ==
  ASSUME NEW blocks, HoldsNext(Stored(physical_memory, height, overflow \cup blocks))
  PROVE  \A key \in Key : Contents'[key] = Contents[key] \cup Content(blocks, key)
<1>1. Stored(physical_memory, height, overflow \cup blocks)
        = Stored(physical_memory, height, overflow) \cup blocks
  BY DEF Stored
<1> DEFINE stored == Stored(physical_memory, height, overflow)
<1>2. ASSUME NEW key \in Key
      PROVE  Contents'[key] = Contents[key] \cup Content(blocks, key)
  <2>1. Contents'[key] = Content(stored \cup blocks, key)
    BY <1>1 DEF HoldsNext, Contents
  <2>2. Contents[key] = Content(stored, key)
    BY DEF Contents
  <2> HIDE DEF stored
  <2>3. Content(stored \cup blocks, key) = Content(stored, key) \cup Content(blocks, key)
    BY ContentOfUnion
  <2> QED BY <2>1, <2>2, <2>3
<1> QED BY <1>2

-----------------------------------------------------------------------------
(***************************************************************************)
(* The steps of the abstract specification.                                 *)
(***************************************************************************)

\* A step that changes neither content nor result is a stutter.
LEMMA AbstractStutter ==
  ASSUME Contents' = Contents, append_ctr' = append_ctr, result' = result
  PROVE  [Promise!Next]_(Promise!vars)
BY PendingIsContent, PendingIsContentNext DEF Promise!vars

\* One that returns nothing is some other call.
LEMMA AbstractOther ==
  ASSUME Contents' = Contents, append_ctr' = append_ctr, result' = {}
  PROVE  [Promise!Next]_(Promise!vars)
<1>1. Promise!Other
  BY PendingIsContent, PendingIsContentNext DEF Promise!Other
<1> QED BY <1>1 DEF Promise!Next

\* A read.
LEMMA AbstractRead ==
  ASSUME NEW key \in Key, append_ctr' = append_ctr, result' = Contents[key],
         \A k \in Key : Contents'[k] = IF k = key THEN {} ELSE Contents[k]
  PROVE  [Promise!Next]_(Promise!vars)
<1>1. Contents' = [Contents EXCEPT ![key] = {}]
  BY DEF Contents
<1>2. Promise!ReadTotal(key)
  BY <1>1, PendingIsContent, PendingIsContentNext DEF Promise!ReadTotal
<1> QED BY <1>2 DEF Promise!Next

\* An append, of one update or of a chunk.
LEMMA AbstractAppend ==
  ASSUME NEW n \in 1..Max({1, MaxBatch}), NEW entries \in [1..n -> Entry],
         append_ctr' = append_ctr + n, result' = {},
         \A key \in Key :
           Contents'[key] = Contents[key] \cup Promise!Updates(key, entries, append_ctr)
  PROVE  [Promise!Next]_(Promise!vars)
<1>1. Max({1, MaxBatch}) \in Nat
  <2>1. 1 \in Int /\ MaxBatch \in Int /\ MaxBatch \in Nat
    BY BoundAssumption
  <2>2. Max({1, MaxBatch}) \in {1, MaxBatch}
    BY <2>1, MaxOfTwo
  <2> QED BY <2>1, <2>2
<1>2. Len(entries) = n
  BY <1>1
<1>3. Contents' = [key \in Key |-> Contents[key] \cup Promise!Updates(key, entries, append_ctr)]
  BY DEF Contents
<1>4. Promise!AppendAll(entries)
  BY <1>2, <1>3, PendingIsContent, PendingIsContentNext DEF Promise!AppendAll
<1>5. entries \in Promise!Batch
  BY DEF Promise!Batch, Promise!Entry, Promise!Masked, Entry, Masked
<1> QED BY <1>4, <1>5 DEF Promise!Next

-----------------------------------------------------------------------------
(***************************************************************************)
(* Every action of the histogram is a step of the abstract specification.   *)
(***************************************************************************)

\* A step that keeps all content keeps the refinement mapping's value.
LEMMA ContentKept ==
  ASSUME HoldsNext(Stored(physical_memory, height, overflow))
  PROVE  Contents' = Contents
BY DEF HoldsNext, Contents

\* append.
LEMMA AppendOneRefines ==
  ASSUME IInv, NEW key \in Key, NEW amount \in Amount, AppendOne(key, amount)
  PROVE  [Promise!Next]_(Promise!vars)
<1> DEFINE block   == new_block([key |-> key, amount |-> amount], append_ctr + 1)
           entry   == [key |-> key, amount |-> amount, cond |-> 1]
           entries == [i \in 1..1 |-> entry]
<1>1. StashOK(overflow \cup {block})
  BY AppendOneStash
<1>2. block.key = key /\ block.value = {<<append_ctr + 1, amount>>}
  BY DEF new_block
<1>3. /\ finish_append_after_insert(overflow \cup {block}, append_ctr + 1)
      /\ append_ctr' = append_ctr + 1 /\ result' = {}
  BY DEF AppendOne
<1> HIDE DEF block
<1>4. \A k \in Key : Contents'[k] = Contents[k] \cup Content({block}, k)
  BY <1>1, <1>3, FinishAppendContent, InsertContent
<1>5. \A k \in Key : Content({block}, k) = Promise!Updates(k, entries, append_ctr)
  <2> TAKE k \in Key
  <2>1. CASE k = key
    <3>1. Content({block}, k) = {<<append_ctr + 1, amount>>}
      BY <1>2, <2>1 DEF Content
    <3>2. Promise!Updates(k, entries, append_ctr) = {<<append_ctr + 1, amount>>}
      BY <2>1 DEF Promise!Updates
    <3> QED BY <3>1, <3>2
  <2>2. CASE k # key
    <3>1. Content({block}, k) = {}
      BY <1>2, <2>2 DEF Content
    <3>2. Promise!Updates(k, entries, append_ctr) = {}
      BY <2>2 DEF Promise!Updates
    <3> QED BY <3>1, <3>2
  <2> QED BY <2>1, <2>2
<1>6. entries \in [1..1 -> Entry]
  BY DEF Entry
<1>7. 1 \in 1..Max({1, MaxBatch})
  <2>1. MaxBatch \in Nat
    BY BoundAssumption
  <2>2. Max({1, MaxBatch}) \in {1, MaxBatch} /\ Max({1, MaxBatch}) >= 1
    BY <2>1, MaxOfTwo
  <2> QED BY <2>1, <2>2
<1> HIDE DEF entries
<1>8. \A k \in Key : Contents'[k] = Contents[k] \cup Promise!Updates(k, entries, append_ctr)
  BY <1>4, <1>5
<1> QED BY <1>3, <1>6, <1>7, <1>8, AbstractAppend

\* An iteration of a masked batch: masked updates leave no block.
LEMMA AppendChunkRefines ==
  ASSUME PromiseInv, AppendChunk
  PROVE  [Promise!Next]_(Promise!vars)
<1> DEFINE entries == [i \in 1..chunk_len |-> batch[i]]
<1>1. /\ finish_append_after_insert(overflow \cup chunk_blocks, append_ctr + chunk_len)
      /\ append_ctr' = append_ctr + chunk_len /\ result' = {} /\ batch # <<>>
  BY DEF AppendChunk
<1>2. IInv /\ batch \in Seq(Entry) /\ Len(batch) <= MaxBatch /\ append_ctr \in Nat
      /\ MaxBatch \in Nat
  BY BoundAssumption DEF PromiseInv, IInv, TypeOK
<1>3. chunk_len \in 1..Len(batch)
  BY <1>1, <1>2, Chunk
<1>4. \A k \in Key : Contents'[k] = Contents[k] \cup Content(chunk_blocks, k)
  <2>1. HoldsNext(Stored(physical_memory, height, overflow \cup chunk_blocks))
    BY <1>1, <1>2, AppendChunkStash, FinishAppendContent
  <2> QED BY <2>1, InsertContent
<1>5. ASSUME NEW k \in Key
      PROVE  Content(chunk_blocks, k) = Promise!Updates(k, entries, append_ctr)
  <2> DEFINE taken == {i \in 1..chunk_len : batch[i].cond = 1}
             made(i) == new_block(batch[i], append_ctr + i)
  <2>1. chunk_blocks = {made(i) : i \in taken}
    BY DEF chunk_blocks
  <2>2. \A i \in taken : made(i).key = batch[i].key
                         /\ made(i).value = {<<append_ctr + i, batch[i].amount>>}
    BY DEF new_block
  <2>3. Promise!Updates(k, entries, append_ctr)
          = {<<append_ctr + i, batch[i].amount>> : i \in {j \in taken : batch[j].key = k}}
    BY DEF Promise!Updates
  <2> HIDE DEF taken, made
  <2>4. \A u : u \in Content(chunk_blocks, k)
               <=> \E i \in taken : batch[i].key = k /\ u = <<append_ctr + i, batch[i].amount>>
    BY <2>1, <2>2, InContent
  <2> QED BY <2>3, <2>4
<1>6. entries \in [1..chunk_len -> Entry]
  BY <1>2, <1>3
<1>7. chunk_len \in 1..Max({1, MaxBatch})
  <2>1. MaxBatch \in Nat
    BY BoundAssumption
  <2>2. Max({1, MaxBatch}) \in {1, MaxBatch} /\ Max({1, MaxBatch}) >= MaxBatch
    BY <2>1, MaxOfTwo
  <2>3. Len(batch) \in Nat
    BY <1>2
  <2> QED BY <1>2, <1>3, <2>1, <2>2, <2>3
<1> HIDE DEF entries
<1>8. \A k \in Key : Contents'[k] = Contents[k] \cup Promise!Updates(k, entries, append_ctr)
  BY <1>4, <1>5
<1> QED BY <1>1, <1>6, <1>7, <1>8, AbstractAppend

\* An access that writes back all it gathered keeps all content, or panics.
LEMMA WriteBackKeeps ==
  ASSUME IInv, NEW leaf \in Leaf(height), height' = height,
         write_to_path(merge_accumulate(read_from_path(overflow, leaf)), leaf)
  PROVE  Contents' = Contents
<1> DEFINE level == assigned_level(merge_accumulate(read_from_path(overflow, leaf)), leaf)
<1>1. StashOK(overflow)
  BY DEF IInv
<1>2. \A key \in Key :
        Content(Stored(written_memory(level, leaf), height, written_overflow(level, leaf)), key)
          = Content(Stored(physical_memory, height, overflow), key)
  BY <1>1, AccessContent
<1>3. \/ /\ physical_memory' = written_memory(level, leaf)
         /\ overflow' = written_overflow(level, leaf)
      \/ UNCHANGED <<physical_memory, overflow>>
  BY DEF write_to_path
<1> HIDE DEF level
<1> QED BY <1>2, <1>3, ContentKept DEF HoldsNext

\* read_total takes everything: the key's blocks are all on the path that it reads.
LEMMA ReadTotalRefines ==
  ASSUME IInv, NEW key \in Key, ReadTotal(key)
  PROVE  [Promise!Next]_(Promise!vars)
<1> DEFINE leaf     == to_leaf(prf[key], height)
           gathered == read_from_path(overflow, leaf)
           merged   == merge_accumulate(gathered)
           rest     == without(merged, key)
           level    == assigned_level(rest, leaf)
<1>1. leaf \in Leaf(height)
  BY KeyLeaf
<1>2. gathered \in SUBSET Block /\ merged \in SUBSET Block /\ IsFiniteSet(merged)
      /\ Distinct(merged)
  <2>1. StashOK(overflow)
    BY DEF IInv
  <2> HIDE DEF leaf
  <2> QED BY <1>1, <2>1, ReadType, Gathered DEF StashOK
<1>3. \A k \in Key : Content(merged, k) = Content(gathered, k)
  <2> HIDE DEF gathered
  <2> QED BY <1>2, MergedContent
<1>4. Stored(physical_memory, height, overflow) = gathered \cup OffPath(leaf)
  <2> HIDE DEF leaf
  <2> QED BY <1>1, ReadAndOffPath
<1>5. \A b \in OffPath(leaf) : b.key # key
  BY DEF OffPath, IInv, TreeOK
<1>6. append_ctr' = append_ctr /\ height' = height /\ panicked = "no"
  BY DEF ReadTotal, path_access_unchanged, Idle
<1>7. \/ /\ physical_memory' = written_memory(level, leaf)
         /\ overflow' = written_overflow(level, leaf)
         /\ result' = UNION {b.value : b \in {c \in merged : c.key = key}}
      \/ UNCHANGED <<physical_memory, overflow, result>>
  BY <1>6 DEF ReadTotal, write_to_path, Panic
<1>8. rest \in SUBSET Block /\ IsFiniteSet(rest) /\ Distinct(rest)
  <2>1. rest \in SUBSET merged
    BY DEF without
  <2> HIDE DEF rest, merged
  <2> QED BY <1>2, <2>1, FS_Subset DEF Distinct
<1>9. Content(rest, key) = {} /\ \A k \in Key : k # key => Content(rest, k) = Content(merged, k)
  <2> HIDE DEF merged
  <2> QED BY DEF without, Content
<1> HIDE DEF leaf, gathered, merged, rest
<1>10. Content(OffPath(leaf), key) = {}
  BY <1>5 DEF Content
<1>11. \A k \in Key : Contents[k] = Content(merged, k) \cup Content(OffPath(leaf), k)
  <2> TAKE k \in Key
  <2>1. Contents[k] = Content(gathered \cup OffPath(leaf), k)
    BY <1>4 DEF Contents
  <2>2. Content(gathered \cup OffPath(leaf), k) = Content(gathered, k) \cup Content(OffPath(leaf), k)
    BY ContentOfUnion
  <2> QED BY <1>3, <2>1, <2>2
<1>12. CASE /\ physical_memory' = written_memory(level, leaf)
            /\ overflow' = written_overflow(level, leaf)
            /\ result' = UNION {b.value : b \in {c \in merged : c.key = key}}
  <2>1. Stored(physical_memory', height', overflow') = rest \cup OffPath(leaf)
    BY <1>1, <1>6, <1>8, <1>12, WrittenAndOffPath
  <2>2. \A k \in Key : Contents'[k] = Content(rest, k) \cup Content(OffPath(leaf), k)
    <3> TAKE k \in Key
    <3>1. Contents'[k] = Content(rest \cup OffPath(leaf), k)
      BY <2>1 DEF Contents
    <3> QED BY <3>1, ContentOfUnion
  <2>3. result' = Content(merged, key)
    BY <1>12 DEF Content
  <2>4. result' = Contents[key]
    BY <1>10, <1>11, <2>3
  <2>5. \A k \in Key : Contents'[k] = IF k = key THEN {} ELSE Contents[k]
    BY <1>9, <1>10, <1>11, <2>2
  <2> QED BY <1>6, <2>4, <2>5, AbstractRead
<1>13. CASE UNCHANGED <<physical_memory, overflow, result>>
  <2>1. Contents' = Contents
    BY <1>6, <1>13 DEF Contents
  <2> QED BY <1>6, <1>13, <2>1, AbstractStutter
<1> QED BY <1>7, <1>12, <1>13

\* The other calls return nothing and change no content, or panic.
LEMMA OtherRefines ==
  ASSUME IInv, Contents' = Contents, append_ctr' = append_ctr, result' \in {result, {}}
  PROVE  [Promise!Next]_(Promise!vars)
BY AbstractStutter, AbstractOther

\* A call that keeps memory and overflow keeps all content.
LEMMA SameStorage ==
  ASSUME UNCHANGED <<physical_memory, height, overflow>>
  PROVE  Contents' = Contents
BY DEF Contents

\* So does one that doubles the storage.
LEMMA GrowKeeps ==
  ASSUME IInv, NEW ctr, grow_physical_storage(physical_memory, ctr), UNCHANGED overflow
  PROVE  Contents' = Contents
<1>1. Stored(physical_memory', height', overflow') = Stored(physical_memory, height, overflow)
  BY Heights, DoubledStored DEF grow_physical_storage
<1> QED BY <1>1 DEF Contents

\* Every step is a step of the abstract specification or a stutter.
LEMMA NextRefines ==
  ASSUME PromiseInv, [Next]_vars
  PROVE  [Promise!Next]_(Promise!vars)
<1>1. IInv
  BY DEF PromiseInv
<1>2. ASSUME NEW key \in Key, NEW amount \in Amount, AppendOne(key, amount)
      PROVE  [Promise!Next]_(Promise!vars)
  BY <1>1, <1>2, AppendOneRefines
<1>3. CASE AppendChunk
  BY <1>3, AppendChunkRefines
<1>4. ASSUME NEW key \in Key, ReadTotal(key)
      PROVE  [Promise!Next]_(Promise!vars)
  BY <1>1, <1>4, ReadTotalRefines
<1>5. ASSUME NEW leaf \in Leaf(height), ReadDummy(leaf)
      PROVE  [Promise!Next]_(Promise!vars)
  <2>1. Contents' = Contents
    BY <1>1, <1>5, WriteBackKeeps DEF ReadDummy, path_access_unchanged
  <2>2. append_ctr' = append_ctr /\ result' \in {result, {}}
    BY <1>5 DEF ReadDummy, path_access_unchanged
  <2> QED BY <1>1, <2>1, <2>2, OtherRefines
<1>6. CASE MigrateLeaf
  <2> DEFINE leaf == leaf_at(leaf_count(height) - migrating, height)
  <2>1. leaf \in Leaf(height)
    BY DEF leaf_at, bit_of, Leaf, Bit
  <2>2. /\ write_to_path(merge_accumulate(read_from_path(overflow, leaf)), leaf)
        /\ height' = height /\ append_ctr' = append_ctr /\ result' = result
    BY <1>6 DEF MigrateLeaf, path_access_unchanged
  <2> HIDE DEF leaf
  <2>3. Contents' = Contents
    BY <1>1, <2>1, <2>2, WriteBackKeeps
  <2> QED BY <1>1, <2>2, <2>3, OtherRefines
<1>7. CASE BeginGrow \/ DeferredGrow
  <2>1. grow_physical_storage(physical_memory, evict_ctr) /\ UNCHANGED <<overflow, append_ctr>>
        /\ result' = {}
    BY <1>7 DEF BeginGrow, DeferredGrow
  <2>2. Contents' = Contents
    BY <1>1, <2>1, GrowKeeps
  <2> QED BY <1>1, <2>1, <2>2, OtherRefines
<1>8. CASE UNCHANGED <<physical_memory, height, overflow, append_ctr>> /\ result' \in {result, {}}
  <2>1. Contents' = Contents
    BY <1>8, SameStorage
  <2> QED BY <1>1, <1>8, <2>1, OtherRefines
<1>9. \/ \E key \in Key, amount \in Amount : AppendOne(key, amount)
      \/ AppendChunk
      \/ \E key \in Key : ReadTotal(key)
      \/ \E leaf \in Leaf(height) : ReadDummy(leaf)
      \/ MigrateLeaf
      \/ BeginGrow \/ DeferredGrow
      \/ UNCHANGED <<physical_memory, height, overflow, append_ctr>> /\ result' \in {result, {}}
  BY DEF Next, vars, calls, AppendOverflows, BeginBatch, AppendChunkOverflows, GrowPastMaxHeight,
         EnableAutoResize, DeferredGrowPastMaxHeight, SetSweepWindowActive, ResetMetrics
<1> QED BY <1>2, <1>3, <1>4, <1>5, <1>6, <1>7, <1>8, <1>9

\* A batch has a legal length at first and gets shorter.
LEMMA BatchLength ==
  ASSUME PromiseInv, [Next]_vars
  PROVE  Len(batch') <= MaxBatch
<1>1. batch \in Seq(Entry) /\ Len(batch) \in Nat /\ Len(batch) <= MaxBatch
      /\ MaxBatch \in Nat /\ IInv
  BY BoundAssumption DEF PromiseInv, IInv, TypeOK
<1>2. ASSUME NEW n \in 1..MaxBatch, NEW entries \in [1..n -> Entry], BeginBatch(entries)
      PROVE  Len(batch') <= MaxBatch
  <2>1. Len(entries) = n
    OBVIOUS
  <2> QED BY <1>1, <1>2, <2>1 DEF BeginBatch
<1>3. CASE AppendChunk
  <2>1. chunk_len \in 1..Len(batch) /\ batch' = SubSeq(batch, chunk_len + 1, Len(batch))
    BY <1>1, <1>3, Chunk DEF AppendChunk
  <2>2. Len(batch') = Len(batch) - chunk_len
    BY <1>1, <2>1
  <2> QED BY <1>1, <2>1, <2>2
<1>4. CASE UNCHANGED batch
  BY <1>1, <1>4
<1>5. \/ \E n \in 1..MaxBatch : \E entries \in [1..n -> Entry] : BeginBatch(entries)
      \/ AppendChunk
      \/ UNCHANGED batch
  BY DEF Next, vars, calls, AppendOne, AppendOverflows, AppendChunkOverflows, ReadTotal, ReadDummy,
         BeginGrow, MigrateLeaf, GrowPastMaxHeight, EnableAutoResize, DeferredGrow,
         DeferredGrowPastMaxHeight, SetSweepWindowActive, ResetMetrics
<1> QED BY <1>2, <1>3, <1>4, <1>5

\* A new histogram holds nothing.
LEMMA InitRefines ==
  ASSUME Init
  PROVE  PromiseInv /\ Promise!Init
<1>1. overflow = {} /\ batch = <<>> /\ append_ctr = 0 /\ result = {}
      /\ \A n \in Node(height) : physical_memory[n] = {}
  BY DEF Init, new
<1>2. PromiseInv
  BY <1>1, InitInv, BoundAssumption DEF PromiseInv
<1>3. Stored(physical_memory, height, overflow) = {}
  BY <1>1 DEF Stored
<1>4. Contents = [key \in Key |-> {}]
  BY <1>3 DEF Contents, Content
<1> QED BY <1>1, <1>2, <1>4, PendingIsContent DEF Promise!Init

\* The histogram implements the map from keys to pending updates: over any sequence
\* of appends, batches, reads, dummy reads, resizes and panics, read_total returns
\* exactly the updates appended to the key since it was last read (ops.rs:51-135).
THEOREM HistogramKeepsPromise == Spec => KeepsPromise
<1>1. PromiseInv /\ [Next]_vars => PromiseInv'
  BY BatchLength, NextInv DEF PromiseInv
<1>2. PromiseInv /\ [Next]_vars => [Promise!Next]_(Promise!vars)
  BY NextRefines
<1>3. Init => PromiseInv /\ Promise!Init
  BY InitRefines
<1> QED BY <1>1, <1>2, <1>3, PTL DEF Spec, KeepsPromise, Promise!Spec

-----------------------------------------------------------------------------
(***************************************************************************)
(* And it implements KeyedCounts.  The sums follow the updates: an append   *)
(* gives a key updates with new numbers, so what they carry is added.       *)
(***************************************************************************)

\* What an update carries; the count of each key.
Amounts == [u \in Update |-> u[2]]
Totals  == [key \in Key |-> sum_of(Contents[key])]

\* What a key holds is finite, and numbered up to the counter.
Numbered(updates) ==
  /\ updates \subseteq Update /\ IsFiniteSet(updates)
  /\ \A u \in updates : u[1] <= append_ctr
CountInv == PromiseInv /\ \A key \in Key : Numbered(Contents[key])

\* sum_of adds what the updates carry.
LEMMA SumOfUpdates ==
  ASSUME NEW U \in SUBSET Update, IsFiniteSet(U)
  PROVE  weight(Amounts, U) \in Nat /\ sum_of(U) = weight(Amounts, U) % Modulus
<1>1. \A u \in U : Amounts[u] = u[2] /\ Amounts[u] \in Nat
  BY AmountAssumption DEF Amounts, Update
<1> DEFINE one(f) == [s \in SUBSET U |-> IF s = {} THEN 0
                        ELSE (CHOOSE x \in s : TRUE)[2] + f[s \ {CHOOSE x \in s : TRUE}]]
           other(f) == [s \in SUBSET U |-> IF s = {} THEN 0
                          ELSE Amounts[CHOOSE x \in s : TRUE] + f[s \ {CHOOSE x \in s : TRUE}]]
<1>2. ASSUME NEW f PROVE one(f) = other(f)
  <2>1. ASSUME NEW s \in SUBSET U, s # {}
        PROVE  Amounts[CHOOSE x \in s : TRUE] = (CHOOSE x \in s : TRUE)[2]
    <3>1. (CHOOSE x \in s : TRUE) \in U
      BY <2>1
    <3> QED BY <1>1, <3>1
  <2>2. ASSUME NEW s \in SUBSET U
        PROVE  (IF s = {} THEN 0
                ELSE (CHOOSE x \in s : TRUE)[2] + f[s \ {CHOOSE x \in s : TRUE}])
                 = (IF s = {} THEN 0
                    ELSE Amounts[CHOOSE x \in s : TRUE] + f[s \ {CHOOSE x \in s : TRUE}])
    BY <2>1
  <2> QED BY <2>2, Zenon
<1>3. MapThenSumSet(LAMBDA u : u[2], U) = (CHOOSE f : f = one(f))[U]
  BY DEF MapThenSumSet, MapThenFoldSet
<1>4. weight(Amounts, U) = (CHOOSE f : f = other(f))[U]
  BY DEF weight, MapThenSumSet, MapThenFoldSet
<1> HIDE DEF one, other
<1>5. MapThenSumSet(LAMBDA u : u[2], U) = weight(Amounts, U)
  BY <1>2, <1>3, <1>4, Zenon
<1> QED BY <1>1, <1>5, WeightType DEF sum_of

LEMMA EmptySum ==
  sum_of({}) = 0
<1>1. weight(Amounts, {}) = 0 /\ sum_of({}) = weight(Amounts, {}) % Modulus
  BY WeightEmpty, SumOfUpdates, FS_EmptySet
<1> QED BY <1>1, BoundAssumption

\* KeyedCounts adds what the places of a batch carry.
LEMMA AddedIsWeight ==
  ASSUME NEW n \in Nat, NEW entries \in [1..n -> Entry], NEW key \in Key
  PROVE  Counts!added(key, entries)
           = weight([i \in 1..n |-> entries[i].amount], Counts!places(key, entries))
<1> DEFINE P == Counts!places(key, entries)
           v == [i \in 1..n |-> entries[i].amount]
           one(f) == [s \in SUBSET P |-> IF s = {} THEN 0
                        ELSE entries[CHOOSE x \in s : TRUE].amount
                             + f[s \ {CHOOSE x \in s : TRUE}]]
           other(f) == [s \in SUBSET P |-> IF s = {} THEN 0
                          ELSE v[CHOOSE x \in s : TRUE] + f[s \ {CHOOSE x \in s : TRUE}]]
<1>1. \A i \in P : v[i] = entries[i].amount
  BY DEF Counts!places
<1>2. ASSUME NEW f PROVE one(f) = other(f)
  <2>1. ASSUME NEW s \in SUBSET P, s # {}
        PROVE  v[CHOOSE x \in s : TRUE] = entries[CHOOSE x \in s : TRUE].amount
    <3> HIDE DEF P, v
    <3>1. (CHOOSE x \in s : TRUE) \in P
      BY <2>1
    <3> QED BY <1>1, <3>1
  <2> HIDE DEF P, v
  <2>2. ASSUME NEW s \in SUBSET P
        PROVE  (IF s = {} THEN 0
                ELSE entries[CHOOSE x \in s : TRUE].amount + f[s \ {CHOOSE x \in s : TRUE}])
                 = (IF s = {} THEN 0
                    ELSE v[CHOOSE x \in s : TRUE] + f[s \ {CHOOSE x \in s : TRUE}])
    BY <2>1
  <2> QED BY <2>2, Zenon
<1>3. Counts!added(key, entries) = (CHOOSE f : f = one(f))[P]
  BY DEF Counts!added, Counts!MapThenSumSet, Counts!MapThenFoldSet
<1>4. weight(v, P) = (CHOOSE f : f = other(f))[P]
  BY DEF weight, MapThenSumSet, MapThenFoldSet
<1> HIDE DEF one, other, P, v
<1>5. Counts!added(key, entries) = weight(v, P)
  BY <1>2, <1>3, <1>4, Zenon
<1> QED BY <1>5 DEF P, v

\* A chunk's updates of a key are finitely many, have new numbers and carry what the
\* chunk's places do.
LEMMA NewUpdates ==
  ASSUME append_ctr \in Nat, NEW n \in Nat, NEW entries \in [1..n -> Entry], NEW key \in Key
  PROVE  LET fresh == Promise!Updates(key, entries, append_ctr)
         IN  /\ fresh \subseteq Update /\ IsFiniteSet(fresh)
             /\ \A u \in fresh : u[1] > append_ctr /\ u[1] <= append_ctr + n
             /\ weight(Amounts, fresh) = Counts!added(key, entries)
<1> DEFINE P == Counts!places(key, entries)
           f == [i \in P |-> <<append_ctr + i, entries[i].amount>>]
           v == [i \in 1..n |-> entries[i].amount]
           fresh == Promise!Updates(key, entries, append_ctr)
<1>1. P \subseteq 1..n /\ IsFiniteSet(P)
  <2>1. P \subseteq 1..n
    BY DEF Counts!places
  <2>2. IsFiniteSet(1..n)
    BY FS_Interval
  <2> HIDE DEF P
  <2> QED BY <2>1, <2>2, FS_Subset
<1>2. \A i \in P : entries[i].amount \in Amount
  BY DEF Counts!places, Entry, Masked
<1>3. fresh = {f[i] : i \in P}
  BY DEF Promise!Updates, Counts!places
<1>4. \A i \in P : f[i] \in Update /\ f[i][1] = append_ctr + i /\ f[i][2] = entries[i].amount
  <2> HIDE DEF P
  <2> QED BY <1>1, <1>2 DEF Update
<1>5. \A i \in P : v[i] \in Nat /\ Amounts[f[i]] = v[i]
  <2>1. \A i \in P : v[i] = entries[i].amount
    BY <1>1
  <2> HIDE DEF P, f, v
  <2> QED BY <1>2, <1>4, <2>1, AmountAssumption DEF Amounts
<1>6. \A i, j \in P : f[i] = f[j] => i = j
  <2> SUFFICES ASSUME NEW i \in P, NEW j \in P, f[i] = f[j] PROVE i = j
    OBVIOUS
  <2>1. append_ctr + i = append_ctr + j
    BY <1>4
  <2> HIDE DEF P, f
  <2> QED BY <1>1, <2>1
<1>7. IsFiniteSet(fresh)
  <2>1. f \in Surjection(P, fresh)
    BY <1>3, Fun_IsSurj
  <2> HIDE DEF P, f, fresh
  <2> QED BY <1>1, <2>1, FS_Surjection
<1>8. fresh \subseteq Update /\ \A u \in fresh : u[1] > append_ctr /\ u[1] <= append_ctr + n
  <2> HIDE DEF P, f, fresh
  <2>1. \A i \in P : append_ctr + i > append_ctr /\ append_ctr + i <= append_ctr + n
    BY <1>1
  <2> QED BY <1>3, <1>4, <2>1
<1>9. weight(Amounts, fresh) = weight(v, P)
  <2> HIDE DEF P, f, fresh, v
  <2>1. \A x \in P : f[x] \in fresh /\ v[x] \in Nat /\ Amounts[f[x]] = v[x]
    BY <1>3, <1>5
  <2>2. \A y \in fresh : \E x \in P : y = f[x]
    BY <1>3
  <2>3. \A x, y \in P : f[x] = f[y] => x = y
    BY <1>6
  <2>4. IsFiniteSet(P)
    BY <1>1
  <2> QED BY <2>1, <2>2, <2>3, <2>4, WeightImage
<1> QED BY <1>7, <1>8, <1>9, AddedIsWeight

\* The refinement mapping of KeyedCounts, in these terms.
LEMMA TotalsArePending ==
  /\ [key \in Key |-> sum_of(Pending(key))] = Totals
  /\ [key \in Key |-> sum_of(Pending(key))]' = Totals'
<1>1. ASSUME NEW key \in Key PROVE Pending(key) = Contents[key]
  <2> DEFINE now == [k \in Key |-> Pending(k)]
  <2>1. now = Contents /\ now[key] = Pending(key)
    BY PendingIsContent
  <2> HIDE DEF now
  <2> QED BY <2>1
<1>2. ASSUME NEW key \in Key PROVE Pending(key)' = Contents'[key]
  <2> DEFINE then == [k \in Key |-> Pending(k)]'
  <2>1. then = Contents' /\ then[key] = Pending(key)'
    BY PendingIsContentNext
  <2> HIDE DEF then
  <2> QED BY <2>1
<1>3. [key \in Key |-> sum_of(Pending(key))] = [key \in Key |-> sum_of(Contents[key])]
  BY <1>1, Zenon
<1>4. [key \in Key |-> sum_of(Pending(key)')] = [key \in Key |-> sum_of(Contents'[key])]
  BY <1>2, Zenon
<1>5. [key \in Key |-> sum_of(Pending(key))]' = [key \in Key |-> sum_of(Pending(key)')]
  OBVIOUS
<1> QED BY <1>3, <1>4, <1>5 DEF Totals

\* Appending adds to the sums, and what keys hold stays numbered.
LEMMA AppendCounts ==
  ASSUME CountInv, NEW entries \in Promise!Batch, Promise!AppendAll(entries)
  PROVE  /\ \A key \in Key : Numbered(Contents[key])'
         /\ Counts!AppendAll(entries)
<1>1. append_ctr \in Nat /\ PromiseInv
  BY DEF CountInv, PromiseInv, IInv, TypeOK
<1>2. PICK n \in Nat : entries \in [1..n -> Entry]
  BY DEF Promise!Batch, Promise!Entry, Promise!Masked, Entry, Masked
<1>3. append_ctr' = append_ctr + n /\ result' = {}
  BY <1>2 DEF Promise!AppendAll
<1> DEFINE fresh(k) == Promise!Updates(k, entries, append_ctr)
<1>4. ASSUME NEW k \in Key
      PROVE  /\ fresh(k) \subseteq Update /\ IsFiniteSet(fresh(k))
             /\ \A u \in fresh(k) : u[1] > append_ctr /\ u[1] <= append_ctr + n
             /\ weight(Amounts, fresh(k)) = Counts!added(k, entries)
  BY <1>1, <1>2, NewUpdates
<1>5. Contents' = [k \in Key |-> Contents[k] \cup fresh(k)]
  <2>1. [k \in Key |-> Pending(k)]' = [k \in Key |-> Pending(k) \cup fresh(k)]
    BY DEF Promise!AppendAll
  <2> HIDE DEF fresh
  <2> QED BY <2>1, PendingIsContent, PendingIsContentNext
<1> HIDE DEF fresh
<1>6. ASSUME NEW k \in Key
      PROVE  /\ Numbered(Contents[k])'
             /\ sum_of(Contents'[k]) = (sum_of(Contents[k]) + Counts!added(k, entries)) % Modulus
  <2> DEFINE old == Contents[k]
             add == fresh(k)
  <2>1. Contents'[k] = old \cup add
    BY <1>5
  <2>2. old \subseteq Update /\ IsFiniteSet(old) /\ \A u \in old : u[1] <= append_ctr
    BY DEF CountInv, Numbered
  <2>3. add \subseteq Update /\ IsFiniteSet(add)
        /\ \A u \in add : u[1] > append_ctr /\ u[1] <= append_ctr + n
    BY <1>4
  <2>4. weight(Amounts, add) = Counts!added(k, entries)
    BY <1>4
  <2> HIDE DEF old, add
  <2>5. old \cup add \subseteq Update /\ IsFiniteSet(old \cup add)
    BY <2>2, <2>3, FS_Union
  <2>6. \A u \in Update : u[1] \in Nat
    BY DEF Update
  <2>7. \A u \in old \cup add : u[1] <= append_ctr + n
    BY <1>1, <1>2, <2>2, <2>3, <2>6
  <2>8. old \cap add = {}
    BY <1>1, <2>2, <2>3, <2>6
  <2>9. weight(Amounts, old \cup add) = weight(Amounts, old) + weight(Amounts, add)
    <3>1. \A u \in old \cup add : Amounts[u] \in Nat
      BY <2>2, <2>3, AmountAssumption DEF Amounts, Update
    <3> QED BY <2>2, <2>3, <2>8, <3>1, WeightUnion
  <2>10. /\ sum_of(old \cup add) = weight(Amounts, old \cup add) % Modulus
         /\ sum_of(old) = weight(Amounts, old) % Modulus
         /\ weight(Amounts, old) \in Nat /\ weight(Amounts, add) \in Nat
    BY <2>2, <2>3, <2>5, SumOfUpdates
  <2>11. sum_of(old \cup add) = (sum_of(old) + weight(Amounts, add)) % Modulus
    BY <2>9, <2>10, BoundAssumption, RemainderOfSum
  <2>12. sum_of(Contents'[k]) = sum_of(old \cup add)
    BY <2>1, Zenon
  <2>13. Numbered(Contents[k])'
    BY <1>3, <2>1, <2>5, <2>7 DEF Numbered
  <2> QED BY <2>4, <2>11, <2>12, <2>13 DEF old
<1>7. sum_of(result') = 0
  BY <1>3, EmptySum, Zenon
<1>8. Totals' = [k \in Key |-> (Totals[k] + Counts!added(k, entries)) % Modulus]
  <2>1. \A k \in Key : sum_of(Contents'[k]) = (Totals[k] + Counts!added(k, entries)) % Modulus
    BY <1>6 DEF Totals
  <2>2. Totals' = [k \in Key |-> sum_of(Contents'[k])]
    BY DEF Totals
  <2> QED BY <2>1, <2>2, Zenon
<1>9. Counts!AppendAll(entries)
  <2>1. [key \in Key |-> sum_of(Pending(key))] = Totals
    BY TotalsArePending
  <2>2. [key \in Key |-> sum_of(Pending(key))]' = Totals'
    BY TotalsArePending
  <2> QED BY <1>7, <1>8, <2>1, <2>2, Zenon DEF Counts!AppendAll
<1> QED BY <1>6, <1>9

\* Every step of the promise is one of the counts.
LEMMA CountsStep ==
  ASSUME CountInv, PromiseInv', [Promise!Next]_(Promise!vars)
  PROVE  CountInv' /\ [Counts!Next]_(Counts!vars)
<1> DEFINE pending == [key \in Key |-> Pending(key)]
           total   == [key \in Key |-> sum_of(Pending(key))]
<1>1. pending = Contents /\ pending' = Contents' /\ total = Totals /\ total' = Totals'
  BY PendingIsContent, PendingIsContentNext, TotalsArePending
<1>2. CASE UNCHANGED Contents /\ append_ctr' = append_ctr /\ result' \in {result, {}}
  <2>1. Totals' = Totals
    BY <1>2 DEF Totals
  <2>2. CountInv'
    BY <1>2 DEF CountInv, Numbered
  <2>3. CASE result' = result
    <3>1. sum_of(result') = sum_of(result)
      BY <2>3, Zenon
    <3> QED BY <1>1, <2>1, <2>2, <3>1 DEF Counts!vars
  <2>4. CASE result' = {}
    <3>1. sum_of(result') = 0
      BY <2>4, EmptySum, Zenon
    <3>2. Counts!Other
      BY <1>1, <2>1, <3>1 DEF Counts!Other
    <3> QED BY <2>2, <3>2 DEF Counts!Next
  <2> QED BY <1>2, <2>3, <2>4
<1>3. ASSUME NEW k \in Key, Promise!ReadTotal(k)
      PROVE  CountInv' /\ [Counts!Next]_(Counts!vars)
  <2>1. append_ctr' = append_ctr /\ Contents' = [Contents EXCEPT ![k] = {}]
    BY <1>1, <1>3 DEF Promise!ReadTotal
  <2>2. result' = Contents[k]
    <3>1. result' = pending[k]
      BY <1>3 DEF Promise!ReadTotal
    <3> HIDE DEF pending
    <3> QED BY <1>1, <3>1
  <2>3. \A key \in Key : Contents'[key] = IF key = k THEN {} ELSE Contents[key]
    BY <2>1 DEF Contents
  <2>4. CountInv'
    BY <2>1, <2>3, FS_EmptySet DEF CountInv, Numbered
  <2>5. sum_of(result') = Totals[k]
    <3>1. sum_of(result') = sum_of(Contents[k])
      BY <2>2, Zenon
    <3> QED BY <3>1 DEF Totals
  <2>6. Totals' = [Totals EXCEPT ![k] = 0]
    <3>1. \A key \in Key : sum_of(Contents'[key]) = IF key = k THEN 0 ELSE sum_of(Contents[key])
      BY <2>3, EmptySum, Zenon
    <3> QED BY <3>1 DEF Totals
  <2>7. Counts!ReadTotal(k)
    <3>1. total' = [total EXCEPT ![k] = 0] /\ sum_of(result') = total[k]
      <4> HIDE DEF total
      <4> QED BY <1>1, <2>5, <2>6
    <3> QED BY <3>1 DEF Counts!ReadTotal
  <2> QED BY <2>4, <2>7 DEF Counts!Next
<1>4. ASSUME NEW entries \in Promise!Batch, Promise!AppendAll(entries)
      PROVE  CountInv' /\ [Counts!Next]_(Counts!vars)
  <2>1. (\A key \in Key : Numbered(Contents[key])') /\ Counts!AppendAll(entries)
    BY <1>4, AppendCounts
  <2>2. entries \in Counts!Batch
    BY DEF Promise!Batch, Promise!Entry, Promise!Masked, Counts!Batch, Counts!Entry, Counts!Masked
  <2>3. CountInv'
    BY <2>1 DEF CountInv
  <2> QED BY <2>1, <2>2, <2>3 DEF Counts!Next
<1>5. \/ UNCHANGED Contents /\ append_ctr' = append_ctr /\ result' \in {result, {}}
      \/ \E k \in Key : Promise!ReadTotal(k)
      \/ \E entries \in Promise!Batch : Promise!AppendAll(entries)
  <2>1. CASE UNCHANGED Promise!vars
    BY <1>1, <2>1 DEF Promise!vars
  <2>2. CASE Promise!Other
    BY <1>1, <2>2 DEF Promise!Other
  <2> QED BY <2>1, <2>2 DEF Promise!Next
<1> QED BY <1>2, <1>3, <1>4, <1>5

\* A new histogram counts nothing.
LEMMA InitCounts ==
  ASSUME Init
  PROVE  CountInv /\ Counts!Init
<1>1. PromiseInv /\ Promise!Init
  BY InitRefines
<1>2. Contents = [key \in Key |-> {}] /\ result = {}
  BY <1>1, PendingIsContent DEF Promise!Init
<1>3. CountInv
  BY <1>1, <1>2, FS_EmptySet DEF CountInv, Numbered
<1>4. Totals = [key \in Key |-> 0] /\ sum_of(result) = 0
  <2>1. \A key \in Key : sum_of(Contents[key]) = 0
    BY <1>2, EmptySum, Zenon
  <2>2. sum_of(result) = 0
    BY <1>2, EmptySum, Zenon
  <2> QED BY <2>1, <2>2 DEF Totals
<1> QED BY <1>3, <1>4, TotalsArePending DEF Counts!Init

\* For its user the histogram is a table of counts in a machine word: read_total returns
\* the sum, modulo 2^w, of what was appended to the key since it was last read, in
\* whatever order path accesses and evictions met the amounts (reduction.rs:43-48).
THEOREM HistogramKeepsCounts == Spec => KeepsCounts
<1>1. CountInv /\ [Next]_vars => CountInv' /\ [Counts!Next]_(Counts!vars)
  <2> SUFFICES ASSUME CountInv, [Next]_vars
               PROVE  CountInv' /\ [Counts!Next]_(Counts!vars)
    OBVIOUS
  <2>1. PromiseInv
    BY DEF CountInv
  <2>2. PromiseInv'
    BY <2>1, BatchLength, NextInv DEF PromiseInv
  <2>3. [Promise!Next]_(Promise!vars)
    BY <2>1, NextRefines
  <2> QED BY <2>2, <2>3, CountsStep
<1>2. Init => CountInv /\ Counts!Init
  BY InitCounts
<1> QED BY <1>1, <1>2, PTL DEF Spec, KeepsCounts, Counts!Spec
=============================================================================
