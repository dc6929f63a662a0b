------------------------ MODULE ShardedHistogramProofs ------------------------
(***************************************************************************)
(* What ShardedHistogram keeps to in every interleaving of its jobs, for     *)
(* every number of shards and frontends, every batch and quota, and whatever *)
(* panics are caught: the invariant has a part for each thing the call in    *)
(* progress has half done.                                                  *)
(***************************************************************************)
EXTENDS ShardedHistogram, BasicLemmas, SequenceTheorems

\* The blocks of shard s in the frontend's f-th sub-batch.
routed_blocks(f) == shard_blocks(sub_batch(f))

all_done == \A f \in Frontend : frontends[f].state = "done"

\* The batch at the front of pending is one that some frontend refuses.
refused == sub_n = 0 \/ \E f \in Frontend : over_quota(routed_blocks(f))

RouterOps  == {"increment_blocks", "router_flush"}
ServingOps == {"read_total", "readout", "into_readout"}
FlushOps   == {"append", "flush"} \cup ServingOps

\* Which call may be where, and what a stage leaves at rest.
StageInv ==
  /\ stage \in {"route", "routed"} => call.op \in RouterOps \cup FlushOps
  /\ stage = "grow" => call.op \in FlushOps \cup {"grow"}
  /\ stage = "serve" => call.op \in ServingOps
  /\ stage = "idle" => call.op # "into_readout"
  /\ stage # "route" => frontends = idle_frontends /\ next_chunk = [s \in Shard |-> 1]
  /\ stage # "grow" => growing = {}
  /\ call.op \in RouterOps => setup.direct_router
  /\ call.op = "read_total" => call.key \in Key

\* A frontend's job has the blocks of its sub-batch or panicked over them, and no
\* shard starts before all have theirs.
FrontendInv ==
  /\ stage = "route" =>
       /\ \A f \in Frontend :
            LET fr == frontends[f]
            IN /\ fr.state = "done" =>
                    fr.blocks = routed_blocks(f) /\ ~over_quota(routed_blocks(f)) /\ sub_n > 0
               /\ fr.state = "panicked" => over_quota(routed_blocks(f))
       /\ all_done \/ \A s \in Shard : next_chunk[s] = 1

\* How much is pending.  A batch that was refused stays at the front.
LengthInv ==
  /\ stage = "route" => Len(pending) >= setup.batch_capacity
  /\ ~caught /\ stage = "route" /\ call.op # "increment_blocks" =>
       Len(pending) = setup.batch_capacity
  /\ stage = "routed" /\ call.op # "increment_blocks" => pending = <<>>
  /\ stage = "grow" /\ call.op # "grow" => pending = <<>>
  /\ stage = "serve" => pending = <<>>
  /\ ~caught /\ stage \in {"idle", "grow"} => Len(pending) < setup.batch_capacity
  /\ caught => /\ Len(pending) >= setup.batch_capacity /\ refused
               /\ stage \in {"idle", "route", "grow"}

\* Block i of the batch was dispatched to its shard.
delivered(i) ==
  stage = "route" /\ i <= (next_chunk[shard_of[pending[i].key]] - 1) * sub_n

\* Updates are numbered apart, keys stay in their shards, and an update is in its
\* shard from the moment its chunk is processed.
Numbered ==
  /\ \A i \in DOMAIN pending : \A u \in pending[i].value : u[1] <= issued
  /\ \A s \in Shard, k \in Key : \A u \in held[s][k] : u[1] <= issued
PendingApart ==
  \A i, j \in DOMAIN pending : i # j => pending[i].value \cap pending[j].value = {}
KeysAtHome ==
  \A s \in Shard, k \in Key : s # shard_of[k] => held[s][k] = {}
DeliveredInOrder ==
  \A i \in DOMAIN pending : pending[i] # Dummy =>
    LET has == held[shard_of[pending[i].key]][pending[i].key]
    IN IF delivered(i) THEN pending[i].value \subseteq has
                       ELSE pending[i].value \cap has = {}
UpdateInv == Numbered /\ PendingApart /\ KeysAtHome /\ DeliveredInOrder

\* How often the call accessed each shard so far.
AccessInv ==
  \A s, t \in Shard :
    /\ stage = "route" => accesses[s] = next_chunk[s] - 1
    /\ stage \in {"idle", "routed", "grow"} => accesses[s] = accesses[t]
    /\ stage = "serve" /\ call.op = "read_total" =>
         /\ (s \in unread <=> t \in unread) => accesses[s] = accesses[t]
         /\ s \notin unread /\ t \in unread => accesses[s] = accesses[t] + 1
    /\ stage = "serve" /\ call.op # "read_total" => accesses[s] = accesses[t]

\* What has been read out so far.
ReadoutInv ==
  /\ call.op = "readout" /\ stage = "idle" => read_out = [k \in Key |-> Pending(k)]
  /\ call.op = "into_readout" =>
       read_out = [k \in Key |-> UNION {held[s][k] : s \in Shard \ unread}]
  /\ call.op \in {"read_total", "into_readout"} =>
       /\ stage \in {"route", "routed", "grow"} => unread = Shard
       /\ stage = "serve" /\ ended = "no" => unread # {}
  /\ ended = "consumed" => call.op = "into_readout" /\ unread = {} /\ stage = "serve"

\* The shard's tree is already doubled by the growth in progress.
doubled(s) == stage = "grow" /\ s \notin growing
height_before(s) == IF doubled(s) THEN height[s] - 1 ELSE height[s]

\* The epoch after n; it stops at 255.
next_epoch(n) == Min({n + 1, 255})

\* The shards are where the last resize left them, or one step further.
HeightsInStep ==
  /\ \A s \in Shard : /\ height_before(s) >= InitialHeight
                      /\ capacity = 2^(height_before(s) - InitialHeight)
  /\ \A s, t \in Shard : height_before(s) = height_before(t)
EpochsInStep ==
  \A s, t \in Shard :
    /\ (doubled(s) <=> doubled(t)) => shard_epoch[s] = shard_epoch[t]
    /\ doubled(s) /\ ~doubled(t) => shard_epoch[s] = next_epoch(shard_epoch[t])
EpochBehind ==
  \A s \in Shard :
    IF stage = "grow" /\ call.op = "grow" /\ s \in growing
      THEN epoch <= next_epoch(shard_epoch[s])
      ELSE epoch <= shard_epoch[s]
GrowthInv == HeightsInStep /\ EpochsInStep /\ EpochBehind

\* A signal to grow is raised while shards insert, and gone when the flush is over.
SignalInv ==
  /\ grow_signal => auto_resize
  /\ grow_signal /\ ~setup.direct_router => stage = "routed" \/ (stage = "route" /\ all_done)

IInv ==
  /\ TypeOK
  /\ StageInv
  /\ FrontendInv
  /\ LengthInv
  /\ UpdateInv
  /\ AccessInv
  /\ ReadoutInv
  /\ GrowthInv
  /\ SignalInv

\* Chunks of n blocks follow each other.
LEMMA ChunksInOrder ==
  ASSUME NEW n \in Nat, NEW f \in Nat, NEW g \in Nat, f <= g
  PROVE  f * n \in Nat /\ g * n \in Nat /\ f * n <= g * n
         /\ (f - 1) * n = f * n - n
<1>1. f * n \in Nat /\ (g - f) * n \in Nat /\ g * n = f * n + (g - f) * n
  OBVIOUS
<1> QED BY <1>1

-----------------------------------------------------------------------------
(***************************************************************************)
(* Batches, sub-batches and chunks.                                         *)
(***************************************************************************)

\* How a batch divides.
LEMMA BatchSizes ==
  ASSUME setup \in Setups
  PROVE  /\ setup.batch_capacity \in Nat \ {0} /\ f_count \in Nat \ {0} /\ sub_n \in Nat
         /\ f_count * sub_n <= setup.batch_capacity
         /\ \A f \in Frontend : f \in Nat \ {0} /\ f <= f_count
         /\ 1 \in Frontend /\ 0 \in Shard /\ setup.max_blocks \in Nat
<1>1. setup \in Setup
  BY SetupAssumption
<1>2. setup.batch_capacity \in Nat \ {0} /\ setup.frontend_count \in Nat /\ setup.max_blocks \in Nat
  BY <1>1 DEF Setup
<1>3. f_count \in Nat \ {0}
  BY <1>2, MaxOfTwo DEF f_count
<1>4. sub_n \in Nat /\ f_count * sub_n <= setup.batch_capacity
  <2> DEFINE c == setup.batch_capacity
             a == f_count
  <2>1. c \in Nat /\ a \in Nat \ {0}
    BY <1>2, <1>3
  <2> HIDE DEF c, a
  <2>2. c \div a \in Nat /\ c % a \in Nat /\ c = a * (c \div a) + (c % a)
    BY <2>1, Division
  <2>3. a * (c \div a) \in Nat
    BY <2>1, <2>2
  <2>4. a * (c \div a) <= c
    BY <2>2, <2>3
  <2> QED BY <2>2, <2>4 DEF sub_n, c, a
<1> QED BY <1>2, <1>3, <1>4, SizeAssumption DEF Frontend, Shard

\* Block is the updates of a key or a dummy.
LEMMA BlockParts ==
  ASSUME NEW b \in Block
  PROVE  /\ b.value \in SUBSET Update /\ b.key \in Key \cup {NoKey}
         /\ (b = Dummy <=> b.key = NoKey) /\ (b = Dummy => b.value = {})
BY KeyAssumption DEF Block, Dummy

\* The sequence a flush begins with: the blocks, then dummies to fill a batch.
LEMMA FlushBegins ==
  ASSUME setup \in Setups, NEW blocks \in Seq(Block), begin_flush(blocks)
  PROVE  /\ pending' \in Seq(Block) /\ Len(pending') >= Len(blocks)
         /\ \A i \in 1..Len(blocks) : pending'[i] = blocks[i]
         /\ \A i \in 1..Len(pending') : i > Len(blocks) => pending'[i] = Dummy
         /\ \/ blocks = <<>> /\ pending' = <<>> /\ stage' = "routed"
            \/ /\ blocks # <<>> /\ stage' = "route"
               /\ Len(pending') = IF Len(blocks) >= setup.batch_capacity
                                    THEN Len(blocks) ELSE setup.batch_capacity
<1>1. CASE blocks = <<>> /\ pending' = blocks /\ stage' = "routed"
  BY <1>1
<1>2. CASE blocks # <<>> /\ pending' = padded(blocks) /\ stage' = "route"
  <2> DEFINE c == setup.batch_capacity
             m == IF Len(blocks) >= c THEN Len(blocks) ELSE c
  <2>1. c \in Nat /\ Len(blocks) \in Nat
    BY BatchSizes
  <2>2. Max({Len(blocks), c}) = m
    BY <2>1, MaxOfTwo
  <2>3. pending' = [i \in 1..m |-> IF i <= Len(blocks) THEN blocks[i] ELSE Dummy]
    BY <1>2, <2>2 DEF padded
  <2>4. Dummy \in Block
    BY DEF Block
  <2>5. m \in Nat /\ m >= Len(blocks)
    BY <2>1
  <2>6. pending' \in Seq(Block) /\ Len(pending') = m
    <3> HIDE DEF m
    <3>1. \A i \in 1..m : (IF i <= Len(blocks) THEN blocks[i] ELSE Dummy) \in Block
      BY <2>1, <2>4, <2>5
    <3> QED BY <2>3, <2>5, <3>1
  <2> QED BY <1>2, <2>1, <2>3, <2>5, <2>6
<1> QED BY <1>1, <1>2 DEF begin_flush

\* The places of the f-th chunk in the batch.
places(f) == ((f - 1) * sub_n + 1)..(f * sub_n)

\* They lie in the batch, and a sub-batch is what stands there.
LEMMA SubBatch ==
  ASSUME TypeOK, Len(pending) >= setup.batch_capacity, NEW f \in Frontend
  PROVE  /\ sub_batch(f) \in Seq(Block) /\ Len(sub_batch(f)) = sub_n
         /\ places(f) \subseteq DOMAIN pending
         /\ \A j \in 1..sub_n : /\ (f - 1) * sub_n + j \in places(f)
                                /\ sub_batch(f)[j] = pending[(f - 1) * sub_n + j]
         /\ \A i \in places(f) : \E j \in 1..sub_n : i = (f - 1) * sub_n + j
<1> DEFINE m == (f - 1) * sub_n
<1>1. /\ f * sub_n \in Nat /\ m = f * sub_n - sub_n /\ m \in Nat /\ sub_n \in Nat
      /\ f * sub_n <= Len(pending)
  <2>1. setup \in Setups /\ f \in Nat \ {0} /\ f_count \in Nat /\ f <= f_count /\ sub_n \in Nat
    BY BatchSizes DEF TypeOK
  <2>2. f * sub_n \in Nat /\ f_count * sub_n \in Nat /\ f * sub_n <= f_count * sub_n
        /\ m = f * sub_n - sub_n
    BY <2>1, ChunksInOrder
  <2>3. m \in Nat
    <3>1. f - 1 \in Nat
      BY <2>1
    <3> QED BY <2>1, <3>1
  <2>4. /\ setup.batch_capacity \in Nat /\ f_count * sub_n <= setup.batch_capacity
        /\ Len(pending) \in Nat
    BY BatchSizes DEF TypeOK
  <2>5. f * sub_n <= Len(pending)
    <3> DEFINE x == f * sub_n
               y == f_count * sub_n
    <3> HIDE DEF x, y
    <3>1. x <= y /\ x \in Nat /\ y \in Nat /\ y <= setup.batch_capacity
      BY <2>2, <2>4 DEF x, y
    <3> QED BY <3>1, <2>4 DEF x
  <2> QED BY <2>1, <2>2, <2>3, <2>5
<1>2. pending \in Seq(Block) /\ Len(pending) \in Nat /\ DOMAIN pending = 1..Len(pending)
  BY DEF TypeOK
<1>3. places(f) = (m + 1)..(f * sub_n) /\ sub_batch(f) = SubSeq(pending, m + 1, f * sub_n)
  BY DEF places, sub_batch
<1> HIDE DEF m
<1> DEFINE e == f * sub_n
<1>4. e \in Nat /\ m = e - sub_n /\ m \in Nat /\ sub_n \in Nat /\ e <= Len(pending)
      /\ places(f) = (m + 1)..e /\ sub_batch(f) = SubSeq(pending, m + 1, e)
  BY <1>1, <1>3
<1> HIDE DEF e
<1>5. \A i \in (m + 1)..e : pending[i] \in Block
  BY <1>2, <1>4
<1>6. /\ sub_batch(f) \in Seq(Block)
      /\ Len(sub_batch(f)) = IF m + 1 <= e THEN e - (m + 1) + 1 ELSE 0
      /\ \A j \in 1..(e - (m + 1) + 1) : sub_batch(f)[j] = pending[(m + 1) + j - 1]
  BY <1>4, <1>5, SubSeqProperties
<1>7. /\ Len(sub_batch(f)) = sub_n
      /\ \A j \in 1..sub_n : m + j \in places(f) /\ sub_batch(f)[j] = pending[m + j]
  <2>1. /\ Len(sub_batch(f)) = sub_n
        /\ \A j \in 1..sub_n : j \in 1..(e - (m + 1) + 1) /\ (m + 1) + j - 1 = m + j
    BY <1>4, <1>6
  <2>2. \A j \in 1..sub_n : m + j \in (m + 1)..e
    BY <1>4
  <2> QED BY <1>4, <1>6, <2>1, <2>2
<1>8. \A i \in places(f) : i - m \in 1..sub_n /\ i = m + (i - m)
  BY <1>4
<1>9. places(f) \subseteq DOMAIN pending
  BY <1>2, <1>4
<1> QED BY <1>6, <1>7, <1>8, <1>9 DEF m

\* What a frontend routes to shard s: the updates in its places of the batch whose
\* keys are the shard's, one block for each key.
LEMMA RoutedBlocks ==
  ASSUME TypeOK, Len(pending) >= setup.batch_capacity, NEW f \in Frontend, NEW s \in Shard
  PROVE  LET chunk == routed_blocks(f)[s]
         IN /\ chunk \in SUBSET Block
            /\ \A b \in chunk :
                 /\ b.key \in Key /\ shard_of[b.key] = s
                 /\ \A u \in b.value : \E i \in places(f) : pending[i].key = b.key /\ u \in pending[i].value
            /\ \A i \in places(f) : pending[i].key # NoKey /\ shard_of[pending[i].key] = s =>
                 \E b \in chunk : b.key = pending[i].key /\ pending[i].value \subseteq b.value
<1> DEFINE blocks == sub_batch(f)
           chunk == routed_blocks(f)[s]
           keys == {blocks[i].key : i \in DOMAIN blocks} \ {NoKey}
           of(k) == UNION {blocks[i].value : i \in {j \in DOMAIN blocks : blocks[j].key = k}}
<1>1. chunk = {b \in reduced(blocks) : shard_of[b.key] = s}
  BY DEF routed_blocks, shard_blocks
<1>2. reduced(blocks) = {[key |-> k, value |-> of(k)] : k \in keys}
  BY DEF reduced
<1>3. /\ DOMAIN blocks = 1..sub_n /\ \A j \in DOMAIN blocks : blocks[j] \in Block
      /\ \A j \in 1..sub_n : \E i \in places(f) : blocks[j] = pending[i]
      /\ \A i \in places(f) : \E j \in 1..sub_n : blocks[j] = pending[i]
  <2>1. blocks \in Seq(Block) /\ Len(blocks) = sub_n
    BY SubBatch
  <2>2. DOMAIN blocks = 1..sub_n /\ \A j \in DOMAIN blocks : blocks[j] \in Block
    <3> HIDE DEF blocks
    <3> QED BY <2>1
  <2> QED BY <2>1, <2>2, SubBatch
<1> HIDE DEF blocks
<1>4. \A k \in keys : k \in Key /\ of(k) \in SUBSET Update
  BY <1>3, BlockParts
<1>5. \A b \in chunk : \E k \in keys : b = [key |-> k, value |-> of(k)] /\ shard_of[k] = s
  BY <1>1, <1>2
<1>6. \A k \in keys : shard_of[k] = s => [key |-> k, value |-> of(k)] \in chunk
  BY <1>1, <1>2
<1>7. \A k : \A u \in of(k) : \E i \in places(f) : pending[i].key = k /\ u \in pending[i].value
  BY <1>3
<1>8. \A i \in places(f) : pending[i].key # NoKey =>
        pending[i].key \in keys /\ pending[i].value \subseteq of(pending[i].key)
  BY <1>3
<1> HIDE DEF chunk, keys, of
<1>9. chunk \in SUBSET Block
  BY <1>4, <1>5 DEF Block
<1>10. ASSUME NEW b \in chunk
       PROVE  /\ b.key \in Key /\ shard_of[b.key] = s
              /\ \A u \in b.value :
                   \E i \in places(f) : pending[i].key = b.key /\ u \in pending[i].value
  BY <1>4, <1>5, <1>7
<1>11. ASSUME NEW i \in places(f), pending[i].key # NoKey, shard_of[pending[i].key] = s
       PROVE  \E b \in chunk : b.key = pending[i].key /\ pending[i].value \subseteq b.value
  BY <1>6, <1>8, <1>11
<1> QED BY <1>9, <1>10, <1>11 DEF chunk
-----------------------------------------------------------------------------
(***************************************************************************)
(* Types.                                                                   *)
(***************************************************************************)

\* Setup and routing never change, nor what is derived from the setup.
LEMMA Fixed ==
  ASSUME Next
  PROVE  /\ setup' = setup /\ shard_of' = shard_of /\ ended = "no"
         /\ f_count' = f_count /\ Frontend' = Frontend /\ sub_n' = sub_n /\ sub_quota' = sub_quota
         /\ idle_frontends' = idle_frontends
<1>1. setup' = setup /\ shard_of' = shard_of /\ ended = "no"
  <2> USE DEF made, begin
  <2>1. CASE Continue
    BY <2>1 DEF Continue, ProcessSubBatch, Unwind, ProcessBatchChunk, Drain, RouterReturns,
       HandleDeferredResize, GrowShard, GrowPastMaxHeight, FinishGrow, ReadShard, Readout, EmitShard, Next
  <2>2. CASE InboxOverflow \/ ShardPanics
    BY <2>2 DEF InboxOverflow, ShardPanics, Next
  <2>3. CASE Call
    BY <2>3 DEF Call, AppendOne, IncrementBlocks, RouterFlush, Flush, ReadTotal, BeginReadout,
       Grow, EnableAutoResize, Drop, Next
  <2> QED BY <2>1, <2>2, <2>3 DEF Next
<1>2. f_count' = f_count
  BY <1>1 DEF f_count
<1>3. Frontend' = Frontend /\ sub_n' = sub_n /\ sub_quota' = sub_quota
  BY <1>1, <1>2 DEF Frontend, sub_n, sub_quota
<1> QED BY <1>1, <1>2, <1>3 DEF idle_frontends, NotRouted

\* A read, a consuming readout visits a shard it has still to visit.
LEMMA FirstUnread ==
  ASSUME unread \subseteq Shard, unread # {}
  PROVE  Min(unread) \in unread
<1>1. Shard \subseteq Nat
  BY SizeAssumption DEF Shard
<1> QED BY <1>1, MinOfNat

\* Epochs do not fall.
LEMMA EpochAdvances ==
  ASSUME NEW n \in 0..255
  PROVE  /\ next_epoch(n) \in 0..255 /\ n <= next_epoch(n)
         /\ \A m \in 0..255 : m <= n => next_epoch(m) <= next_epoch(n)
<1>1. ASSUME NEW m \in 0..255
      PROVE  next_epoch(m) = IF m + 1 <= 255 THEN m + 1 ELSE 255
  <2>1. m + 1 \in Int /\ 255 \in Int
    OBVIOUS
  <2> QED BY <2>1, MinOfTwo DEF next_epoch
<1>2. next_epoch(n) \in 0..255 /\ n <= next_epoch(n)
  BY <1>1
<1>3. ASSUME NEW m \in 0..255, m <= n PROVE next_epoch(m) <= next_epoch(n)
  <2>1. /\ next_epoch(m) = IF m + 1 <= 255 THEN m + 1 ELSE 255
        /\ next_epoch(n) = IF n + 1 <= 255 THEN n + 1 ELSE 255
    BY <1>1
  <2> QED BY <1>3, <2>1
<1> QED BY <1>2, <1>3

\* What is pending are blocks, in order.
LEMMA PendingBlocks ==
  ASSUME TypeOK
  PROVE  /\ pending \in Seq(Block) /\ setup \in Setups
         /\ DOMAIN pending \subseteq Nat /\ \A i \in DOMAIN pending : pending[i] \in Block
<1>1. pending \in Seq(Block) /\ setup \in Setups
  BY DEF TypeOK
<1> QED BY <1>1

\* Blocks of a call: each fresh update has its own number.
LEMMA NewBlockType ==
  ASSUME NEW key \in Key \cup {NoKey}, NEW amount \in Amount, NEW number \in Nat
  PROVE  new_block(key, amount, number) \in Block
BY DEF new_block, Block, Update, Dummy

\* What a flush or an append leaves pending is well typed.
LEMMA BufferType ==
  ASSUME TypeOK, NEW blocks \in Seq(Block), buffer(blocks)
  PROVE  pending' \in Seq(Block) /\ issued' \in Nat /\ stage' \in {"route", "routed", stage}
<1>1. pending \o blocks \in Seq(Block) /\ issued + Len(blocks) \in Nat /\ setup \in Setups
  BY DEF TypeOK
<1>2. CASE begin_flush(pending \o blocks)
  BY <1>1, <1>2, FlushBegins DEF buffer
<1>3. CASE pending' = pending \o blocks /\ UNCHANGED stage
  BY <1>1, <1>3 DEF buffer
<1> QED BY <1>2, <1>3 DEF buffer

\* The blocks increment_blocks is called with.
LEMMA IncrementedBlocks ==
  ASSUME TypeOK, NEW n \in Nat, NEW keys \in [1..n -> Key \cup {NoKey}], NEW amount \in Amount
  PROVE  LET blocks == [i \in DOMAIN keys |-> new_block(keys[i], amount, issued + i)]
         IN blocks \in Seq(Block) /\ Len(blocks) = n /\ DOMAIN blocks = 1..n
<1>1. \A i \in 1..n : new_block(keys[i], amount, issued + i) \in Block
  <2>1. \A i \in 1..n : issued + i \in Nat
    BY DEF TypeOK
  <2> QED BY <2>1, NewBlockType
<1> QED BY <1>1

\* Every step keeps the types.
LEMMA TypeNext == IInv /\ Next => TypeOK'
<1> SUFFICES ASSUME IInv, Next PROVE TypeOK'
  OBVIOUS
<1> USE DEF made, trees, flushing, outputs, estimator, visits, control
<1>t. TypeOK /\ setup \in Setups
  BY DEF IInv, TypeOK
<1>f. /\ setup' = setup /\ shard_of' = shard_of /\ f_count' = f_count /\ Frontend' = Frontend
      /\ idle_frontends' = idle_frontends
  BY Fixed
<1>r. /\ idle_frontends \in [Frontend -> [state : {"todo", "done", "panicked"},
                                         blocks : [Shard -> SUBSET Block]]]
      /\ [s \in Shard |-> 1] \in [Shard -> 1..(f_count + 1)]
  BY <1>t, BatchSizes DEF idle_frontends, NotRouted
<1>1. ASSUME NEW f \in Frontend, ProcessSubBatch(f) PROVE TypeOK'
  <2>1. stage = "route" /\ Len(pending) >= setup.batch_capacity
    BY <1>1 DEF ProcessSubBatch, IInv, LengthInv
  <2>2. routed_blocks(f) \in [Shard -> SUBSET Block]
    <3>1. \A s \in Shard : routed_blocks(f)[s] \in SUBSET Block
      BY <1>t, <2>1, RoutedBlocks
    <3> QED BY <3>1 DEF routed_blocks, shard_blocks
  <2>3. frontends' \in [Frontend -> [state : {"todo", "done", "panicked"},
                                    blocks : [Shard -> SUBSET Block]]]
    <3> DEFINE new == IF over_quota(routed_blocks(f)) THEN [NotRouted EXCEPT !.state = "panicked"]
                      ELSE [state |-> "done", blocks |-> routed_blocks(f)]
    <3>1. frontends' = [frontends EXCEPT ![f] = new]
      BY <1>1 DEF ProcessSubBatch, routed_blocks
    <3>2. new \in [state : {"todo", "done", "panicked"}, blocks : [Shard -> SUBSET Block]]
      BY <2>2 DEF NotRouted
    <3> HIDE DEF new
    <3> QED BY <1>t, <3>1, <3>2 DEF TypeOK
  <2> QED BY <1>t, <1>f, <1>1, <2>3 DEF ProcessSubBatch, TypeOK
<1>2. CASE Unwind
  <2>1. call' \in [op : Calls, key : Key \cup {NoKey}]
    BY <1>t, <1>2 DEF Unwind, TypeOK, Calls
  <2> QED BY <1>t, <1>f, <1>r, <1>2, <2>1 DEF Unwind, TypeOK, Stages
<1>3. ASSUME NEW s \in Shard, ProcessBatchChunk(s) PROVE TypeOK'
  <2> DEFINE f == next_chunk[s]
             chunk == frontends[f].blocks[s]
  <2>1. f \in Frontend /\ frontends[f] \in [state : {"todo", "done", "panicked"}, blocks : [Shard -> SUBSET Block]]
    BY <1>t, <1>3 DEF ProcessBatchChunk, TypeOK
  <2>2. chunk \in SUBSET Block
    BY <2>1
  <2>3. inserted(held[s], chunk) \in [Key -> SUBSET Update]
    <3> HIDE DEF chunk
    <3>1. \A c \in chunk : c.value \in SUBSET Update
      BY <2>2, BlockParts
    <3>2. held[s] \in [Key -> SUBSET Update]
      BY <1>t DEF TypeOK
    <3> QED BY <3>1, <3>2 DEF inserted
  <2>4. held' \in [Shard -> [Key -> SUBSET Update]]
    BY <1>t, <1>3, <2>3 DEF ProcessBatchChunk, TypeOK
  <2>5. next_chunk' \in [Shard -> 1..(f_count + 1)]
    <3>1. f + 1 \in 1..(f_count + 1)
      BY <1>t, <2>1, BatchSizes DEF Frontend
    <3> QED BY <1>t, <1>3, <3>1 DEF ProcessBatchChunk, TypeOK
  <2>6. accesses' \in [Shard -> Nat]
    BY <1>t, <1>3 DEF ProcessBatchChunk, TypeOK
  <2>7. grow_signal' \in BOOLEAN
    BY <1>t, <1>3, Zenon DEF ProcessBatchChunk, TypeOK
  <2> HIDE DEF f, chunk
  <2> QED BY <1>t, <1>f, <1>3, <2>4, <2>5, <2>6, <2>7 DEF ProcessBatchChunk, TypeOK
<1>4. CASE Drain
  <2>1. drained \in Seq(Block)
    <3>1. pending \in Seq(Block) /\ setup.batch_capacity \in Nat /\ Len(pending) \in Nat
      BY <1>t, BatchSizes DEF TypeOK
    <3>2. \A i \in (setup.batch_capacity + 1)..Len(pending) : pending[i] \in Block
      BY <3>1, ElementOfSeq
    <3> QED BY <3>1, <3>2, SubSeqProperties DEF drained
  <2> QED BY <1>t, <1>f, <1>r, <1>4, <2>1 DEF Drain, TypeOK, Stages
<1>5. CASE RouterReturns
  <2>1. pending \in Seq(Block)
    BY <1>t DEF TypeOK
  <2>2. pending' \in Seq(Block) /\ stage' \in Stages /\ accesses' \in [Shard -> Nat]
    <3>1. CASE begin_flush(pending) /\ accesses' = [s \in Shard |-> 0]
      BY <1>t, <2>1, <3>1, FlushBegins DEF Stages
    <3>2. CASE stage' = "idle" /\ UNCHANGED <<pending, accesses>>
      BY <1>t, <3>2 DEF TypeOK, Stages
    <3> QED BY <1>5, <3>1, <3>2 DEF RouterReturns
  <2> QED BY <1>t, <1>f, <1>5, <2>2 DEF RouterReturns, TypeOK
<1>6. CASE HandleDeferredResize
  BY <1>t, <1>f, <1>6 DEF HandleDeferredResize, TypeOK, Stages, shards_to_grow, after_flush
<1>7. ASSUME NEW s \in Shard, GrowShard(s) PROVE TypeOK'
  <2>1. height' \in [Shard -> 1..MAX_TREE_HEIGHT]
    <3>1. height[s] + 1 \in 1..MAX_TREE_HEIGHT
      BY <1>t, <1>7, HeightAssumption DEF GrowShard, TypeOK
    <3> QED BY <1>t, <1>7, <3>1 DEF GrowShard, TypeOK
  <2>2. shard_epoch' \in [Shard -> 0..255]
    <3>1. shard_epoch[s] \in 0..255
      BY <1>t DEF TypeOK
    <3>2. next_epoch(shard_epoch[s]) \in 0..255
      BY <3>1, EpochAdvances
    <3> QED BY <1>t, <1>7, <3>2 DEF GrowShard, TypeOK, next_epoch
  <2> QED BY <1>t, <1>f, <1>7, <2>1, <2>2 DEF GrowShard, TypeOK
<1>8. ASSUME NEW s \in Shard, GrowPastMaxHeight(s) PROVE TypeOK'
  BY <1>t, <1>f, <1>8 DEF GrowPastMaxHeight, TypeOK, Endings
<1>9. CASE FinishGrow
  <2>1. capacity' \in Nat /\ stage' \in Stages
    BY <1>t, <1>9 DEF FinishGrow, TypeOK, Stages, after_flush
  <2> QED BY <1>t, <1>f, <1>9, <2>1 DEF FinishGrow, TypeOK
<1>10. CASE ReadShard
  <2> DEFINE s == Min(unread)
  <2>1. s \in unread /\ s \in Shard /\ call.key \in Key
    BY <1>t, <1>10, FirstUnread, Fixed DEF ReadShard, TypeOK, IInv, ReadoutInv, StageInv
  <2>2. result' \in SUBSET Update /\ held' \in [Shard -> [Key -> SUBSET Update]]
    <3>1. held[s] \in [Key -> SUBSET Update]
      BY <1>t, <2>1 DEF TypeOK
    <3>2. [held[s] EXCEPT ![call.key] = {}] \in [Key -> SUBSET Update]
      BY <3>1
    <3>3. held[s][call.key] \in SUBSET Update
      BY <2>1, <3>1
    <3>4. held' = held \/ held' = [held EXCEPT ![s] = [held[s] EXCEPT ![call.key] = {}]]
      BY <1>10 DEF ReadShard
    <3>5. held' \in [Shard -> [Key -> SUBSET Update]]
      BY <1>t, <2>1, <3>2, <3>4 DEF TypeOK
    <3>6. result' = result \/ result' = held[s][call.key]
      BY <1>10, <2>1 DEF ReadShard
    <3> QED BY <1>t, <3>3, <3>5, <3>6 DEF TypeOK
  <2>3. accesses' \in [Shard -> Nat] /\ unread' \subseteq Shard /\ stage' \in Stages
    BY <1>t, <1>10, <2>1 DEF ReadShard, TypeOK, Stages
  <2> HIDE DEF s
  <2> QED BY <1>t, <1>f, <1>10, <2>2, <2>3 DEF ReadShard, TypeOK
<1>11. CASE Readout
  <2>1. read_out' \in [Key -> SUBSET Update]
    <3>1. \A k \in Key : UNION {held[s][k] : s \in Shard} \in SUBSET Update
      BY <1>t DEF TypeOK
    <3> QED BY <1>11, <3>1 DEF Readout
  <2> QED BY <1>t, <1>f, <1>11, <2>1 DEF Readout, TypeOK, Stages
<1>12. CASE EmitShard
  <2>1. Min(unread) \in Shard
    BY <1>t, <1>12, FirstUnread, Fixed DEF EmitShard, TypeOK, IInv, ReadoutInv
  <2>2. read_out' \in [Key -> SUBSET Update]
    <3>1. \A k \in Key : read_out[k] \cup held[Min(unread)][k] \in SUBSET Update
      BY <1>t, <2>1 DEF TypeOK
    <3> QED BY <1>12, <3>1 DEF EmitShard
  <2> QED BY <1>t, <1>f, <1>12, <2>1, <2>2 DEF EmitShard, TypeOK, Endings
<1>13. CASE InboxOverflow \/ ShardPanics
  <2>1. CASE InboxOverflow
    BY <1>t, <1>f, <2>1 DEF InboxOverflow, TypeOK, Endings
  <2>2. CASE ShardPanics
    BY <1>t, <1>f, <2>2 DEF ShardPanics, TypeOK, Endings
  <2> QED BY <1>13, <2>1, <2>2
<1>14. ASSUME NEW key \in Key, NEW amount \in Amount, AppendOne(key, amount) PROVE TypeOK'
  <2>1. <<new_block(key, amount, issued + 1)>> \in Seq(Block)
    BY <1>t, NewBlockType DEF TypeOK
  <2>2. pending' \in Seq(Block) /\ issued' \in Nat /\ stage' \in {"route", "routed", stage}
    BY <1>t, <1>14, <2>1, BufferType DEF AppendOne
  <2> QED BY <1>t, <1>f, <1>14, <2>2 DEF AppendOne, begin, TypeOK, Stages, Calls
<1>15. ASSUME NEW n \in 1..setup.max_blocks, NEW keys \in [1..n -> Key \cup {NoKey}],
              NEW amount \in Amount, IncrementBlocks(keys, amount)
       PROVE  TypeOK'
  <2>1. [i \in DOMAIN keys |-> new_block(keys[i], amount, issued + i)] \in Seq(Block)
    <3>1. n \in Nat
      BY <1>t, BatchSizes
    <3> DEFINE blocks == [i \in DOMAIN keys |-> new_block(keys[i], amount, issued + i)]
    <3>2. blocks \in Seq(Block) /\ Len(blocks) = n /\ DOMAIN blocks = 1..n
      BY <1>t, <3>1, IncrementedBlocks, Zenon
    <3> QED BY <3>2
  <2>2. pending' \in Seq(Block) /\ issued' \in Nat /\ stage' \in {"route", "routed", stage}
    BY <1>t, <1>15, <2>1, BufferType DEF IncrementBlocks
  <2> QED BY <1>t, <1>f, <1>15, <2>2 DEF IncrementBlocks, begin, TypeOK, Stages, Calls
<1>16. CASE RouterFlush \/ Flush
  <2>1. pending' \in Seq(Block) /\ stage' \in Stages
    BY <1>t, <1>16, FlushBegins DEF RouterFlush, Flush, TypeOK, Stages
  <2>2. PICK op \in {"router_flush", "flush"} : begin(op, NoKey)
    BY <1>16 DEF RouterFlush, Flush
  <2>3. UNCHANGED <<trees, estimator, unread, issued>>
    BY <1>16 DEF RouterFlush, Flush
  <2> QED BY <1>t, <1>f, <2>1, <2>2, <2>3 DEF begin, TypeOK, Calls
<1>17. ASSUME NEW key \in Key, ReadTotal(key) PROVE TypeOK'
  <2>1. pending' \in Seq(Block) /\ stage' \in Stages
    BY <1>t, <1>17, FlushBegins DEF ReadTotal, TypeOK, Stages
  <2> QED BY <1>t, <1>f, <1>17, <2>1 DEF ReadTotal, begin, shards_read, TypeOK, Calls
<1>18. ASSUME NEW op \in {"readout", "into_readout"}, BeginReadout(op) PROVE TypeOK'
  <2>1. pending' \in Seq(Block) /\ stage' \in Stages
    BY <1>t, <1>18, FlushBegins DEF BeginReadout, TypeOK, Stages
  <2> QED BY <1>t, <1>f, <1>18, <2>1 DEF BeginReadout, begin, TypeOK, Calls
<1>19. CASE Grow
  <2>1. epoch' \in 0..255
    <3>1. epoch \in 0..255
      BY <1>t DEF TypeOK
    <3> QED BY <1>19, <3>1, EpochAdvances DEF Grow, next_epoch
  <2> QED BY <1>t, <1>f, <1>19, <2>1 DEF Grow, begin, TypeOK, Stages, Calls
<1>20. CASE EnableAutoResize
  BY <1>t, <1>f, <1>20 DEF EnableAutoResize, begin, TypeOK, Calls
<1>21. CASE Drop
  BY <1>t, <1>f, <1>21 DEF Drop, TypeOK, Endings
<1> QED BY <1>1, <1>2, <1>3, <1>4, <1>5, <1>6, <1>7, <1>8, <1>9, <1>10, <1>11, <1>12, <1>13, <1>14,
           <1>15, <1>16, <1>17, <1>18, <1>19, <1>20, <1>21 DEF Next, Continue, Call
-----------------------------------------------------------------------------
(***************************************************************************)
(* The parts of the invariant, step by step.                                *)
(***************************************************************************)

\* New blocks' updates are numbered on from those appended before.
numbered(blocks) == \A j \in DOMAIN blocks : \A u \in blocks[j].value : u[1] = issued + j

\* A call that begins flushes what is pending and its new blocks, buffers them, or
\* leaves what is pending alone.
LEMMA CallOutline ==
  ASSUME IInv, Call, ~Drop
  PROVE  /\ Idle /\ UNCHANGED <<made, flushing, held, caught, ended>>
         /\ read_out' = [k \in Key |-> {}] /\ accesses' = [s \in Shard |-> 0]
         /\ \/ call'.op \in FlushOps \cup RouterOps /\ begin_flush(pending) /\ issued' = issued
            \/ /\ call'.op \in {"append", "increment_blocks"}
               /\ \E blocks \in Seq(Block) :
                    /\ buffer(blocks) /\ blocks # <<>> /\ numbered(blocks)
                    /\ call'.op = "append" => Len(blocks) = 1
            \/ /\ call'.op \in {"grow", "enable_auto_resize"}
               /\ UNCHANGED <<pending, issued>>
         /\ call'.op \in RouterOps => setup.direct_router
         /\ call'.op = "read_total" => call'.key \in Key
         /\ call'.op \in ServingOps => unread' = Shard
         /\ \/ call'.op = "grow" /\ growing' = Shard /\ stage' = "grow"
               /\ epoch' = next_epoch(epoch) /\ UNCHANGED <<height, shard_epoch, capacity>>
            \/ call'.op = "enable_auto_resize" /\ UNCHANGED <<stage, trees>>
            \/ call'.op \notin {"grow", "enable_auto_resize"} /\ UNCHANGED trees
         /\ \/ call'.op = "enable_auto_resize" /\ auto_resize' = TRUE /\ grow_signal' = FALSE
            \/ UNCHANGED estimator
<1> USE DEF made, trees, flushing, estimator, FlushOps, RouterOps, ServingOps, begin
<1>1. ASSUME NEW key \in Key, NEW amount \in Amount, AppendOne(key, amount)
      PROVE  \E blocks \in Seq(Block) :
               buffer(blocks) /\ blocks # <<>> /\ numbered(blocks) /\ Len(blocks) = 1
  <2>1. <<new_block(key, amount, issued + 1)>> \in Seq(Block)
    BY NewBlockType DEF IInv, TypeOK
  <2>2. numbered(<<new_block(key, amount, issued + 1)>>)
    BY DEF numbered, new_block, Dummy
  <2> QED BY <1>1, <2>1, <2>2 DEF AppendOne
<1>2. ASSUME NEW n \in 1..setup.max_blocks, NEW keys \in [1..n -> Key \cup {NoKey}],
             NEW amount \in Amount, IncrementBlocks(keys, amount)
      PROVE  \E blocks \in Seq(Block) : buffer(blocks) /\ blocks # <<>> /\ numbered(blocks)
  <2> DEFINE blocks == [i \in DOMAIN keys |-> new_block(keys[i], amount, issued + i)]
  <2>1. n \in Nat /\ n >= 1
    BY BatchSizes DEF IInv, TypeOK
  <2>2. blocks \in Seq(Block) /\ Len(blocks) = n
    BY <2>1, IncrementedBlocks DEF IInv
  <2>3. buffer(blocks)
    BY <1>2 DEF IncrementBlocks
  <2>4. numbered(blocks)
    BY DEF numbered, new_block, Dummy
  <2> HIDE DEF blocks
  <2> QED BY <2>1, <2>2, <2>3, <2>4
<1>3. ASSUME NEW key \in Key, NEW amount \in Amount, AppendOne(key, amount)
      PROVE  call'.op = "append" /\ Idle /\ UNCHANGED <<made, flushing, held, caught, ended, trees, estimator>>
             /\ read_out' = [k \in Key |-> {}] /\ accesses' = [s \in Shard |-> 0]
  BY <1>3 DEF AppendOne
<1>4. ASSUME NEW n \in 1..setup.max_blocks, NEW keys \in [1..n -> Key \cup {NoKey}],
             NEW amount \in Amount, IncrementBlocks(keys, amount)
      PROVE  call'.op = "increment_blocks" /\ Idle /\ setup.direct_router
             /\ UNCHANGED <<made, flushing, held, caught, ended, trees, estimator>>
             /\ read_out' = [k \in Key |-> {}] /\ accesses' = [s \in Shard |-> 0]
  BY <1>4 DEF IncrementBlocks
<1>5. CASE RouterFlush \/ Flush
  BY <1>5 DEF RouterFlush, Flush
<1>6. ASSUME NEW key \in Key, ReadTotal(key)
      PROVE  /\ Idle /\ UNCHANGED <<made, flushing, held, caught, ended, trees, estimator>>
             /\ read_out' = [k \in Key |-> {}] /\ accesses' = [s \in Shard |-> 0]
             /\ call'.op = "read_total" /\ call'.key \in Key /\ begin_flush(pending) /\ issued' = issued
             /\ unread' = Shard
  BY <1>6 DEF ReadTotal, shards_read
<1>7. ASSUME NEW op \in {"readout", "into_readout"}, BeginReadout(op)
      PROVE  /\ Idle /\ UNCHANGED <<made, flushing, held, caught, ended, trees, estimator>>
             /\ read_out' = [k \in Key |-> {}] /\ accesses' = [s \in Shard |-> 0]
             /\ call'.op = op /\ begin_flush(pending) /\ issued' = issued
             /\ unread' = Shard
  BY <1>7 DEF BeginReadout
<1>8. CASE Grow
  BY <1>8 DEF Grow, next_epoch
<1>9. CASE EnableAutoResize
  BY <1>9 DEF EnableAutoResize
<1>10. CASE \E key \in Key, amount \in Amount : AppendOne(key, amount)
  BY <1>1, <1>3, <1>10
<1>11. CASE \E n \in 1..setup.max_blocks : \E keys \in [1..n -> Key \cup {NoKey}], amount \in Amount :
              IncrementBlocks(keys, amount)
  BY <1>2, <1>4, <1>11
<1>12. CASE \E key \in Key : ReadTotal(key)
  BY <1>6, <1>12
<1>13. CASE \E op \in {"readout", "into_readout"} : BeginReadout(op)
  BY <1>7, <1>13
<1> QED BY <1>5, <1>8, <1>9, <1>10, <1>11, <1>12, <1>13 DEF Call

\* A call's stage after it has begun.
LEMMA CallStage ==
  ASSUME IInv, Call, ~Drop
  PROVE  \/ call'.op \in FlushOps \cup RouterOps /\ stage' \in {"route", "routed"}
         \/ call'.op \in {"append", "increment_blocks", "enable_auto_resize"} /\ stage' = "idle"
         \/ call'.op = "grow" /\ stage' = "grow"
<1>1. Idle
  BY CallOutline
<1>2. CASE call'.op \in FlushOps \cup RouterOps /\ begin_flush(pending)
  BY <1>2 DEF begin_flush
<1>3. CASE call'.op \in {"append", "increment_blocks"} /\ \E blocks \in Seq(Block) : buffer(blocks)
  BY <1>1, <1>3 DEF buffer, begin_flush, Idle, FlushOps, RouterOps
<1> QED BY <1>1, <1>2, <1>3, CallOutline DEF Idle, FlushOps, RouterOps, ServingOps

LEMMA StageNext == IInv /\ Next => StageInv'
<1> SUFFICES ASSUME IInv, Next PROVE StageInv'
  OBVIOUS
<1> USE DEF made, trees, flushing, outputs, estimator, visits, control, FlushOps, RouterOps, ServingOps
<1>i. StageInv /\ TypeOK /\ setup' = setup /\ idle_frontends' = idle_frontends
  BY Fixed DEF IInv
<1> HIDE DEF idle_frontends
<1>1. ASSUME NEW f \in Frontend, ProcessSubBatch(f) PROVE StageInv'
  BY <1>i, <1>1 DEF StageInv, ProcessSubBatch
<1>2. CASE Unwind
  <2>1. call'.op = "unwound"
    BY <1>i, <1>2 DEF Unwind, TypeOK
  <2> QED BY <1>i, <1>2, <2>1 DEF StageInv, Unwind
<1>3. ASSUME NEW s \in Shard, ProcessBatchChunk(s) PROVE StageInv'
  BY <1>i, <1>3 DEF StageInv, ProcessBatchChunk
<1>4. CASE Drain
  BY <1>i, <1>4 DEF StageInv, Drain
<1>5. CASE RouterReturns
  BY <1>i, <1>5 DEF StageInv, RouterReturns, begin_flush
<1>6. CASE HandleDeferredResize
  BY <1>i, <1>6 DEF StageInv, HandleDeferredResize, after_flush
<1>7. ASSUME NEW s \in Shard, GrowShard(s) \/ GrowPastMaxHeight(s) PROVE StageInv'
  BY <1>i, <1>7 DEF StageInv, GrowShard, GrowPastMaxHeight
<1>8. CASE FinishGrow
  BY <1>i, <1>8 DEF StageInv, FinishGrow, after_flush
<1>9. CASE ReadShard
  BY <1>i, <1>9 DEF StageInv, ReadShard
<1>10. CASE Readout \/ EmitShard
  BY <1>i, <1>10 DEF StageInv, Readout, EmitShard
<1>11. CASE InboxOverflow \/ ShardPanics \/ Drop
  BY <1>i, <1>11 DEF StageInv, InboxOverflow, ShardPanics, Drop
<1>12. CASE Call /\ ~Drop
  BY <1>i, <1>12, CallOutline, CallStage DEF StageInv, Idle
<1> QED BY <1>1, <1>2, <1>3, <1>4, <1>5, <1>6, <1>7, <1>8, <1>9, <1>10, <1>11, <1>12
        DEF Next, Continue

LEMMA FrontendNext == IInv /\ Next => FrontendInv'
<1> SUFFICES ASSUME IInv, Next, stage' = "route" PROVE FrontendInv'
  BY DEF FrontendInv
<1> USE DEF made, trees, flushing, outputs, estimator, visits, control
<1>i. /\ FrontendInv /\ StageInv /\ TypeOK /\ setup' = setup /\ shard_of' = shard_of
      /\ Frontend' = Frontend /\ sub_n' = sub_n /\ sub_quota' = sub_quota
  BY Fixed DEF IInv
<1>k. ASSUME pending' = pending, NEW f PROVE routed_blocks(f)' = routed_blocks(f) /\ over_quota(routed_blocks(f))' = over_quota(routed_blocks(f))
  BY <1>i, <1>k DEF routed_blocks, shard_blocks, sub_batch, over_quota
<1>1. ASSUME NEW g \in Frontend, ProcessSubBatch(g) PROVE FrontendInv'
  <2> DEFINE routed == routed_blocks(g)
  <2>1. /\ stage = "route" /\ sub_n > 0 /\ pending' = pending /\ next_chunk' = next_chunk
        /\ frontends[g].state = "todo"
        /\ frontends' = [frontends EXCEPT ![g] = IF over_quota(routed) THEN [NotRouted EXCEPT !.state = "panicked"]
                                            ELSE [state |-> "done", blocks |-> routed]]
    BY <1>1 DEF ProcessSubBatch, routed_blocks
  <2>2. \A s \in Shard : next_chunk[s] = 1
    BY <1>i, <2>1 DEF FrontendInv, all_done
  <2>3. ASSUME NEW f \in Frontend
        PROVE  LET fr == frontends'[f]
               IN /\ fr.state = "done" => fr.blocks = routed_blocks(f) /\ ~over_quota(routed_blocks(f)) /\ sub_n > 0
                  /\ fr.state = "panicked" => over_quota(routed_blocks(f))
    <3>1. CASE f = g
      <4>1. frontends'[f] = IF over_quota(routed) THEN [NotRouted EXCEPT !.state = "panicked"]
                                                ELSE [state |-> "done", blocks |-> routed]
        BY <1>i, <2>1, <3>1 DEF TypeOK
      <4> HIDE DEF routed
      <4>2. over_quota(routed) => frontends'[f].state = "panicked"
        BY <4>1 DEF NotRouted
      <4>3. ~over_quota(routed) => frontends'[f].state = "done" /\ frontends'[f].blocks = routed
        BY <4>1
      <4> QED BY <2>1, <3>1, <4>2, <4>3 DEF routed
    <3>2. CASE f # g
      <4>1. frontends'[f] = frontends[f]
        BY <1>i, <2>1, <3>2 DEF TypeOK
      <4> QED BY <1>i, <2>1, <4>1 DEF FrontendInv
    <3> QED BY <3>1, <3>2
  <2> HIDE DEF routed
  <2>4. \A s \in Shard : next_chunk'[s] = 1
    BY <2>1, <2>2
  <2> QED BY <1>i, <1>k, <2>1, <2>3, <2>4 DEF FrontendInv
<1>2. ASSUME NEW s \in Shard, ProcessBatchChunk(s) PROVE FrontendInv'
  <2>1. stage = "route" /\ pending' = pending /\ frontends' = frontends /\ all_done
    BY <1>2 DEF ProcessBatchChunk, ready, all_done
  <2>2. all_done'
    BY <1>i, <2>1 DEF all_done
  <2> QED BY <1>i, <1>k, <2>1, <2>2 DEF FrontendInv
<1>3. CASE stage = "route" /\ UNCHANGED <<pending, frontends, next_chunk>>
  BY <1>i, <1>k, <1>3 DEF FrontendInv, all_done
<1>4. CASE stage # "route" /\ UNCHANGED <<frontends, next_chunk>>
  <2>1. frontends' = idle_frontends /\ next_chunk' = [s \in Shard |-> 1]
    BY <1>i, <1>4 DEF StageInv
  <2>2. \A f \in Frontend : frontends'[f].state = "todo"
    BY <2>1 DEF idle_frontends, NotRouted
  <2>3. \A s \in Shard : next_chunk'[s] = 1
    BY <2>1
  <2> QED BY <1>i, <2>2, <2>3 DEF FrontendInv
<1>5. CASE Call /\ ~Drop
  BY <1>4, <1>5, CallOutline DEF Idle
<1>6. CASE Unwind \/ Drain
  BY <1>6 DEF Unwind, Drain
<1>7. CASE RouterReturns
  BY <1>4, <1>7 DEF RouterReturns
<1>8. CASE HandleDeferredResize \/ FinishGrow \/ ReadShard \/ Readout \/ EmitShard
  BY <1>4, <1>8 DEF HandleDeferredResize, FinishGrow, ReadShard, Readout, EmitShard
<1>9. ASSUME NEW s \in Shard, GrowShard(s) \/ GrowPastMaxHeight(s) PROVE FrontendInv'
  BY <1>4, <1>9 DEF GrowShard, GrowPastMaxHeight
<1>10. CASE InboxOverflow \/ ShardPanics \/ Drop
  BY <1>3, <1>4, <1>10 DEF InboxOverflow, ShardPanics, Drop, Idle
<1> QED BY <1>1, <1>2, <1>5, <1>6, <1>7, <1>8, <1>9, <1>10 DEF Next, Continue

\* Two sequences that agree up to e have the same parts up to e.
LEMMA SamePart ==
  ASSUME NEW B, NEW p \in Seq(B), NEW q \in Seq(B), NEW m \in Nat, NEW e \in Nat,
         e <= Len(p), e <= Len(q), \A i \in 1..e : p[i] = q[i]
  PROVE  SubSeq(p, m + 1, e) = SubSeq(q, m + 1, e)
<1>1. \A i \in (m + 1)..e : p[i] \in B /\ q[i] \in B
  <2>1. \A i \in (m + 1)..e : i \in 1..Len(p) /\ i \in 1..Len(q)
    OBVIOUS
  <2> QED BY <2>1, ElementOfSeq
<1>2. /\ SubSeq(p, m + 1, e) \in Seq(B)
      /\ Len(SubSeq(p, m + 1, e)) = IF m + 1 <= e THEN e - (m + 1) + 1 ELSE 0
      /\ \A i \in 1..(e - (m + 1) + 1) : SubSeq(p, m + 1, e)[i] = p[(m + 1) + i - 1]
  BY <1>1, SubSeqProperties
<1>3. /\ SubSeq(q, m + 1, e) \in Seq(B)
      /\ Len(SubSeq(q, m + 1, e)) = IF m + 1 <= e THEN e - (m + 1) + 1 ELSE 0
      /\ \A i \in 1..(e - (m + 1) + 1) : SubSeq(q, m + 1, e)[i] = q[(m + 1) + i - 1]
  BY <1>1, SubSeqProperties
<1> DEFINE x == SubSeq(p, m + 1, e)
           y == SubSeq(q, m + 1, e)
           n == IF m + 1 <= e THEN e - (m + 1) + 1 ELSE 0
<1>4. /\ x \in Seq(B) /\ y \in Seq(B) /\ Len(x) = n /\ Len(y) = n
      /\ \A i \in 1..n : x[i] = p[(m + 1) + i - 1] /\ y[i] = q[(m + 1) + i - 1]
  BY <1>2, <1>3
<1>5. \A i \in 1..n : (m + 1) + i - 1 \in 1..e
  OBVIOUS
<1> HIDE DEF x, y, n
<1>6. \A i \in 1..Len(x) : x[i] = y[i]
  BY <1>4, <1>5
<1>7. x = y
  BY <1>4, <1>6, SeqEqual
<1> QED BY <1>7 DEF x, y

\* The same batch is divided, routed and refused in the same way.
LEMMA SameBatch ==
  ASSUME IInv, Next, pending' \in Seq(Block),
         Len(pending) >= setup.batch_capacity, Len(pending') >= setup.batch_capacity,
         \A i \in 1..setup.batch_capacity : pending'[i] = pending[i]
  PROVE  /\ \A f \in Frontend : routed_blocks(f)' = routed_blocks(f)
         /\ refused' = refused
<1>1. /\ setup' = setup /\ shard_of' = shard_of /\ Frontend' = Frontend /\ sub_n' = sub_n
      /\ sub_quota' = sub_quota
  BY Fixed
<1>2. pending \in Seq(Block) /\ TypeOK /\ setup \in Setups
  BY DEF IInv, TypeOK
<1>3. ASSUME NEW f \in Frontend PROVE routed_blocks(f)' = routed_blocks(f)
  <2> DEFINE c == setup.batch_capacity
             m == (f - 1) * sub_n
             e == f * sub_n
  <2>1. /\ f \in Nat \ {0} /\ f <= f_count /\ f_count \in Nat /\ sub_n \in Nat /\ c \in Nat
        /\ f_count * sub_n <= c
    BY <1>2, BatchSizes
  <2>2. e \in Nat /\ f_count * sub_n \in Nat /\ e <= f_count * sub_n
    BY <2>1, ChunksInOrder
  <2>3. m \in Nat
    <3>1. f - 1 \in Nat
      BY <2>1
    <3> QED BY <2>1, <3>1
  <2>4. e <= c
    <3> DEFINE y == f_count * sub_n
    <3> HIDE DEF y, e, c
    <3>1. e \in Nat /\ y \in Nat /\ c \in Nat /\ e <= y /\ y <= c
      BY <2>1, <2>2 DEF y
    <3> QED BY <3>1
  <2> HIDE DEF m, e
  <2>5. SubSeq(pending', m + 1, e) = SubSeq(pending, m + 1, e)
    <3>1. e <= Len(pending) /\ e <= Len(pending') /\ \A i \in 1..e : pending'[i] = pending[i]
      BY <1>2, <2>1, <2>2, <2>4
    <3> QED BY <1>2, <2>2, <2>3, <3>1, SamePart
  <2>6. sub_batch(f)' = sub_batch(f)
    BY <1>1, <2>5 DEF sub_batch, m, e
  <2> QED BY <1>1, <2>6 DEF routed_blocks, shard_blocks
<1> QED BY <1>1, <1>3 DEF refused, over_quota

\* A batch that was refused is not dispatched.
LEMMA RefusedNotDone ==
  ASSUME IInv, stage = "route", all_done
  PROVE  ~refused /\ ~caught
<1>1. 1 \in Frontend
  BY BatchSizes DEF IInv, TypeOK
<1>2. ~refused
  BY <1>1 DEF IInv, FrontendInv, refused, all_done
<1> QED BY <1>2 DEF IInv, LengthInv

LEMMA LengthNext == IInv /\ Next => LengthInv'
<1> SUFFICES ASSUME IInv, Next PROVE LengthInv'
  OBVIOUS
<1> USE DEF made, trees, flushing, outputs, estimator, visits, control
<1>i. /\ LengthInv /\ StageInv /\ TypeOK /\ setup' = setup /\ Frontend' = Frontend /\ sub_n' = sub_n
      /\ pending' \in Seq(Block) /\ pending \in Seq(Block) /\ setup \in Setups
  BY Fixed, TypeNext DEF IInv, TypeOK
<1>n. setup.batch_capacity \in Nat \ {0} /\ Len(pending) \in Nat /\ Len(pending') \in Nat
  BY <1>i, BatchSizes
<1>r. ASSUME caught, \A i \in 1..Len(pending) : pending'[i] = pending[i], Len(pending') >= Len(pending)
      PROVE  Len(pending') >= setup.batch_capacity /\ refused'
  <2>1. Len(pending) >= setup.batch_capacity /\ refused
    BY <1>i, <1>r DEF LengthInv
  <2>2. Len(pending') >= setup.batch_capacity
    BY <1>n, <1>r, <2>1
  <2>3. \A i \in 1..setup.batch_capacity : pending'[i] = pending[i]
    BY <1>n, <1>r, <2>1
  <2> QED BY <1>i, <2>1, <2>2, <2>3, SameBatch
<1>e. ASSUME pending = <<>> PROVE ~caught
  BY <1>i, <1>n, <1>e DEF LengthInv
<1>1. CASE pending' = pending /\ stage' = stage /\ caught' = caught /\ call' = call
  BY <1>i, <1>n, <1>r, <1>1 DEF LengthInv
<1>2. CASE Unwind
  <2>1. stage = "route" /\ stage' = "idle" /\ caught' = TRUE /\ pending' = pending
    BY <1>2 DEF Unwind
  <2>2. refused
    BY <1>2, <2>1 DEF Unwind, refused, IInv, FrontendInv
  <2>3. Len(pending) >= setup.batch_capacity
    BY <1>i, <2>1 DEF LengthInv
  <2>4. refused'
    BY <1>i, <2>1, <2>2, <2>3, SameBatch
  <2> QED BY <1>i, <2>1, <2>3, <2>4 DEF LengthInv
<1>3. CASE Drain
  <2> DEFINE c == setup.batch_capacity
  <2>1. /\ stage = "route" /\ stage' = "routed" /\ pending' = SubSeq(pending, c + 1, Len(pending))
        /\ call' = call /\ caught' = caught
    BY <1>3 DEF Drain, drained
  <2>2. all_done
    <3>1. 0 \in Shard /\ next_chunk[0] = f_count + 1 /\ f_count \in Nat \ {0}
      BY <1>i, <1>3, BatchSizes DEF Drain
    <3> QED BY <2>1, <3>1 DEF IInv, FrontendInv
  <2>3. ~caught
    BY <2>1, <2>2, RefusedNotDone
  <2>4. Len(pending) = c => pending' = <<>>
    BY <1>n, <2>1, SubSeqEmpty
  <2> QED BY <1>i, <2>1, <2>3, <2>4 DEF LengthInv
<1>4. CASE RouterReturns
  <2>1. stage = "routed" /\ call' = call /\ caught' = caught /\ call.op \in RouterOps /\ ~caught
    BY <1>i, <1>4 DEF RouterReturns, RouterOps, LengthInv
  <2>2. CASE begin_flush(pending) /\ call.op = "increment_blocks" /\ Len(pending) >= setup.batch_capacity
    BY <1>i, <1>n, <2>1, <2>2, FlushBegins DEF LengthInv
  <2>3. CASE stage' = "idle" /\ pending' = pending
             /\ ~(call.op = "increment_blocks" /\ Len(pending) >= setup.batch_capacity)
    BY <1>i, <1>n, <2>1, <2>3 DEF LengthInv
  <2> QED BY <1>4, <2>2, <2>3 DEF RouterReturns
<1>5. CASE HandleDeferredResize
  <2>1. /\ stage = "routed" /\ call' = call /\ caught' = caught /\ call.op \notin RouterOps
        /\ pending' = pending /\ stage' \in {"grow", "idle", "serve"}
    BY <1>5 DEF HandleDeferredResize, RouterOps, after_flush
  <2>2. pending' = <<>> /\ ~caught
    BY <1>i, <2>1 DEF LengthInv, RouterOps
  <2>3. Len(pending') < setup'.batch_capacity
    BY <1>i, <1>n, <2>2
  <2> QED BY <2>1, <2>2, <2>3 DEF LengthInv
<1>6. CASE FinishGrow
  <2>1. /\ stage = "grow" /\ call' = call /\ caught' = caught /\ pending' = pending
        /\ stage' \in {"idle", "serve"} /\ (call.op = "grow" => stage' = "idle")
    BY <1>6 DEF FinishGrow, after_flush
  <2>2. CASE call.op = "grow"
    BY <1>i, <1>n, <1>r, <2>1, <2>2 DEF LengthInv
  <2>3. CASE call.op # "grow"
    BY <1>i, <1>n, <2>1, <2>3 DEF LengthInv
  <2> QED BY <2>2, <2>3
<1>7. CASE ReadShard \/ Readout \/ EmitShard
  <2>1. /\ stage = "serve" /\ call' = call /\ caught' = caught /\ pending' = pending
        /\ stage' \in {"idle", "serve"}
    BY <1>7 DEF ReadShard, Readout, EmitShard
  <2>2. pending' = <<>> /\ ~caught
    BY <1>i, <2>1 DEF LengthInv
  <2>3. Len(pending') < setup'.batch_capacity
    BY <1>i, <1>n, <2>2
  <2> QED BY <2>1, <2>2, <2>3 DEF LengthInv
<1>8. CASE Call /\ ~Drop
  <2>1. stage = "idle" /\ caught' = caught
    BY <1>8, CallOutline DEF Idle
  <2>2. CASE call'.op \in FlushOps \cup RouterOps /\ begin_flush(pending)
    <3>1. CASE pending = <<>>
      BY <1>i, <1>n, <1>e, <2>1, <2>2, <3>1, FlushBegins DEF LengthInv
    <3>2. CASE pending # <<>>
      <4>1. /\ stage' = "route" /\ Len(pending') >= Len(pending)
            /\ Len(pending') = IF Len(pending) >= setup.batch_capacity
                                 THEN Len(pending) ELSE setup.batch_capacity
            /\ \A i \in 1..Len(pending) : pending'[i] = pending[i]
        BY <1>i, <2>2, <3>2, FlushBegins
      <4>2. caught => refused' /\ Len(pending') >= setup.batch_capacity
        BY <1>r, <4>1
      <4> QED BY <1>i, <1>n, <2>1, <4>1, <4>2 DEF LengthInv
    <3> QED BY <3>1, <3>2
  <2>3. ASSUME NEW blocks \in Seq(Block), buffer(blocks), blocks # <<>>,
               call'.op \in {"append", "increment_blocks"}, call'.op = "append" => Len(blocks) = 1
        PROVE  LengthInv'
    <3> DEFINE all == pending \o blocks
    <3>1. /\ all \in Seq(Block) /\ Len(all) = Len(pending) + Len(blocks) /\ Len(blocks) \in Nat \ {0}
          /\ \A i \in 1..Len(pending) : all[i] = pending[i]
      BY <1>i, <1>n, <2>3
    <3> HIDE DEF all
    <3>2. CASE Len(all) >= setup.batch_capacity
      <4>1. begin_flush(all) /\ all # <<>>
        BY <1>n, <2>3, <3>1, <3>2 DEF buffer, all
      <4>2. /\ stage' = "route" /\ Len(pending') = Len(all)
            /\ \A i \in 1..Len(all) : pending'[i] = all[i]
        BY <1>i, <3>1, <3>2, <4>1, FlushBegins
      <4>3. Len(pending') >= Len(pending) /\ \A i \in 1..Len(pending) : pending'[i] = pending[i]
        BY <1>n, <3>1, <4>2
      <4>4. caught => refused' /\ Len(pending') >= setup.batch_capacity
        BY <1>r, <4>3
      <4>5. ~caught /\ call'.op # "increment_blocks" => Len(pending') = setup.batch_capacity
        <5>1. ~caught => Len(pending) < setup.batch_capacity
          BY <1>i, <2>1 DEF LengthInv
        <5>2. call'.op # "increment_blocks" => Len(blocks) = 1
          BY <2>3
        <5> DEFINE x == Len(pending)
                   y == Len(pending')
                   c == setup.batch_capacity
        <5>3. y = x + Len(blocks) /\ x \in Nat /\ y \in Nat /\ c \in Nat /\ y >= c /\ Len(blocks) \in Nat
          BY <1>n, <3>1, <3>2, <4>2
        <5> HIDE DEF x, y, c
        <5>4. x < c /\ Len(blocks) = 1 => y = c
          BY <5>3
        <5> QED BY <5>1, <5>2, <5>4 DEF x, y, c
      <4>6. Len(pending') >= setup.batch_capacity
        BY <3>2, <4>2
      <4> QED BY <1>i, <2>1, <4>2, <4>4, <4>5, <4>6 DEF LengthInv
    <3>3. CASE Len(all) < setup.batch_capacity
      <4>1. pending' = all /\ stage' = stage
        BY <1>n, <2>3, <3>1, <3>3 DEF buffer, all
      <4>2. ~caught
        BY <1>i, <1>n, <3>1, <3>3 DEF LengthInv
      <4> QED BY <1>i, <1>n, <2>1, <3>1, <3>3, <4>1, <4>2 DEF LengthInv
    <3> QED BY <1>n, <3>1, <3>2, <3>3
  <2>4. CASE call'.op \in {"grow", "enable_auto_resize"} /\ pending' = pending
    <3>1. stage' \in {"idle", "grow"} /\ (stage' = "grow" => call'.op = "grow")
      BY <1>8, <2>1, <2>4, CallStage DEF FlushOps, RouterOps, ServingOps
    <3>2. caught => refused' /\ Len(pending') >= setup.batch_capacity
      BY <1>n, <1>r, <2>4
    <3> QED BY <1>i, <1>n, <2>1, <2>4, <3>1, <3>2 DEF LengthInv
  <2> QED BY <1>8, <2>2, <2>3, <2>4, CallOutline
<1>9. ASSUME NEW f \in Frontend, ProcessSubBatch(f) PROVE LengthInv'
  BY <1>1, <1>9 DEF ProcessSubBatch
<1>10. ASSUME NEW s \in Shard, ProcessBatchChunk(s) \/ GrowShard(s) \/ GrowPastMaxHeight(s) PROVE LengthInv'
  BY <1>1, <1>10 DEF ProcessBatchChunk, GrowShard, GrowPastMaxHeight
<1>11. CASE InboxOverflow \/ ShardPanics \/ Drop
  BY <1>1, <1>11 DEF InboxOverflow, ShardPanics, Drop
<1> QED BY <1>2, <1>3, <1>4, <1>5, <1>6, <1>7, <1>8, <1>9, <1>10, <1>11 DEF Next, Continue

LEMMA SignalNext == IInv /\ Next => SignalInv'
<1> SUFFICES ASSUME IInv, Next PROVE SignalInv'
  OBVIOUS
<1> USE DEF made, trees, flushing, outputs, estimator, visits, control
<1>i. SignalInv /\ StageInv /\ setup' = setup /\ Frontend' = Frontend
  BY Fixed DEF IInv
<1>1. CASE grow_signal' = grow_signal /\ auto_resize' = auto_resize /\ frontends' = frontends
           /\ (stage' = stage \/ stage \notin {"route", "routed"})
  BY <1>i, <1>1 DEF SignalInv, all_done
<1>2. ASSUME NEW f \in Frontend, ProcessSubBatch(f) PROVE SignalInv'
  <2>1. ~all_done /\ stage = "route" /\ UNCHANGED estimator
    BY <1>2 DEF ProcessSubBatch, all_done
  <2> QED BY <1>i, <2>1 DEF SignalInv
<1>3. CASE Unwind
  <2>1. stage = "route" /\ refused /\ UNCHANGED estimator
    BY <1>3 DEF Unwind, refused, IInv, FrontendInv
  <2>2. ~all_done
    BY <2>1, RefusedNotDone
  <2> QED BY <1>i, <2>1, <2>2 DEF SignalInv
<1>4. ASSUME NEW s \in Shard, ProcessBatchChunk(s) PROVE SignalInv'
  <2>1. /\ stage' = "route" /\ all_done /\ frontends' = frontends /\ auto_resize' = auto_resize
        /\ grow_signal' \in IF s = 0 /\ auto_resize THEN {grow_signal, TRUE} ELSE {grow_signal}
    BY <1>4 DEF ProcessBatchChunk, ready, all_done
  <2>2. all_done'
    BY <1>i, <2>1 DEF all_done
  <2>3. grow_signal' => auto_resize'
    BY <1>i, <2>1 DEF SignalInv
  <2> QED BY <2>1, <2>2, <2>3 DEF SignalInv
<1>5. CASE Drain
  BY <1>i, <1>5 DEF Drain, SignalInv
<1>6. CASE RouterReturns
  BY <1>i, <1>6 DEF RouterReturns, SignalInv, StageInv, RouterOps
<1>7. CASE HandleDeferredResize
  BY <1>i, <1>7 DEF HandleDeferredResize, grow_due, SignalInv
<1>8. ASSUME NEW s \in Shard, GrowShard(s) \/ GrowPastMaxHeight(s) PROVE SignalInv'
  BY <1>1, <1>8 DEF GrowShard, GrowPastMaxHeight
<1>9. CASE FinishGrow \/ ReadShard \/ Readout \/ EmitShard
  BY <1>1, <1>9 DEF FinishGrow, ReadShard, Readout, EmitShard
<1>10. CASE InboxOverflow \/ ShardPanics \/ Drop
  BY <1>1, <1>10 DEF InboxOverflow, ShardPanics, Drop
<1>11. CASE Call /\ ~Drop
  <2>1. stage = "idle" /\ frontends' = frontends
    BY <1>11, CallOutline DEF Idle
  <2>2. CASE UNCHANGED estimator
    BY <1>1, <2>1, <2>2
  <2>3. CASE auto_resize' = TRUE /\ grow_signal' = FALSE
    BY <2>3 DEF SignalInv
  <2> QED BY <1>11, <2>2, <2>3, CallOutline
<1> QED BY <1>2, <1>3, <1>4, <1>5, <1>6, <1>7, <1>8, <1>9, <1>10, <1>11 DEF Next, Continue

LEMMA AccessNext == IInv /\ Next => AccessInv'
<1> SUFFICES ASSUME IInv, Next PROVE AccessInv'
  OBVIOUS
<1> USE DEF made, trees, flushing, outputs, estimator, visits, control
<1>i. AccessInv /\ StageInv /\ TypeOK
  BY DEF IInv
<1>1. CASE accesses' = accesses /\ next_chunk' = next_chunk /\ stage' = stage /\ call' = call /\ unread' = unread
  BY <1>i, <1>1 DEF AccessInv
<1>2. CASE accesses' = [s \in Shard |-> 0] /\ next_chunk' = [s \in Shard |-> 1]
           /\ (stage' \notin {"serve"})
  BY <1>2 DEF AccessInv
<1>3. ASSUME NEW s \in Shard, ProcessBatchChunk(s) PROVE AccessInv'
  <2>1. /\ stage = "route" /\ stage' = "route" /\ next_chunk[s] \in Int /\ accesses[s] \in Int
        /\ next_chunk' = [next_chunk EXCEPT ![s] = next_chunk[s] + 1]
        /\ accesses' = [accesses EXCEPT ![s] = accesses[s] + 1]
    BY <1>i, <1>3 DEF ProcessBatchChunk, TypeOK
  <2>2. \A t \in Shard : accesses[t] = next_chunk[t] - 1
    BY <1>i, <2>1 DEF AccessInv
  <2>3. ASSUME NEW t \in Shard PROVE accesses'[t] = next_chunk'[t] - 1
    <3>1. CASE t = s
      BY <1>i, <2>1, <2>2, <3>1 DEF TypeOK
    <3>2. CASE t # s
      BY <1>i, <2>1, <2>2, <3>2 DEF TypeOK
    <3> QED BY <3>1, <3>2
  <2> QED BY <2>1, <2>3 DEF AccessInv
<1>4. CASE Unwind
  <2>1. stage = "route" /\ stage' = "idle" /\ accesses' = accesses /\ refused
    BY <1>4 DEF Unwind, refused, IInv, FrontendInv
  <2>2. \A s \in Shard : next_chunk[s] = 1
    BY <2>1, RefusedNotDone DEF IInv, FrontendInv
  <2>3. \A s \in Shard : accesses[s] = 0
    BY <1>i, <2>1, <2>2 DEF AccessInv
  <2> QED BY <2>1, <2>3 DEF AccessInv
<1>5. CASE Drain
  <2>1. stage = "route" /\ stage' = "routed" /\ accesses' = accesses
        /\ \A s \in Shard : next_chunk[s] = f_count + 1
    BY <1>5 DEF Drain
  <2>2. \A s, t \in Shard : accesses[s] = accesses[t]
    BY <1>i, <2>1 DEF AccessInv
  <2> QED BY <2>1, <2>2 DEF AccessInv
<1>6. CASE RouterReturns
  <2>1. stage = "routed" /\ next_chunk' = [s \in Shard |-> 1]
    BY <1>i, <1>6 DEF RouterReturns, StageInv
  <2>2. CASE begin_flush(pending) /\ accesses' = [s \in Shard |-> 0]
    BY <1>2, <2>1, <2>2 DEF begin_flush
  <2>3. CASE stage' = "idle" /\ accesses' = accesses
    BY <1>i, <2>1, <2>3 DEF AccessInv
  <2> QED BY <1>6, <2>2, <2>3 DEF RouterReturns
<1>7. CASE HandleDeferredResize
  <2>1. /\ stage = "routed" /\ stage' \in {"grow", "idle", "serve"} /\ accesses' = accesses
        /\ unread' = unread /\ call' = call
    BY <1>7 DEF HandleDeferredResize, after_flush
  <2>2. \A s, t \in Shard : accesses[s] = accesses[t]
    BY <1>i, <2>1 DEF AccessInv
  <2>3. call.op = "read_total" => unread = Shard
    BY <2>1 DEF IInv, ReadoutInv
  <2> QED BY <2>1, <2>2, <2>3 DEF AccessInv
<1>8. CASE FinishGrow
  <2>1. /\ stage = "grow" /\ stage' \in {"idle", "serve"} /\ accesses' = accesses
        /\ unread' = unread /\ call' = call
    BY <1>8 DEF FinishGrow, after_flush
  <2>2. \A s, t \in Shard : accesses[s] = accesses[t]
    BY <1>i, <2>1 DEF AccessInv
  <2>3. call.op = "read_total" => unread = Shard
    BY <2>1 DEF IInv, ReadoutInv
  <2> QED BY <2>1, <2>2, <2>3 DEF AccessInv
<1>9. CASE ReadShard
  <2> DEFINE m == Min(unread)
  <2>1. m \in unread /\ unread \subseteq Shard
    BY <1>i, <1>9, FirstUnread, Fixed DEF ReadShard, IInv, ReadoutInv, TypeOK
  <2>2. /\ stage = "serve" /\ call.op = "read_total" /\ call' = call
        /\ accesses' = [accesses EXCEPT ![m] = accesses[m] + 1] /\ unread' = unread \ {m}
        /\ stage' = IF unread' = {} THEN "idle" ELSE stage
    BY <1>9 DEF ReadShard
  <2> HIDE DEF m
  <2>3. \A t \in Shard : /\ accesses[t] \in Nat
                         /\ accesses'[t] = IF t = m THEN accesses[t] + 1 ELSE accesses[t]
    BY <1>i, <2>1, <2>2 DEF TypeOK
  <2>4. \A s, t \in Shard : /\ (s \in unread <=> t \in unread) => accesses[s] = accesses[t]
                            /\ s \notin unread /\ t \in unread => accesses[s] = accesses[t] + 1
    BY <1>i, <2>2 DEF AccessInv
  <2>5. \A s, t \in Shard : /\ (s \in unread' <=> t \in unread') => accesses'[s] = accesses'[t]
                            /\ s \notin unread' /\ t \in unread' => accesses'[s] = accesses'[t] + 1
    BY <2>1, <2>2, <2>3, <2>4
  <2> QED BY <2>2, <2>5 DEF AccessInv
<1>10. CASE Readout
  <2>1. stage = "serve" /\ stage' = "idle" /\ accesses' = accesses /\ call.op # "read_total"
    BY <1>10 DEF Readout
  <2> QED BY <1>i, <2>1 DEF AccessInv
<1>11. CASE EmitShard
  BY <1>i, <1>11 DEF EmitShard, AccessInv
<1>12. CASE Call /\ ~Drop
  <2>1. accesses' = [s \in Shard |-> 0] /\ next_chunk' = [s \in Shard |-> 1]
    BY <1>i, <1>12, CallOutline DEF Idle, StageInv
  <2> QED BY <1>2, <1>12, <2>1, CallStage
<1>13. ASSUME NEW f \in Frontend, ProcessSubBatch(f) PROVE AccessInv'
  BY <1>1, <1>13 DEF ProcessSubBatch
<1>14. ASSUME NEW s \in Shard, GrowShard(s) \/ GrowPastMaxHeight(s) PROVE AccessInv'
  BY <1>1, <1>14 DEF GrowShard, GrowPastMaxHeight
<1>15. CASE InboxOverflow \/ ShardPanics \/ Drop
  BY <1>1, <1>15 DEF InboxOverflow, ShardPanics, Drop
<1> QED BY <1>3, <1>4, <1>5, <1>6, <1>7, <1>8, <1>9, <1>10, <1>11, <1>12, <1>13, <1>14, <1>15 DEF Next, Continue

\* Nothing that the growth invariant looks at changes.
LEMMA GrowthKept ==
  ASSUME GrowthInv, UNCHANGED <<height, shard_epoch, epoch, capacity, growing>>,
         \/ stage' = stage /\ (call' = call \/ stage # "grow")
         \/ stage # "grow" /\ stage' # "grow"
  PROVE  GrowthInv'
<1>1. \A s : doubled(s)' = doubled(s) /\ height_before(s)' = height_before(s)
  BY DEF doubled, height_before
<1>2. HeightsInStep'
  BY <1>1 DEF GrowthInv, HeightsInStep
<1>3. EpochsInStep'
  BY <1>1 DEF GrowthInv, EpochsInStep
<1>4. EpochBehind'
  BY DEF GrowthInv, EpochBehind
<1> QED BY <1>2, <1>3, <1>4 DEF GrowthInv

\* A growth begins.
LEMMA GrowthBegins ==
  ASSUME TypeOK, GrowthInv, stage # "grow", stage' = "grow", growing' = Shard,
         UNCHANGED <<height, shard_epoch, capacity>>,
         IF call'.op = "grow" THEN epoch' = next_epoch(epoch) ELSE epoch' = epoch
  PROVE  GrowthInv'
<1>1. \A s \in Shard : doubled(s)' = doubled(s) /\ height_before(s)' = height_before(s)
  BY DEF doubled, height_before
<1>2. HeightsInStep'
  BY <1>1 DEF GrowthInv, HeightsInStep
<1>3. EpochsInStep'
  BY <1>1 DEF GrowthInv, EpochsInStep
<1>4. ASSUME NEW s \in Shard
      PROVE  IF call'.op = "grow" THEN epoch' <= next_epoch(shard_epoch[s]) ELSE epoch' <= shard_epoch[s]
  <2>1. epoch <= shard_epoch[s]
    BY DEF GrowthInv, EpochBehind
  <2>2. epoch \in 0..255 /\ shard_epoch[s] \in 0..255
    BY DEF TypeOK
  <2>3. next_epoch(epoch) <= next_epoch(shard_epoch[s])
    BY <2>1, <2>2, EpochAdvances
  <2> QED BY <2>1, <2>3
<1>5. EpochBehind'
  BY <1>4 DEF EpochBehind
<1> QED BY <1>2, <1>3, <1>5 DEF GrowthInv

LEMMA GrowthNext == IInv /\ Next => GrowthInv'
<1> SUFFICES ASSUME IInv, Next PROVE GrowthInv'
  OBVIOUS
<1> USE DEF made, trees, flushing, outputs, estimator, visits, control
<1>i. GrowthInv /\ StageInv /\ TypeOK /\ \A s \in Shard : shard_epoch[s] \in 0..255 /\ height[s] \in Nat
  BY DEF IInv, TypeOK
<1>1. ASSUME NEW s \in Shard, GrowShard(s) PROVE GrowthInv'
  <2>1. /\ stage = "grow" /\ stage' = "grow" /\ call' = call /\ s \in growing /\ growing' = growing \ {s}
        /\ epoch' = epoch /\ capacity' = capacity
        /\ \A t \in Shard :
             /\ height'[t] = IF t = s THEN height[s] + 1 ELSE height[t]
             /\ shard_epoch'[t] = IF t = s THEN next_epoch(shard_epoch[s]) ELSE shard_epoch[t]
    BY <1>i, <1>1 DEF GrowShard, TypeOK, next_epoch
  <2>2. ~doubled(s) /\ doubled(s)'
    BY <2>1 DEF doubled
  <2>3. \A t \in Shard : t # s => doubled(t)' = doubled(t)
    BY <2>1 DEF doubled
  <2>4. ASSUME NEW t \in Shard PROVE height_before(t)' = height_before(t)
    <3>1. CASE t = s
      BY <1>i, <2>1, <2>2, <3>1 DEF height_before
    <3>2. CASE t # s
      BY <1>i, <2>1, <2>3, <3>2 DEF height_before
    <3> QED BY <3>1, <3>2
  <2>5. HeightsInStep'
    BY <1>i, <2>1, <2>4 DEF GrowthInv, HeightsInStep
  <2>6. ASSUME NEW t \in Shard, NEW r \in Shard
        PROVE  /\ (doubled(t)' <=> doubled(r)') => shard_epoch'[t] = shard_epoch'[r]
               /\ doubled(t)' /\ ~doubled(r)' => shard_epoch'[t] = next_epoch(shard_epoch'[r])
    <3>1. \A x, y \in Shard :
            /\ (doubled(x) <=> doubled(y)) => shard_epoch[x] = shard_epoch[y]
            /\ doubled(x) /\ ~doubled(y) => shard_epoch[x] = next_epoch(shard_epoch[y])
      BY <1>i DEF GrowthInv, EpochsInStep
    <3>2. CASE t = s /\ r = s
      BY <3>2
    <3>3. CASE t = s /\ r # s
      BY <2>1, <2>2, <2>3, <3>1, <3>3
    <3>4. CASE t # s /\ r = s
      BY <2>1, <2>2, <2>3, <3>1, <3>4
    <3>5. CASE t # s /\ r # s
      BY <2>1, <2>3, <3>1, <3>5
    <3> QED BY <3>2, <3>3, <3>4, <3>5
  <2>7. ASSUME NEW t \in Shard
        PROVE  IF call.op = "grow" /\ t \in growing'
                 THEN epoch <= next_epoch(shard_epoch'[t]) ELSE epoch <= shard_epoch'[t]
    <3>1. IF call.op = "grow" /\ t \in growing
            THEN epoch <= next_epoch(shard_epoch[t]) ELSE epoch <= shard_epoch[t]
      BY <1>i, <2>1 DEF GrowthInv, EpochBehind
    <3>2. CASE t # s
      BY <2>1, <3>1, <3>2
    <3>3. CASE t = s
      <4>1. epoch \in 0..255 /\ shard_epoch[s] \in 0..255
        BY <1>i DEF TypeOK
      <4>2. next_epoch(shard_epoch[s]) \in 0..255 /\ shard_epoch[s] <= next_epoch(shard_epoch[s])
        BY <4>1, EpochAdvances
      <4>3. epoch <= next_epoch(shard_epoch[s]) \/ epoch <= shard_epoch[s]
        BY <3>1, <3>3
      <4>4. epoch <= next_epoch(shard_epoch[s])
        <5> DEFINE m == next_epoch(shard_epoch[s])
                   n == shard_epoch[s]
        <5> HIDE DEF m, n
        <5>1. epoch \in 0..255 /\ n \in 0..255 /\ m \in 0..255 /\ n <= m /\ (epoch <= m \/ epoch <= n)
          BY <4>1, <4>2, <4>3 DEF m, n
        <5> QED BY <5>1 DEF m
      <4> QED BY <2>1, <3>3, <4>4
    <3> QED BY <3>2, <3>3
  <2>8. EpochsInStep'
    BY <2>6 DEF EpochsInStep
  <2>9. EpochBehind'
    BY <2>1, <2>7 DEF EpochBehind
  <2> QED BY <2>5, <2>8, <2>9 DEF GrowthInv
<1>2. CASE FinishGrow
  <2>1. /\ stage = "grow" /\ stage' # "grow" /\ growing = {} /\ capacity' = 2 * capacity
        /\ UNCHANGED <<height, shard_epoch, epoch>>
    BY <1>2 DEF FinishGrow, after_flush
  <2>2. \A s \in Shard : doubled(s) /\ ~doubled(s)'
    BY <2>1 DEF doubled
  <2>3. \A s \in Shard : height_before(s) = height[s] - 1 /\ height_before(s)' = height[s]
    BY <2>1, <2>2 DEF height_before
  <2>4. ASSUME NEW s \in Shard PROVE height[s] >= InitialHeight /\ capacity' = 2^(height[s] - InitialHeight)
    <3> DEFINE n == height[s] - 1 - InitialHeight
    <3>1. height[s] \in Nat /\ InitialHeight \in Nat
      BY <1>i, HeightAssumption
    <3>2. height[s] - 1 >= InitialHeight /\ capacity = 2^n
      BY <1>i, <2>3 DEF GrowthInv, HeightsInStep
    <3>3. n \in Nat /\ n + 1 = height[s] - InitialHeight /\ height[s] >= InitialHeight
      BY <3>1, <3>2
    <3> HIDE DEF n
    <3>4. capacity' = 2^(n + 1)
      BY <2>1, <3>2, <3>3, PowerOfTwo
    <3> QED BY <3>3, <3>4
  <2>5. ASSUME NEW s \in Shard, NEW t \in Shard PROVE height[s] = height[t] /\ shard_epoch[s] = shard_epoch[t]
    <3>1. height[s] \in Nat /\ height[t] \in Nat /\ height[s] - 1 = height[t] - 1
      BY <1>i, <2>3 DEF GrowthInv, HeightsInStep
    <3>2. shard_epoch[s] = shard_epoch[t]
      BY <1>i, <2>2 DEF GrowthInv, EpochsInStep
    <3> QED BY <3>1, <3>2
  <2>6. HeightsInStep'
    BY <2>3, <2>4, <2>5 DEF HeightsInStep
  <2>7. EpochsInStep'
    BY <2>1, <2>2, <2>5 DEF EpochsInStep
  <2>8. EpochBehind'
    BY <1>i, <2>1 DEF GrowthInv, EpochBehind
  <2> QED BY <2>6, <2>7, <2>8 DEF GrowthInv
<1>3. ASSUME NEW f \in Frontend, ProcessSubBatch(f) PROVE GrowthInv'
  BY <1>i, <1>3, GrowthKept DEF ProcessSubBatch
<1>4. CASE Unwind \/ Drain \/ RouterReturns
  BY <1>i, <1>4, GrowthKept DEF Unwind, Drain, RouterReturns, begin_flush
<1>5. ASSUME NEW s \in Shard, ProcessBatchChunk(s) \/ GrowPastMaxHeight(s) PROVE GrowthInv'
  BY <1>i, <1>5, GrowthKept DEF ProcessBatchChunk, GrowPastMaxHeight
<1>6. CASE HandleDeferredResize
  <2>1. stage = "routed" /\ call' = call /\ UNCHANGED <<height, shard_epoch, epoch, capacity>> /\ call.op # "grow"
    BY <1>i, <1>6 DEF HandleDeferredResize, StageInv, FlushOps, RouterOps, ServingOps
  <2>2. CASE growing' = Shard /\ stage' = "grow"
    BY <1>i, <2>1, <2>2, GrowthBegins
  <2>3. CASE growing' = growing /\ stage' = after_flush
    BY <1>i, <2>1, <2>3, GrowthKept DEF after_flush
  <2> QED BY <1>6, <2>2, <2>3 DEF HandleDeferredResize, shards_to_grow
<1>7. CASE ReadShard \/ Readout \/ EmitShard
  BY <1>i, <1>7, GrowthKept DEF ReadShard, Readout, EmitShard
<1>8. CASE InboxOverflow \/ ShardPanics \/ Drop
  BY <1>i, <1>8, GrowthKept DEF InboxOverflow, ShardPanics, Drop
<1>9. CASE Call /\ ~Drop
  <2>1. stage = "idle"
    BY <1>9, CallOutline DEF Idle
  <2>2. CASE call'.op = "grow" /\ growing' = Shard /\ stage' = "grow"
             /\ epoch' = next_epoch(epoch) /\ UNCHANGED <<height, shard_epoch, capacity>>
    BY <1>i, <2>1, <2>2, GrowthBegins
  <2>3. CASE UNCHANGED trees /\ call'.op # "grow"
    <3>1. stage' # "grow"
      BY <1>9, <2>3, CallStage
    <3> QED BY <1>i, <2>1, <2>3, <3>1, GrowthKept
  <2> QED BY <1>9, <2>2, <2>3, CallOutline
<1> QED BY <1>1, <1>2, <1>3, <1>4, <1>5, <1>6, <1>7, <1>8, <1>9 DEF Next, Continue

\* Between flushes nothing of what is pending was delivered, and new updates have
\* numbers of their own.
LEMMA UpdatesBuffered ==
  ASSUME IInv, Next, \A s \in Shard : next_chunk[s] = 1, pending' \in Seq(Block),
         issued' \in Nat, issued <= issued', held' = held, next_chunk' = [s \in Shard |-> 1],
         \A i \in DOMAIN pending' : i \in DOMAIN pending => pending'[i] = pending[i],
         \A i \in DOMAIN pending' : i \notin DOMAIN pending =>
           \A u \in pending'[i].value : u[1] = issued + (i - Len(pending)) /\ u[1] <= issued'
  PROVE  UpdateInv'
<1>1. /\ UpdateInv /\ TypeOK /\ shard_of' = shard_of /\ sub_n' = sub_n /\ sub_n \in Nat
      /\ pending \in Seq(Block) /\ Len(pending) \in Nat /\ issued \in Nat
      /\ \A s \in Shard : next_chunk'[s] = 1
  <2>1. UpdateInv /\ TypeOK /\ shard_of' = shard_of /\ sub_n' = sub_n
    BY Fixed DEF IInv
  <2>2. sub_n \in Nat /\ pending \in Seq(Block) /\ issued \in Nat
    BY <2>1, BatchSizes DEF TypeOK
  <2>3. \A s \in Shard : next_chunk'[s] = 1
    OBVIOUS
  <2> QED BY <2>1, <2>2, <2>3
<1>2. DOMAIN pending = 1..Len(pending) /\ DOMAIN pending' \subseteq Nat
  BY <1>1
<1>3. \A i \in DOMAIN pending : pending[i] \in Block
  BY <1>1
<1>4. \A i \in DOMAIN pending' : pending'[i] \in Block
  OBVIOUS
<1>5. \A i \in DOMAIN pending' : \A u \in pending'[i].value : u[1] \in Nat
  BY <1>4, BlockParts DEF Update
<1>6. \A s \in Shard, k \in Key : \A u \in held[s][k] : u[1] \in Nat
  BY <1>1 DEF TypeOK, Update
<1>7. Numbered'
  <2>1. \A i \in DOMAIN pending' : \A u \in pending'[i].value : u[1] <= issued'
    BY <1>1, <1>5 DEF UpdateInv, Numbered
  <2>2. \A s \in Shard, k \in Key : \A u \in held[s][k] : u[1] <= issued'
    BY <1>1, <1>6 DEF UpdateInv, Numbered
  <2> QED BY <2>1, <2>2 DEF Numbered
<1>8. PendingApart'
  <2>1. ASSUME NEW i \in DOMAIN pending', NEW j \in DOMAIN pending', i # j,
               NEW u \in pending'[i].value \cap pending'[j].value
        PROVE  FALSE
    <3>1. u[1] \in Nat /\ i \in Nat /\ j \in Nat
      BY <1>2, <1>5
    <3>2. CASE i \in DOMAIN pending /\ j \in DOMAIN pending
      BY <1>1, <2>1, <3>2 DEF UpdateInv, PendingApart
    <3>3. CASE i \notin DOMAIN pending /\ j \notin DOMAIN pending
      BY <1>1, <2>1, <3>1, <3>3
    <3>4. CASE i \in DOMAIN pending /\ j \notin DOMAIN pending
      <4>1. u[1] <= issued
        BY <1>1, <3>4 DEF UpdateInv, Numbered
      <4> QED BY <1>1, <1>2, <3>1, <3>4, <4>1
    <3>5. CASE i \notin DOMAIN pending /\ j \in DOMAIN pending
      <4>1. u[1] <= issued
        BY <1>1, <3>5 DEF UpdateInv, Numbered
      <4> QED BY <1>1, <1>2, <3>1, <3>5, <4>1
    <3> QED BY <3>2, <3>3, <3>4, <3>5
  <2> QED BY <2>1 DEF PendingApart
<1>9. KeysAtHome'
  BY <1>1 DEF UpdateInv, KeysAtHome
<1>10. DeliveredInOrder'
  <2>1. ASSUME NEW i \in DOMAIN pending', pending'[i] # Dummy,
               NEW u \in pending'[i].value \cap held[shard_of[pending'[i].key]][pending'[i].key]
        PROVE  FALSE
    <3> DEFINE k == pending'[i].key
    <3>1. k \in Key /\ shard_of[k] \in Shard
      BY <1>1, <1>4, <2>1, BlockParts DEF TypeOK
    <3>2. u[1] <= issued /\ u[1] \in Nat
      BY <1>1, <1>6, <3>1 DEF UpdateInv, Numbered
    <3>3. CASE i \in DOMAIN pending
      <4>1. ~delivered(i)
        <5>1. pending[i] = pending'[i] /\ i \in Nat /\ i > 0
          BY <1>1, <1>2, <3>3
        <5>2. (next_chunk[shard_of[pending[i].key]] - 1) * sub_n = 0
          BY <1>1, <3>1, <5>1
        <5> QED BY <5>1, <5>2 DEF delivered
      <4> QED BY <1>1, <2>1, <3>3, <4>1 DEF UpdateInv, DeliveredInOrder
    <3>4. CASE i \notin DOMAIN pending
      BY <1>1, <1>2, <3>2, <3>4
    <3> QED BY <3>3, <3>4
  <2>2. ASSUME NEW i \in DOMAIN pending', pending'[i] # Dummy PROVE ~delivered(i)'
    <3>1. shard_of'[pending'[i].key] \in Shard
      BY <1>1, <1>4, <2>2, BlockParts DEF TypeOK
    <3>2. (next_chunk'[shard_of'[pending'[i].key]] - 1) * sub_n' = 0
      BY <1>1, <3>1
    <3> QED BY <1>2, <1>4, <3>2, LenProperties DEF delivered
  <2> HIDE DEF delivered
  <2> QED BY <1>1, <2>1, <2>2 DEF DeliveredInOrder
<1> QED BY <1>7, <1>8, <1>9, <1>10 DEF UpdateInv
\* A step that neither moves updates nor begins or ends a dispatch.
LEMMA UpdatesKept ==
  ASSUME IInv, Next, UNCHANGED <<pending, held, issued, next_chunk>>,
         stage = "route" <=> stage' = "route"
  PROVE  UpdateInv'
<1>1. UpdateInv /\ shard_of' = shard_of /\ sub_n' = sub_n
  BY Fixed DEF IInv
<1>2. \A i : delivered(i)' <=> delivered(i)
  BY <1>1 DEF delivered
<1> QED BY <1>1, <1>2 DEF UpdateInv, Numbered, PendingApart, KeysAtHome, DeliveredInOrder

\* The shard's part of the dispatch.
LEMMA UpdatesDispatched ==
  ASSUME IInv, Next, NEW s \in Shard, ProcessBatchChunk(s)
  PROVE  UpdateInv'
<1> DEFINE f == next_chunk[s]
           chunk == routed_blocks(f)[s]
           n == sub_n
<1>1. /\ stage = "route" /\ f \in Frontend /\ all_done /\ UNCHANGED <<pending, issued, stage>>
      /\ held' = [held EXCEPT ![s] = inserted(held[s], frontends[f].blocks[s])]
      /\ next_chunk' = [next_chunk EXCEPT ![s] = f + 1]
  BY DEF ProcessBatchChunk, ready, all_done, control
<1>2. /\ UpdateInv /\ TypeOK /\ FrontendInv /\ Len(pending) >= setup.batch_capacity
      /\ shard_of' = shard_of /\ sub_n' = sub_n
  BY <1>1, Fixed DEF IInv, LengthInv
<1>3. frontends[f].blocks = routed_blocks(f)
  BY <1>1, <1>2 DEF FrontendInv, all_done
<1>4. /\ chunk \in SUBSET Block
      /\ \A b \in chunk :
           /\ b.key \in Key /\ shard_of[b.key] = s
           /\ \A u \in b.value : \E i \in places(f) : pending[i].key = b.key /\ u \in pending[i].value
      /\ \A i \in places(f) : pending[i].key # NoKey /\ shard_of[pending[i].key] = s =>
           \E b \in chunk : b.key = pending[i].key /\ pending[i].value \subseteq b.value
  BY <1>1, <1>2, RoutedBlocks
<1>5. places(f) \subseteq DOMAIN pending
  BY <1>1, <1>2, SubBatch
<1>6. /\ held'[s] = [k \in Key |-> held[s][k] \cup UNION {b.value : b \in {c \in chunk : c.key = k}}]
      /\ \A t \in Shard : t # s => held'[t] = held[t] /\ next_chunk'[t] = next_chunk[t]
      /\ next_chunk'[s] = f + 1
  BY <1>1, <1>2, <1>3 DEF TypeOK, inserted
<1>7. /\ DOMAIN pending \subseteq Nat /\ \A i \in DOMAIN pending : pending[i] \in Block
      /\ f \in Nat \ {0} /\ n \in Nat
  <2>1. TypeOK /\ f \in Frontend
    BY <1>1, <1>2
  <2> HIDE DEF f
  <2>2. setup \in Setups
    BY <2>1, PendingBlocks
  <2> QED BY <2>1, <2>2, PendingBlocks, BatchSizes
<1> DEFINE m == (f - 1) * n
           e == f * n
<1>8. m \in Nat /\ e \in Nat /\ m = e - n /\ places(f) = (m + 1)..e
  <2>1. f - 1 \in Nat
    BY <1>7
  <2>2. (f - 1) * n \in Nat
    BY <1>7, <2>1
  <2>3. f * n \in Nat /\ (f - 1) * n = f * n - n
    BY <1>7, ChunksInOrder
  <2> QED BY <2>2, <2>3 DEF places
<1>9. \A i \in DOMAIN pending : shard_of[pending[i].key] = s =>
        (delivered(i) <=> i <= m) /\ (delivered(i)' <=> i <= e)
  <2>1. m = (next_chunk[s] - 1) * sub_n
    OBVIOUS
  <2>2. next_chunk'[s] - 1 = f
    BY <1>6, <1>7
  <2>3. e = (next_chunk'[s] - 1) * sub_n'
    BY <1>2, <2>2
  <2> HIDE DEF m, e, f
  <2> QED BY <1>1, <1>2, <2>1, <2>3 DEF delivered
<1>10. \A i \in DOMAIN pending :
         shard_of[pending[i].key] # s /\ pending[i].key \in Key => (delivered(i)' <=> delivered(i))
  <2>1. \A k \in Key : shard_of[k] \in Shard
    BY <1>2 DEF TypeOK
  <2> QED BY <1>1, <1>2, <1>6, <2>1 DEF delivered
<1> HIDE DEF f, chunk, n, m, e
<1>11. ASSUME NEW k \in Key, NEW u \in held'[s][k], u \notin held[s][k]
       PROVE  shard_of[k] = s /\ \E i \in places(f) : pending[i].key = k /\ u \in pending[i].value
  <2>1. PICK b \in chunk : b.key = k /\ u \in b.value
    BY <1>6, <1>11
  <2> QED BY <1>4, <2>1
<1>12. Numbered'
  <2>1. ASSUME NEW t \in Shard, NEW k \in Key, NEW u \in held'[t][k] PROVE u[1] <= issued
    <3>1. CASE u \in held[t][k]
      BY <1>2, <3>1 DEF UpdateInv, Numbered
    <3>2. CASE u \notin held[t][k]
      <4>1. t = s
        BY <1>6, <2>1, <3>2
      <4> QED BY <1>2, <1>5, <1>11, <2>1, <3>2, <4>1 DEF UpdateInv, Numbered
    <3> QED BY <3>1, <3>2
  <2> QED BY <1>1, <1>2, <2>1 DEF UpdateInv, Numbered
<1>13. PendingApart'
  BY <1>1, <1>2 DEF UpdateInv, PendingApart
<1>14. KeysAtHome'
  <2>1. ASSUME NEW t \in Shard, NEW k \in Key, t # shard_of[k] PROVE held'[t][k] = {}
    <3>1. held[t][k] = {}
      BY <1>2, <2>1 DEF UpdateInv, KeysAtHome
    <3> QED BY <1>6, <1>11, <2>1, <3>1
  <2> QED BY <1>2, <2>1 DEF KeysAtHome
<1>15. ASSUME NEW i \in DOMAIN pending, pending[i] # Dummy
       PROVE  LET has == held'[shard_of[pending[i].key]][pending[i].key]
              IN IF delivered(i)' THEN pending[i].value \subseteq has ELSE pending[i].value \cap has = {}
  <2> DEFINE k == pending[i].key
             h == shard_of[k]
  <2>1. k \in Key /\ k # NoKey /\ h \in Shard /\ i \in Nat
    BY <1>2, <1>7, <1>15, BlockParts, KeyAssumption DEF TypeOK
  <2>2. IF delivered(i) THEN pending[i].value \subseteq held[h][k] ELSE pending[i].value \cap held[h][k] = {}
    BY <1>2, <1>15 DEF UpdateInv, DeliveredInOrder
  <2>3. CASE h # s
    <3>1. held'[h] = held[h] /\ (delivered(i)' <=> delivered(i))
      BY <1>6, <1>10, <2>1, <2>3
    <3> QED BY <2>2, <3>1
  <2>4. CASE h = s
    <3>1. held[s][k] \subseteq held'[s][k]
      BY <1>6, <2>1
    <3>2. CASE i <= m
      <4>1. delivered(i) /\ delivered(i)'
        BY <1>7, <1>8, <1>9, <2>1, <2>4, <3>2
      <4> QED BY <2>2, <2>4, <3>1, <4>1
    <3>3. CASE i \in places(f)
      <4>1. PICK b \in chunk : b.key = k /\ pending[i].value \subseteq b.value
        BY <1>4, <2>1, <2>4, <3>3
      <4>2. b.value \subseteq held'[s][k]
        BY <1>6, <2>1, <4>1
      <4>3. delivered(i)'
        BY <1>8, <1>9, <2>1, <2>4, <3>3
      <4> QED BY <2>4, <4>1, <4>2, <4>3
    <3>4. CASE i > e
      <4>1. ~delivered(i) /\ ~delivered(i)'
        BY <1>7, <1>8, <1>9, <2>1, <2>4, <3>4
      <4>2. ASSUME NEW u \in pending[i].value \cap held'[s][k] PROVE FALSE
        <5>1. u \notin held[s][k]
          BY <2>2, <2>4, <4>1, <4>2
        <5>2. PICK j \in places(f) : u \in pending[j].value
          BY <1>11, <2>1, <4>2, <5>1
        <5>3. j \in DOMAIN pending /\ j # i
          BY <1>5, <1>8, <2>1, <3>4, <5>2
        <5> QED BY <1>2, <4>2, <5>2, <5>3 DEF UpdateInv, PendingApart
      <4> QED BY <2>4, <4>1, <4>2
    <3> QED BY <1>7, <1>8, <2>1, <3>2, <3>3, <3>4
  <2> QED BY <2>3, <2>4
<1>16. DeliveredInOrder'
  <2> HIDE DEF delivered
  <2> QED BY <1>1, <1>2, <1>15 DEF DeliveredInOrder
<1> QED BY <1>12, <1>13, <1>14, <1>16 DEF UpdateInv

\* A flush, an append begins: what was pending stays in front.
LEMMA UpdatesFlushed ==
  ASSUME IInv, Next, \A s \in Shard : next_chunk[s] = 1, NEW blocks \in Seq(Block), numbered(blocks),
         begin_flush(pending \o blocks) \/ pending' = pending \o blocks,
         issued' = issued + Len(blocks), held' = held, next_chunk' = [s \in Shard |-> 1]
  PROVE  UpdateInv'
<1> DEFINE all == pending \o blocks
<1>1. pending \in Seq(Block) /\ Len(pending) \in Nat /\ issued \in Nat /\ setup \in Setups
      /\ DOMAIN pending = 1..Len(pending) /\ Len(blocks) \in Nat
  BY DEF IInv, TypeOK
<1>2. /\ all \in Seq(Block) /\ Len(all) = Len(pending) + Len(blocks)
      /\ \A i \in 1..Len(pending) : all[i] = pending[i]
      /\ \A i \in 1..Len(all) : i > Len(pending) => i - Len(pending) \in 1..Len(blocks)
                                                    /\ all[i] = blocks[i - Len(pending)]
  BY <1>1
<1>3. (begin_flush(all) \/ pending' = all) /\ Len(all) \in Nat
  BY <1>1, <1>2
<1> HIDE DEF all
<1>4. /\ pending' \in Seq(Block) /\ Len(pending') >= Len(all)
      /\ \A i \in 1..Len(all) : pending'[i] = all[i]
      /\ \A i \in 1..Len(pending') : i > Len(all) => pending'[i] = Dummy
  <2>1. CASE begin_flush(all)
    BY <1>1, <1>2, <2>1, FlushBegins
  <2>2. CASE pending' = all
    BY <1>2, <1>3, <2>2
  <2> QED BY <1>3, <2>1, <2>2
<1>5. DOMAIN pending' = 1..Len(pending') /\ Len(pending') \in Nat
  BY <1>4
<1> DEFINE x == Len(pending)
           y == Len(pending')
           a == Len(all)
<1>6. /\ x \in Nat /\ y \in Nat /\ a \in Nat /\ x <= a /\ a <= y
      /\ DOMAIN pending = 1..x /\ DOMAIN pending' = 1..y
  <2>1. x \in Nat /\ a \in Nat /\ x <= a /\ DOMAIN pending = 1..x
    <3>1. a = x + Len(blocks) /\ x \in Nat /\ Len(blocks) \in Nat /\ DOMAIN pending = 1..x
      BY <1>1, <1>2
    <3> HIDE DEF a, x
    <3> QED BY <3>1
  <2>2. y \in Nat /\ a <= y /\ DOMAIN pending' = 1..y
    BY <1>4, <1>5
  <2> QED BY <2>1, <2>2
<1>7. \A i \in DOMAIN pending' : i \in DOMAIN pending => pending'[i] = pending[i]
  <2>1. \A i \in DOMAIN pending : i \in 1..a
    <3> HIDE DEF x, y, a
    <3> QED BY <1>6
  <2> QED BY <1>1, <1>2, <1>4, <2>1
<1>8. ASSUME NEW i \in DOMAIN pending', i \notin DOMAIN pending, NEW u \in pending'[i].value
      PROVE  u[1] = issued + (i - Len(pending)) /\ u[1] <= issued'
  <2>1. i \in Nat /\ i > Len(pending) /\ i <= Len(pending')
    <3>1. i \in Nat /\ i > x /\ i <= y
      <4> HIDE DEF x, y, a
      <4> QED BY <1>8, <1>6
    <3> QED BY <3>1
  <2>2. i <= Len(all)
    <3>1. Dummy.value = {}
      BY DEF Dummy
    <3>2. pending'[i] # Dummy
      BY <1>8, <3>1
    <3>3. i \in 1..Len(pending')
      BY <1>5, <1>8
    <3>4. ~(i > a)
      BY <1>4, <3>2, <3>3
    <3>5. i <= a
      <4> HIDE DEF x, y, a
      <4> QED BY <1>6, <2>1, <3>4
    <3> QED BY <3>5
  <2>3. i - Len(pending) \in 1..Len(blocks) /\ pending'[i] = blocks[i - Len(pending)]
    BY <1>1, <1>2, <1>3, <1>4, <2>1, <2>2
  <2>4. u[1] = issued + (i - Len(pending))
    BY <1>8, <2>3 DEF numbered
  <2> QED BY <1>1, <2>1, <2>3, <2>4
<1>9. issued' \in Nat /\ issued <= issued'
  BY <1>1
<1> QED BY <1>4, <1>7, <1>8, <1>9, UpdatesBuffered

\* The batch leaves the buffer: every block behind it still waits.
LEMMA UpdatesDrained ==
  ASSUME IInv, Next, Drain
  PROVE  UpdateInv'
<1> DEFINE c == setup.batch_capacity
           d == f_count * sub_n
<1>1. /\ UpdateInv /\ TypeOK /\ shard_of' = shard_of /\ stage = "route" /\ stage' = "routed"
      /\ pending' = SubSeq(pending, c + 1, Len(pending)) /\ UNCHANGED <<held, issued>>
      /\ \A s \in Shard : next_chunk[s] = f_count + 1
  BY Fixed DEF IInv, Drain, drained
<1>2. /\ c \in Nat /\ d \in Nat /\ d <= c /\ pending \in Seq(Block) /\ Len(pending) \in Nat
      /\ f_count \in Nat /\ Len(pending) >= c /\ DOMAIN pending = 1..Len(pending)
  <2>1. c \in Nat /\ f_count \in Nat \ {0} /\ sub_n \in Nat /\ d <= c
    BY <1>1, BatchSizes DEF TypeOK
  <2>2. d \in Nat
    BY <2>1
  <2>3. Len(pending) >= c
    BY <1>1 DEF IInv, LengthInv
  <2> QED BY <1>1, <2>1, <2>2, <2>3 DEF TypeOK
<1>3. \A i \in DOMAIN pending : pending[i] \in Block
  BY <1>2
<1> HIDE DEF c
<1>4. /\ DOMAIN pending' = 1..(Len(pending) - c)
      /\ \A i \in DOMAIN pending' : c + i \in DOMAIN pending /\ pending'[i] = pending[c + i]
  <2>1. \A i \in (c + 1)..Len(pending) : pending[i] \in Block
    BY <1>2, <1>3
  <2>2. /\ pending' \in Seq(Block)
        /\ Len(pending') = IF c + 1 <= Len(pending) THEN Len(pending) - (c + 1) + 1 ELSE 0
        /\ \A i \in 1..(Len(pending) - (c + 1) + 1) : pending'[i] = pending[(c + 1) + i - 1]
    BY <1>1, <1>2, <2>1, SubSeqProperties
  <2>3. Len(pending') = Len(pending) - c /\ Len(pending) - (c + 1) + 1 = Len(pending) - c
    <3> DEFINE x == Len(pending)
               y == Len(pending')
    <3>1. x \in Nat /\ c \in Nat /\ x >= c /\ y = IF c + 1 <= x THEN x - (c + 1) + 1 ELSE 0
      BY <1>2, <2>2
    <3> HIDE DEF x, y
    <3>2. y = x - c /\ x - (c + 1) + 1 = x - c
      BY <3>1
    <3> QED BY <3>2 DEF x, y
  <2>4. DOMAIN pending' = 1..(Len(pending) - c)
    BY <2>2, <2>3
  <2>5. \A i \in 1..(Len(pending) - c) : c + i \in 1..Len(pending) /\ (c + 1) + i - 1 = c + i
    BY <1>2
  <2> QED BY <1>2, <2>2, <2>3, <2>4, <2>5
<1>5. \A i \in DOMAIN pending' : pending'[i] # Dummy => ~delivered(c + i)
  <2>1. ASSUME NEW i \in DOMAIN pending', pending'[i] # Dummy PROVE ~delivered(c + i)
    <3>1. shard_of[pending[c + i].key] \in Shard
      BY <1>1, <1>3, <1>4, <2>1, BlockParts DEF TypeOK
    <3>2. delivered(c + i) => c + i <= d
      <4>1. \A t \in Shard : next_chunk[t] - 1 = f_count
        <5>1. \A t \in Shard : next_chunk[t] = f_count + 1
          BY <1>1
        <5>2. f_count \in Nat
          BY <1>2
        <5> QED BY <5>1, <5>2
      <4> QED BY <3>1, <4>1 DEF delivered
    <3>3. i \in Nat /\ i > 0
      BY <1>2, <1>4
    <3> HIDE DEF d, delivered
    <3>4. ~(c + i <= d)
      BY <1>2, <3>3
    <3> QED BY <3>2, <3>4
  <2> QED BY <2>1
<1>6. \A i \in DOMAIN pending' : ~delivered(i)'
  BY <1>1 DEF delivered
<1> HIDE DEF d, delivered
<1>7. Numbered' /\ KeysAtHome'
  BY <1>1, <1>4 DEF UpdateInv, Numbered, KeysAtHome
<1>8. PendingApart'
  <2>1. ASSUME NEW i \in DOMAIN pending', NEW j \in DOMAIN pending', i # j
        PROVE  pending'[i].value \cap pending'[j].value = {}
    <3>1. c + i # c + j
      BY <1>2, <1>4, <2>1
    <3>2. /\ c + i \in DOMAIN pending /\ pending'[i] = pending[c + i]
          /\ c + j \in DOMAIN pending /\ pending'[j] = pending[c + j]
      BY <1>4
    <3> QED BY <1>1, <3>1, <3>2 DEF UpdateInv, PendingApart
  <2> QED BY <2>1 DEF PendingApart
<1>9. DeliveredInOrder'
  BY <1>1, <1>4, <1>5, <1>6 DEF UpdateInv, DeliveredInOrder
<1> QED BY <1>7, <1>8, <1>9 DEF UpdateInv

LEMMA UpdateNext == IInv /\ Next => UpdateInv'
<1> SUFFICES ASSUME IInv, Next PROVE UpdateInv'
  OBVIOUS
<1> USE DEF made, trees, flushing, outputs, estimator, visits, control
<1>i. /\ UpdateInv /\ StageInv /\ FrontendInv /\ TypeOK /\ LengthInv /\ shard_of' = shard_of
      /\ TypeOK' /\ pending \in Seq(Block)
  BY Fixed, TypeNext DEF IInv, TypeOK
<1>e. <<>> \in Seq(Block) /\ pending \o <<>> = pending /\ Len(<<>>) = 0 /\ numbered(<<>>)
      /\ issued = issued + Len(<<>>)
  BY <1>i DEF numbered, TypeOK
<1>1. ASSUME NEW f \in Frontend, ProcessSubBatch(f) PROVE UpdateInv'
  BY <1>1, UpdatesKept DEF ProcessSubBatch
<1>2. CASE Unwind
  <2>1. /\ stage = "route" /\ UNCHANGED <<pending, held, issued>> /\ next_chunk' = [s \in Shard |-> 1]
        /\ sub_n = 0 \/ \E f \in Frontend : frontends[f].state = "panicked"
    BY <1>2 DEF Unwind
  <2>2. \A s \in Shard : next_chunk[s] = 1
    <3>1. refused
      BY <1>i, <2>1 DEF FrontendInv, refused
    <3> QED BY <1>i, <2>1, <3>1, RefusedNotDone DEF FrontendInv
  <2> QED BY <1>i, <1>e, <2>1, <2>2, UpdatesFlushed
<1>3. ASSUME NEW s \in Shard, ProcessBatchChunk(s) PROVE UpdateInv'
  BY <1>3, UpdatesDispatched
<1>4. CASE Drain
  BY <1>4, UpdatesDrained
<1>5. CASE RouterReturns
  <2>1. /\ stage = "routed" /\ UNCHANGED <<held, issued, next_chunk>>
        /\ begin_flush(pending) \/ UNCHANGED pending
    BY <1>5 DEF RouterReturns
  <2>2. next_chunk' = [s \in Shard |-> 1] /\ \A s \in Shard : next_chunk[s] = 1
    BY <1>i, <2>1 DEF StageInv
  <2> QED BY <1>i, <1>e, <2>1, <2>2, UpdatesFlushed
<1>6. CASE HandleDeferredResize \/ FinishGrow
  BY <1>6, UpdatesKept DEF HandleDeferredResize, FinishGrow, after_flush
<1>7. ASSUME NEW s \in Shard, GrowShard(s) \/ GrowPastMaxHeight(s) PROVE UpdateInv'
  BY <1>7, UpdatesKept DEF GrowShard, GrowPastMaxHeight
<1>8. CASE ReadShard
  <2> DEFINE r == Min(unread)
  <2>1. /\ stage = "serve" /\ pending = <<>> /\ pending' = <<>> /\ issued' = issued
        /\ r \in Shard /\ call.key \in Key
    <3>1. stage = "serve" /\ call.op = "read_total" /\ UNCHANGED <<pending, issued>>
      BY <1>8 DEF ReadShard
    <3>2. unread # {} /\ unread \subseteq Shard
      BY <3>1, Fixed DEF IInv, ReadoutInv, TypeOK
    <3> QED BY <1>i, <3>1, <3>2, FirstUnread DEF LengthInv, StageInv
  <2>2. held' = held \/ held' = [held EXCEPT ![r] = [held[r] EXCEPT ![call.key] = {}]]
    BY <1>8 DEF ReadShard
  <2> HIDE DEF r
  <2>3. \A s \in Shard, k \in Key : held'[s][k] \subseteq held[s][k]
    <3>1. CASE held' = [held EXCEPT ![r] = [held[r] EXCEPT ![call.key] = {}]]
      <4>1. held \in [Shard -> [Key -> SUBSET Update]] /\ held[r] \in [Key -> SUBSET Update]
        BY <1>i, <2>1 DEF TypeOK
      <4>2. \A k \in Key : held'[r][k] \subseteq held[r][k]
        BY <2>1, <3>1, <4>1
      <4>3. \A s \in Shard : s # r => held'[s] = held[s]
        BY <2>1, <3>1, <4>1
      <4> QED BY <4>2, <4>3
    <3> QED BY <2>2, <3>1
  <2>4. Numbered' /\ KeysAtHome'
    BY <1>i, <2>1, <2>3 DEF UpdateInv, Numbered, KeysAtHome
  <2>5. DOMAIN pending' = {}
    BY <2>1
  <2> QED BY <2>4, <2>5 DEF UpdateInv, PendingApart, DeliveredInOrder
<1>9. CASE Readout \/ EmitShard
  BY <1>9, UpdatesKept DEF Readout, EmitShard
<1>10. CASE InboxOverflow \/ ShardPanics \/ Drop
  BY <1>10, UpdatesKept DEF InboxOverflow, ShardPanics, Drop
<1>11. CASE Call /\ ~Drop
  <2>1. stage = "idle" /\ UNCHANGED <<held, next_chunk>>
    BY <1>11, CallOutline DEF Idle
  <2>2. next_chunk' = [s \in Shard |-> 1] /\ \A s \in Shard : next_chunk[s] = 1
    BY <1>i, <2>1 DEF StageInv
  <2>3. CASE issued' = issued /\ (begin_flush(pending) \/ UNCHANGED pending)
    BY <1>i, <1>e, <2>1, <2>2, <2>3, UpdatesFlushed
  <2>4. ASSUME NEW blocks \in Seq(Block), buffer(blocks), numbered(blocks) PROVE UpdateInv'
    BY <2>1, <2>2, <2>4, UpdatesFlushed DEF buffer
  <2> QED BY <1>11, <2>3, <2>4, CallOutline
<1> QED BY <1>1, <1>2, <1>3, <1>4, <1>5, <1>6, <1>7, <1>8, <1>9, <1>10, <1>11 DEF Next, Continue
\* A step of a call that reads nothing out and comes no further to its end.
LEMMA ReadoutKept ==
  ASSUME IInv, Next, UNCHANGED <<call, read_out, unread>>, ended' # "consumed",
         call.op \in {"readout", "into_readout", "read_total"} =>
           \/ stage' = stage /\ UNCHANGED <<held, pending>>
           \/ stage \in {"route", "routed", "grow"} /\ stage' \in {"routed", "grow", "serve"}
              /\ UNCHANGED held
           \/ stage = "route" /\ stage' = "route"
  PROVE  ReadoutInv'
<1>1. ReadoutInv /\ ended = "no" /\ 0 \in Shard
  BY Fixed, BatchSizes DEF IInv, TypeOK
<1>2. call.op = "readout" /\ stage' = "idle" => read_out' = [k \in Key |-> Pending(k)']
  BY <1>1 DEF ReadoutInv, Pending
<1>3. call.op = "into_readout" =>
        read_out' = [k \in Key |-> UNION {held'[s][k] : s \in Shard \ unread}]
  <2>1. CASE UNCHANGED held
    BY <1>1, <2>1 DEF ReadoutInv
  <2>2. CASE stage = "route" /\ call.op = "into_readout"
    <3>1. unread = Shard /\ read_out = [k \in Key |-> UNION {held[s][k] : s \in Shard \ unread}]
      BY <1>1, <2>2 DEF ReadoutInv
    <3>2. \A k \in Key : UNION {held[s][k] : s \in Shard \ unread}
                       = UNION {held'[s][k] : s \in Shard \ unread}
      BY <3>1
    <3> QED BY <3>1, <3>2
  <2> QED BY <2>1, <2>2
<1>4. call.op \in {"read_total", "into_readout"} =>
        /\ stage' \in {"route", "routed", "grow"} => unread = Shard
        /\ stage' = "serve" /\ ended' = "no" => unread # {}
  BY <1>1 DEF ReadoutInv
<1> QED BY <1>2, <1>3, <1>4 DEF ReadoutInv

LEMMA ReadoutNext == IInv /\ Next => ReadoutInv'
<1> SUFFICES ASSUME IInv, Next PROVE ReadoutInv'
  OBVIOUS
<1> USE DEF made, trees, flushing, outputs, estimator, visits, control
<1>i. ReadoutInv /\ StageInv /\ TypeOK /\ LengthInv /\ ended = "no"
  BY Fixed DEF IInv
<1>1. ASSUME NEW f \in Frontend, ProcessSubBatch(f) PROVE ReadoutInv'
  BY <1>i, <1>1, ReadoutKept DEF ProcessSubBatch
<1>2. CASE Unwind
  <2>1. call'.op = "unwound" /\ ended' = "no"
    BY <1>i, <1>2 DEF Unwind, TypeOK
  <2> QED BY <2>1 DEF ReadoutInv
<1>3. ASSUME NEW s \in Shard, ProcessBatchChunk(s) PROVE ReadoutInv'
  BY <1>i, <1>3, ReadoutKept DEF ProcessBatchChunk
<1>4. CASE Drain
  BY <1>i, <1>4, ReadoutKept DEF Drain
<1>5. CASE RouterReturns
  BY <1>i, <1>5, ReadoutKept DEF RouterReturns
<1>6. CASE HandleDeferredResize
  BY <1>i, <1>6, ReadoutKept DEF HandleDeferredResize, after_flush
<1>7. ASSUME NEW s \in Shard, GrowShard(s) PROVE ReadoutInv'
  BY <1>i, <1>7, ReadoutKept DEF GrowShard
<1>8. ASSUME NEW s \in Shard, GrowPastMaxHeight(s) PROVE ReadoutInv'
  BY <1>i, <1>8, ReadoutKept DEF GrowPastMaxHeight
<1>9. CASE FinishGrow
  BY <1>i, <1>9, ReadoutKept DEF FinishGrow, after_flush
<1>10. CASE ReadShard
  <2>1. call'.op = "read_total" /\ ended' = "no" /\ stage = "serve"
        /\ stage' = IF unread' = {} THEN "idle" ELSE stage
    BY <1>i, <1>10 DEF ReadShard
  <2> QED BY <2>1 DEF ReadoutInv
<1>11. CASE Readout
  <2>1. /\ call'.op = "readout" /\ ended' = "no" /\ held' = held /\ pending' = <<>>
        /\ read_out' = [k \in Key |-> UNION {held[s][k] : s \in Shard}]
    BY <1>i, <1>11 DEF Readout, LengthInv
  <2>2. \A k \in Key : Pending(k)' = UNION {held[s][k] : s \in Shard}
    BY <2>1 DEF Pending
  <2>3. read_out' = [k \in Key |-> Pending(k)']
    BY <2>1, <2>2
  <2> QED BY <2>1, <2>3 DEF ReadoutInv
<1>12. CASE EmitShard
  <2> DEFINE r == Min(unread)
  <2>1. /\ call'.op = "into_readout" /\ call' = call /\ stage' = "serve" /\ held' = held
        /\ read_out' = [k \in Key |-> read_out[k] \cup held[r][k]]
        /\ unread' = unread \ {r} /\ ended' = IF unread' = {} THEN "consumed" ELSE ended
    BY <1>12 DEF EmitShard
  <2>2. r \in unread /\ r \in Shard
    BY <1>i, <1>12, FirstUnread DEF EmitShard, ReadoutInv, TypeOK
  <2>3. read_out = [k \in Key |-> UNION {held[s][k] : s \in Shard \ unread}]
    BY <1>i, <2>1 DEF ReadoutInv
  <2> HIDE DEF r
  <2>4. Shard \ unread' = (Shard \ unread) \cup {r}
    BY <2>1, <2>2
  <2>5. \A k \in Key : (UNION {held[s][k] : s \in Shard \ unread}) \cup held[r][k]
                     = UNION {held[s][k] : s \in Shard \ unread'}
    BY <2>4
  <2>6. read_out' = [k \in Key |-> UNION {held'[s][k] : s \in Shard \ unread'}]
    BY <2>1, <2>3, <2>5
  <2>7. stage' = "serve" /\ ended' = "no" => unread' # {}
    BY <2>1
  <2>8. ended' = "consumed" => unread' = {}
    BY <1>i, <2>1
  <2> QED BY <2>1, <2>6, <2>7, <2>8 DEF ReadoutInv
<1>13. CASE InboxOverflow \/ ShardPanics \/ Drop
  BY <1>i, <1>13, ReadoutKept DEF InboxOverflow, ShardPanics, Drop
<1>14. CASE Call /\ ~Drop
  <2>1. /\ ended' = "no" /\ read_out' = [k \in Key |-> {}]
        /\ call'.op \in ServingOps => unread' = Shard
        /\ call'.op \in ServingOps => stage' \in {"route", "routed"}
    BY <1>i, <1>14, CallOutline, CallStage DEF ServingOps
  <2>2. call'.op = "into_readout" =>
          read_out' = [k \in Key |-> UNION {held'[s][k] : s \in Shard \ unread'}]
    <3>1. ASSUME call'.op = "into_readout", NEW k \in Key
          PROVE  UNION {held'[s][k] : s \in Shard \ unread'} = {}
      BY <2>1, <3>1 DEF ServingOps
    <3> QED BY <2>1, <3>1
  <2> QED BY <2>1, <2>2 DEF ReadoutInv, ServingOps
<1> QED BY <1>1, <1>2, <1>3, <1>4, <1>5, <1>6, <1>7, <1>8, <1>9, <1>10, <1>11, <1>12, <1>13, <1>14
        DEF Next, Continue
-----------------------------------------------------------------------------
(***************************************************************************)
(* The invariant, and what it gives.                                        *)
(***************************************************************************)
LEMMA InitInv == Init => IInv
<1> SUFFICES ASSUME Init PROVE IInv
  OBVIOUS
<1>1. /\ setup \in Setups /\ shard_of \in [Key -> Shard] /\ pending = <<>> /\ frontends = idle_frontends
      /\ next_chunk = [s \in Shard |-> 1] /\ held = [s \in Shard |-> [k \in Key |-> {}]]
      /\ height = [s \in Shard |-> InitialHeight] /\ shard_epoch = [s \in Shard |-> 0]
      /\ grow_signal = FALSE /\ auto_resize = FALSE /\ epoch = 0 /\ capacity = 1
      /\ growing = {} /\ unread = {} /\ accesses = [s \in Shard |-> 0] /\ issued = 0 /\ result = {}
      /\ read_out = [k \in Key |-> {}] /\ call = [op |-> "new", key |-> NoKey] /\ stage = "idle"
      /\ caught = FALSE /\ ended = "no"
  BY SizeAssumption DEF Init
<1>2. /\ f_count \in Nat \ {0} /\ setup.batch_capacity \in Nat \ {0} /\ 0 \in Shard
      /\ InitialHeight \in Nat /\ InitialHeight \in 1..MAX_TREE_HEIGHT
  BY <1>1, BatchSizes, HeightAssumption
<1>3. TypeOK
  <2>1. frontends \in [Frontend -> [state : {"todo", "done", "panicked"}, blocks : [Shard -> SUBSET Block]]]
    BY <1>1 DEF idle_frontends, NotRouted
  <2>2. next_chunk \in [Shard -> 1..(f_count + 1)] /\ held \in [Shard -> [Key -> SUBSET Update]]
    BY <1>1, <1>2
  <2>3. height \in [Shard -> 1..MAX_TREE_HEIGHT] /\ shard_epoch \in [Shard -> 0..255]
    BY <1>1, <1>2
  <2>4. /\ pending \in Seq(Block) /\ accesses \in [Shard -> Nat]
        /\ read_out \in [Key -> SUBSET Update] /\ {grow_signal, auto_resize, caught} \subseteq BOOLEAN
    <3>1. pending \in Seq(Block)
      BY <1>1
    <3>2. accesses \in [Shard -> Nat] /\ read_out \in [Key -> SUBSET Update]
      BY <1>1
    <3>3. {grow_signal, auto_resize, caught} \subseteq BOOLEAN
      BY <1>1
    <3> QED BY <3>1, <3>2, <3>3
  <2>5. epoch \in 0..255 /\ capacity \in Nat /\ growing \subseteq Shard /\ unread \subseteq Shard
        /\ issued \in Nat /\ result \in SUBSET Update
    BY <1>1
  <2>6. call \in [op : Calls, key : Key \cup {NoKey}] /\ stage \in Stages /\ ended \in {"no"} \cup Endings
    BY <1>1 DEF Calls, Stages
  <2> QED BY <1>1, <2>1, <2>2, <2>3, <2>4, <2>5, <2>6 DEF TypeOK
<1>4. StageInv /\ FrontendInv
  BY <1>1 DEF StageInv, FrontendInv, RouterOps
<1>5. LengthInv
  <2>1. Len(pending) = 0
    BY <1>1
  <2> QED BY <1>1, <1>2, <2>1 DEF LengthInv
<1>6. UpdateInv
  <2>1. DOMAIN pending = {}
    BY <1>1
  <2>2. \A s \in Shard, k \in Key : held[s][k] = {}
    BY <1>1
  <2> QED BY <2>1, <2>2 DEF UpdateInv, Numbered, PendingApart, KeysAtHome, DeliveredInOrder
<1>7. AccessInv /\ ReadoutInv /\ SignalInv
  BY <1>1 DEF AccessInv, ReadoutInv, SignalInv
<1>8. GrowthInv
  <2>1. \A s \in Shard : ~doubled(s) /\ height_before(s) = InitialHeight
    BY <1>1 DEF doubled, height_before
  <2>2. 2^0 = 1
    <3>1. IsFiniteSet({}) /\ Cardinality({}) = 0
      BY FS_EmptySet
    <3>2. Cardinality(SUBSET {}) = 2^0
      BY <3>1, FS_SUBSET
    <3>3. Cardinality({{}}) = 1
      BY FS_Singleton
    <3> QED BY <3>1, <3>2, <3>3
  <2>3. InitialHeight - InitialHeight = 0 /\ InitialHeight >= InitialHeight
    BY <1>2
  <2>4. HeightsInStep
    BY <1>1, <2>1, <2>2, <2>3 DEF HeightsInStep
  <2>5. EpochsInStep /\ EpochBehind
    BY <1>1, <2>1 DEF EpochsInStep, EpochBehind
  <2> QED BY <2>4, <2>5 DEF GrowthInv
<1> QED BY <1>3, <1>4, <1>5, <1>6, <1>7, <1>8 DEF IInv

\* A step that changes nothing.
LEMMA Stutter == IInv /\ UNCHANGED vars => IInv'
<1> SUFFICES ASSUME IInv, UNCHANGED vars PROVE IInv'
  OBVIOUS
<1> USE DEF vars, made, trees, flushing, outputs, estimator, visits, control
<1>1. /\ f_count' = f_count /\ Frontend' = Frontend /\ sub_n' = sub_n /\ sub_quota' = sub_quota
      /\ idle_frontends' = idle_frontends /\ all_done' = all_done
  BY DEF f_count, Frontend, sub_n, sub_quota, idle_frontends, NotRouted, all_done
<1>2. TypeOK'
  BY <1>1 DEF IInv, TypeOK
<1>3. StageInv'
  BY <1>1 DEF IInv, StageInv
<1>4. \A f : routed_blocks(f)' = routed_blocks(f)
  BY <1>1 DEF routed_blocks, shard_blocks, sub_batch
<1>5. \A f : over_quota(routed_blocks(f))' = over_quota(routed_blocks(f))
  BY <1>1, <1>4 DEF over_quota
<1>6. refused' = refused
  BY <1>1, <1>5 DEF refused
<1>7. FrontendInv'
  BY <1>1, <1>4, <1>5 DEF IInv, FrontendInv
<1>8. LengthInv'
  BY <1>6 DEF IInv, LengthInv
<1>9. UpdateInv'
  BY <1>1 DEF IInv, UpdateInv, Numbered, PendingApart, KeysAtHome, DeliveredInOrder, delivered
<1>10. AccessInv'
  BY DEF IInv, AccessInv
<1>11. ReadoutInv'
  BY DEF IInv, ReadoutInv, Pending
<1>12. GrowthInv'
  BY DEF IInv, GrowthInv, HeightsInStep, EpochsInStep, EpochBehind, doubled, height_before
<1>13. SignalInv'
  BY <1>1 DEF IInv, SignalInv
<1> QED BY <1>2, <1>3, <1>7, <1>8, <1>9, <1>10, <1>11, <1>12, <1>13 DEF IInv

LEMMA NextInv == IInv /\ [Next]_vars => IInv'
<1>1. IInv /\ Next => IInv'
  BY TypeNext, StageNext, FrontendNext, LengthNext, UpdateNext, AccessNext, ReadoutNext, GrowthNext,
     SignalNext DEF IInv
<1> QED BY <1>1, Stutter

\* Every part of the invariant holds in every state a histogram reaches, whatever
\* its jobs' order and whichever panics its callers catch (mod.rs:207-299 and 436-590).
THEOREM InvariantHolds == Spec => []IInv
BY InitInv, NextInv, PTL DEF Spec

\* Every variable keeps its range: no job leaves a chunk half routed, no epoch passes
\* 255 and no tree the maximal height, where grow panics first (mod.rs:505-590).
THEOREM ShardedTypeCorrect == Spec => []TypeOK
<1>1. IInv => TypeOK
  BY DEF IInv
<1> QED BY <1>1, InvariantHolds, PTL

LEMMA InvCountedOnce == IInv => CountedOnce
<1> SUFFICES ASSUME IInv PROVE CountedOnce
  OBVIOUS
<1>1. /\ TypeOK /\ UpdateInv /\ FrontendInv /\ StageInv /\ setup \in Setups
      /\ \A i \in DOMAIN pending : pending[i] \in Block /\ i \in Nat /\ i > 0
  <2>1. TypeOK /\ UpdateInv /\ FrontendInv /\ StageInv
    BY DEF IInv
  <2>2. setup \in Setups /\ pending \in Seq(Block)
    BY <2>1 DEF TypeOK
  <2>3. \A i \in DOMAIN pending : pending[i] \in Block /\ i \in Nat /\ i > 0
    BY <2>2
  <2> QED BY <2>1, <2>2, <2>3
<1>2. ASSUME NEW s \in Shard, NEW b \in awaiting(s) \ {Dummy}
      PROVE  b.value \cap held[s][b.key] = {}
  <2>1. CASE stage = "route" /\ all_done
    <3>1. PICK f \in next_chunk[s]..f_count : b \in frontends[f].blocks[s]
      BY <1>2, <2>1 DEF awaiting, all_done
    <3> DEFINE c == next_chunk[s]
    <3>2. c \in Nat \ {0} /\ f \in Nat \ {0} /\ c <= f /\ f \in Frontend /\ sub_n \in Nat
      <4>1. c \in 1..(f_count + 1) /\ f_count \in Nat
        BY <1>1, BatchSizes DEF TypeOK
      <4> HIDE DEF c
      <4>2. f \in c..f_count
        BY <3>1 DEF c
      <4>3. f \in 1..f_count /\ c \in Nat \ {0} /\ c <= f
        BY <4>1, <4>2
      <4> QED BY <1>1, <4>3, BatchSizes DEF Frontend
    <3>3. Len(pending) >= setup.batch_capacity
      BY <2>1 DEF IInv, LengthInv
    <3>4. b \in routed_blocks(f)[s]
      BY <1>1, <2>1, <3>1, <3>2 DEF FrontendInv, all_done
    <3>5. /\ b.key \in Key /\ shard_of[b.key] = s
          /\ \A u \in b.value : \E i \in places(f) : pending[i].key = b.key /\ u \in pending[i].value
      BY <1>1, <3>2, <3>3, <3>4, RoutedBlocks
    <3>6. \A i \in places(f) : i \in DOMAIN pending /\ i > (c - 1) * sub_n
      <4>1. (c - 1) * sub_n = c * sub_n - sub_n /\ (f - 1) * sub_n = f * sub_n - sub_n
            /\ c * sub_n \in Nat /\ f * sub_n \in Nat /\ c * sub_n <= f * sub_n
        BY <3>2, ChunksInOrder
      <4> DEFINE x == (c - 1) * sub_n
                 y == (f - 1) * sub_n
                 p == c * sub_n
                 q == f * sub_n
      <4>2. x = p - sub_n /\ y = q - sub_n /\ p \in Nat /\ q \in Nat /\ p <= q /\ places(f) = (y + 1)..q
        BY <4>1 DEF places
      <4> HIDE DEF x, y, p, q
      <4>3. \A i \in (y + 1)..q : i > x
        BY <3>2, <4>2
      <4>4. places(f) \subseteq DOMAIN pending
        BY <1>1, <3>2, <3>3, SubBatch
      <4> QED BY <4>2, <4>3, <4>4 DEF x
    <3>7. ASSUME NEW u \in b.value \cap held[s][b.key] PROVE FALSE
      <4>1. PICK i \in places(f) : pending[i].key = b.key /\ u \in pending[i].value
        BY <3>5, <3>7
      <4>2. pending[i] # Dummy /\ i \in DOMAIN pending
        BY <3>5, <3>6, <4>1, KeyAssumption DEF Dummy
      <4>3. ~delivered(i)
        <5>1. i > (c - 1) * sub_n /\ i \in Nat
          BY <1>1, <3>6, <4>2
        <5>2. c \in Nat /\ (c - 1) * sub_n \in Int
          BY <3>2
        <5> DEFINE x == (c - 1) * sub_n
        <5>3. ~(i <= x)
          <6> HIDE DEF x
          <6>1. i > x /\ i \in Nat /\ x \in Int
            BY <5>1, <5>2 DEF x
          <6> QED BY <6>1
        <5> QED BY <3>5, <4>1, <5>3 DEF delivered
      <4> QED BY <1>1, <3>5, <3>7, <4>1, <4>2, <4>3 DEF UpdateInv, DeliveredInOrder
    <3> QED BY <3>7
  <2>2. CASE ~(stage = "route" /\ all_done)
    <3>1. PICK i \in DOMAIN pending : b = pending[i]
      BY <1>2, <2>2 DEF awaiting, all_done
    <3>2. b.key \in Key /\ shard_of[b.key] \in Shard
      BY <1>1, <1>2, <3>1, BlockParts DEF TypeOK
    <3>3. CASE s # shard_of[b.key]
      BY <1>1, <3>2, <3>3 DEF UpdateInv, KeysAtHome
    <3>4. CASE s = shard_of[b.key]
      <4>1. ~delivered(i)
        <5>1. stage = "route" => next_chunk[s] = 1
          BY <1>1, <2>2 DEF FrontendInv
        <5>2. sub_n \in Nat /\ i \in Nat /\ i > 0
          BY <1>1, BatchSizes
        <5>3. next_chunk[s] = 1 => (next_chunk[s] - 1) * sub_n = 0
          BY <5>2
        <5> QED BY <3>1, <3>4, <5>1, <5>2, <5>3 DEF delivered
      <4> QED BY <1>1, <1>2, <3>1, <3>4, <4>1 DEF UpdateInv, DeliveredInOrder
    <3> QED BY <3>3, <3>4
  <2> QED BY <2>1, <2>2
<1> QED BY <1>1, <1>2 DEF CountedOnce, UpdateInv, PendingApart

\* An update is added to one shard once, whatever panics its flush met before:
\* a chunk waits for its shard while no update of it is there (mod.rs:249-276).
THEOREM UpdatesCountedOnce == Spec => []CountedOnce
BY InvariantHolds, InvCountedOnce, PTL

\* A call accesses every shard equally often, whatever its key (mod.rs:282-284).
THEOREM AccessesAreEqual == Spec => []EqualAccesses
<1>1. IInv => EqualAccesses
  <2>1. IInv => 0 \in Shard
    BY BatchSizes DEF IInv, TypeOK
  <2> QED BY <2>1 DEF IInv, AccessInv, EqualAccesses, Idle
<1> QED BY <1>1, InvariantHolds, PTL

\* Between calls all trees have the height the recorded capacity tells, no signal
\* to grow is left and the epoch is behind no shard's (mod.rs:505-590).
THEOREM ShardsStayInStep == Spec => []ShardsInStep
<1>1. IInv => ShardsInStep
  <2> SUFFICES ASSUME IInv, Idle PROVE ShardsInStep
    BY DEF ShardsInStep
  <2>1. 0 \in Shard /\ stage = "idle"
    BY BatchSizes DEF IInv, TypeOK, Idle
  <2>2. \A s \in Shard : ~doubled(s) /\ height_before(s) = height[s]
    BY <2>1 DEF doubled, height_before
  <2>3. \A s \in Shard : height[s] = height[0] /\ capacity = 2^(height[s] - InitialHeight)
    BY <2>1, <2>2 DEF IInv, GrowthInv, HeightsInStep
  <2>4. \A s \in Shard : shard_epoch[s] = shard_epoch[0] /\ epoch <= shard_epoch[s]
    BY <2>1, <2>2 DEF IInv, GrowthInv, EpochsInStep, EpochBehind
  <2>5. ~setup.direct_router => ~grow_signal
    BY <2>1 DEF IInv, SignalInv
  <2> QED BY <2>3, <2>4, <2>5 DEF ShardsInStep
<1> QED BY <1>1, InvariantHolds, PTL

\* A readout, and a consuming one that ends, has every update of every key, those
\* still buffered when it was called included (mod.rs:480).
THEOREM ReadoutsAreComplete == Spec => []ReadoutComplete
<1>1. IInv => ReadoutComplete
  <2> SUFFICES ASSUME IInv PROVE ReadoutComplete
    OBVIOUS
  <2>1. CASE call.op = "readout" /\ Idle
    BY <2>1 DEF IInv, ReadoutInv, ReadoutComplete, Idle
  <2>2. CASE ended = "consumed"
    <3>1. /\ pending = <<>>
          /\ read_out = [k \in Key |-> UNION {held[s][k] : s \in Shard \ {}}]
      BY <2>2 DEF IInv, ReadoutInv, LengthInv
    <3>2. \A k \in Key : Pending(k) = UNION {held[s][k] : s \in Shard \ {}}
      BY <3>1 DEF Pending
    <3> QED BY <3>1, <3>2 DEF ReadoutComplete
  <2> QED BY <2>1, <2>2 DEF ReadoutComplete
<1> QED BY <1>1, InvariantHolds, PTL

\* Once a frontend has refused a batch no update reaches a shard and no read takes
\* one away: the same batch stays in front and is refused again (mod.rs:137-140).
THEOREM RefusalIsFinal == Spec => RefusedForGood
<1> USE DEF made, trees, flushing, outputs, estimator, visits, control
<1>1. IInv /\ [Next]_vars => (caught => UNCHANGED held)
  <2> SUFFICES ASSUME IInv, Next, caught PROVE held' = held
    BY DEF vars
  <2>1. ASSUME NEW s \in Shard, ProcessBatchChunk(s) PROVE FALSE
    BY <2>1, RefusedNotDone DEF ProcessBatchChunk, ready, all_done
  <2>2. CASE ReadShard
    BY <2>2 DEF ReadShard, IInv, LengthInv
  <2>3. CASE Call /\ ~Drop
    BY <2>3, CallOutline
  <2>4. CASE InboxOverflow \/ ShardPanics \/ Drop
    BY <2>4 DEF InboxOverflow, ShardPanics, Drop
  <2>5. CASE \E f \in Frontend : ProcessSubBatch(f)
    BY <2>5 DEF ProcessSubBatch
  <2>6. CASE \E s \in Shard : GrowShard(s) \/ GrowPastMaxHeight(s)
    BY <2>6 DEF GrowShard, GrowPastMaxHeight
  <2>7. CASE Unwind \/ Drain \/ RouterReturns \/ HandleDeferredResize \/ FinishGrow \/ Readout \/ EmitShard
    BY <2>7 DEF Unwind, Drain, RouterReturns, HandleDeferredResize, FinishGrow, Readout, EmitShard
  <2> QED BY <2>1, <2>2, <2>3, <2>4, <2>5, <2>6, <2>7 DEF Next, Continue
<1> QED BY <1>1, InvariantHolds, PTL DEF Spec, RefusedForGood
-----------------------------------------------------------------------------
(***************************************************************************)
(* What is promised when the frontends share a batch evenly.                 *)
(***************************************************************************)

\* The frontends take the whole batch.  With others par_chunks leaves a rest that no
\* frontend routes.
EvenBatches == \A s \in Setups : s.batch_capacity % Max({s.frontend_count, 1}) = 0

LEMMA WholeBatch ==
  ASSUME EvenBatches, setup \in Setups
  PROVE  f_count * sub_n = setup.batch_capacity
<1> DEFINE c == setup.batch_capacity
           a == f_count
<1>1. c \in Nat /\ a \in Nat \ {0} /\ c % a = 0 /\ sub_n = c \div a
  BY BatchSizes DEF EvenBatches, f_count, sub_n
<1> HIDE DEF c, a
<1>2. c = a * (c \div a) + (c % a) /\ c \div a \in Nat
  BY <1>1, Division
<1>3. a * (c \div a) \in Nat
  BY <1>1, <1>2
<1>4. a * (c \div a) = c
  BY <1>1, <1>2, <1>3
<1> QED BY <1>1, <1>4 DEF c, a

\* Only the drain takes blocks off.
LEMMA PendingStays ==
  ASSUME IInv, Next, ~Drain
  PROVE  \A i \in DOMAIN pending : i \in DOMAIN pending' /\ pending'[i] = pending[i]
<1> USE DEF made, trees, flushing, outputs, estimator, visits, control
<1>1. pending \in Seq(Block) /\ pending' \in Seq(Block) /\ setup \in Setups
      /\ DOMAIN pending = 1..Len(pending) /\ Len(pending) \in Nat
  <2>1. pending \in Seq(Block) /\ pending' \in Seq(Block) /\ setup \in Setups
    BY TypeNext DEF IInv, TypeOK
  <2> QED BY <2>1
<1>2. ASSUME NEW all \in Seq(Block), begin_flush(all) \/ pending' = all, Len(all) >= Len(pending),
             \A i \in 1..Len(pending) : all[i] = pending[i]
      PROVE  \A i \in DOMAIN pending : i \in DOMAIN pending' /\ pending'[i] = pending[i]
  <2>1. Len(pending') >= Len(all) /\ \A i \in 1..Len(all) : pending'[i] = all[i]
    BY <1>1, <1>2, FlushBegins
  <2>2. \A i \in 1..Len(pending) : i \in 1..Len(all) /\ i \in 1..Len(pending')
    BY <1>1, <1>2, <2>1
  <2> QED BY <1>1, <1>2, <2>1, <2>2
<1>3. CASE begin_flush(pending) \/ pending' = pending
  BY <1>1, <1>2, <1>3
<1>4. CASE Call /\ ~Drop
  <2>1. ASSUME NEW blocks \in Seq(Block), buffer(blocks)
        PROVE  \A i \in DOMAIN pending : i \in DOMAIN pending' /\ pending'[i] = pending[i]
    <3> DEFINE all == pending \o blocks
    <3>1. /\ all \in Seq(Block) /\ Len(all) >= Len(pending)
          /\ \A i \in 1..Len(pending) : all[i] = pending[i]
      BY <1>1
    <3>2. begin_flush(all) \/ pending' = all
      BY <2>1 DEF buffer
    <3> HIDE DEF all
    <3> QED BY <1>2, <3>1, <3>2
  <2> QED BY <1>3, <1>4, <2>1, CallOutline
<1>5. CASE RouterReturns
  BY <1>3, <1>5 DEF RouterReturns
<1>6. CASE UNCHANGED pending
  BY <1>3, <1>6
<1>7. CASE Unwind \/ HandleDeferredResize \/ FinishGrow \/ ReadShard \/ Readout \/ EmitShard
  BY <1>6, <1>7 DEF Unwind, HandleDeferredResize, FinishGrow, ReadShard, Readout, EmitShard
<1>8. CASE InboxOverflow \/ ShardPanics \/ Drop
  BY <1>6, <1>8 DEF InboxOverflow, ShardPanics, Drop
<1>9. CASE \E f \in Frontend : ProcessSubBatch(f)
  BY <1>6, <1>9 DEF ProcessSubBatch
<1>10. CASE \E s \in Shard : ProcessBatchChunk(s) \/ GrowShard(s) \/ GrowPastMaxHeight(s)
  BY <1>6, <1>10 DEF ProcessBatchChunk, GrowShard, GrowPastMaxHeight
<1> QED BY <1>4, <1>5, <1>7, <1>8, <1>9, <1>10 DEF Next, Continue

\* What the drain takes off is in its shard, the rest moves up.
LEMMA DrainedBlocks ==
  ASSUME EvenBatches, IInv, Drain
  PROVE  LET c == setup.batch_capacity
         IN /\ \A i \in DOMAIN pending : pending[i] # Dummy =>
                 \/ pending[i].value \subseteq held[shard_of[pending[i].key]][pending[i].key]
                 \/ i - c \in DOMAIN pending' /\ pending'[i - c] = pending[i]
            /\ \A i \in DOMAIN pending' : c + i \in DOMAIN pending /\ pending'[i] = pending[c + i]
<1> DEFINE c == setup.batch_capacity
<1>1. /\ TypeOK /\ UpdateInv /\ stage = "route" /\ pending' = SubSeq(pending, c + 1, Len(pending))
      /\ \A s \in Shard : next_chunk[s] = f_count + 1
  BY DEF IInv, Drain, drained
<1>2. /\ c \in Nat /\ f_count \in Nat /\ f_count * sub_n = c /\ pending \in Seq(Block)
      /\ Len(pending) \in Nat /\ Len(pending) >= c
  <2>1. c \in Nat /\ f_count \in Nat /\ f_count * sub_n = c
    BY <1>1, BatchSizes, WholeBatch DEF TypeOK
  <2>2. pending \in Seq(Block) /\ Len(pending) >= c
    BY <1>1 DEF IInv, LengthInv, TypeOK
  <2> QED BY <2>1, <2>2
<1>3. DOMAIN pending = 1..Len(pending) /\ \A i \in DOMAIN pending : pending[i] \in Block
  BY <1>2
<1> HIDE DEF c
<1>4. /\ DOMAIN pending' = 1..(Len(pending) - c)
      /\ \A i \in 1..(Len(pending) - c) : pending'[i] = pending[c + i]
  <2>1. \A i \in (c + 1)..Len(pending) : pending[i] \in Block
    <3>1. \A i \in (c + 1)..Len(pending) : i \in 1..Len(pending)
      BY <1>2
    <3> QED BY <1>3, <3>1
  <2>2. /\ pending' \in Seq(Block)
        /\ Len(pending') = IF c + 1 <= Len(pending) THEN Len(pending) - (c + 1) + 1 ELSE 0
        /\ \A i \in 1..(Len(pending) - (c + 1) + 1) : pending'[i] = pending[(c + 1) + i - 1]
    BY <1>1, <1>2, <2>1, SubSeqProperties
  <2> DEFINE x == Len(pending)
             y == Len(pending')
  <2>3. x \in Nat /\ c \in Nat /\ x >= c /\ y = IF c + 1 <= x THEN x - (c + 1) + 1 ELSE 0
    BY <1>2, <2>2
  <2> HIDE DEF x, y
  <2>4. y = x - c /\ x - (c + 1) + 1 = x - c /\ \A i \in 1..(x - c) : (c + 1) + i - 1 = c + i
    BY <2>3
  <2>5. DOMAIN pending' = 1..y
    BY <2>2 DEF y
  <2> QED BY <2>2, <2>4, <2>5 DEF x, y
<1>5. \A i \in 1..(Len(pending) - c) : c + i \in 1..Len(pending)
  BY <1>2
<1>6. ASSUME NEW i \in DOMAIN pending, pending[i] # Dummy
      PROVE  \/ pending[i].value \subseteq held[shard_of[pending[i].key]][pending[i].key]
             \/ i - c \in DOMAIN pending' /\ pending'[i - c] = pending[i]
  <2>1. CASE i <= c
    <3>1. shard_of[pending[i].key] \in Shard
      BY <1>1, <1>3, <1>6, BlockParts DEF TypeOK
    <3>2. \A s \in Shard : next_chunk[s] - 1 = f_count
      <4>1. \A s \in Shard : next_chunk[s] = f_count + 1
        BY <1>1
      <4>2. f_count \in Nat
        BY <1>2
      <4> QED BY <4>1, <4>2
    <3>3. delivered(i)
      BY <1>1, <1>2, <2>1, <3>1, <3>2 DEF delivered
    <3> QED BY <1>1, <1>6, <3>3 DEF UpdateInv, DeliveredInOrder
  <2>2. CASE i > c
    <3>1. i - c \in 1..(Len(pending) - c) /\ c + (i - c) = i
      BY <1>2, <1>3, <2>2
    <3> QED BY <1>4, <3>1
  <2> QED BY <1>2, <1>3, <2>1, <2>2
<1> QED BY <1>3, <1>4, <1>5, <1>6 DEF c

\* With even batches a block leaves the buffer only when the shard of its key has
\* it (mod.rs:228).
THEOREM DrainLosesNothing ==
  ASSUME EvenBatches
  PROVE  Spec => DrainedAreDelivered
<1>1. IInv /\ [Next]_vars =>
        \A i \in DOMAIN pending :
          LET b == pending[i]
          IN \/ b = Dummy
             \/ \E j \in DOMAIN pending' : pending'[j] = b
             \/ b.value \subseteq held'[shard_of[b.key]][b.key]
  <2> SUFFICES ASSUME IInv, [Next]_vars, NEW i \in DOMAIN pending, pending[i] # Dummy
               PROVE  \/ \E j \in DOMAIN pending' : pending'[j] = pending[i]
                      \/ pending[i].value \subseteq held'[shard_of[pending[i].key]][pending[i].key]
    OBVIOUS
  <2>1. CASE Drain
    <3>1. held' = held
      BY <2>1 DEF Drain
    <3> QED BY <2>1, <3>1, DrainedBlocks
  <2>2. CASE Next /\ ~Drain
    BY <2>2, PendingStays
  <2>3. CASE UNCHANGED vars
    BY <2>3 DEF vars
  <2> QED BY <2>1, <2>2, <2>3
<1> QED BY <1>1, InvariantHolds, PTL DEF Spec, DrainedAreDelivered

\* Where an update waits to be read: in a shard or in the buffer.
found(holds, blocks, k, u) ==
  \/ \E s \in Shard : u \in holds[s][k]
  \/ \E i \in DOMAIN blocks : blocks[i].key = k /\ u \in blocks[i].value

LEMMA InPending ==
  ASSUME NEW k, NEW u
  PROVE  /\ u \in Pending(k) <=> found(held, pending, k, u)
         /\ u \in Pending(k)' <=> found(held', pending', k, u)
BY DEF Pending, found

\* What a flush or an append adds to it.
LEMMA PendingFlushed ==
  ASSUME IInv, NEW blocks \in Seq(Block), UNCHANGED held,
         begin_flush(pending \o blocks) \/ pending' = pending \o blocks,
         NEW k \in Key
  PROVE  Pending(k)' = Pending(k) \cup UNION {blocks[i].value : i \in {j \in DOMAIN blocks : blocks[j].key = k}}
<1> DEFINE all == pending \o blocks
           x == Len(pending)
           y == Len(blocks)
<1>1. pending \in Seq(Block) /\ setup \in Setups
  BY DEF IInv, TypeOK
<1>2. x \in Nat /\ y \in Nat /\ DOMAIN pending = 1..x /\ DOMAIN blocks = 1..y
  BY <1>1
<1>3. /\ all \in Seq(Block) /\ Len(all) = x + y
      /\ \A i \in 1..x : all[i] = pending[i]
      /\ \A i \in 1..y : all[x + i] = blocks[i]
  BY <1>1
<1>4. begin_flush(all) \/ pending' = all
  OBVIOUS
<1> HIDE DEF all
<1>5. /\ DOMAIN pending' = 1..Len(pending') /\ Len(pending') \in Nat /\ Len(pending') >= x + y
      /\ \A i \in 1..(x + y) : pending'[i] = all[i]
      /\ \A i \in DOMAIN pending' : ~(i \in 1..(x + y)) => pending'[i].key # k
  <2>1. CASE begin_flush(all)
    <3>1. /\ pending' \in Seq(Block) /\ Len(pending') >= Len(all)
          /\ \A i \in 1..Len(all) : pending'[i] = all[i]
          /\ \A i \in 1..Len(pending') : i > Len(all) => pending'[i] = Dummy
      BY <1>1, <1>3, <2>1, FlushBegins
    <3>2. Dummy.key # k
      BY KeyAssumption DEF Dummy
    <3>3. DOMAIN pending' = 1..Len(pending') /\ Len(pending') \in Nat
      BY <3>1
    <3> DEFINE z == Len(pending')
    <3>4. z \in Nat /\ z >= x + y /\ \A i \in 1..z : i > x + y => pending'[i] = Dummy
      BY <1>3, <3>1, <3>3
    <3> HIDE DEF x, y, z
    <3>5. \A i \in 1..z : ~(i \in 1..(x + y)) => pending'[i].key # k
      BY <1>2, <3>2, <3>4
    <3> QED BY <1>3, <3>1, <3>3, <3>4, <3>5 DEF z
  <2>2. CASE pending' = all
    BY <1>2, <1>3, <2>2
  <2> QED BY <1>4, <2>1, <2>2
<1>i. /\ \A i \in DOMAIN pending : i \in 1..x /\ i \in 1..(x + y) /\ i \in DOMAIN pending'
      /\ \A i \in DOMAIN blocks : i \in 1..y /\ x + i \in 1..(x + y) /\ x + i \in DOMAIN pending'
  <2> DEFINE z == Len(pending')
  <2>1. /\ z \in Nat /\ z >= x + y /\ DOMAIN pending' = 1..z
        /\ DOMAIN pending = 1..x /\ DOMAIN blocks = 1..y /\ x \in Nat /\ y \in Nat
    BY <1>2, <1>5
  <2> HIDE DEF x, y, z
  <2> QED BY <2>1
<1> HIDE DEF x, y
<1>6. \A i \in DOMAIN pending : i \in DOMAIN pending' /\ pending'[i] = pending[i]
  BY <1>3, <1>5, <1>i
<1>7. \A i \in DOMAIN blocks : x + i \in DOMAIN pending' /\ pending'[x + i] = blocks[i]
  BY <1>3, <1>5, <1>i
<1>8. \A i \in DOMAIN pending' : pending'[i].key = k =>
        \/ i \in DOMAIN pending /\ pending'[i] = pending[i]
        \/ i - x \in DOMAIN blocks /\ pending'[i] = blocks[i - x]
  <2>1. ASSUME NEW i \in 1..(x + y), ~(i \in DOMAIN pending)
        PROVE  i - x \in DOMAIN blocks /\ x + (i - x) = i
    BY <1>2, <2>1
  <2> QED BY <1>5, <1>6, <1>7, <2>1
<1>9. ASSUME NEW u
      PROVE  u \in Pending(k)' <=>
               u \in Pending(k) \/ \E i \in DOMAIN blocks : blocks[i].key = k /\ u \in blocks[i].value
  <2>1. found(held', pending', k, u) <=>
          found(held, pending, k, u) \/ \E i \in DOMAIN blocks : blocks[i].key = k /\ u \in blocks[i].value
    BY <1>6, <1>7, <1>8 DEF found
  <2> QED BY <2>1, InPending
<1> QED BY <1>9

\* Dispatching and draining only move updates.
LEMMA PendingMoved ==
  ASSUME EvenBatches, IInv, Drain \/ \E s \in Shard : ProcessBatchChunk(s), NEW k \in Key
  PROVE  Pending(k)' = Pending(k)
<1>1. CASE Drain
  <2> DEFINE c == setup.batch_capacity
  <2>1. held' = held
    BY <1>1 DEF Drain
  <2>2. ASSUME NEW i \in DOMAIN pending, NEW u \in pending[i].value, pending[i].key = k
        PROVE  found(held', pending', k, u)
    <3>1. pending[i] # Dummy
      BY <2>2, KeyAssumption DEF Dummy
    <3>2. shard_of[k] \in Shard
      BY DEF IInv, TypeOK
    <3> QED BY <1>1, <2>1, <2>2, <3>1, <3>2, DrainedBlocks DEF found
  <2>3. ASSUME NEW i \in DOMAIN pending', NEW u \in pending'[i].value, pending'[i].key = k
        PROVE  found(held, pending, k, u)
    BY <1>1, <2>3, DrainedBlocks DEF found
  <2>4. \A u : found(held', pending', k, u) <=> found(held, pending, k, u)
    BY <2>1, <2>2, <2>3 DEF found
  <2> QED BY <2>4, InPending
<1>2. ASSUME NEW s \in Shard, ProcessBatchChunk(s) PROVE Pending(k)' = Pending(k)
  <2> DEFINE f == next_chunk[s]
             chunk == routed_blocks(f)[s]
  <2>1. /\ stage = "route" /\ f \in Frontend /\ all_done /\ pending' = pending
        /\ held' = [held EXCEPT ![s] = inserted(held[s], frontends[f].blocks[s])]
    BY <1>2 DEF ProcessBatchChunk, ready, all_done
  <2>2. TypeOK /\ FrontendInv /\ Len(pending) >= setup.batch_capacity
    BY <2>1 DEF IInv, LengthInv
  <2>3. frontends[f].blocks[s] = chunk
    BY <2>1, <2>2 DEF FrontendInv, all_done
  <2>4. /\ \A b \in chunk : \A u \in b.value : \E i \in places(f) : pending[i].key = b.key /\ u \in pending[i].value
        /\ places(f) \subseteq DOMAIN pending
    BY <2>1, <2>2, RoutedBlocks, SubBatch
  <2>5. /\ held'[s][k] = held[s][k] \cup UNION {b.value : b \in {c \in chunk : c.key = k}}
        /\ \A t \in Shard : t # s => held'[t] = held[t]
    BY <2>1, <2>2, <2>3 DEF TypeOK, inserted
  <2> HIDE DEF f, chunk
  <2>6. \A u \in held'[s][k] : u \in held[s][k] \/ \E i \in DOMAIN pending : pending[i].key = k /\ u \in pending[i].value
    BY <2>4, <2>5
  <2>7. \A u : found(held', pending', k, u) <=> found(held, pending, k, u)
    <3>1. held[s][k] \subseteq held'[s][k]
      BY <2>5
    <3>2. ASSUME NEW u, found(held', pending', k, u) PROVE found(held, pending, k, u)
      BY <2>1, <2>5, <2>6, <3>2 DEF found
    <3>3. ASSUME NEW u, found(held, pending, k, u) PROVE found(held', pending', k, u)
      BY <2>1, <2>5, <3>1, <3>3 DEF found
    <3> QED BY <3>2, <3>3
  <2> QED BY <2>7, InPending
<1> QED BY <1>1, <1>2

\* No call is given more blocks than the largest call of any setup.
LEMMA LargestCall ==
  LET m == Max({1} \cup {s.max_blocks : s \in Setups})
  IN m \in Nat /\ m >= 1 /\ \A s \in Setups : s.max_blocks <= m
<1>1. \A s \in Setups : s.max_blocks \in Nat
  BY SetupAssumption DEF Setup
<1> DEFINE above(s) == {t \in Setups : t.max_blocks > s.max_blocks}
           tails == {above(s) : s \in Setups}
<1>2. tails \subseteq FiniteSubsetsOf(Setups) /\ tails # {}
  <2>1. \A s \in Setups : IsFiniteSet(above(s)) /\ above(s) \subseteq Setups
    BY SetupAssumption, FS_Subset
  <2> QED BY <2>1, SetupAssumption DEF FiniteSubsetsOf
<1>3. PICK a \in Setups : \A s \in Setups : <<above(s), above(a)>> \notin StrictSubsetOrdering(Setups)
  <2>1. PICK A \in tails : \A B \in tails : <<B, A>> \notin StrictSubsetOrdering(Setups)
    BY <1>2, FS_StrictSubsetOrderingWellFounded, WFMin
  <2> QED BY <2>1
<1>4. ASSUME NEW s \in Setups, s.max_blocks > a.max_blocks PROVE FALSE
  <2>1. s \in above(a) /\ s \notin above(s)
    BY <1>1, <1>4
  <2>2. above(s) \subseteq above(a)
    BY <1>1, <1>4
  <2>3. above(s) \in SUBSET Setups /\ above(a) \in SUBSET Setups
    OBVIOUS
  <2> HIDE DEF above
  <2>4. <<above(s), above(a)>> \in StrictSubsetOrdering(Setups)
    BY <2>1, <2>2, <2>3, Zenon DEF StrictSubsetOrdering
  <2> QED BY <1>3, <2>4
<1> DEFINE T == {1} \cup {s.max_blocks : s \in Setups}
           m == IF a.max_blocks >= 1 THEN a.max_blocks ELSE 1
<1>5. m \in T /\ \A y \in T : m >= y
  BY <1>1, <1>4
<1>6. Max(T) \in T /\ \A y \in T : Max(T) >= y
  <2> HIDE DEF T, m
  <2> QED BY <1>5 DEF Max
<1>7. T \subseteq Nat /\ 1 \in T /\ \A s \in Setups : s.max_blocks \in T
  BY <1>1
<1> DEFINE M == Max(T)
<1>8. M \in Nat /\ M >= 1 /\ \A s \in Setups : s.max_blocks <= M
  <2> HIDE DEF T, M
  <2>1. M \in T /\ \A y \in T : M >= y
    BY <1>6 DEF M
  <2>2. M \in Nat
    BY <1>7, <2>1
  <2> QED BY <1>7, <2>1, <2>2
<1> QED BY <1>8 DEF M, T

\* The keys' updates after a step, and what that step is to the promise.
LEMMA StutterRefines ==
  ASSUME \A k \in Key : Pending(k)' = Pending(k), UNCHANGED <<issued, result>>
  PROVE  [Promise!Next]_(Promise!vars)
BY DEF Promise!vars

LEMMA OtherRefines ==
  ASSUME \A k \in Key : Pending(k)' = Pending(k), UNCHANGED issued, result' = {}
  PROVE  [Promise!Next]_(Promise!vars)
<1>1. Promise!Other
  BY DEF Promise!Other
<1> QED BY <1>1 DEF Promise!Next

\* A read returns and forgets what its key's shard holds; nothing waits elsewhere.
LEMMA ReadRefines ==
  ASSUME IInv, Next, ReadShard
  PROVE  [Promise!Next]_(Promise!vars)
<1> DEFINE s == Min(unread)
<1>k. PICK key \in Key : key = call.key
  BY DEF IInv, StageInv, ReadShard
<1>1. /\ stage = "serve" /\ call.op = "read_total" /\ pending' = pending /\ issued' = issued
      /\ \/ /\ s = shard_of[key] /\ result' = held[s][key]
            /\ held' = [held EXCEPT ![s] = [held[s] EXCEPT ![key] = {}]]
         \/ UNCHANGED <<result, held>>
  BY <1>k DEF ReadShard
<1>2. pending = <<>> /\ TypeOK /\ UpdateInv
  BY <1>1 DEF IInv, LengthInv
<1>3. unread # {} /\ unread \subseteq Shard
  BY <1>1, Fixed DEF IInv, ReadoutInv, TypeOK
<1>4. s \in Shard
  BY <1>3, FirstUnread
<1> HIDE DEF s
<1>5. CASE UNCHANGED <<result, held>>
  <2>1. \A k \in Key : Pending(k)' = Pending(k)
    BY <1>1, <1>5 DEF Pending
  <2> QED BY <1>1, <1>5, <2>1, StutterRefines
<1>6. CASE /\ s = shard_of[key] /\ result' = held[s][key]
           /\ held' = [held EXCEPT ![s] = [held[s] EXCEPT ![key] = {}]]
  <2>1. /\ \A t \in Shard : t # s => held'[t] = held[t] /\ held[t][key] = {}
        /\ held'[s][key] = {} /\ \A k \in Key : k # key => held'[s][k] = held[s][k]
    <3>1. held \in [Shard -> [Key -> SUBSET Update]] /\ held[s] \in [Key -> SUBSET Update]
      BY <1>2, <1>4 DEF TypeOK
    <3>2. held'[s] = [held[s] EXCEPT ![key] = {}] /\ \A t \in Shard : t # s => held'[t] = held[t]
      BY <1>4, <1>6, <3>1
    <3>3. \A t \in Shard : t # s => held[t][key] = {}
      BY <1>2, <1>6 DEF UpdateInv, KeysAtHome
    <3> QED BY <1>2, <3>1, <3>2, <3>3
  <2>2. \A k, u : /\ found(held, pending, k, u) <=> \E t \in Shard : u \in held[t][k]
                  /\ found(held', pending', k, u) <=> \E t \in Shard : u \in held'[t][k]
    BY <1>1, <1>2 DEF found
  <2>3. Pending(key) = held[s][key]
    <3>1. \A u : found(held, pending, key, u) <=> u \in held[s][key]
      BY <1>4, <2>1, <2>2
    <3> QED BY <3>1, InPending
  <2>4. Pending(key)' = {}
    <3>1. \A u : ~found(held', pending', key, u)
      BY <2>1, <2>2
    <3> QED BY <3>1, InPending
  <2>5. ASSUME NEW k \in Key, k # key PROVE Pending(k)' = Pending(k)
    <3>1. \A u : found(held', pending', k, u) <=> found(held, pending, k, u)
      BY <2>1, <2>2, <2>5
    <3> QED BY <3>1, InPending
  <2>6. [k \in Key |-> Pending(k)]' = [[k \in Key |-> Pending(k)] EXCEPT ![key] = {}]
    BY <1>2, <2>4, <2>5
  <2>7. Promise!ReadTotal(key)
    BY <1>1, <1>2, <1>6, <2>3, <2>6 DEF Promise!ReadTotal
  <2> QED BY <1>2, <2>7 DEF Promise!Next
<1> QED BY <1>1, <1>5, <1>6

\* Buffering blocks adds the updates they carry to their keys.
LEMMA AppendRefines ==
  ASSUME IInv, NEW n \in Nat \ {0}, n <= setup.max_blocks \/ n = 1,
         NEW keys \in [1..n -> Key \cup {NoKey}], NEW amount \in Amount,
         buffer([i \in 1..n |-> new_block(keys[i], amount, issued + i)]),
         held' = held, result' = {}
  PROVE  [Promise!Next]_(Promise!vars)
<1> DEFINE blocks == [i \in 1..n |-> new_block(keys[i], amount, issued + i)]
           entries == [i \in 1..n |-> IF keys[i] = NoKey THEN Promise!Masked
                                      ELSE [key |-> keys[i], amount |-> amount, cond |-> 1]]
           MaxBatch == Max({1} \cup {s.max_blocks : s \in Setups})
<1>1. blocks \in Seq(Block) /\ Len(blocks) = n /\ issued \in Nat /\ setup \in Setups
  <2>1. TypeOK /\ issued \in Nat /\ setup \in Setups
    BY DEF IInv, TypeOK
  <2>2. blocks = [i \in DOMAIN keys |-> new_block(keys[i], amount, issued + i)]
    OBVIOUS
  <2> HIDE DEF blocks
  <2>3. blocks \in Seq(Block) /\ Len(blocks) = n
    BY <2>1, <2>2, IncrementedBlocks
  <2> QED BY <2>1, <2>3
<1>2. issued' = issued + n /\ (begin_flush(pending \o blocks) \/ pending' = pending \o blocks)
  BY <1>1 DEF buffer
<1>3. entries \in Promise!Batch /\ Len(entries) = n
  <2>1. MaxBatch \in Nat /\ n \in 1..MaxBatch
    <3>1. MaxBatch \in Nat /\ MaxBatch >= 1 /\ setup.max_blocks \in Nat /\ setup.max_blocks <= MaxBatch
      BY <1>1, BatchSizes, LargestCall
    <3> HIDE DEF MaxBatch
    <3> QED BY <3>1
  <2>2. \A i \in 1..n : entries[i] \in Promise!Entry
    BY DEF Promise!Entry
  <2>3. entries \in [1..n -> Promise!Entry]
    BY <2>2
  <2> HIDE DEF entries, MaxBatch
  <2>4. Len(entries) = n
    BY <2>3
  <2>5. entries \in UNION {[1..l -> Promise!Entry] : l \in 1..MaxBatch}
    BY <2>1, <2>3
  <2> QED BY <2>4, <2>5 DEF Promise!Batch, MaxBatch
<1>4. ASSUME NEW k \in Key
      PROVE  UNION {blocks[i].value : i \in {j \in DOMAIN blocks : blocks[j].key = k}}
             = Promise!Updates(k, entries, issued)
  <2>1. DOMAIN blocks = 1..n /\ DOMAIN entries = 1..n
    OBVIOUS
  <2>2. \A i \in 1..n : /\ blocks[i].key = k <=> keys[i] = k
                        /\ keys[i] = k => blocks[i].value = {<<issued + i, amount>>}
    <3>1. k # NoKey
      BY KeyAssumption
    <3> QED BY <3>1 DEF new_block, Dummy
  <2>3. \A i \in 1..n : /\ entries[i].cond = 1 /\ entries[i].key = k <=> keys[i] = k
                        /\ keys[i] = k => entries[i].amount = amount
    <3>1. k # NoKey
      BY KeyAssumption
    <3> QED BY <3>1 DEF Promise!Masked
  <2> HIDE DEF blocks, entries
  <2>4. Promise!Updates(k, entries, issued) = {<<issued + i, amount>> : i \in {j \in 1..n : keys[j] = k}}
    BY <2>1, <2>3 DEF Promise!Updates
  <2>5. UNION {blocks[i].value : i \in {j \in DOMAIN blocks : blocks[j].key = k}}
        = {<<issued + i, amount>> : i \in {j \in 1..n : keys[j] = k}}
    <3>1. {j \in DOMAIN blocks : blocks[j].key = k} = {j \in 1..n : keys[j] = k}
      BY <2>1, <2>2
    <3>2. {blocks[i].value : i \in {j \in 1..n : keys[j] = k}}
          = {{<<issued + i, amount>>} : i \in {j \in 1..n : keys[j] = k}}
      BY <2>2
    <3>3. UNION {{<<issued + i, amount>>} : i \in {j \in 1..n : keys[j] = k}}
          = {<<issued + i, amount>> : i \in {j \in 1..n : keys[j] = k}}
      OBVIOUS
    <3> QED BY <3>1, <3>2, <3>3
  <2> QED BY <2>4, <2>5
<1> HIDE DEF blocks, entries
<1>5. \A k \in Key : Pending(k)' = Pending(k) \cup Promise!Updates(k, entries, issued)
  BY <1>1, <1>2, <1>4, PendingFlushed
<1>6. Promise!AppendAll(entries)
  BY <1>2, <1>3, <1>5 DEF Promise!AppendAll
<1> QED BY <1>3, <1>6 DEF Promise!Next

\* A call that begins.
LEMMA CallRefines ==
  ASSUME IInv, Next, Call, ~Drop
  PROVE  [Promise!Next]_(Promise!vars)
<1> USE DEF made, trees, flushing, outputs, estimator, visits, control, begin
<1>1. ASSUME NEW key \in Key, NEW amount \in Amount, AppendOne(key, amount)
      PROVE  [Promise!Next]_(Promise!vars)
  <2> DEFINE keys == [i \in 1..1 |-> key]
  <2>1. <<new_block(key, amount, issued + 1)>> = [i \in 1..1 |-> new_block(keys[i], amount, issued + i)]
    OBVIOUS
  <2>2. keys \in [1..1 -> Key \cup {NoKey}]
    OBVIOUS
  <2>3. buffer(<<new_block(key, amount, issued + 1)>>) /\ held' = held /\ result' = {}
    BY <1>1 DEF AppendOne
  <2> HIDE DEF keys
  <2>4. buffer([i \in 1..1 |-> new_block(keys[i], amount, issued + i)])
    BY <2>1, <2>3
  <2>5. 1 \in Nat \ {0} /\ (1 <= setup.max_blocks \/ 1 = 1)
    OBVIOUS
  <2> QED BY <2>2, <2>3, <2>4, <2>5, AppendRefines
<1>2. ASSUME NEW n \in 1..setup.max_blocks, NEW keys \in [1..n -> Key \cup {NoKey}],
             NEW amount \in Amount, IncrementBlocks(keys, amount)
      PROVE  [Promise!Next]_(Promise!vars)
  <2>1. n \in Nat \ {0} /\ n <= setup.max_blocks
    BY BatchSizes DEF IInv, TypeOK
  <2>2. DOMAIN keys = 1..n
    OBVIOUS
  <2>3. buffer([i \in 1..n |-> new_block(keys[i], amount, issued + i)]) /\ held' = held /\ result' = {}
    BY <1>2, <2>2 DEF IncrementBlocks
  <2> QED BY <2>1, <2>3, AppendRefines
<1>3. ASSUME begin_flush(pending) \/ pending' = pending, UNCHANGED <<held, issued>>, result' = {}
      PROVE  [Promise!Next]_(Promise!vars)
  <2>1. pending \o <<>> = pending /\ <<>> \in Seq(Block) /\ DOMAIN (<<>>) = {}
    BY DEF IInv, TypeOK
  <2>2. \A k \in Key : Pending(k)' = Pending(k) \cup UNION {<<>>[i].value : i \in {j \in DOMAIN (<<>>) : <<>>[j].key = k}}
    BY <1>3, <2>1, PendingFlushed
  <2>3. \A k \in Key : Pending(k)' = Pending(k)
    BY <2>1, <2>2
  <2> QED BY <1>3, <2>3, OtherRefines
<1>4. CASE RouterFlush \/ Flush
  BY <1>3, <1>4 DEF RouterFlush, Flush
<1>5. CASE \E key \in Key : ReadTotal(key)
  BY <1>3, <1>5 DEF ReadTotal
<1>6. CASE \E op \in {"readout", "into_readout"} : BeginReadout(op)
  BY <1>3, <1>6 DEF BeginReadout
<1>7. CASE Grow \/ EnableAutoResize
  BY <1>3, <1>7 DEF Grow, EnableAutoResize
<1> QED BY <1>1, <1>2, <1>4, <1>5, <1>6, <1>7 DEF Call

\* Every step is one of the promise's, or none.
LEMMA NextRefines ==
  ASSUME EvenBatches, IInv, [Next]_vars
  PROVE  [Promise!Next]_(Promise!vars)
<1> USE DEF made, trees, flushing, outputs, estimator, visits, control
<1>1. CASE UNCHANGED <<held, pending, issued, result>>
  <2>1. \A k \in Key : Pending(k)' = Pending(k)
    BY <1>1 DEF Pending
  <2> QED BY <1>1, <2>1, StutterRefines
<1>2. CASE UNCHANGED vars
  BY <1>1, <1>2 DEF vars
<1>3. CASE Next /\ (Drain \/ \E s \in Shard : ProcessBatchChunk(s))
  <2>1. UNCHANGED <<issued, result>>
    BY <1>3 DEF Drain, ProcessBatchChunk
  <2> QED BY <1>3, <2>1, PendingMoved, StutterRefines
<1>4. CASE Next /\ RouterReturns
  <2>1. (begin_flush(pending) \/ pending' = pending) /\ UNCHANGED <<held, issued, result>>
    BY <1>4 DEF RouterReturns
  <2>2. pending \o <<>> = pending /\ <<>> \in Seq(Block) /\ DOMAIN (<<>>) = {}
    BY DEF IInv, TypeOK
  <2>3. \A k \in Key : Pending(k)' = Pending(k) \cup UNION {<<>>[i].value : i \in {j \in DOMAIN (<<>>) : <<>>[j].key = k}}
    BY <2>1, <2>2, PendingFlushed
  <2>4. \A k \in Key : Pending(k)' = Pending(k)
    BY <2>2, <2>3
  <2> QED BY <2>1, <2>4, StutterRefines
<1>5. CASE Next /\ ReadShard
  BY <1>5, ReadRefines
<1>6. CASE Next /\ Call /\ ~Drop
  BY <1>6, CallRefines
<1>7. CASE \/ Unwind \/ HandleDeferredResize \/ FinishGrow \/ Readout \/ EmitShard
           \/ InboxOverflow \/ ShardPanics \/ Drop
  BY <1>1, <1>7 DEF Unwind, HandleDeferredResize, FinishGrow, Readout, EmitShard, InboxOverflow,
     ShardPanics, Drop
<1>8. CASE \E f \in Frontend : ProcessSubBatch(f)
  BY <1>1, <1>8 DEF ProcessSubBatch
<1>9. CASE \E s \in Shard : GrowShard(s) \/ GrowPastMaxHeight(s)
  BY <1>1, <1>9 DEF GrowShard, GrowPastMaxHeight
<1> QED BY <1>2, <1>3, <1>4, <1>5, <1>6, <1>7, <1>8, <1>9 DEF Next, Continue

\* With even batches the sharded histogram keeps the promise of a single one: over
\* any flushes, reads, readouts, resizes and panics a read returns exactly what was
\* appended to its key since the last read (mod.rs:436-590).
THEOREM ShardedKeepsPromise ==
  ASSUME EvenBatches
  PROVE  Spec => KeepsPromise
<1>1. IInv /\ [Next]_vars => [Promise!Next]_(Promise!vars)
  BY NextRefines
<1>2. Init => Promise!Init
  <2> SUFFICES ASSUME Init PROVE Promise!Init
    OBVIOUS
  <2>1. pending = <<>> /\ \A s \in Shard, k \in Key : held[s][k] = {}
    BY DEF Init
  <2>2. \A k \in Key : Pending(k) = {}
    BY <2>1 DEF Pending
  <2> QED BY <2>2 DEF Init, Promise!Init
<1> QED BY <1>1, <1>2, InvariantHolds, PTL DEF Spec, KeepsPromise, Promise!Spec
=============================================================================
