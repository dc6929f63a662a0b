-------------------------- MODULE ShardedHistogram --------------------------
(***************************************************************************)
(* ShardedObliviousHistogram and its ShardedBatchRouter:                     *)
(* crates/oram/src/sharded_oblivious_histogram/mod.rs.  Updates are buffered *)
(* in pending; a flush cuts the batch into one sub-batch for each frontend,  *)
(* frontends reduce and route their sub-batches in parallel, then shards     *)
(* insert what was routed to them in parallel, then the batch is dropped.    *)
(*                                                                         *)
(* Calls take &mut self and never overlap; inside a call, frontends and      *)
(* shards are jobs of a thread pool and take their steps in any order.  A    *)
(* shard is what ObliviousHistogram was shown to implement: for each key the *)
(* updates added to it since it was last read.  A panic in a frontend        *)
(* unwinds the call; its caller may catch it and go on.  After a panic       *)
(* inside a shard nothing is said of the histogram any more.                 *)
(***************************************************************************)
EXTENDS Integers, Sequences, FiniteSets, FiniteSetsExt

CONSTANTS
  Key, Amount,
  ShardCount,         \* number of shards; shard 0 coordinates resizing
  PrfShards,          \* the possible prf: functions from keys to shards
  InitialHeight, MAX_TREE_HEIGHT,
  Setups              \* how a histogram may be made and used, see Setup

VARIABLES
  setup,              \* the one of Setups at work
  shard_of,           \* the shard of every key, fixed by new
  pending,            \* router.pending: the buffered blocks
  frontends,          \* what each frontend has done with its sub-batch
  next_chunk,         \* the frontend whose chunk each shard processes next
  held,               \* the updates each shard holds for each key
  height, shard_epoch,\* of each shard's tree
  grow_signal,        \* pending_grow of shard 0's estimator
  auto_resize,
  epoch, capacity,    \* the sharded histogram's own; size_in_bytes follows capacity
  growing,            \* shards a resize has still to double
  unread,             \* shards that a read or a consuming readout has still to visit
  accesses,           \* how often this call accessed each shard, in its last batch
  issued,             \* how many blocks were appended
  result, read_out,   \* what the last read, the last readout returned
  call,               \* the last call, and where it is
  stage,
  caught,             \* whether a frontend has ever panicked
  ended               \* "no", or why no further call is made

made == <<setup, shard_of>>
vars == <<made, pending, frontends, next_chunk, held, height, shard_epoch, grow_signal,
          auto_resize, epoch, capacity, growing, unread, accesses, issued, result, read_out,
          call, stage, caught, ended>>
trees == <<height, shard_epoch, epoch, capacity, growing>>
flushing == <<frontends, next_chunk>>
outputs == <<result, read_out>>
estimator == <<grow_signal, auto_resize>>
visits == <<unread, accesses>>
control == <<call, stage, caught, ended>>

Shard == 0..(ShardCount - 1)

\* What new is given, and what its owner does with it: direct_router, whether it calls the
\* router's own flush and increment_blocks; resizing, which of grow ("manual") and
\* enable_auto_resize ("auto") it calls; shard_faults, whether a shard may panic.
\* Bounds: max_appends blocks in all, max_blocks in one call of increment_blocks.
Setup ==
  [batch_capacity : Nat \ {0}, per_shard_quota : Nat, frontend_count : Nat,
   direct_router : BOOLEAN, resizing : SUBSET {"manual", "auto"}, shard_faults : BOOLEAN,
   max_appends : Nat, max_blocks : Nat]

f_count == Max({setup.frontend_count, 1})
Frontend == 1..f_count

ASSUME SizeAssumption ==
  /\ ShardCount \in Nat \ {0}
  /\ PrfShards \subseteq [Key -> Shard]
ASSUME HeightAssumption == MAX_TREE_HEIGHT \in Nat /\ InitialHeight \in 1..MAX_TREE_HEIGHT
ASSUME SetupAssumption == Setups \subseteq Setup /\ IsFiniteSet(Setups) /\ Setups # {}

NoKey == "no key"
ASSUME KeyAssumption == NoKey \notin Key

Dummy == [key |-> NoKey, value |-> {}]
Update == Nat \X Amount
Block == [key : Key, value : SUBSET Update] \cup {Dummy}

Calls == {"new", "append", "increment_blocks", "router_flush", "flush", "read_total",
          "readout", "into_readout", "grow", "enable_auto_resize", "unwound"}
Endings == {"max height", "consumed", "inbox overflow", "shard panicked", "dropped",
            "dropped with pending updates"}
Stages == {"idle", "route", "routed", "grow", "serve"}

Idle == stage = "idle" /\ ended = "no"

-----------------------------------------------------------------------------
(***************************************************************************)
(* Beginning a flush and routing a sub-batch.                               *)
(***************************************************************************)

\* pending.resize: a short batch is filled with dummies.
padded(blocks) ==
  [i \in 1..Max({Len(blocks), setup.batch_capacity}) |->
     IF i <= Len(blocks) THEN blocks[i] ELSE Dummy]

\* router.flush with these blocks pending; with none it returns at once.
begin_flush(blocks) ==
  \/ blocks = <<>> /\ pending' = blocks /\ stage' = "routed"
  \/ blocks # <<>> /\ pending' = padded(blocks) /\ stage' = "route"

sub_n     == setup.batch_capacity \div f_count
sub_quota == setup.per_shard_quota \div f_count

\* Mutant: the last block of a sub-batch is left out.
Mut_sub_batch_short(f) == SubSeq(pending, (f - 1) * sub_n + 1, f * sub_n - 1)

\* The f-th chunk of par_chunks.  zip pairs it with the f-th frontend; chunks
\* past the last frontend are paired with none.
sub_batch(f) == SubSeq(pending, (f - 1) * sub_n + 1, f * sub_n)

\* sort_reduce_compact: one block for each key, dummies gone.
reduced(blocks) ==
  {[key   |-> k,
    value |-> UNION {blocks[i].value : i \in {j \in DOMAIN blocks : blocks[j].key = k}}] :
     k \in {blocks[i].key : i \in DOMAIN blocks} \ {NoKey}}

shard_blocks(blocks) == [s \in Shard |-> {b \in reduced(blocks) : shard_of[b.key] = s}]

\* Some shard's load exceeds the quota of a sub-batch.
over_quota(routed) == \E s \in Shard : Cardinality(routed[s]) > sub_quota

NotRouted == [state |-> "todo", blocks |-> [s \in Shard |-> {}]]
idle_frontends == [f \in Frontend |-> NotRouted]

\* process_sub_batch, by the frontend's job.
ProcessSubBatch(f) ==
  LET routed == shard_blocks(sub_batch(f))
  IN /\ stage = "route" /\ sub_n > 0 /\ frontends[f].state = "todo"
     /\ frontends' = [frontends EXCEPT ![f] =
                        IF over_quota(routed) THEN [NotRouted EXCEPT !.state = "panicked"]
                                              ELSE [state |-> "done", blocks |-> routed]]
     /\ UNCHANGED <<made, pending, next_chunk, held, trees, estimator, visits, issued,
                    outputs, control>>

\* A frontend panicked, or par_chunks did because a chunk would be empty.  The
\* panic leaves flush when no job runs any more; jobs that have not started may
\* be left out.
Unwind ==
  /\ stage = "route"
  /\ sub_n = 0 \/ \E f \in Frontend : frontends[f].state = "panicked"
  /\ stage' = "idle" /\ caught' = TRUE
  /\ call' = [call EXCEPT !.op = "unwound"]
  /\ frontends' = idle_frontends
  /\ next_chunk' = [s \in Shard |-> 1]
  /\ UNCHANGED <<made, pending, held, trees, estimator, visits, issued, outputs, ended>>

-----------------------------------------------------------------------------
(***************************************************************************)
(* Dispatch to the shards.                                                  *)
(***************************************************************************)

\* Mutant: a shard starts on a chunk as soon as that chunk is there.
Mut_no_barrier(f) == frontends[f].state = "done"

\* The second parallel loop starts when the first one has returned.
ready(f) == \A g \in Frontend : frontends[g].state = "done"

\* What a shard holds after a chunk.
inserted(holds, chunk) ==
  [k \in Key |-> holds[k] \cup UNION {b.value : b \in {c \in chunk : c.key = k}}]

\* process_batch_chunk, by the shard's job.  Evictions may end shard 0's
\* estimator window with a signal, which then stays until it is taken.
ProcessBatchChunk(s) ==
  LET f == next_chunk[s]
  IN /\ stage = "route" /\ f \in Frontend /\ ready(f)
     /\ held' = [held EXCEPT ![s] = inserted(@, frontends[f].blocks[s])]
     /\ next_chunk' = [next_chunk EXCEPT ![s] = f + 1]
     /\ accesses' = [accesses EXCEPT ![s] = @ + 1]
     /\ grow_signal' \in IF s = 0 /\ auto_resize THEN {grow_signal, TRUE} ELSE {grow_signal}
     /\ UNCHANGED <<made, pending, frontends, trees, auto_resize, unread, issued,
                    outputs, control>>

\* Mutant: nothing is taken off.
Mut_drained_nothing == pending

\* pending.clear or pending.drain.
drained == SubSeq(pending, setup.batch_capacity + 1, Len(pending))

Drain ==
  /\ stage = "route" /\ \A s \in Shard : next_chunk[s] = f_count + 1
  /\ pending' = drained
  /\ stage' = "routed"
  /\ frontends' = idle_frontends
  /\ next_chunk' = [s \in Shard |-> 1]
  /\ UNCHANGED <<made, held, trees, estimator, visits, issued, outputs, call, caught,
                 ended>>

\* increment_blocks flushes while the buffer holds a batch; a flush called on the
\* router returns.
RouterReturns ==
  /\ stage = "routed" /\ call.op \in {"increment_blocks", "router_flush"}
  /\ IF call.op = "increment_blocks" /\ Len(pending) >= setup.batch_capacity
       THEN begin_flush(pending) /\ accesses' = [s \in Shard |-> 0]
       ELSE stage' = "idle" /\ UNCHANGED <<pending, accesses>>
  /\ UNCHANGED <<made, flushing, held, trees, estimator, unread, issued, outputs, call,
                 caught, ended>>

-----------------------------------------------------------------------------
(***************************************************************************)
(* Growing the shards: at the end of a flush, or by hand.                   *)
(***************************************************************************)
after_flush == IF call.op \in {"append", "flush"} THEN "idle" ELSE "serve"

grow_due == auto_resize /\ grow_signal

\* Mutant: only the shard that signalled grows.
Mut_only_coordinator_grows == {0}

shards_to_grow == Shard

\* handle_deferred_resize takes the signal, then doubles every shard.
HandleDeferredResize ==
  /\ stage = "routed" /\ call.op \notin {"increment_blocks", "router_flush"}
  /\ \/ grow_due /\ grow_signal' = FALSE /\ growing' = shards_to_grow /\ stage' = "grow"
     \/ ~grow_due /\ stage' = after_flush /\ UNCHANGED <<grow_signal, growing>>
  /\ UNCHANGED <<made, pending, flushing, held, height, shard_epoch, epoch, capacity,
                 auto_resize, visits, issued, outputs, call, caught, ended>>

\* Mutant: the height is not checked.
Mut_GrowShard_unchecked(s) ==
  /\ stage = "grow" /\ s \in growing
  /\ height' = [height EXCEPT ![s] = @ + 1]
  /\ shard_epoch' = [shard_epoch EXCEPT ![s] = Min({@ + 1, 255})]
  /\ growing' = growing \ {s}
  /\ UNCHANGED <<made, pending, flushing, held, epoch, capacity, estimator, visits,
                 issued, outputs, control>>

\* One shard's part of the parallel loop.
GrowShard(s) ==
  /\ stage = "grow" /\ s \in growing
  /\ height[s] < MAX_TREE_HEIGHT
  /\ height' = [height EXCEPT ![s] = @ + 1]
  /\ shard_epoch' = [shard_epoch EXCEPT ![s] = Min({@ + 1, 255})]
  /\ growing' = growing \ {s}
  /\ UNCHANGED <<made, pending, flushing, held, epoch, capacity, estimator, visits,
                 issued, outputs, control>>

GrowPastMaxHeight(s) ==
  /\ stage = "grow" /\ s \in growing
  /\ height[s] = MAX_TREE_HEIGHT
  /\ ended' = "max height"
  /\ UNCHANGED <<made, pending, flushing, held, trees, estimator, visits, issued,
                 outputs, call, stage, caught>>

FinishGrow ==
  /\ stage = "grow" /\ growing = {}
  /\ capacity' = 2 * capacity
  /\ stage' = IF call.op = "grow" THEN "idle" ELSE after_flush
  /\ UNCHANGED <<made, pending, flushing, held, height, shard_epoch, epoch, growing,
                 estimator, visits, issued, outputs, call, caught, ended>>

-----------------------------------------------------------------------------
(***************************************************************************)
(* What a call does after its flush.                                        *)
(***************************************************************************)

\* read_total visits the shards in order: the key's shard is read, the others
\* do a dummy read.
ReadShard ==
  LET s == Min(unread)
  IN /\ stage = "serve" /\ call.op = "read_total"
     /\ IF s = shard_of[call.key]
          THEN /\ result' = held[s][call.key]
               /\ held' = [held EXCEPT ![s][call.key] = {}]
          ELSE UNCHANGED <<result, held>>
     /\ accesses' = [accesses EXCEPT ![s] = @ + 1]
     /\ unread' = unread \ {s}
     /\ stage' = IF unread' = {} THEN "idle" ELSE stage
     /\ UNCHANGED <<made, pending, flushing, trees, estimator, issued, read_out, call,
                    caught, ended>>

\* readout, readout_tree_aware and export_entries change nothing.
Readout ==
  /\ stage = "serve" /\ call.op = "readout"
  /\ read_out' = [k \in Key |-> UNION {held[s][k] : s \in Shard}]
  /\ stage' = "idle"
  /\ UNCHANGED <<made, pending, flushing, held, trees, estimator, visits, issued,
                 result, call, caught, ended>>

\* into_readout_subtree_partitioned hands the shards over one after the other.
EmitShard ==
  LET s == Min(unread)
  IN /\ stage = "serve" /\ call.op = "into_readout"
     /\ read_out' = [k \in Key |-> read_out[k] \cup held[s][k]]
     /\ unread' = unread \ {s}
     /\ ended' = IF unread' = {} THEN "consumed" ELSE ended
     /\ UNCHANGED <<made, pending, flushing, held, trees, estimator, accesses, issued,
                    result, call, stage, caught>>

\* Err(SubtreeReadoutOverflow): an inbox of the next shard was too small.
InboxOverflow ==
  /\ stage = "serve" /\ call.op = "into_readout"
  /\ ended' = "inbox overflow"
  /\ UNCHANGED <<made, pending, flushing, held, trees, estimator, visits, issued,
                 outputs, call, stage, caught>>

\* A shard panics while its job runs.
ShardPanics ==
  /\ setup.shard_faults
  /\ \/ stage = "route" /\ \E s \in Shard : next_chunk[s] \in Frontend /\ ready(next_chunk[s])
     \/ stage = "grow" /\ growing # {}
     \/ stage = "serve" /\ call.op = "read_total"
  /\ ended' = "shard panicked"
  /\ UNCHANGED <<made, pending, flushing, held, trees, estimator, visits, issued,
                 outputs, call, stage, caught>>

-----------------------------------------------------------------------------
(***************************************************************************)
(* Calls.                                                                   *)
(***************************************************************************)
begin(op, key) ==
  /\ Idle
  /\ call' = [op |-> op, key |-> key]
  /\ result' = {} /\ read_out' = [k \in Key |-> {}]
  /\ accesses' = [s \in Shard |-> 0]
  /\ UNCHANGED <<made, flushing, held, caught, ended>>

new_block(key, amount, number) ==
  IF key = NoKey THEN Dummy ELSE [key |-> key, value |-> {<<number, amount>>}]

\* Buffers blocks, and flushes once they fill a batch.
buffer(blocks) ==
  /\ issued' = issued + Len(blocks)
  /\ LET all == pending \o blocks
     IN IF Len(all) >= setup.batch_capacity
          THEN begin_flush(all)
          ELSE pending' = all /\ UNCHANGED stage

AppendOne(key, amount) ==
  /\ begin("append", NoKey) /\ issued < setup.max_appends
  /\ buffer(<<new_block(key, amount, issued + 1)>>)
  /\ UNCHANGED <<trees, estimator, unread>>

\* The router's increment_blocks takes prepared blocks, dummies among them.
IncrementBlocks(keys, amount) ==
  /\ setup.direct_router /\ begin("increment_blocks", NoKey)
  /\ issued + Len(keys) <= setup.max_appends
  /\ buffer([i \in DOMAIN keys |-> new_block(keys[i], amount, issued + i)])
  /\ UNCHANGED <<trees, estimator, unread>>

RouterFlush ==
  /\ setup.direct_router /\ begin("router_flush", NoKey)
  /\ begin_flush(pending)
  /\ UNCHANGED <<trees, estimator, unread, issued>>

Flush ==
  /\ begin("flush", NoKey)
  /\ begin_flush(pending)
  /\ UNCHANGED <<trees, estimator, unread, issued>>

\* Mutant: dummy reads are left out.
Mut_only_target_read(key) == {shard_of[key]}

shards_read(key) == Shard

\* Mutant: what is pending is not flushed before a read.
Mut_read_without_flush(key) ==
  /\ begin("read_total", key)
  /\ stage' = "serve"
  /\ unread' = Shard
  /\ UNCHANGED <<pending, trees, estimator, issued>>

ReadTotal(key) ==
  /\ begin("read_total", key)
  /\ begin_flush(pending)
  /\ unread' = shards_read(key)
  /\ UNCHANGED <<trees, estimator, issued>>

\* Mutant: what is pending is not flushed before a readout.
Mut_readout_without_flush(op) ==
  /\ begin(op, NoKey)
  /\ stage' = "serve"
  /\ unread' = Shard
  /\ UNCHANGED <<pending, trees, estimator, issued>>

BeginReadout(op) ==
  /\ begin(op, NoKey)
  /\ begin_flush(pending)
  /\ unread' = Shard
  /\ UNCHANGED <<trees, estimator, issued>>

\* grow does not flush.
Grow ==
  /\ "manual" \in setup.resizing /\ begin("grow", NoKey)
  /\ epoch' = Min({epoch + 1, 255})
  /\ growing' = Shard
  /\ stage' = "grow"
  /\ UNCHANGED <<pending, height, shard_epoch, capacity, estimator, unread, issued>>

\* Each shard gets a new estimator.
EnableAutoResize ==
  /\ "auto" \in setup.resizing /\ begin("enable_auto_resize", NoKey)
  /\ auto_resize' = TRUE
  /\ grow_signal' = FALSE
  /\ UNCHANGED <<pending, trees, unread, issued, stage>>

\* Dropping a histogram with pending blocks panics.
Drop ==
  /\ Idle
  /\ ended' = IF pending = <<>> THEN "dropped" ELSE "dropped with pending updates"
  /\ UNCHANGED <<made, pending, flushing, held, trees, estimator, visits, issued,
                 outputs, call, stage, caught>>

-----------------------------------------------------------------------------
Init ==
  /\ setup \in Setups
  /\ shard_of \in PrfShards
  /\ pending = <<>>
  /\ frontends = idle_frontends
  /\ next_chunk = [s \in Shard |-> 1]
  /\ held = [s \in Shard |-> [k \in Key |-> {}]]
  /\ height = [s \in Shard |-> InitialHeight] /\ shard_epoch = [s \in Shard |-> 0]
  /\ grow_signal = FALSE /\ auto_resize = FALSE
  /\ epoch = 0 /\ capacity = 1
  /\ growing = {} /\ unread = {}
  /\ accesses = [s \in Shard |-> 0]
  /\ issued = 0 /\ result = {}
  /\ read_out = [k \in Key |-> {}]
  /\ call = [op |-> "new", key |-> NoKey] /\ stage = "idle"
  /\ caught = FALSE /\ ended = "no"

\* What the call in progress does next.
Continue ==
  \/ \E f \in Frontend : ProcessSubBatch(f)
  \/ Unwind
  \/ \E s \in Shard : ProcessBatchChunk(s)
  \/ Drain
  \/ RouterReturns
  \/ HandleDeferredResize
  \/ \E s \in Shard : GrowShard(s)
  \/ \E s \in Shard : GrowPastMaxHeight(s)
  \/ FinishGrow
  \/ ReadShard
  \/ Readout
  \/ EmitShard

Call ==
  \/ \E key \in Key, amount \in Amount : AppendOne(key, amount)
  \/ \E n \in 1..setup.max_blocks : \E keys \in [1..n -> Key \cup {NoKey}], amount \in Amount :
       IncrementBlocks(keys, amount)
  \/ RouterFlush
  \/ Flush
  \/ \E key \in Key : ReadTotal(key)
  \/ \E op \in {"readout", "into_readout"} : BeginReadout(op)
  \/ Grow
  \/ EnableAutoResize
  \/ Drop

Next == ended = "no" /\ (Continue \/ InboxOverflow \/ ShardPanics \/ Call)

Spec == Init /\ [][Next]_vars

max_frontends == Max({1} \cup {s.frontend_count : s \in Setups})

\* The thread pool runs every job it was given, and a call's own code goes on:
\* each is straight-line code with bounded loops.  Nothing makes a caller call.
Fairness ==
  /\ \A f \in 1..max_frontends : WF_vars(ended = "no" /\ f \in Frontend /\ ProcessSubBatch(f))
  /\ \A s \in Shard : WF_vars(ended = "no" /\ (ProcessBatchChunk(s) \/ GrowShard(s)
                                                \/ GrowPastMaxHeight(s)))
  /\ WF_vars(ended = "no" /\ (Unwind \/ Drain \/ RouterReturns \/ HandleDeferredResize
                                \/ FinishGrow \/ ReadShard \/ Readout \/ EmitShard))

FairSpec == Spec /\ Fairness

-----------------------------------------------------------------------------
(***************************************************************************)
(* What must be true.                                                       *)
(***************************************************************************)
TypeOK ==
  /\ setup \in Setups /\ shard_of \in [Key -> Shard]
  /\ pending \in Seq(Block)
  /\ frontends \in [Frontend -> [state : {"todo", "done", "panicked"},
                                 blocks : [Shard -> SUBSET Block]]]
  /\ next_chunk \in [Shard -> 1..(f_count + 1)]
  /\ held \in [Shard -> [Key -> SUBSET Update]]
  /\ height \in [Shard -> 1..MAX_TREE_HEIGHT] /\ shard_epoch \in [Shard -> 0..255]
  /\ {grow_signal, auto_resize, caught} \subseteq BOOLEAN
  /\ epoch \in 0..255 /\ capacity \in Nat
  /\ growing \subseteq Shard /\ unread \subseteq Shard
  /\ accesses \in [Shard -> Nat]
  /\ issued \in Nat /\ result \in SUBSET Update
  /\ read_out \in [Key -> SUBSET Update]
  /\ call \in [op : Calls, key : Key \cup {NoKey}] /\ stage \in Stages
  /\ ended \in {"no"} \cup Endings

\* What waits to be added to shard s: the chunks it has not processed, or, between
\* flushes, what is pending.
awaiting(s) ==
  IF stage = "route" /\ \A f \in Frontend : frontends[f].state = "done"
    THEN UNION {frontends[f].blocks[s] : f \in next_chunk[s]..f_count}
    ELSE {pending[i] : i \in DOMAIN pending}

\* mod.rs:249-276: an update is added to one shard once.  What still waits for a
\* shard is in no shard yet, also after a panic in a frontend and the next try:
\* the batch that was refused must not have been dispatched in part.
CountedOnce ==
  /\ \A s \in Shard : \A b \in awaiting(s) \ {Dummy} : b.value \cap held[s][b.key] = {}
  /\ \A i, j \in DOMAIN pending : i # j => pending[i].value \cap pending[j].value = {}

\* mod.rs:505: between calls every shard's tree is as high as the others', which
\* readout_tree_aware asserts, and the recorded capacity is what they add up to.  The
\* sharded histogram's own epoch, which grow alone advances, is never ahead of theirs.
\* No signal to grow, acted on at the end of a flush (mod.rs:574), is left waiting while
\* the router's own calls do not bypass that point.
ShardsInStep ==
  Idle => /\ \A s \in Shard : /\ height[s] = height[0]
                              /\ shard_epoch[s] = shard_epoch[0] /\ epoch <= shard_epoch[s]
                              /\ capacity = 2^(height[s] - InitialHeight)
          /\ ~setup.direct_router => ~grow_signal

\* mod.rs:282-284: a call accesses every shard equally often, whatever keys it is
\* about, so how often a shard works says nothing of the keys.
EqualAccesses == Idle => \A s \in Shard : accesses[s] = accesses[0]

\* All updates of a key, wherever they are.
Pending(key) ==
  UNION ({held[s][key] : s \in Shard} \cup
         {pending[i].value : i \in {j \in DOMAIN pending : pending[j].key = key}})

\* mod.rs:480: a readout has every update that was not read yet, the pending ones
\* included; so has a consuming one that ends without error.
ReadoutComplete ==
  \/ call.op = "readout" /\ Idle
  \/ ended = "consumed"
  => read_out = [k \in Key |-> Pending(k)]

\* mod.rs:228: a block leaves the batch only when the shard of its key has it.
DrainedAreDelivered ==
  [][\A i \in DOMAIN pending :
       LET b == pending[i]
       IN \/ b = Dummy
          \/ \E j \in DOMAIN pending' : pending'[j] = b
          \/ b.value \subseteq held'[shard_of[b.key]][b.key]]_vars

\* mod.rs:137-140: the frontends are deterministic, so a batch refused once is
\* refused for good: no update reaches a shard after that, and no read succeeds.
RefusedForGood == [][caught => UNCHANGED held]_vars

\* A call that began comes back, or a panic or the consuming readout ends it.
CallsReturn == stage # "idle" ~> (stage = "idle" \/ ended # "no")

\* The sharded histogram keeps the promise of a single one: a read returns every
\* update appended to the key since it was last read.
Promise == INSTANCE KeyedUpdates WITH
  pending <- [key \in Key |-> Pending(key)],
  MaxBatch <- Max({1} \cup {s.max_blocks : s \in Setups})

KeepsPromise == Promise!Spec
=============================================================================
