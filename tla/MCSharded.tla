------------------------------ MODULE MCSharded ------------------------------
\* Finite instances of ShardedHistogram.
EXTENDS ShardedHistogram

\* Two keys share a shard.
TwoShards == {[k \in Key |-> IF k = "c" THEN 1 ELSE 0]}

\* Two frontends whose sub-batches of two blocks may have one key each; shards that panic.
Flushing ==
  [batch_capacity |-> 4, per_shard_quota |-> 2, frontend_count |-> 2,
   direct_router |-> FALSE, resizing |-> {}, shard_faults |-> TRUE,
   max_appends |-> 5, max_blocks |-> 0]

\* The number of frontends left to its default, growth by hand and by signal.
Growing ==
  [batch_capacity |-> 2, per_shard_quota |-> 2, frontend_count |-> 0,
   direct_router |-> FALSE, resizing |-> {"manual", "auto"}, shard_faults |-> TRUE,
   max_appends |-> 3, max_blocks |-> 0]

\* The router's own calls, with more blocks than a batch has and a quota for one key.
Routing ==
  [batch_capacity |-> 2, per_shard_quota |-> 1, frontend_count |-> 1,
   direct_router |-> TRUE, resizing |-> {"auto"}, shard_faults |-> FALSE,
   max_appends |-> 4, max_blocks |-> 3]

\* A batch that two frontends cannot share.
Indivisible ==
  [batch_capacity |-> 3, per_shard_quota |-> 4, frontend_count |-> 2,
   direct_router |-> FALSE, resizing |-> {}, shard_faults |-> FALSE,
   max_appends |-> 4, max_blocks |-> 0]

AllSetups == {Flushing, Growing, Routing}
OddBatch == {Indivisible}
=============================================================================
