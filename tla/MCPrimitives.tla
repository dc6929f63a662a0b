---------------------------- MODULE MCPrimitives ----------------------------
(***************************************************************************)
(* Calls of the functions on words and numbers: those of ConstantTime,       *)
(* PreparedKeys, QuotaSearch and NoiseSampler.  They share no state; `called`*)
(* is the one that was called, and the variables of the others are empty.    *)
(***************************************************************************)
EXTENDS Integers, Sequences

VARIABLES
  called,
  stage, result,                                          \* of whichever was called
  routine, a, b, choice, lane, at,                        \* ConstantTime
  prf, K, keys, which, state, offset, prepared,           \* PreparedKeys
  ask, low, high, upper_slack,                            \* QuotaSearch
  failure_cutoff, trials, drawn, active, magnitude, positive, tail
                                                          \* NoiseSampler

compare_vars == <<routine, a, b, choice, lane, at>>
prepare_vars == <<prf, K, keys, which, state, offset, prepared>>
search_vars == <<ask, low, high, upper_slack>>
sample_vars == <<failure_cutoff, trials, drawn, active, magnitude, positive, tail>>
vars == <<called, stage, result, compare_vars, prepare_vars, search_vars, sample_vars>>

\* Words of four bits, strings of up to four two-bit bytes, types of up to 40 bytes.
Comparing ==
  INSTANCE ConstantTime WITH ByteWidth <- 2, WordBytes <- 2, MaxBytes <- 4, MaxSize <- 40

\* Every cipher of blocks of two bits.
AllBlocks == [1..2 -> {0, 1}]
AllCiphers ==
  {f \in [AllBlocks -> AllBlocks] : \A x, y \in AllBlocks : f[x] = f[y] => x = y}

Preparing ==
  INSTANCE PreparedKeys
    WITH ChunkLen <- 2, Byte <- {0, 1}, Ciphers <- AllCiphers, MaxKeyLen <- 4,
         PayloadLens <- {1, 2, 4}

\* Calls of the solver whose ways to hand keys to shards can be listed.
QuotaCalls ==
  {c \in [batch_size : 0..16, shard_count : 1..3, security_bits : 0..4, frontends : 1..4] :
     c.batch_size \div c.frontends <= (IF c.shard_count = 3 THEN 8 ELSE 12)}

SlackCalls ==
  {c \in [per_shard_capacity : 0..6, shard_count : 1..4, security_bits : 0..4] :
     c.per_shard_capacity * c.shard_count <= (IF c.shard_count = 2 THEN 12 ELSE 8)}

QuantileCalls ==
  [keys : 0..8, sampled : 1..2, leaves : {2}, alpha_inverse : {10, 20}]
    \cup [keys : 0..7, sampled : 1..4, leaves : {4}, alpha_inverse : {10, 20}]

Searching ==
  INSTANCE QuotaSearch
    WITH Quotas <- QuotaCalls, Slacks <- SlackCalls, Quantiles <- QuantileCalls

Sampling ==
  INSTANCE NoiseSampler
    WITH Scale <- 4, StatisticalBits <- 2, Cutoffs <- {1, 2}, MaxTrials <- 8,
         TailInverses <- {3, 4, 5, 8, 10, 20, 100}

NoCompare == routine = "none" /\ a = 0 /\ b = 0 /\ choice = FALSE /\ lane = 1 /\ at = 0
NoPrepare ==
  /\ prf = <<>> /\ K = 0 /\ keys = <<>> /\ which = 0 /\ state = <<>> /\ offset = 0
  /\ prepared = <<>>
NoSearch == ask = <<>> /\ low = 0 /\ high = 0 /\ upper_slack = 0
NoSample ==
  /\ failure_cutoff = 0 /\ trials = 0 /\ drawn = <<>> /\ active = 0 /\ magnitude = 0
  /\ positive = 0 /\ tail = 1

Init ==
  \/ /\ called = "compare" /\ Comparing!Init
     /\ NoPrepare /\ NoSearch /\ NoSample
  \/ /\ called = "prepare" /\ Preparing!Init
     /\ stage = "none" /\ result = 0 /\ NoCompare /\ NoSearch /\ NoSample
  \/ /\ called = "search" /\ Searching!Init
     /\ NoCompare /\ NoPrepare /\ NoSample
  \/ /\ called = "sample" /\ Sampling!Init
     /\ NoCompare /\ NoPrepare /\ NoSearch

Compare ==
  /\ called = "compare" /\ Comparing!Next
  /\ UNCHANGED <<called, prepare_vars, search_vars, sample_vars>>
Prepare ==
  /\ called = "prepare" /\ Preparing!Next
  /\ UNCHANGED <<called, stage, result, compare_vars, search_vars, sample_vars>>
Search ==
  /\ called = "search" /\ Searching!Next
  /\ UNCHANGED <<called, compare_vars, prepare_vars, sample_vars>>
Sample ==
  /\ called = "sample" /\ Sampling!Next
  /\ UNCHANGED <<called, compare_vars, prepare_vars, search_vars>>

Next == Compare \/ Prepare \/ Search \/ Sample

Spec == Init /\ [][Next]_vars
-----------------------------------------------------------------------------
\* What ct.rs computes without branches is what comparisons and exchanges with branches
\* would: for any operands, strings of any length, types of any size.
BranchFreeIsExact ==
  called = "compare" =>
    Comparing!ComparesAsNumbers /\ Comparing!TellsKeysApart /\ Comparing!ExchangesWhole

\* copy_prefix and prf_tag agree on which keys are the same: equal payloads come with equal
\* tags, and no difference is lost on the way to a tag.
PayloadAndTagAgree ==
  called = "prepare" => Preparing!OnePayloadOneTag /\ Preparing!DifferenceReachesTag

\* The quotas and the slack that the solver finds are exceeded as rarely as asked.
SizesCoverTails ==
  called = "search" => Searching!OverflowWithinBudget /\ Searching!SlackCoversSpread

\* suggested_per_shard_quota and binom_ppf find the exact end of the tail they search.
SearchesAreTight ==
  called = "search" => Searching!QuotaIsTight /\ Searching!QuantileIsExact

\* CtDiscreteLaplace samples the difference of two runs of a fixed number of words, and
\* upper_quantile bounds it as it is drawn, cut off at a number of trials.
NoiseIsCovered ==
  called = "sample" => Sampling!NoiseIsDifferenceOfRuns /\ Sampling!QuantileCoversNoise
=============================================================================
