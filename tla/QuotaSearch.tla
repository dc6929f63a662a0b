---------------------------- MODULE QuotaSearch ----------------------------
(***************************************************************************)
(* The searches of crates/oram/src/oblivious/binomial_solver.rs that size a  *)
(* flush quota, a readout inbox, the resize slack between shards and the     *)
(* margin of the resize threshold.  Tails are counted: of the m^n ways to    *)
(* hand n keys to m shards, those in the tail, so that a comparison of f64   *)
(* probabilities becomes one of integers.  Rounding is not modelled.         *)
(***************************************************************************)
EXTENDS Integers, FiniteSets, FiniteSetsExt, Combinatorics

CONSTANTS
  Quotas,             \* the arguments a quota is asked for
  Slacks,             \* those a slack is asked for
  Quantiles           \* those a quantile is asked for

VARIABLES
  ask,                \* the call and its arguments
  low, high,          \* the ends of the search (of the walk: the count and where it is)
  upper_slack,        \* what the first search for a slack found
  result,
  stage

vars == <<ask, low, high, upper_slack, result, stage>>
-----------------------------------------------------------------------------
\* The ways to hand n keys to `of` places in which exactly k keys get one of p given places.
binom_pmf(n, k, p, of) == choose(n, k) * p^k * (of - p)^(n - k)
binom_sf(n, k, m) == MapThenSumSet(LAMBDA i : binom_pmf(n, i, 1, m), k..n)
binom_lower_tail(n, k, m) == MapThenSumSet(LAMBDA i : binom_pmf(n, i, 1, m), 0..k)
binom_cdf(n, k, p, of) == MapThenSumSet(LAMBDA i : binom_pmf(n, i, p, of), 0..k)

ceil_log2(f) == CHOOSE e \in 0..f : 2^e >= f /\ \A d \in 0..(e - 1) : 2^d < f

\* The keys one frontend gets, and the bits with its share of the failures of a flush.
frontend_batch == ask.batch_size \div ask.frontends
frontend_bits == ask.security_bits + ceil_log2(ask.frontends)

total_n == ask.per_shard_capacity * ask.shard_count

\* A tail is at most 2^-bits / (m * share) of all ways.
within(tail, n, m, bits, share) == tail * m * share * 2^bits <= m^n

mid == low + (high - low) \div 2

\* One round of a search: the answer is at most mid, or above it.
halve(small_enough) ==
  IF small_enough THEN high' = mid /\ low' = low ELSE low' = mid + 1 /\ high' = high

StepQuota ==
  /\ stage = "quota" /\ low < high
  /\ halve(within(binom_sf(frontend_batch, mid, ask.shard_count),
                  frontend_batch, ask.shard_count, frontend_bits, 1))
  /\ UNCHANGED <<ask, upper_slack, result, stage>>

\* Each frontend has this quota, and a shard's quota is theirs together.
QuotaFound ==
  /\ stage = "quota" /\ low >= high
  /\ result' = ask.frontends * low
  /\ stage' = "done"
  /\ UNCHANGED <<ask, low, high, upper_slack>>
-----------------------------------------------------------------------------
StepUpper ==
  /\ stage = "upper" /\ low < high
  /\ halve(within(binom_sf(total_n, mid, ask.shard_count),
                  total_n, ask.shard_count, ask.security_bits, 2))
  /\ UNCHANGED <<ask, upper_slack, result, stage>>

UpperFound ==
  /\ stage = "upper" /\ low >= high
  /\ upper_slack' = low - ask.per_shard_capacity
  /\ low' = 0 /\ high' = ask.per_shard_capacity
  /\ stage' = "lower"
  /\ UNCHANGED <<ask, result>>

StepLower ==
  /\ stage = "lower" /\ low < high
  /\ halve(within(binom_lower_tail(total_n, ask.per_shard_capacity - mid, ask.shard_count),
                  total_n, ask.shard_count, ask.security_bits, 2))
  /\ UNCHANGED <<ask, upper_slack, result, stage>>

\* Mutant: shard 0 is taken to be at the mean.
upper_only == upper_slack
spread == upper_slack + low

SlackFound ==
  /\ stage = "lower" /\ low >= high
  /\ result' = spread
  /\ stage' = "done"
  /\ UNCHANGED <<ask, low, high, upper_slack>>
-----------------------------------------------------------------------------
\* binom_ppf starts three standard deviations under the mean, or at 0.
quantile_start(n, p, of) ==
  Max({0} \cup {s \in 0..n : s * of <= n * p /\ (n * p - s * of)^2 >= 9 * n * p * (of - p)})

above_alpha(cdf) == cdf * ask.alpha_inverse >= ask.leaves^ask.keys

\* low is the k of the walk and high its cdf.
StepQuantile ==
  /\ stage = "quantile" /\ low < ask.keys /\ ~ above_alpha(high)
  /\ low' = low + 1
  /\ high' = high + binom_pmf(ask.keys, low + 1, ask.sampled, ask.leaves)
  /\ UNCHANGED <<ask, upper_slack, result, stage>>

\* Mutant: the first count above.
last_above(k) == k
last_below(k) == IF k = 0 THEN 0 ELSE k - 1

QuantileFound ==
  /\ stage = "quantile" /\ (low = ask.keys \/ above_alpha(high))
  /\ result' = last_below(low)
  /\ stage' = "done"
  /\ UNCHANGED <<ask, low, high, upper_slack>>
-----------------------------------------------------------------------------
Init ==
  /\ upper_slack = 0
  /\ \/ /\ ask \in Quotas
        /\ low = frontend_batch \div ask.shard_count /\ high = frontend_batch
        /\ stage = "quota" /\ result = 0
     \/ /\ ask \in Slacks
        /\ low = ask.per_shard_capacity /\ high = total_n
        /\ stage = (IF ask.shard_count <= 1 THEN "done" ELSE "upper") /\ result = 0
     \/ /\ ask \in Quantiles
        /\ IF ask.sampled >= ask.leaves
           THEN low = 0 /\ high = 0 /\ stage = "done" /\ result = ask.keys
           ELSE /\ low = quantile_start(ask.keys, ask.sampled, ask.leaves)
                /\ high = binom_cdf(ask.keys, low, ask.sampled, ask.leaves)
                /\ stage = "quantile" /\ result = 0

Next ==
  \/ StepQuota \/ QuotaFound
  \/ StepUpper \/ UpperFound \/ StepLower \/ SlackFound
  \/ StepQuantile \/ QuantileFound

Spec == Init /\ [][Next]_vars
-----------------------------------------------------------------------------
\* What the tails count, listed: who gets each key.
assignments(n, m) == [1..n -> 1..m]
load(assignment, s) == Cardinality({i \in DOMAIN assignment : assignment[i] = s})
count(n, m, P(_)) == Cardinality({a \in assignments(n, m) : P(a)})

done(asked) == stage = "done" /\ ask \in asked

\* A flush in which every update has a key of its own, drawn to a shard uniformly, fails
\* with a probability of at most 2^-security_bits over all frontends and shards, when it
\* panics for more than result / frontends keys of one shard at one frontend.
OverflowWithinBudget ==
  done(Quotas) =>
    LET fails(a) == \E s \in 1..ask.shard_count : load(a, s) > result \div ask.frontends
    IN  ask.frontends * count(frontend_batch, ask.shard_count, fails) * 2^ask.security_bits
          <= ask.shard_count^frontend_batch

\* No smaller quota of the searched range has the tail the solver asks for (the search is
\* right to halve: the test quota_really_meets_the_requested_eighty_bit_bound at one size).
QuotaIsTight ==
  done(Quotas) =>
    LET quota == result \div ask.frontends
        reached(a) == load(a, 1) >= quota - 1
    IN  quota > frontend_batch \div ask.shard_count =>
          count(frontend_batch, ask.shard_count, reached) * ask.shard_count
              * 2^ask.security_bits * 2^ceil_log2(ask.frontends)
            > ask.shard_count^frontend_batch

\* With a full set of keys no shard is more than the slack ahead of shard 0, which speaks
\* for all, but with probability 2^-security_bits.
SlackCoversSpread ==
  done(Slacks) =>
    LET ahead(a) == \E s \in 1..ask.shard_count : load(a, s) > load(a, 1) + result
    IN  count(total_n, ask.shard_count, ahead) * 2^ask.security_bits <= ask.shard_count^total_n

\* The quantile is the last count whose probability to be reached from below is under alpha
\* (0 if there is none): starting high up has skipped nothing.
QuantileIsExact ==
  done(Quantiles) /\ ask.sampled < ask.leaves =>
    LET below(q) == {a \in assignments(ask.keys, ask.leaves) :
                       Cardinality({i \in DOMAIN a : a[i] <= ask.sampled}) <= q}
        rare == {q \in 0..ask.keys :
                   Cardinality(below(q)) * ask.alpha_inverse < ask.leaves^ask.keys}
    IN  result = Max({0} \cup rare)

=============================================================================
