---------------------------- MODULE NoiseSampler ----------------------------
(***************************************************************************)
(* CtDiscreteLaplace of crates/oram/src/oblivious_histogram/resize.rs: the   *)
(* noise of a resize decision, the difference of two geometric draws of a    *)
(* fixed number of trials each, and the quantile that the threshold keeps as *)
(* a margin for it.  The distribution's ratio q is failure_cutoff / Scale;   *)
(* how it follows from epsilon (by exp, in f64) is not modelled.             *)
(***************************************************************************)
EXTENDS Integers, Sequences, FiniteSets, FiniteSetsExt

CONSTANTS
  Scale,              \* SAMPLER_PROBABILITY_SCALE
  StatisticalBits,    \* SAMPLER_STATISTICAL_BITS
  Cutoffs,            \* the cutoffs that epsilons lead to, from 1..(Scale - 1)
  MaxTrials,          \* bound: no cutoff needs more trials
  TailInverses        \* the inverses of the probabilities quantiles are asked for

VARIABLES
  failure_cutoff, trials,
  drawn,              \* what next_word() gave so far, its low bits dropped
  active, magnitude,  \* geometric_with's
  positive,           \* the first draw, once there is one
  tail,               \* the inverse of the probability of upper_quantile, in a call of it
  result,
  stage

sampler == <<failure_cutoff, trials, tail>>
vars == <<sampler, drawn, active, magnitude, positive, result, stage>>

\* The trials after which q^trials is at most 2^-(StatisticalBits + 1).
trials_for(cutoff) ==
  Min({t \in 1..MaxTrials : cutoff^t * 2^(StatisticalBits + 1) <= Scale^t})

\* Mutant: every trial counts.
reset_each_trial(now) == 1

\* A failed trial ends the run for good.
latched(now) == now

Trial(draw) ==
  /\ stage \in {"positive", "negative"}
  /\ Len(drawn) < (IF stage = "positive" THEN 1 ELSE 2) * trials
  /\ drawn' = Append(drawn, draw)
  /\ active' = IF draw < failure_cutoff THEN latched(active) ELSE 0
  /\ magnitude' = magnitude + active'
  /\ UNCHANGED <<sampler, positive, result, stage>>

\* sample_with makes a second draw and takes the difference.
FirstDrawn ==
  /\ stage = "positive" /\ Len(drawn) = trials
  /\ positive' = magnitude
  /\ active' = 1 /\ magnitude' = 0
  /\ stage' = "negative"
  /\ UNCHANGED <<sampler, drawn, result>>

SecondDrawn ==
  /\ stage = "negative" /\ Len(drawn) = 2 * trials
  /\ result' = positive - magnitude
  /\ stage' = "sampled"
  /\ UNCHANGED <<sampler, drawn, active, magnitude, positive>>

\* q^(z + 1) is at most (1 + q) / tail.
met(z) == failure_cutoff^(z + 1) * tail * Scale <= (Scale + failure_cutoff) * Scale^(z + 1)

\* The first z that does, at least 0 and at most what a draw can reach.
quantile == LET z == Min({y \in -1..MaxTrials : met(y)}) IN Min({Max({z, 0}), trials})

UpperQuantile ==
  /\ stage = "quantile"
  /\ result' = quantile
  /\ stage' = "quantile found"
  /\ UNCHANGED <<sampler, drawn, active, magnitude, positive>>

Init ==
  /\ failure_cutoff \in Cutoffs
  /\ trials = trials_for(failure_cutoff)
  /\ drawn = <<>> /\ active = 1 /\ magnitude = 0 /\ positive = 0 /\ result = 0
  /\ \/ stage = "positive" /\ tail = 1
     \/ stage = "quantile" /\ tail \in TailInverses

Next == (\E draw \in 0..(Scale - 1) : Trial(draw)) \/ FirstDrawn \/ SecondDrawn \/ UpperQuantile
Spec == Init /\ [][Next]_vars
-----------------------------------------------------------------------------
\* The places of a draw's words before its first failure.
run(from) ==
  {k \in 1..trials : \A l \in 1..k : drawn[from + l] < failure_cutoff}

\* A sample is the difference of the lengths of two runs, each of words of its own, and it
\* takes the same number of words whatever comes out.
NoiseIsDifferenceOfRuns ==
  stage = "sampled" =>
    /\ Len(drawn) = 2 * trials
    /\ result = Cardinality(run(0)) - Cardinality(run(trials))

\* A draw is g for ways(g) of the Scale^trials words it can be given.
ways(g) ==
  IF g = trials THEN failure_cutoff^g
  ELSE failure_cutoff^g * (Scale - failure_cutoff) * Scale^(trials - g - 1)

\* The quantile covers the noise as it is drawn, also though draws are cut off at trials: it
\* is exceeded with at most the probability asked for.
QuantileCoversNoise ==
  stage = "quantile found" =>
    LET exceeding == {g \in (0..trials) \X (0..trials) : g[1] - g[2] > result}
    IN  MapThenSumSet(LAMBDA g : ways(g[1]) * ways(g[2]), exceeding) * tail <= Scale^(2 * trials)
=============================================================================
