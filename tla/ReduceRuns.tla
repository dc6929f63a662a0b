----------------------------- MODULE ReduceRuns -----------------------------
(***************************************************************************)
(* The pass of Reduction on runs of blocks whose values are flow records,    *)
(* added as crates/oram/src/block.rs adds them, and on blocks whose values   *)
(* are u64, added by +, in a build with overflow checks.  A u64 is kept in   *)
(* the field packet_count.  Counters wrap at 2^Width, Width = 64 in the code *)
(* (32 for record_count, which adds like packet_count and byte_sum); flags   *)
(* are sets of bits.                                                         *)
(***************************************************************************)
EXTENDS Integers, Sequences, FiniteSets, FiniteSetsExt

CONSTANTS
  Key, Value, Epoch,  \* the keys, flow records and epochs in the input
  Flag,               \* the bits of tcp_flags
  Width, Latest,      \* the width of a counter; the value of u32::MAX
  MaxLen              \* bound: the longest input

VARIABLES
  input,              \* the blocks as they came, sorted by the caller
  checked,            \* whether values are u64 and the build checks for overflow
  run,                \* the blocks, acc_val and acc_epoch
  next,               \* the next block to look at
  stage

vars == <<input, checked, run, next, stage>>

FlowRecord == [packet_count : 0..(2^Width - 1), first_seen : 0..Latest,
               last_seen : 0..Latest, tcp_flags : SUBSET Flag]

ASSUME WordAssumption == Width \in Nat \ {0} /\ Latest \in Nat
ASSUME ValueAssumption == Value \subseteq FlowRecord /\ Epoch \subseteq Nat
ASSUME LengthAssumption == MaxLen \in Nat

\* FlowRecord::default.
NoFlow == [packet_count |-> 0, first_seen |-> Latest, last_seen |-> 0, tcp_flags |-> {}]

\* impl Add for FlowRecord.
add_flows(a, b) ==
  [packet_count |-> (a.packet_count + b.packet_count) % 2^Width,
   first_seen   |-> Min({a.first_seen, b.first_seen}),
   last_seen    |-> Max({a.last_seen, b.last_seen}),
   tcp_flags    |-> a.tcp_flags \cup b.tcp_flags]

INSTANCE Reduction WITH combine <- add_flows, DefaultValue <- NoFlow

\* The sum is computed for every block that follows another, continued run or not, and of
\* dummies with what their value field holds.
overflows(k) ==
  checked /\ run.acc_val.packet_count + run.blocks[k].value.packet_count >= 2^Width

Step ==
  /\ stage = "reducing" /\ next <= Len(input)
  /\ ~ overflows(next)
  /\ run' = reduce_step(run, next)
  /\ next' = next + 1
  /\ UNCHANGED <<input, checked, stage>>

OverflowPanic ==
  /\ stage = "reducing" /\ next <= Len(input)
  /\ overflows(next)
  /\ stage' = "overflowed"
  /\ UNCHANGED <<input, checked, run, next>>

Finish ==
  /\ stage = "reducing" /\ next > Len(input)
  /\ stage' = "reduced"
  /\ UNCHANGED <<input, checked, run, next>>

Block == [tag : {0, 1}, key : Key, value : Value, epoch : Epoch]

Init ==
  /\ input \in UNION {[1..n -> Block] : n \in 0..MaxLen}
  /\ checked \in BOOLEAN
  /\ run = started(input)
  /\ next = 2
  /\ stage = "reducing"

Next == Step \/ OverflowPanic \/ Finish
Spec == Init /\ [][Next]_vars
-----------------------------------------------------------------------------
\* The input's run that ends at block k, as the set of its places.
run_ending_at(k) ==
  {l \in 1..k : \A x \in l..k : ct_is_real(input[x]) /\ input[x].key = input[k].key}

ends_run(k) ==
  /\ ct_is_real(input[k])
  /\ k < Len(input) => ~ (ct_is_real(input[k + 1]) /\ input[k + 1].key = input[k].key)

packets(places) == MapThenSumSet(LAMBDA l : input[l].value.packet_count, places)

\* What merging sets of equal blocks promises to the callers of reduce_equal_runs: of every
\* run the last block is left, with the sums, the earliest and latest times, all flags and
\* the oldest epoch of the run, whatever order the run was in; no other block is left real.
SurvivorsHoldTheirRuns ==
  stage = "reduced" =>
    \A k \in DOMAIN input :
      /\ ct_is_real(run.blocks[k]) <=> ends_run(k)
      /\ ends_run(k) =>
           LET places == run_ending_at(k)
           IN  run.blocks[k] =
                 [tag   |-> input[k].tag,
                  key   |-> input[k].key,
                  epoch |-> Min({input[l].epoch : l \in places}),
                  value |-> [packet_count |-> packets(places) % 2^Width,
                             first_seen   |-> Min({input[l].value.first_seen : l \in places}),
                             last_seen    |-> Max({input[l].value.last_seen : l \in places}),
                             tcp_flags    |-> UNION {input[l].value.tcp_flags : l \in places}]]

\* A build with overflow checks adds numbers that do not belong together, and can panic
\* where no total overflows; it cannot as long as every total of a run, and every value a
\* dummy still holds, is below half of what a counter holds.
NoPanicBelowHalf ==
  stage = "overflowed" =>
    \E k \in DOMAIN input :
      \/ input[k].value.packet_count >= 2^(Width - 1)
      \/ ends_run(k) /\ packets(run_ending_at(k)) >= 2^(Width - 1)
=============================================================================
