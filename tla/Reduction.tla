------------------------------ MODULE Reduction ------------------------------
(***************************************************************************)
(* One pass of reduce_equal_runs_with_accumulator over a sequence of blocks: *)
(* crates/oram/src/oblivious/reduction.rs.  A block whose tag is 0 is a      *)
(* dummy, whatever its other fields hold.  The accumulator is combine.       *)
(***************************************************************************)
EXTENDS Integers, Sequences, FiniteSetsExt

CONSTANTS
  combine(_, _),      \* A::combine
  DefaultValue        \* V::default()

ct_is_real(block) == block.tag # 0
real_blocks(blocks) == {k \in DOMAIN blocks : ct_is_real(blocks[k])}
ct_identity_eq(block, other) == block.key = other.key

\* Before the loop: the first block, when it is real, starts a run.
started(blocks) ==
  IF blocks # <<>> /\ ct_is_real(blocks[1])
  THEN [blocks |-> blocks, acc_val |-> blocks[1].value, acc_epoch |-> blocks[1].epoch]
  ELSE [blocks |-> blocks, acc_val |-> DefaultValue, acc_epoch |-> 0]

\* Whether the block before is a dummy is not looked at.
same_key_only(blocks, k) ==
  /\ ct_identity_eq(blocks[k], blocks[k - 1])
  /\ ct_is_real(blocks[k])

\* Whether block k continues the run that the block before it belongs to.
same(blocks, k) ==
  /\ ct_identity_eq(blocks[k], blocks[k - 1])
  /\ ct_is_real(blocks[k]) /\ ct_is_real(blocks[k - 1])

\* A new run starts from what the last one gathered.
reduce_step_unbroken(run, k) ==
  LET cur   == run.blocks[k]
      value == combine(run.acc_val, cur.value)
  IN  IF ~ ct_is_real(cur) THEN run
      ELSE [blocks    |-> [run.blocks EXCEPT
                             ![k].value = value,
                             ![k - 1].tag = IF same(run.blocks, k) THEN 0 ELSE @],
            acc_val   |-> value,
            acc_epoch |-> run.acc_epoch]

\* The loop's body for block k: a block that continues a run takes over what the run has
\* gathered and makes a dummy of the block before it; a real block that does not starts
\* one; a dummy stays as it is.
reduce_step(run, k) ==
  LET cur   == run.blocks[k]
      value == IF same(run.blocks, k) THEN combine(run.acc_val, cur.value) ELSE cur.value
      epoch == IF same(run.blocks, k) THEN Min({run.acc_epoch, cur.epoch}) ELSE cur.epoch
  IN  IF ~ ct_is_real(cur) THEN run
      ELSE [blocks    |-> [run.blocks EXCEPT
                             ![k].value = value, ![k].epoch = epoch,
                             ![k - 1].tag = IF same(run.blocks, k) THEN 0 ELSE @],
            acc_val   |-> value,
            acc_epoch |-> epoch]

\* The whole pass: what it has gathered after block k.
reduce_equal_runs(blocks) ==
  LET pass[k \in 1..Len(blocks)] ==
        IF k = 1 THEN started(blocks) ELSE reduce_step(pass[k - 1], k)
  IN  IF blocks = <<>> THEN <<>> ELSE pass[Len(blocks)].blocks
=============================================================================
