----------------------------- MODULE Compaction -----------------------------
(***************************************************************************)
(* The compaction and distribution networks:                                 *)
(* crates/oram/src/oblivious/compaction.rs.  compact_payload brings the      *)
(* marked elements of an array to its front by conditional swaps whose       *)
(* places depend on the length alone; distribute_payload makes the same      *)
(* swaps in the reverse order and so spreads a front over marked slots.      *)
(* Arrays are sequences; a payload is the sequence of the prefix sums of the *)
(* marks, one longer than the array.                                         *)
(***************************************************************************)
EXTENDS Integers, Sequences, FiniteSets, FiniteSetsExt

\* The slot whose element slot k takes when slots i and gap + i are exchanged for each i < gap
\* that is chosen.
partner(k, gap, chosen) ==
  IF k < gap THEN IF k \in chosen THEN k + gap ELSE k
  ELSE IF k - gap \in chosen THEN k - gap ELSE k

\* The marks in slots first to last - 1.
marked_in(payload, first, last) == payload[last + 1] - payload[first + 1]

\* Whether a pair is swapped, whose marked element goes to slot z: in two's complement,
\* !m & x is x where m is 0 and 0 where m is 1.
pair_choice(payload, first, z) ==
  (1 - marked_in(payload, first, first + 1)) * marked_in(payload, first + 1, first + 2) # z

\* The offsets at which the halves of a power of two place their marked elements.
zleft(n, z) == z % (n \div 2)
zright(n, m, z) == (z + m) % (n \div 2)

half_choice_unturned(n, m, z, i) ==
  LET s == (zleft(n, z) + m >= n \div 2)
  IN  s # (i >= zright(n, m, z))

\* Whether elements i and half + i are exchanged, m the marks of the left half.
half_choice(n, m, z, i) ==
  LET s == (zleft(n, z) + m >= n \div 2) # (z >= n \div 2)
  IN  s # (i >= zright(n, m, z))

\* Whether they are, among the n slots from first on.
crosses(payload, n, first, z, i) ==
  IF n = 2 THEN pair_choice(payload, first, z)
  ELSE half_choice(n, marked_in(payload, first, first + n \div 2), z, i)

\* The slot, of n from first on, whose element compact_pow2 brings to slot k of them: both
\* halves are compacted, as in_half says of each, then slots are exchanged between them.
compact_halves(payload, n, in_half) ==
  [first \in Nat |-> [z \in Nat |-> [k \in Nat |->
     LET half == n \div 2
         m    == marked_in(payload, first, first + half)
         j    == partner(k, half, {i \in Nat : crosses(payload, n, first, z, i)})
     IN  IF n <= 2 THEN j
         ELSE IF j < half THEN in_half[first][zleft(n, z)][j]
         ELSE half + in_half[first + half][zright(n, m, z)][j - half]]]]

compact_pow2(payload) ==
  LET source[n \in 0..Len(payload)] == compact_halves(payload, n, source[n \div 2])
  IN  source

\* That of distribute_pow2: slots are exchanged, then both halves are distributed.
distribute_halves(payload, n, in_half) ==
  [first \in Nat |-> [z \in Nat |-> [k \in Nat |->
     LET half == n \div 2
         m    == marked_in(payload, first, first + half)
         j    == IF n <= 2 THEN k
                 ELSE IF k < half THEN in_half[first][zleft(n, z)][k]
                 ELSE half + in_half[first + half][zright(n, m, z)][k - half]
     IN  partner(j, half, {i \in Nat : crosses(payload, n, first, z, i)})]]]

distribute_pow2(payload) ==
  LET source[n \in 0..Len(payload)] == distribute_halves(payload, n, source[n \div 2])
  IN  source

\* The largest power of two that is at most n.
leading_power(n) == Max({p \in {2^e : e \in 0..30} : p <= n})

\* The offset of the right part of a length n1 + n2, m the marks of its left part.
right_offset(n1, n2, m) == (n1 - n2 + m) % n1

\* The slot, of the first n, whose element compact_payload brings to slot k: what exceeds a
\* power of two is a left part of its own, compacted as in_left says.
compact_parts(payload, n, pow2, in_left) ==
  [k \in Nat |->
     LET n1 == leading_power(n)
         n2 == n - n1
         m  == marked_in(payload, 0, n2)
         j  == partner(k, n1, m..(n2 - 1))
     IN  IF n <= 1 THEN k
         ELSE IF n2 = 0 THEN pow2[n][0][0][k]
         ELSE IF j < n2 THEN in_left[j]
         ELSE n2 + pow2[n1][n2][right_offset(n1, n2, m)][j - n2]]

compact_payload(arr, payload) ==
  LET pow2 == compact_pow2(payload)
      source[n \in 0..Len(payload)] ==
        compact_parts(payload, n, pow2, source[n - leading_power(n)])
      whole == source[Len(arr)]
  IN  [k \in DOMAIN arr |-> arr[whole[k - 1] + 1]]

distribute_parts(payload, n, pow2, in_left) ==
  [k \in Nat |->
     LET n1 == leading_power(n)
         n2 == n - n1
         m  == marked_in(payload, 0, n2)
         j  == IF k < n2 THEN in_left[k]
               ELSE n2 + pow2[n1][n2][right_offset(n1, n2, m)][k - n2]
     IN  IF n <= 1 THEN k
         ELSE IF n2 = 0 THEN pow2[n][0][0][k]
         ELSE partner(j, n1, m..(n2 - 1))]

distribute_payload(arr, payload) ==
  LET pow2 == distribute_pow2(payload)
      source[n \in 0..Len(payload)] ==
        distribute_parts(payload, n, pow2, source[n - leading_power(n)])
      whole == source[Len(arr)]
  IN  [k \in DOMAIN arr |-> arr[whole[k - 1] + 1]]

\* The payload that marks the slots of a set, of an array of length n.
prefix_marks(marked, n) == [k \in 1..(n + 1) |-> Cardinality({s \in marked : s < k})]

\* compact_marks: the payload that marks the slots of the real records.
compact_marks(records, real) == prefix_marks(real, Len(records))
=============================================================================
