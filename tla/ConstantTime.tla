---------------------------- MODULE ConstantTime ----------------------------
(***************************************************************************)
(* The comparisons and exchanges that everything else is built from, which   *)
(* never branch on data: crates/oram/src/oblivious/ct.rs.  Words have Width  *)
(* bits for the code's 64 (u8 and u32 have the same formulas at 8 and 32)    *)
(* and WordBytes bytes for its 8; a vector lane has two words or four.       *)
(***************************************************************************)
EXTENDS Integers, Sequences, FiniteSets, SequencesExt, Bitwise

CONSTANTS
  ByteWidth, WordBytes,
  MaxBytes,           \* bound: the longest byte strings compared
  MaxSize             \* bound: the largest type exchanged, in bytes

VARIABLES
  routine,
  a, b,               \* its arguments
  choice,             \* whether to exchange
  lane,               \* bytes exchanged together (size_of::<T>() when none fits)
  at,                 \* how many lanes have been
  result,
  stage

vars == <<routine, a, b, choice, lane, at, result, stage>>

Width == ByteWidth * WordBytes
word == 0..(2^Width - 1)

sub(x, y) == (x - y + 2^Width) % 2^Width
bit_not(x) == 2^Width - 1 - x
sign_bit(x) == shiftR(x, Width - 1)

borrow(x, y) == (bit_not(x) & y) | (bit_not(x ^^ y) & sub(x, y))
ct_lt(x, y) == sign_bit(borrow(x, y))

ct_not(cond) == cond ^^ 1

cmov(x, y, cond) == IF cond # 0 THEN y ELSE x
ct_min(x, y) == cmov(x, y, ct_lt(y, x))
ct_max(x, y) == cmov(x, y, ct_lt(x, y))
-----------------------------------------------------------------------------
\* The word of WordBytes bytes that starts after the first `from`, low byte first.
from_ne_bytes(bytes, from) ==
  FoldSeq(LAMBDA byte, acc : acc * 2^ByteWidth + byte, 0,
          Reverse(SubSeq(bytes, from + 1, from + WordBytes)))

\* 1 if no bit is set: a number or its negation has the top bit, unless both are 0.
is_zero(diff) == sign_bit(diff | sub(0, diff)) ^^ 1

words_differ(x, y) ==
  (from_ne_bytes(x, 0) ^^ from_ne_bytes(y, 0))
    | (from_ne_bytes(x, WordBytes) ^^ from_ne_bytes(y, WordBytes))

bytes_differ(x, y) == FoldSeq(LAMBDA k, acc : acc | (x[k] ^^ y[k]), 0, [k \in DOMAIN x |-> k])

\* Two words, one word, or bytes of which a set bit in any makes acc - 1 or ~acc lose the top bit.
ct_eq_bytes(x, y) ==
  CASE Len(x) = 2 * WordBytes -> is_zero(words_differ(x, y))
    [] Len(x) = WordBytes     -> is_zero(from_ne_bytes(x, 0) ^^ from_ne_bytes(y, 0))
    [] OTHER -> LET acc == bytes_differ(x, y)
                IN  sign_bit(sub(acc, 1) & bit_not(acc))
-----------------------------------------------------------------------------
fits(size, bytes) == size >= bytes /\ size % bytes = 0

\* Mutant: a lane is used from its size up.
lane_of_any(size) ==
  CASE size >= 4 * WordBytes -> 4 * WordBytes
    [] size >= 2 * WordBytes -> 2 * WordBytes
    [] size >= WordBytes     -> WordBytes
    [] OTHER                 -> size

\* cswap_fast_ptr's branches; the last is the type's own cxchg.
lane_of(size) ==
  CASE fits(size, 4 * WordBytes) -> 4 * WordBytes
    [] fits(size, 2 * WordBytes) -> 2 * WordBytes
    [] fits(size, WordBytes)     -> WordBytes
    [] OTHER                     -> size

blended(x, y) ==
  [k \in DOMAIN x |-> IF choice /\ k > at * lane /\ k <= (at + 1) * lane THEN y[k] ELSE x[k]]

SwapLane ==
  /\ stage = "called" /\ routine = "cswap_fast_ptr"
  /\ at < Len(a) \div lane
  /\ a' = blended(a, b) /\ b' = blended(b, a)
  /\ at' = at + 1
  /\ UNCHANGED <<routine, choice, lane, result, stage>>

Swapped ==
  /\ stage = "called" /\ routine = "cswap_fast_ptr"
  /\ at = Len(a) \div lane
  /\ stage' = "done"
  /\ UNCHANGED <<routine, a, b, choice, lane, at, result>>

Compare ==
  /\ stage = "called" /\ routine = "compare"
  /\ result' = [lt |-> ct_lt(a, b), min |-> ct_min(a, b), max |-> ct_max(a, b),
                not_lt |-> ct_not(ct_lt(a, b))]
  /\ stage' = "done"
  /\ UNCHANGED <<routine, a, b, choice, lane, at>>

CompareBytes ==
  /\ stage = "called" /\ routine = "ct_eq_bytes"
  /\ result' = ct_eq_bytes(a, b)
  /\ stage' = "done"
  /\ UNCHANGED <<routine, a, b, choice, lane, at>>

byte_string(n) == [1..n -> 0..(2^ByteWidth - 1)]

Init ==
  /\ \/ /\ routine = "compare"
        /\ a \in word /\ b \in word
        /\ choice = FALSE /\ lane = 1
     \/ /\ routine = "ct_eq_bytes"
        /\ \E n \in 0..MaxBytes : a \in byte_string(n) /\ b \in byte_string(n)
        /\ choice = FALSE /\ lane = 1
     \/ /\ routine = "cswap_fast_ptr"
        /\ \E size \in 1..MaxSize :
             /\ a = [k \in 1..size |-> <<"a", k>>] /\ b = [k \in 1..size |-> <<"b", k>>]
             /\ lane = lane_of(size)
        /\ choice \in BOOLEAN
  /\ at = 0
  /\ result = 0
  /\ stage = "called"

Next == SwapLane \/ Swapped \/ Compare \/ CompareBytes
Spec == Init /\ [][Next]_vars
-----------------------------------------------------------------------------
done(call) == stage = "done" /\ routine = call

\* The borrow of a subtraction is computed right for operands of any signs and distance.
ComparesAsNumbers ==
  done("compare") =>
    result = [lt  |-> IF a < b THEN 1 ELSE 0, not_lt |-> IF a < b THEN 0 ELSE 1,
              min |-> IF a < b THEN a ELSE b, max |-> IF a < b THEN b ELSE a]

\* Keys of every length are told apart, and equal ones found equal: no byte is left out and
\* none counts for less.
TellsKeysApart == done("ct_eq_bytes") => result = (IF a = b THEN 1 ELSE 0)

\* Whatever the size of a block, all of its bytes are exchanged once, or none.
ExchangesWhole ==
  done("cswap_fast_ptr") =>
    LET first(name)  == [k \in DOMAIN a |-> <<name, k>>]
    IN  IF choice THEN a = first("b") /\ b = first("a") ELSE a = first("a") /\ b = first("b")
=============================================================================
