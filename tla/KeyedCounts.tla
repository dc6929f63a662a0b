----------------------------- MODULE KeyedCounts -----------------------------
(***************************************************************************)
(* The histogram as its user sees it: a count for each key, in a machine     *)
(* word that wraps around.  Appending adds to a key's count, reading returns *)
(* the count and sets it back to zero.                                      *)
(***************************************************************************)
EXTENDS Integers, Sequences, FiniteSetsExt

CONSTANTS Key, Amount,
          MaxBatch,     \* the longest run of updates buffered in one step
          Modulus       \* 2^w for counts of w bits

VARIABLES total,        \* the count of each key
          returned      \* the count the last call returned

vars == <<total, returned>>

Masked == [key |-> CHOOSE k \in Key : TRUE, amount |-> 0, cond |-> 0]
Entry  == [key : Key, amount : Amount, cond : {1}] \cup {Masked}
Batch  == UNION {[1..n -> Entry] : n \in 1..MaxBatch}

\* What the unmasked entries of a batch add to the count of k.
places(k, entries) == {i \in DOMAIN entries : entries[i].cond = 1 /\ entries[i].key = k}
added(k, entries)  == MapThenSumSet(LAMBDA i : entries[i].amount, places(k, entries))

Init == total = [k \in Key |-> 0] /\ returned = 0

AppendAll(entries) ==
  /\ returned' = 0
  /\ total' = [k \in Key |-> (total[k] + added(k, entries)) % Modulus]

ReadTotal(k) ==
  /\ returned' = total[k]
  /\ total' = [total EXCEPT ![k] = 0]

Other == returned' = 0 /\ UNCHANGED total

Next == \/ Other
        \/ \E k \in Key : ReadTotal(k)
        \/ \E entries \in Batch : AppendAll(entries)

Spec == Init /\ [][Next]_vars
=============================================================================
