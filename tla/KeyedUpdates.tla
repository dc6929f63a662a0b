---------------------------- MODULE KeyedUpdates ----------------------------
(***************************************************************************)
(* What a keyed histogram promises, with no tree, stash or randomness: the  *)
(* updates appended to a key since it was last read are pending for it;      *)
(* reading the key returns exactly those and forgets them; nothing else     *)
(* changes them.  An update is named by its place in the order of appends   *)
(* together with its amount, so none can be lost, doubled or moved to        *)
(* another key without this specification noticing.                         *)
(***************************************************************************)
EXTENDS Integers, Sequences

CONSTANTS Key, Amount,
          MaxBatch      \* the longest run of updates buffered in one step

VARIABLES pending,      \* the updates a read of each key would return
          issued,       \* how many updates, masked ones included, were appended
          result        \* the updates the last call returned

vars == <<pending, issued, result>>

Update == Nat \X Amount

\* One update of a batch, or a masked one: a dummy that fills a slot with some
\* key and the value 0.
Masked == [key |-> CHOOSE k \in Key : TRUE, amount |-> 0, cond |-> 0]
Entry  == [key : Key, amount : Amount, cond : {1}] \cup {Masked}
Batch == UNION {[1..n -> Entry] : n \in 1..MaxBatch}

\* The updates entries carry for key k when the first one is the one after seen.
Updates(k, entries, seen) ==
  {<<seen + i, entries[i].amount>> :
     i \in {j \in DOMAIN entries : entries[j].cond = 1 /\ entries[j].key = k}}

TypeOK ==
  /\ pending \in [Key -> SUBSET Update]
  /\ issued \in Nat
  /\ result \in SUBSET Update

Init == /\ pending = [k \in Key |-> {}]
        /\ issued = 0
        /\ result = {}

AppendAll(entries) ==
  /\ issued' = issued + Len(entries)
  /\ result' = {}
  /\ pending' = [k \in Key |-> pending[k] \cup Updates(k, entries, issued)]

ReadTotal(k) ==
  /\ result' = pending[k]
  /\ pending' = [pending EXCEPT ![k] = {}]
  /\ UNCHANGED issued

\* Every other call: resizing, dummy reads, configuration.
Other == result' = {} /\ UNCHANGED <<pending, issued>>

Next == \/ Other
        \/ \E k \in Key : ReadTotal(k)
        \/ \E entries \in Batch : AppendAll(entries)

Spec == Init /\ [][Next]_vars
=============================================================================
