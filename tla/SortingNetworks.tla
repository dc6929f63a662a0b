--------------------------- MODULE SortingNetworks ---------------------------
(***************************************************************************)
(* The sorting and merging networks: crates/oram/src/oblivious/djbsort.rs.   *)
(* sort_by and sort_with_payload are one loop over strides p and q that      *)
(* carries i and j from one q to the next; the first compares payloads, the  *)
(* second compares keys and moves payloads along with them.  Indices are the *)
(* code's, from 0.  A network sorts every input if it sorts the inputs of    *)
(* two values (it never looks at more than the outcome of a comparison).     *)
(***************************************************************************)
EXTENDS Integers, FiniteSets, FiniteSetsExt, Sequences, SequencesExt

CONSTANTS
  MaxLen,             \* bound: the longest array sorted
  MaxRunExp           \* bound: runs to merge have at most 2^MaxRunExp elements

VARIABLES
  routine,            \* the function that was called
  n, split,           \* the length of the array, of its first run
  input,              \* the key each payload came with; payloads are their first slots
  arrays,             \* the keys and the payloads
  todo,               \* comparisons that the loop bodies entered have still to make
  p, q, i, j,         \* the loop variables
  at

vars == <<routine, n, split, input, arrays, todo, p, q, i, j, at>>
call == <<routine, n, split, input>>

greater(a, x, y) ==
  IF routine = "sort_with_payload" THEN a.keys[x] > a.keys[y]
  ELSE input[a.payloads[x]] > input[a.payloads[y]]

swapped(f, x, y) == [f EXCEPT ![x] = f[y], ![y] = f[x]]

\* The lesser element first: wires[1] and wires[2] are its indices.  sort_by has no keys.
minmax(a, wires) ==
  LET x == wires[1]
      y == wires[2]
  IN  IF ~ greater(a, x, y) THEN a
      ELSE [keys     |-> IF routine = "sort_with_payload" THEN swapped(a.keys, x, y) ELSE a.keys,
            payloads |-> swapped(a.payloads, x, y)]

\* The strides r of a cascade: q, q / 2, ... as long as they exceed p.
strides(stride, least) ==
  SelectSeq([e \in 1..MaxLen |-> stride \div 2^(e - 1)], LAMBDA r : r > least)

\* Element x + p compared with x + r for each stride r, the longest first.
cascade(x) == LET rs == strides(q, p) IN [k \in DOMAIN rs |-> <<x + p, x + rs[k]>>]

\* cascade for first <= x < last.
cascades(first, last) == FlattenSeq([k \in 1..(last - first) |-> cascade(first + k - 1)])

Compare ==
  /\ todo # <<>>
  /\ arrays' = minmax(arrays, Head(todo))
  /\ todo' = Tail(todo)
  /\ UNCHANGED <<call, p, q, i, j, at>>

top == Min({t \in {2^e : e \in 0..MaxLen} : t >= n - t})

\* The first elements of the pairs a stride p apart: whole blocks of 2p, then the rest.
pair_starts ==
  LET whole == (n \div (2 * p)) * 2 * p
  IN  {x \in 0..(whole - 1) : x % (2 * p) < p} \cup {x \in whole..(n - 1) : x + p < n}

MinmaxPass ==
  /\ at = "minmax"
  /\ todo' = SetToSeq({<<x, x + p>> : x \in pair_starts})
  /\ i' = 0 /\ j' = 0 /\ q' = top
  /\ at' = IF top > p THEN "resume" ELSE "next"
  /\ UNCHANGED <<call, arrays, p>>

\* A block cut short by the end of the array at the last q goes on with a shorter one.
Resume ==
  /\ at = "resume" /\ j # i
  /\ \/ /\ j + q = n
        /\ q' = q \div 2
        /\ UNCHANGED <<todo, i, j, at>>
     \/ /\ j + q # n
        /\ todo' = cascade(j)
        /\ j' = j + 1
        /\ IF j + 1 = i + p
           THEN i' = i + 2 * p /\ at' = IF q <= p THEN "next" ELSE "blocks"
           ELSE UNCHANGED <<i, at>>
        /\ UNCHANGED q
  /\ UNCHANGED <<call, arrays, p>>

NothingToResume ==
  /\ at = "resume" /\ j = i
  /\ at' = "blocks"
  /\ UNCHANGED <<call, arrays, todo, p, q, i, j>>

\* Blocks counted without their stride p.
WholeBlockTooFar ==
  /\ at = "blocks" /\ i + q <= n
  /\ todo' = cascades(i, i + p)
  /\ i' = i + 2 * p
  /\ UNCHANGED <<call, arrays, p, q, j, at>>

WholeBlock ==
  /\ at = "blocks" /\ i + p + q <= n
  /\ todo' = cascades(i, i + p)
  /\ i' = i + 2 * p
  /\ UNCHANGED <<call, arrays, p, q, j, at>>

\* The last comparison that fits is left out.
CutBlockEarly ==
  /\ at = "blocks" /\ i + p + q > n
  /\ j' = Max({i, n - q - 1})
  /\ todo' = cascades(i, j')
  /\ q' = q \div 2
  /\ at' = IF q' > p THEN "resume" ELSE "next"
  /\ UNCHANGED <<call, arrays, p, i>>

\* The stride is not halved.
CutBlockAgain ==
  /\ at = "blocks" /\ i + p + q > n
  /\ j' = Max({i, n - q})
  /\ todo' = cascades(i, j')
  /\ at' = IF q > p THEN "resume" ELSE "next"
  /\ UNCHANGED <<call, arrays, p, q, i>>

\* What of a block fits; j stays where the array ended.
CutBlock ==
  /\ at = "blocks" /\ i + p + q > n
  /\ j' = Max({i, n - q})
  /\ todo' = cascades(i, j')
  /\ q' = q \div 2
  /\ at' = IF q' > p THEN "resume" ELSE "next"
  /\ UNCHANGED <<call, arrays, p, i>>

NextStride ==
  /\ at = "next"
  /\ p' = p \div 2
  /\ at' = IF p > 1 THEN "minmax" ELSE "done"
  /\ UNCHANGED <<call, arrays, todo, q, i, j>>

\* The loops go on when a body's comparisons are made; the order of the comparisons
\* depends on the length alone.
Sort ==
  /\ todo = <<>>
  /\ MinmaxPass \/ Resume \/ NothingToResume \/ WholeBlock \/ CutBlock \/ NextStride

sort_by == routine = "sort_by" /\ Sort
sort_with_payload == routine = "sort_with_payload" /\ Sort
-----------------------------------------------------------------------------
\* The index-th wire of two strided runs, one after the other.
concat_wire(first, stride, first_len, second, index) ==
  IF index < first_len THEN first + index * stride ELSE second + (index - first_len) * stride

half_up(len) == (len + 1) \div 2

\* The wires that follow a merge of the odd and of the even elements.
merge_pairs(odd_len, even_len) == Min({even_len, Max({0, odd_len - 1})})

RECURSIVE odd_even_merge(_, _, _, _, _)
odd_even_merge(first, stride, first_len, second, second_len) ==
  LET odd1  == half_up(first_len)      even1 == first_len \div 2
      odd2  == half_up(second_len)     even2 == second_len \div 2
      even_wire(k) == concat_wire(first + stride, 2 * stride, even1, second + stride, k)
      odd_wire(k)  == concat_wire(first, 2 * stride, odd1, second, k)
  IN  IF first_len = 0 \/ second_len = 0 THEN <<>>
      ELSE IF first_len = 1 /\ second_len = 1 THEN <<<<first, second>>>>
      ELSE odd_even_merge(first, 2 * stride, odd1, second, odd2)
             \o odd_even_merge(first + stride, 2 * stride, even1, second + stride, even2)
             \o [k \in 1..merge_pairs(odd1 + odd2, even1 + even2) |->
                    <<even_wire(k - 1), odd_wire(k)>>]

merge_sorted_by ==
  /\ at = "merge"
  /\ todo' = odd_even_merge(0, 1, split, split, n - split)
  /\ at' = "done"
  /\ UNCHANGED <<call, arrays, p, q, i, j>>
-----------------------------------------------------------------------------
\* Arrays of fewer than two elements are left alone.
SortCall ==
  /\ routine \in {"sort_by", "sort_with_payload"}
  /\ n \in 0..MaxLen /\ split = n
  /\ input \in [0..(n - 1) -> {0, 1}]
  /\ p = (IF n < 2 THEN 0 ELSE top)
  /\ at = (IF n < 2 THEN "done" ELSE "minmax")

\* The runs of merge_sorted_by's assertions: powers of two, the first no shorter, sorted.
MergeCall ==
  /\ routine = "merge_sorted_by"
  /\ \E e1 \in 0..MaxRunExp : \E e2 \in 0..e1 : split = 2^e1 /\ n = 2^e1 + 2^e2
  /\ \E zeros1 \in 0..split, zeros2 \in 0..(n - split) :
        input = [k \in 0..(n - 1) |-> IF k < split THEN IF k < zeros1 THEN 0 ELSE 1
                                      ELSE IF k - split < zeros2 THEN 0 ELSE 1]
  /\ p = 0
  /\ at = "merge"

Init ==
  /\ SortCall \/ MergeCall
  /\ arrays = [keys |-> input, payloads |-> [k \in 0..(n - 1) |-> k]]
  /\ q = 0 /\ i = 0 /\ j = 0
  /\ todo = <<>>

Next == Compare \/ sort_by \/ sort_with_payload \/ merge_sorted_by
Spec == Init /\ [][Next]_vars
-----------------------------------------------------------------------------
\* What the callers compare: the keys array, or the payloads by their keys.
sorted_key(k) ==
  IF routine = "sort_with_payload" THEN arrays.keys[k] ELSE input[arrays.payloads[k]]

\* When a network is through, its array is sorted, whatever its length, and
\* sort_with_payload has moved every payload with its key.
SortsEveryInput ==
  at = "done" /\ todo = <<>> =>
    /\ \A k \in 1..(n - 1) : sorted_key(k - 1) <= sorted_key(k)
    /\ routine = "sort_with_payload" =>
         \A k \in 0..(n - 1) : arrays.keys[k] = input[arrays.payloads[k]]

\* The loops address the array through raw pointers: whatever the length, no comparison
\* reaches past its end, and none compares an element with itself or a later one.
InBounds ==
  \A k \in DOMAIN todo : 0 <= todo[k][1] /\ todo[k][1] < todo[k][2] /\ todo[k][2] < n

\* The loops end: the inner loop, which only leaves when j reaches the end of its block,
\* never halves q for good.
Terminates == <>(at = "done" /\ todo = <<>>)
=============================================================================
