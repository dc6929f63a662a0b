----------------------------- MODULE PathRouting -----------------------------
(***************************************************************************)
(* The index arithmetic of the routed tree: crates/oram/src/               *)
(* oblivious_histogram/{tree,routing}.rs and next_evict_leaf of ops.rs.     *)
(*                                                                         *)
(* The code numbers the nodes of a complete binary tree from 1: node x has *)
(* the children 2x and 2x+1, so an index written in binary is a 1 followed  *)
(* by the turns from the root.  Here a node IS that string of turns: a      *)
(* function from 1..depth to {0, 1}, the root being the empty one.  A shift *)
(* to the right is then a prefix, and leading_zeros of an exclusive-or is   *)
(* the length of a common prefix.                                           *)
(***************************************************************************)
EXTENDS Integers, Sequences, FiniteSets, FiniteSetsExt

CONSTANT MAX_TREE_HEIGHT        \* 31 in the code: the width of the routing bits

ASSUME MaxTreeHeightAssumption == MAX_TREE_HEIGHT \in Nat \ {0}

Bit == {0, 1}

\* A tag: the 31 routing bits, top bit first, and the 32 identity bits above
\* bit 31.  Bit 31 itself takes part in neither routing nor ranking.
Routing == [1..MAX_TREE_HEIGHT -> Bit]
Tag     == [routing : Routing, identity : Nat]

Leaf(h) == [1..h -> Bit]
Node(h) == UNION {[1..d -> Bit] : d \in 0..h}

leaf_count(h) == 2^h

\* The largest e with 2^e <= n, for n > 0.
ilog2(n) == CHOOSE e \in 0..n : 2^e <= n /\ n < 2^(e+1)

\* The height of a tree of block_capacity blocks in buckets of z, at least 1.
tree_height_for_capacity(block_capacity, z) ==
  Max({1, ilog2(block_capacity) - ilog2(z)})

bit_of(n, i) == IF (n \div 2^i) % 2 = 1 THEN 1 ELSE 0

\* The i-th leaf from the left, which the code calls leaf_count(h) + i.
leaf_at(i, h) == [d \in 1..h |-> bit_of(i, h - d)]

\* Mutant: the counter's bits in their own order.
Mut_no_bit_reversal(ctr, h) == leaf_at(ctr % leaf_count(h), h)

\* The leaf whose bits are those of raw = ctr % leaf_count(h) in reverse:
\* the low bit of the counter is the first turn from the root.
bit_reversed_leaf(ctr, h) == [d \in 1..h |-> bit_of(ctr, d - 1)]

node_on_path(leaf, depth) == [d \in 1..depth |-> leaf[d]]
path(leaf, h) == {node_on_path(leaf, d) : d \in 0..h}

\* address_to_leaf: the top h routing bits.
to_leaf(tag, h) == [d \in 1..h |-> tag.routing[d]]

\* The depth of the deepest common ancestor of two leaves of a tree of height h.
deepest_shared_level(leaf, tag, h) ==
  Max({l \in 0..h : node_on_path(leaf, l) = node_on_path(to_leaf(tag, h), l)})

\* Mutant: the evicted leaf is left out of the sort key.
Mut_rank_unrotated(t, u, leaf, h) ==
  \/ \E d \in 1..MAX_TREE_HEIGHT :
       /\ t.routing[d] < u.routing[d]
       /\ \A e \in 1..(d - 1) : t.routing[e] = u.routing[e]
  \/ t.routing = u.routing /\ t.identity < u.identity

(***************************************************************************)
(* path_rank_key puts the routing bits, exclusive-or'ed with the evicted    *)
(* leaf in their top h bits, above the identity bits; blocks are sorted by  *)
(* it.  Comparing two such numbers is comparing them from their first       *)
(* difference on.                                                           *)
(***************************************************************************)
ranked_routing(tag, leaf, h) ==
  [d \in 1..MAX_TREE_HEIGHT |->
     IF d <= h /\ leaf[d] = 1 THEN 1 - tag.routing[d] ELSE tag.routing[d]]

ranks_before(t, u, leaf, h) ==
  LET r == ranked_routing(t, leaf, h)
      s == ranked_routing(u, leaf, h)
  IN \/ \E d \in 1..MAX_TREE_HEIGHT :
          /\ r[d] < s[d]
          /\ \A e \in 1..(d - 1) : r[e] = s[e]
     \/ r = s /\ t.identity < u.identity
=============================================================================
