---------------------------- MODULE MCInstances ----------------------------
(***************************************************************************)
(* Small values for the constants of ObliviousHistogram: a tree that starts  *)
(* with two leaves and may grow to MAX_TREE_HEIGHT = 2.                     *)
(***************************************************************************)
EXTENDS Integers, TLC

CONSTANTS k1, k2, k3

\* Tags of the keys: routing bits from the top, and an identity that differs.
tag(routing, identity) == [routing |-> routing, identity |-> identity]

\* Two keys: on one leaf for good, parting at the second level, parting at once.
TwoKeyPrfs ==
  {k1 :> tag(<<0, 1>>, 1) @@ k2 :> tag(<<0, 1>>, 2),
   k1 :> tag(<<0, 0>>, 1) @@ k2 :> tag(<<0, 1>>, 2),
   k1 :> tag(<<1, 0>>, 2) @@ k2 :> tag(<<0, 1>>, 1)}

SiblingPrf == {k1 :> tag(<<0, 0>>, 1) @@ k2 :> tag(<<0, 1>>, 2)}

\* Three keys: all on one leaf, or two together and one beside them.
ThreeKeyPrfs ==
  {k1 :> tag(<<1, 0>>, 1) @@ k2 :> tag(<<1, 0>>, 3) @@ k3 :> tag(<<1, 0>>, 2),
   k1 :> tag(<<0, 0>>, 3) @@ k2 :> tag(<<0, 1>>, 2) @@ k3 :> tag(<<0, 0>>, 1)}

\* Two leaves below the root: height 1 for buckets of one and of two blocks.
SmallCapacity == {2}

Immediate == {[deferred |-> FALSE, emits_grow_signal |-> TRUE]}
Deferred  == {[deferred |-> TRUE, emits_grow_signal |-> TRUE],
              [deferred |-> TRUE, emits_grow_signal |-> FALSE]}
NoModes   == {}
NoUnits   == {0}
OneSided  == {-1, 1}
=============================================================================
