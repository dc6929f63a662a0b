---------------------------- MODULE MCStashSlots ----------------------------
\* Finite instances of StashSlots: three keys in a tree that grows from two leaves to four.
EXTENDS StashSlots

\* Three keys that lead to one leaf, until the tree grows; two and a third.
TagChoices == {<<4, 5, 1>>, <<6, 7, 4>>}
=============================================================================
