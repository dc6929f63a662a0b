----------------------------- MODULE MCReadouts -----------------------------
\* Finite instances of Readouts: trees of height 2 whose tags have three routing bits, of
\* which only two choose the leaf, and one high bit.
EXTENDS Readouts

\* Two keys with equal tags; three keys on one path, two of them apart in the high bit; keys
\* on different paths.
TagChoices == {<<3, 5, 5>>, <<10, 2, 3>>, <<6, 1, 12>>}
=============================================================================
