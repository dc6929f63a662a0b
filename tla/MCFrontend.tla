----------------------------- MODULE MCFrontend -----------------------------
\* FrontendRouting with more shards than its sort key has room for: two keys, tags of four
\* shards of which the key's one-bit field tells two apart.
EXTENDS FrontendRouting

AnyTags == [Key -> {1, 2, 3, 5, 6, 7}]
=============================================================================
