--------------------------- MODULE PathAccessProofs ---------------------------
(***************************************************************************)
(* Facts about the index arithmetic of PathRouting: the order in which one  *)
(* path access sorts blocks is a strict total order that follows depth, and *)
(* bit-reversed counters visit every leaf once before they visit one again. *)
(* From them, facts about one path access of ObliviousHistogram: the levels *)
(* that are assigned, the layout by level counts, and the merge of equal    *)
(* keys.                                                                    *)
(***************************************************************************)
EXTENDS ObliviousHistogram, BasicLemmas

\* The sort key that ranks_before compares is a string of bits.
LEMMA RankedType ==
  ASSUME NEW h \in 0..MAX_TREE_HEIGHT, NEW leaf \in Leaf(h), NEW t \in Tag
  PROVE  /\ MAX_TREE_HEIGHT \in Nat
         /\ ranked_routing(t, leaf, h) \in Routing
         /\ to_leaf(t, h) \in Leaf(h)
         /\ t.identity \in Nat
<1>1. MAX_TREE_HEIGHT \in Nat
  BY MaxTreeHeightAssumption
<1>2. t.routing \in [1..MAX_TREE_HEIGHT -> {0, 1}] /\ t.identity \in Nat
  BY DEF Tag, Routing, Bit
<1>3. leaf \in [1..h -> {0, 1}]
  BY DEF Leaf, Bit
<1>4. ranked_routing(t, leaf, h) \in Routing
  BY <1>1, <1>2, <1>3 DEF ranked_routing, Routing, Bit
<1>5. to_leaf(t, h) \in Leaf(h)
  BY <1>1, <1>2 DEF to_leaf, Leaf, Bit
<1> QED BY <1>1, <1>2, <1>4, <1>5

\* A tag's path and a leaf's share their first l turns just when the sort key
\* starts with l zeros.
LEMMA SharedMeansZeros ==
  ASSUME NEW h \in 0..MAX_TREE_HEIGHT, NEW leaf \in Leaf(h), NEW t \in Tag, NEW l \in 0..h
  PROVE  node_on_path(leaf, l) = node_on_path(to_leaf(t, h), l)
           <=> \A d \in 1..l : ranked_routing(t, leaf, h)[d] = 0
<1>1. MAX_TREE_HEIGHT \in Nat /\ h \in Nat /\ l \in Nat /\ l <= h /\ h <= MAX_TREE_HEIGHT
  BY MaxTreeHeightAssumption
<1>2. t.routing \in [1..MAX_TREE_HEIGHT -> {0, 1}]
  BY DEF Tag, Routing, Bit
<1>3. leaf \in [1..h -> {0, 1}]
  BY DEF Leaf, Bit
<1>4. \A d \in 1..l : ranked_routing(t, leaf, h)[d] = 0 <=> leaf[d] = to_leaf(t, h)[d]
  BY <1>1, <1>2, <1>3 DEF ranked_routing, to_leaf
<1>5. node_on_path(leaf, l) = node_on_path(to_leaf(t, h), l)
        <=> \A d \in 1..l : leaf[d] = to_leaf(t, h)[d]
  BY DEF node_on_path
<1> QED BY <1>4, <1>5

\* deepest_shared_level bounds the levels on both paths.
LEMMA SharedLevel ==
  ASSUME NEW h \in 0..MAX_TREE_HEIGHT, NEW leaf \in Leaf(h), NEW t \in Tag
  PROVE  /\ deepest_shared_level(leaf, t, h) \in 0..h
         /\ \A l \in 0..h :
              l <= deepest_shared_level(leaf, t, h)
                <=> \A d \in 1..l : ranked_routing(t, leaf, h)[d] = 0
<1> DEFINE shared == {l \in 0..h : node_on_path(leaf, l) = node_on_path(to_leaf(t, h), l)}
<1>1. shared = {l \in 0..h : \A d \in 1..l : ranked_routing(t, leaf, h)[d] = 0}
  BY SharedMeansZeros
<1>2. 0 \in shared /\ shared \subseteq 0..h
  BY <1>1
<1>3. Max(shared) \in shared /\ \A l \in shared : l <= Max(shared)
  <2> HIDE DEF shared
  <2>1. shared \in SUBSET Int /\ shared # {} /\ h \in Int /\ \A l \in shared : l <= h
    BY <1>2
  <2> QED BY <2>1, MaxOfBounded
<1>4. deepest_shared_level(leaf, t, h) = Max(shared)
  BY DEF deepest_shared_level
<1>5. \A l \in 0..h : l <= Max(shared) => \A d \in 1..l : ranked_routing(t, leaf, h)[d] = 0
  <2> HIDE DEF shared
  <2>1. Max(shared) \in 0..h /\ \A d \in 1..Max(shared) : ranked_routing(t, leaf, h)[d] = 0
    BY <1>1, <1>3
  <2> QED BY <2>1
<1> HIDE DEF shared
<1> QED BY <1>1, <1>2, <1>3, <1>4, <1>5

\* The order of sorted blocks never lets one overtake a block that may go deeper.
LEMMA RankFollowsDepth ==
  ASSUME NEW h \in 0..MAX_TREE_HEIGHT, NEW leaf \in Leaf(h), NEW t \in Tag, NEW u \in Tag,
         ranks_before(t, u, leaf, h)
  PROVE  deepest_shared_level(leaf, t, h) >= deepest_shared_level(leaf, u, h)
<1> DEFINE r == ranked_routing(t, leaf, h)
           s == ranked_routing(u, leaf, h)
           l == deepest_shared_level(leaf, u, h)
<1>1. r \in [1..MAX_TREE_HEIGHT -> {0, 1}] /\ s \in [1..MAX_TREE_HEIGHT -> {0, 1}]
  BY RankedType DEF Routing, Bit
<1>2. MAX_TREE_HEIGHT \in Nat
  BY MaxTreeHeightAssumption
<1>3. l \in 0..h /\ deepest_shared_level(leaf, t, h) \in 0..h
  BY SharedLevel
<1>4. \A d \in 1..l : s[d] = 0
  BY SharedLevel, <1>3
<1>5. \/ \E d \in 1..MAX_TREE_HEIGHT : r[d] < s[d] /\ \A e \in 1..(d - 1) : r[e] = s[e]
      \/ r = s
  BY DEF ranks_before
<1>6. \A d \in 1..l : r[d] = 0
  <2> HIDE DEF r, s, l
  <2>1. CASE r = s
    BY <2>1, <1>4
  <2>2. CASE \E d \in 1..MAX_TREE_HEIGHT : r[d] < s[d] /\ \A e \in 1..(d - 1) : r[e] = s[e]
    <3>1. PICK d \in 1..MAX_TREE_HEIGHT : r[d] < s[d] /\ \A e \in 1..(d - 1) : r[e] = s[e]
      BY <2>2
    <3>2. r[d] \in {0, 1}
      BY <1>1
    <3>3. d \notin 1..l
      BY <3>1, <3>2, <1>4
    <3>4. 1..l \subseteq 1..(d - 1)
      BY <3>3, <1>2, <1>3
    <3> QED BY <3>1, <3>4, <1>4
  <2> QED BY <1>5, <2>1, <2>2
<1> QED BY <1>3, <1>6, SharedLevel

\* The order of sorted blocks is a strict total order of tags.
LEMMA RankIrreflexive ==
  ASSUME NEW h \in 0..MAX_TREE_HEIGHT, NEW leaf \in Leaf(h), NEW t \in Tag
  PROVE  ~ranks_before(t, t, leaf, h)
<1> DEFINE r == ranked_routing(t, leaf, h)
<1>1. r \in [1..MAX_TREE_HEIGHT -> {0, 1}] /\ t.identity \in Nat
  BY RankedType DEF Routing, Bit
<1>2. \A d \in 1..MAX_TREE_HEIGHT : ~(r[d] < r[d])
  <2> HIDE DEF r
  <2> QED BY <1>1
<1> QED BY <1>1, <1>2 DEF ranks_before

\* The order of a path access is transitive.
LEMMA RankTransitive ==
  ASSUME NEW h \in 0..MAX_TREE_HEIGHT, NEW leaf \in Leaf(h),
         NEW t \in Tag, NEW u \in Tag, NEW v \in Tag,
         ranks_before(t, u, leaf, h), ranks_before(u, v, leaf, h)
  PROVE  ranks_before(t, v, leaf, h)
<1> DEFINE r == ranked_routing(t, leaf, h)
           s == ranked_routing(u, leaf, h)
           q == ranked_routing(v, leaf, h)
           Less(f, g, d) == f[d] < g[d] /\ \A e \in 1..(d - 1) : f[e] = g[e]
<1>1. /\ r \in [1..MAX_TREE_HEIGHT -> {0, 1}]
      /\ s \in [1..MAX_TREE_HEIGHT -> {0, 1}]
      /\ q \in [1..MAX_TREE_HEIGHT -> {0, 1}]
      /\ t.identity \in Nat /\ u.identity \in Nat /\ v.identity \in Nat
      /\ MAX_TREE_HEIGHT \in Nat
  BY RankedType DEF Routing, Bit
<1>2. (\E d \in 1..MAX_TREE_HEIGHT : Less(r, s, d)) \/ (r = s /\ t.identity < u.identity)
  BY DEF ranks_before
<1>3. (\E d \in 1..MAX_TREE_HEIGHT : Less(s, q, d)) \/ (s = q /\ u.identity < v.identity)
  BY DEF ranks_before
<1>4. (\E d \in 1..MAX_TREE_HEIGHT : Less(r, q, d)) \/ (r = q /\ t.identity < v.identity)
  <2> HIDE DEF r, s, q
  <2>1. CASE r = s /\ t.identity < u.identity
    BY <2>1, <1>1, <1>3
  <2>2. CASE s = q /\ u.identity < v.identity
    BY <2>2, <1>1, <1>2
  <2>3. CASE (\E d \in 1..MAX_TREE_HEIGHT : Less(r, s, d)) /\ (\E d \in 1..MAX_TREE_HEIGHT : Less(s, q, d))
    <3>1. PICK d \in 1..MAX_TREE_HEIGHT : Less(r, s, d)
      BY <2>3
    <3>2. PICK e \in 1..MAX_TREE_HEIGHT : Less(s, q, e)
      BY <2>3
    <3>3. CASE d < e
      <4>1. d \in 1..(e - 1) /\ \A i \in 1..(d - 1) : i \in 1..(e - 1)
        BY <3>3
      <4>2. Less(r, q, d)
        BY <3>1, <3>2, <4>1
      <4> QED BY <4>2
    <3>4. CASE e < d
      <4>1. e \in 1..(d - 1) /\ \A i \in 1..(e - 1) : i \in 1..(d - 1)
        BY <3>4
      <4>2. Less(r, q, e)
        BY <3>1, <3>2, <4>1
      <4> QED BY <4>2
    <3>5. CASE d = e
      <4>1. r[d] \in Int /\ s[d] \in Int /\ q[d] \in Int
        BY <1>1
      <4>2. Less(r, q, d)
        BY <3>1, <3>2, <3>5, <4>1
      <4> QED BY <4>2
    <3> QED BY <3>3, <3>4, <3>5
  <2> QED BY <1>2, <1>3, <2>1, <2>2, <2>3
<1> QED BY <1>4 DEF ranks_before

\* Any two different tags are ordered.
LEMMA RankTotal ==
  ASSUME NEW h \in 0..MAX_TREE_HEIGHT, NEW leaf \in Leaf(h),
         NEW t \in Tag, NEW u \in Tag, t # u
  PROVE  ranks_before(t, u, leaf, h) \/ ranks_before(u, t, leaf, h)
<1> DEFINE r == ranked_routing(t, leaf, h)
           s == ranked_routing(u, leaf, h)
           differing == {d \in 1..MAX_TREE_HEIGHT : r[d] # s[d]}
<1>1. /\ r \in [1..MAX_TREE_HEIGHT -> {0, 1}]
      /\ s \in [1..MAX_TREE_HEIGHT -> {0, 1}]
      /\ t.identity \in Nat /\ u.identity \in Nat
      /\ MAX_TREE_HEIGHT \in Nat
  BY RankedType DEF Routing, Bit
<1>2. CASE differing # {}
  <2>1. differing \in SUBSET Nat
    OBVIOUS
  <2>2. PICK d \in differing : \A e \in differing : d <= e
    <3> HIDE DEF differing
    <3> QED BY <1>2, <2>1, MinOfNat
  <2>3. \A e \in 1..(d - 1) : r[e] = s[e]
    <3> HIDE DEF r, s
    <3> QED BY <2>2, <1>1
  <2>4. r[d] < s[d] \/ s[d] < r[d]
    <3> HIDE DEF r, s
    <3> QED BY <1>1
  <2> QED BY <2>3, <2>4 DEF ranks_before
<1>3. CASE differing = {}
  <2>1. r = s
    <3> HIDE DEF r, s
    <3> QED BY <1>1, <1>3
  <2>2. t.routing = u.routing
    <3> DEFINE f == t.routing
               g == u.routing
    <3>1. /\ f \in [1..MAX_TREE_HEIGHT -> {0, 1}]
          /\ g \in [1..MAX_TREE_HEIGHT -> {0, 1}]
      BY DEF Tag, Routing, Bit
    <3>2. \A d \in 1..MAX_TREE_HEIGHT :
            /\ r[d] = IF d <= h /\ leaf[d] = 1 THEN 1 - f[d] ELSE f[d]
            /\ s[d] = IF d <= h /\ leaf[d] = 1 THEN 1 - g[d] ELSE g[d]
      BY DEF ranked_routing
    <3> HIDE DEF f, g, r, s
    <3>3. \A d \in 1..MAX_TREE_HEIGHT : f[d] = g[d]
      BY <2>1, <3>1, <3>2
    <3>4. /\ f = [d \in 1..MAX_TREE_HEIGHT |-> f[d]]
          /\ g = [d \in 1..MAX_TREE_HEIGHT |-> g[d]]
      BY <3>1
    <3>5. [d \in 1..MAX_TREE_HEIGHT |-> f[d]] = [d \in 1..MAX_TREE_HEIGHT |-> g[d]]
      BY <3>3, Zenon
    <3> QED BY <3>4, <3>5 DEF f, g
  <2>3. t.identity # u.identity
    BY <2>2 DEF Tag
  <2> QED BY <1>1, <2>1, <2>3 DEF ranks_before
<1> QED BY <1>2, <1>3

-----------------------------------------------------------------------------
(***************************************************************************)
(* The leaves that bit_reversed_leaf visits as its counter advances.        *)
(***************************************************************************)

\* One more bit of a number halves what is left of it.
LEMMA NextBit ==
  ASSUME NEW c \in Nat, NEW i \in Nat
  PROVE  c % 2^(i + 1) = (c % 2^i) + 2^i * bit_of(c, i)
<1> DEFINE a == 2^i
<1>1. a \in Nat \ {0} /\ 2^(i + 1) = 2 * a
  BY PowerOfTwo
<1> DEFINE q == c \div a
           r == c % a
           p == q \div 2
           b == q % 2
<1>2. q \in Nat /\ r \in 0..(a - 1) /\ c = a * q + r
  <2> HIDE DEF a
  <2> QED BY <1>1, Division
<1>3. p \in Nat /\ b \in 0..1 /\ q = 2 * p + b
  <2> HIDE DEF q
  <2> QED BY <1>2
<1>4. bit_of(c, i) = b
  <2>1. b \in {0, 1}
    <3> HIDE DEF b
    <3> QED BY <1>3
  <2> QED BY <2>1 DEF bit_of
<1> HIDE DEF a, q, r, p, b
<1>5. c = (2 * a) * p + (r + a * b)
  <2>1. a * q = a * (2 * p + b)
    BY <1>3
  <2>2. a * (2 * p + b) = (2 * a) * p + a * b
    BY <1>1, <1>3
  <2>3. a * q \in Int /\ (2 * a) * p \in Int /\ a * b \in Int /\ r \in Int
    BY <1>1, <1>2, <1>3
  <2> QED BY <1>2, <2>1, <2>2, <2>3
<1>6. r + a * b \in 0..(2 * a - 1)
  <2>1. CASE b = 0
    BY <1>1, <1>2, <2>1
  <2>2. CASE b = 1
    BY <1>1, <1>2, <2>2
  <2> QED BY <1>3, <2>1, <2>2
<1>7. c % (2 * a) = r + a * b
  <2> DEFINE n == 2 * a
             s == r + a * b
  <2>1. n \in Nat \ {0} /\ s \in 0..(n - 1) /\ c = n * p + s
    BY <1>1, <1>5, <1>6
  <2> HIDE DEF n, s
  <2>2. c % n = s
    BY <1>3, <2>1, Remainder
  <2> QED BY <2>2 DEF n, s
<1> QED BY <1>1, <1>4, <1>7 DEF a, r

\* Counters that visit the same leaf agree modulo the number of leaves.
LEMMA SameLeafSameRemainder ==
  ASSUME NEW h \in Nat, NEW c \in Nat, NEW d \in Nat,
         bit_reversed_leaf(c, h) = bit_reversed_leaf(d, h)
  PROVE  c % 2^h = d % 2^h
<1> DEFINE apart == {n \in 0..h : c % 2^n # d % 2^n}
<1>1. \A i \in 0..(h - 1) : bit_of(c, i) = bit_of(d, i)
  <2> TAKE i \in 0..(h - 1)
  <2>1. i + 1 \in 1..h /\ (i + 1) - 1 = i
    OBVIOUS
  <2>2. bit_reversed_leaf(c, h)[i + 1] = bit_of(c, i) /\ bit_reversed_leaf(d, h)[i + 1] = bit_of(d, i)
    BY <2>1 DEF bit_reversed_leaf
  <2> QED BY <2>2
<1> SUFFICES ASSUME apart # {} PROVE FALSE
  <2>1. h \in 0..h
    OBVIOUS
  <2> QED BY <2>1
<1> DEFINE m == Min(apart)
<1>2. m \in apart /\ \A n \in apart : m <= n
  <2>1. apart \in SUBSET Nat
    OBVIOUS
  <2> HIDE DEF apart
  <2> QED BY <2>1, MinOfNat
<1> HIDE DEF m
<1>3. m # 0
  <2>1. Cardinality(SUBSET {}) = 2^0
    BY FS_EmptySet, FS_SUBSET
  <2>2. SUBSET {} = {{}} /\ Cardinality({{}}) = 1
    BY FS_Singleton
  <2>3. c % 1 = 0 /\ d % 1 = 0
    OBVIOUS
  <2>4. c % 2^0 = d % 2^0
    BY <2>1, <2>2, <2>3
  <2> QED BY <1>2, <2>4
<1> DEFINE i == m - 1
<1>4. i \in 0..(h - 1) /\ i \in Nat /\ i \in 0..h /\ m = i + 1 /\ i < m /\ m \in Nat
  BY <1>2, <1>3
<1> HIDE DEF i
<1>5. c % 2^i = d % 2^i
  <2>1. i \notin apart
    BY <1>2, <1>4
  <2> QED BY <1>4, <2>1
<1>6. c % 2^m = d % 2^m
  <2>1. /\ c % 2^(i + 1) = (c % 2^i) + 2^i * bit_of(c, i)
        /\ d % 2^(i + 1) = (d % 2^i) + 2^i * bit_of(d, i)
    BY <1>4, NextBit
  <2>2. bit_of(c, i) = bit_of(d, i)
    BY <1>1, <1>4
  <2> QED BY <1>4, <1>5, <2>1, <2>2
<1> QED BY <1>2, <1>6

\* Counters less than n apart differ modulo n.
LEMMA DistinctRemainders ==
  ASSUME NEW n \in Nat \ {0}, NEW c \in Nat, NEW d \in Nat, c - d < n, d - c < n, c % n = d % n
  PROVE  c = d
<1> DEFINE q == c \div n
           p == d \div n
           r == c % n
<1>1. q \in Nat /\ r \in 0..(n - 1) /\ c = n * q + r
  BY Division
<1>2. p \in Nat /\ d = n * p + r
  BY Division
<1> HIDE DEF q, p, r
<1> DEFINE e == q - p
<1>3. e \in Int /\ n * e = c - d
  BY <1>1, <1>2
<1> HIDE DEF e
<1>4. ~(e >= 1)
  <2> SUFFICES ASSUME e >= 1 PROVE FALSE
    OBVIOUS
  <2>1. n * 1 <= n * e
    BY <1>3, Monotone
  <2> QED BY <1>3, <2>1
<1>5. ~(e <= -1)
  <2> SUFFICES ASSUME e <= -1 PROVE FALSE
    OBVIOUS
  <2>1. n * e <= n * (-1) /\ n * (-1) = -n
    BY <1>3, Monotone
  <2> QED BY <1>3, <2>1
<1>6. e = 0
  BY <1>3, <1>4, <1>5
<1> QED BY <1>3, <1>6

\* The leaves visited while the counter goes from first to last.
visits(first, last, h) == {bit_reversed_leaf(c, h) : c \in first..last}

\* Up to as many evictions as there are leaves visit each leaf at most once.
LEMMA VisitsAreDistinct ==
  ASSUME NEW h \in Nat, NEW first \in Nat, NEW last \in Int,
         last - first < leaf_count(h), first <= last + 1
  PROVE  /\ IsFiniteSet(visits(first, last, h))
         /\ Cardinality(visits(first, last, h)) = last + 1 - first
         /\ visits(first, last, h) \subseteq Leaf(h)
<1> DEFINE ctrs == first..last
           f == [c \in ctrs |-> bit_reversed_leaf(c, h)]
<1>1. leaf_count(h) \in Nat \ {0}
  BY PowerOfTwo DEF leaf_count
<1>2. IsFiniteSet(ctrs) /\ Cardinality(ctrs) = last + 1 - first
  <2>1. IsFiniteSet(ctrs) /\ Cardinality(ctrs) = IF first > last THEN 0 ELSE last - first + 1
    BY FS_Interval
  <2> QED BY <2>1
<1>3. f \in Surjection(ctrs, visits(first, last, h))
  BY DEF Surjection, visits
<1>4. f \in Injection(ctrs, visits(first, last, h))
  <2>1. ASSUME NEW c \in ctrs, NEW d \in ctrs, f[c] = f[d] PROVE c = d
    <3>1. c \in Nat /\ d \in Nat /\ c - d < leaf_count(h) /\ d - c < leaf_count(h)
      BY <1>1
    <3>2. bit_reversed_leaf(c, h) = bit_reversed_leaf(d, h)
      BY <2>1
    <3>3. c % leaf_count(h) = d % leaf_count(h)
      BY <3>1, <3>2, SameLeafSameRemainder DEF leaf_count
    <3> QED BY ONLY <1>1, <3>1, <3>3, DistinctRemainders
  <2>2. f \in [ctrs -> visits(first, last, h)]
    BY <1>3 DEF Surjection
  <2> HIDE DEF f, ctrs
  <2> QED BY <2>1, <2>2 DEF Injection, IsInjective
<1>5. visits(first, last, h) \subseteq Leaf(h)
  BY DEF visits, bit_reversed_leaf, bit_of, Leaf, Bit
<1> HIDE DEF f, ctrs
<1> QED BY <1>2, <1>3, <1>4, <1>5, FS_Surjection

\* A tree has leaf_count leaves.
LEMMA LeavesCounted ==
  ASSUME NEW h \in Nat
  PROVE  IsFiniteSet(Leaf(h)) /\ Cardinality(Leaf(h)) = leaf_count(h)
<1> DEFINE ones(leaf) == {d \in 1..h : leaf[d] = 1}
           leaf_of == [T \in SUBSET (1..h) |-> [d \in 1..h |-> IF d \in T THEN 1 ELSE 0]]
<1>1. IsFiniteSet(SUBSET (1..h)) /\ Cardinality(SUBSET (1..h)) = 2^h
  <2>1. IsFiniteSet(1..h) /\ Cardinality(1..h) = h
    BY FS_Interval
  <2> QED BY <2>1, FS_SUBSET
<1>2. ASSUME NEW T \in SUBSET (1..h)
      PROVE  leaf_of[T] \in Leaf(h) /\ ones(leaf_of[T]) = T
  <2>1. leaf_of[T] = [d \in 1..h |-> IF d \in T THEN 1 ELSE 0]
    OBVIOUS
  <2>2. leaf_of[T] \in Leaf(h)
    BY <2>1 DEF Leaf, Bit
  <2>3. \A d \in 1..h : leaf_of[T][d] = 1 <=> d \in T
    BY <2>1
  <2> HIDE DEF leaf_of
  <2> QED BY <2>2, <2>3
<1>3. \A leaf \in Leaf(h) : ones(leaf) \in SUBSET (1..h) /\ leaf_of[ones(leaf)] = leaf
  <2> TAKE leaf \in Leaf(h)
  <2>1. \A d \in 1..h : leaf_of[ones(leaf)][d] = leaf[d]
    BY DEF Leaf, Bit
  <2>2. leaf \in [1..h -> Bit] /\ leaf_of[ones(leaf)] \in [1..h -> Bit]
    BY DEF Leaf, Bit
  <2> QED BY <2>1, <2>2
<1>4. leaf_of \in [SUBSET (1..h) -> Leaf(h)]
  BY <1>2
<1> HIDE DEF leaf_of, ones
<1>5. leaf_of \in Bijection(SUBSET (1..h), Leaf(h))
  BY <1>2, <1>3, <1>4 DEF Bijection, Injection, Surjection, IsInjective
<1>6. ExistsBijection(SUBSET (1..h), Leaf(h))
  BY <1>5 DEF ExistsBijection
<1> QED BY <1>1, <1>6, FS_Bijection DEF leaf_count

\* As many evictions as there are leaves visit all of them.
LEMMA VisitsAreComplete ==
  ASSUME NEW h \in Nat, NEW first \in Nat, NEW last \in Int,
         last + 1 - first >= leaf_count(h)
  PROVE  Leaf(h) \subseteq visits(first, last, h)
<1> DEFINE n == leaf_count(h)
           part == visits(first, first + n - 1, h)
<1>1. n \in Nat
  BY LeavesCounted, FS_CardinalityType
<1>2. Cardinality(part) = n /\ part \subseteq Leaf(h)
  <2> DEFINE until == first + n - 1
  <2>1. until \in Int /\ until - first < n /\ first <= until + 1 /\ until + 1 - first = n
    BY <1>1
  <2> HIDE DEF until
  <2> QED BY <2>1, VisitsAreDistinct DEF until
<1>3. part = Leaf(h)
  <2> HIDE DEF part
  <2> QED BY <1>2, LeavesCounted, FS_Subset
<1>4. part \subseteq visits(first, last, h)
  <2>1. \A c \in first..(first + n - 1) : c \in first..last
    BY <1>1
  <2> QED BY <2>1 DEF visits
<1> QED BY <1>3, <1>4

\* The leaf of a smaller tree above a visited leaf is visited in its own turn there.
LEMMA ParentVisited ==
  ASSUME NEW h \in Nat, NEW c, h >= 1
  PROVE  node_on_path(bit_reversed_leaf(c, h), h - 1) = bit_reversed_leaf(c, h - 1)
BY DEF node_on_path, bit_reversed_leaf

-----------------------------------------------------------------------------
(***************************************************************************)
(* One path access.                                                         *)
(***************************************************************************)

\* What a path access relies on: a height the code allows, tags that tell keys
\* apart, and at most one block for each key.
Routed == /\ prf \in [Key -> Tag]
          /\ \A k, l \in Key : k # l => prf[k] # prf[l]
          /\ height \in 1..MAX_TREE_HEIGHT
Distinct(blocks) == \A b, c \in blocks : b.key = c.key => b = c

\* Among the blocks of one path access the order is strict and total.
LEMMA AheadOrder ==
  ASSUME Routed, NEW leaf \in Leaf(height), NEW blocks \in SUBSET Block, Distinct(blocks)
  PROVE  /\ \A b \in blocks : b \notin ahead_of(blocks, b, leaf)
         /\ \A b, c \in blocks : b \in ahead_of(blocks, c, leaf) =>
              ahead_of(blocks, b, leaf) \subseteq ahead_of(blocks, c, leaf)
         /\ \A b, c \in blocks : b # c =>
              b \in ahead_of(blocks, c, leaf) \/ c \in ahead_of(blocks, b, leaf)
         /\ \A b, c \in blocks : b \in ahead_of(blocks, c, leaf) =>
              deepest_shared_level(leaf, prf[b.key], height)
                >= deepest_shared_level(leaf, prf[c.key], height)
<1>1. height \in 0..MAX_TREE_HEIGHT
  BY MaxTreeHeightAssumption DEF Routed
<1>2. \A b \in blocks : b.key \in Key /\ prf[b.key] \in Tag
  BY DEF Routed, Block
<1>3. \A b, c \in blocks : b # c => prf[b.key] # prf[c.key]
  BY <1>2 DEF Distinct, Routed
<1>4. \A b, c \in blocks : b \in ahead_of(blocks, c, leaf)
                             <=> ranks_before(prf[b.key], prf[c.key], leaf, height)
  BY DEF ahead_of
<1>5. ASSUME NEW b \in blocks PROVE b \notin ahead_of(blocks, b, leaf)
  BY <1>1, <1>2, <1>4, RankIrreflexive
<1>6. ASSUME NEW b \in blocks, NEW c \in blocks, b \in ahead_of(blocks, c, leaf),
             NEW a \in ahead_of(blocks, b, leaf)
      PROVE  a \in ahead_of(blocks, c, leaf)
  <2>1. a \in blocks
    BY DEF ahead_of
  <2> QED BY <1>1, <1>2, <1>4, <1>6, <2>1, RankTransitive
<1>7. ASSUME NEW b \in blocks, NEW c \in blocks, b # c
      PROVE  b \in ahead_of(blocks, c, leaf) \/ c \in ahead_of(blocks, b, leaf)
  BY <1>1, <1>2, <1>3, <1>4, <1>7, RankTotal
<1>8. ASSUME NEW b \in blocks, NEW c \in blocks, b \in ahead_of(blocks, c, leaf)
      PROVE  deepest_shared_level(leaf, prf[b.key], height)
                >= deepest_shared_level(leaf, prf[c.key], height)
  BY <1>1, <1>2, <1>4, <1>8, RankFollowsDepth
<1> QED BY <1>5, <1>6, <1>7, <1>8

\* A non-empty finite set of blocks has a last one in that order.
LEMMA LastBlock ==
  ASSUME Routed, NEW leaf \in Leaf(height), NEW blocks \in SUBSET Block, Distinct(blocks),
         IsFiniteSet(blocks), blocks # {}
  PROVE  \E m \in blocks : \A b \in blocks : m \notin ahead_of(blocks, b, leaf)
<1> DEFINE size(b) == Cardinality(ahead_of(blocks, b, leaf))
           sizes == {size(b) : b \in blocks}
<1>1. \A b \in blocks : /\ ahead_of(blocks, b, leaf) \in SUBSET blocks
                        /\ IsFiniteSet(ahead_of(blocks, b, leaf))
                        /\ size(b) \in Nat /\ size(b) <= Cardinality(blocks)
  <2> TAKE b \in blocks
  <2>1. ahead_of(blocks, b, leaf) \in SUBSET blocks
    BY DEF ahead_of
  <2> QED BY <2>1, FS_Subset, FS_CardinalityType
<1>2. Cardinality(blocks) \in Nat
  BY FS_CardinalityType
<1>3. PICK m \in blocks : \A b \in blocks : size(b) <= size(m)
  <2>1. sizes \in SUBSET Int /\ sizes # {} /\ \A x \in sizes : x <= Cardinality(blocks)
    BY <1>1
  <2> DEFINE bound == Cardinality(blocks)
  <2>3. bound \in Int
    BY <1>2
  <2>2. Max(sizes) \in sizes /\ \A x \in sizes : x <= Max(sizes)
    <3>1. \A x \in sizes : x <= bound
      BY <2>1
    <3> HIDE DEF sizes, bound
    <3> QED BY <2>1, <2>3, <3>1, MaxOfBounded
  <2> QED BY <2>2
<1>4. ASSUME NEW b \in blocks, m \in ahead_of(blocks, b, leaf) PROVE FALSE
  <2>1. ahead_of(blocks, m, leaf) \in SUBSET ahead_of(blocks, b, leaf)
    BY <1>4, AheadOrder
  <2>2. ahead_of(blocks, m, leaf) # ahead_of(blocks, b, leaf)
    <3>1. m \notin ahead_of(blocks, m, leaf)
      BY AheadOrder
    <3> QED BY <1>4, <3>1
  <2>3. size(m) <= size(b) /\ size(m) # size(b)
    BY <1>1, <2>1, <2>2, FS_Subset
  <2> QED BY <1>1, <1>3, <2>3
<1> QED BY <1>4

\* A block's level depends only on the levels of the blocks ahead of it.
LEMMA BestLevelDependsOnAhead ==
  ASSUME NEW leaf, NEW X, NEW Y, NEW f, NEW g, NEW b,
         ahead_of(X, b, leaf) = ahead_of(Y, b, leaf),
         \A c \in ahead_of(X, b, leaf) : f[c] = g[c]
  PROVE  best_level(X, f, b, leaf) = best_level(Y, g, b, leaf)
<1>1. \A l : {c \in ahead_of(X, b, leaf) : f[c] = l} = {c \in ahead_of(Y, b, leaf) : g[c] = l}
  OBVIOUS
<1>2. free_levels(X, f, b, leaf) = free_levels(Y, g, b, leaf)
  BY <1>1 DEF free_levels
<1> QED BY <1>2 DEF best_level

\* The assignment loop of write_to_path gives every block a level: the recursion
\* of assigned_level is well founded.
LEMMA LevelsExist ==
  ASSUME Routed, NEW leaf \in Leaf(height), NEW blocks \in SUBSET Block, Distinct(blocks),
         IsFiniteSet(blocks)
  PROVE  \E f : f = [b \in blocks |-> best_level(blocks, f, b, leaf)]
<1> DEFINE Assigned(X) == \E f : f = [b \in X |-> best_level(X, f, b, leaf)]
           bad == {X \in SUBSET blocks : ~Assigned(X)}
<1> SUFFICES ASSUME ~Assigned(blocks) PROVE FALSE
  OBVIOUS
<1>1. bad \subseteq FiniteSubsetsOf(blocks) /\ bad # {}
  <2>1. FiniteSubsetsOf(blocks) = SUBSET blocks
    BY FS_FiniteSubsetsOfFinite
  <2>2. blocks \in bad
    OBVIOUS
  <2> QED BY <2>1, <2>2
<1>2. PICK X \in bad : \A Y \in bad : <<Y, X>> \notin StrictSubsetOrdering(blocks)
  <2> HIDE DEF bad
  <2> QED BY <1>1, FS_StrictSubsetOrderingWellFounded, WFMin
<1>3. X \in SUBSET Block /\ X \subseteq blocks /\ Distinct(X) /\ IsFiniteSet(X)
  BY FS_Subset DEF Distinct
<1>4. ASSUME NEW Y \in SUBSET X, Y # X PROVE Assigned(Y)
  <2>1. <<Y, X>> \in (SUBSET blocks) \X (SUBSET blocks)
    BY <1>3
  <2>2. <<Y, X>> \in StrictSubsetOrdering(blocks)
    BY <1>4, <2>1, Zenon DEF StrictSubsetOrdering
  <2>3. Y \notin bad
    BY <1>2, <2>2
  <2> QED BY <1>3, <2>3
<1>5. X # {}
  <2> SUFFICES ASSUME X = {} PROVE FALSE
    OBVIOUS
  <2> DEFINE none == [b \in {} |-> 0]
  <2>1. none = [b \in {} |-> best_level({}, none, b, leaf)]
    OBVIOUS
  <2>2. Assigned({})
    BY <2>1
  <2> QED BY <2>2
<1>6. PICK m \in X : \A b \in X : m \notin ahead_of(X, b, leaf)
  BY <1>3, <1>5, LastBlock
<1> DEFINE Y == X \ {m}
<1>7. PICK f : f = [b \in Y |-> best_level(Y, f, b, leaf)]
  BY <1>4
<1> DEFINE g == [b \in X |-> IF b = m THEN best_level(X, f, m, leaf) ELSE f[b]]
<1>8. ASSUME NEW b \in X PROVE g[b] = best_level(X, g, b, leaf)
  <2>1. \A c \in ahead_of(X, b, leaf) : c \in Y
    BY <1>6 DEF ahead_of
  <2>2. \A c \in ahead_of(X, b, leaf) : f[c] = g[c]
    BY <2>1
  <2>3. ahead_of(Y, b, leaf) = ahead_of(X, b, leaf)
    BY <2>1 DEF ahead_of
  <2>4. best_level(X, f, b, leaf) = best_level(X, g, b, leaf)
    BY <2>2, BestLevelDependsOnAhead
  <2>5. CASE b = m
    BY <2>4, <2>5
  <2>6. CASE b # m
    <3>1. f[b] = best_level(Y, f, b, leaf)
      BY <1>7, <2>6
    <3>2. best_level(Y, f, b, leaf) = best_level(X, f, b, leaf)
      BY <2>3, BestLevelDependsOnAhead
    <3> QED BY <2>4, <2>6, <3>1, <3>2
  <2> QED BY <2>5, <2>6
<1>9. g = [b \in X |-> best_level(X, g, b, leaf)]
  <2>1. g = [b \in X |-> g[b]]
    OBVIOUS
  <2> HIDE DEF g
  <2>2. [b \in X |-> g[b]] = [b \in X |-> best_level(X, g, b, leaf)]
    BY <1>8, Zenon
  <2> QED BY <2>1, <2>2
<1>10. Assigned(X)
  <2> HIDE DEF g
  <2> QED BY <1>9
<1> QED BY <1>10

\* The recursion equation of assigned_level.
LEMMA LevelEquation ==
  ASSUME Routed, NEW leaf \in Leaf(height), NEW blocks \in SUBSET Block, Distinct(blocks),
         IsFiniteSet(blocks)
  PROVE  assigned_level(blocks, leaf)
           = [b \in blocks |-> best_level(blocks, assigned_level(blocks, leaf), b, leaf)]
BY LevelsExist, Zenon DEF assigned_level

-----------------------------------------------------------------------------
\* What the assignment loop achieves: a block goes to the deepest level of the
\* path it shares that has a free slot, and to the overflow when there is none.
LEMMA GreedyLevel ==
  ASSUME Routed, NEW leaf \in Leaf(height), NEW blocks \in SUBSET Block, Distinct(blocks),
         IsFiniteSet(blocks), NEW b \in blocks
  PROVE  LET level == assigned_level(blocks, leaf)
             room  == free_levels(blocks, level, b, leaf)
         IN /\ DOMAIN level = blocks
            /\ level[b] \in Overflow..height
            /\ level[b] <= deepest_shared_level(leaf, prf[b.key], height)
            /\ level[b] # Overflow => level[b] \in room
            /\ \A l \in room : l <= level[b]
<1> DEFINE level  == assigned_level(blocks, leaf)
           room   == free_levels(blocks, level, b, leaf)
           shared == deepest_shared_level(leaf, prf[b.key], height)
<1>1. DOMAIN level = blocks /\ level[b] = best_level(blocks, level, b, leaf)
  <2>1. level = [c \in blocks |-> best_level(blocks, level, c, leaf)]
    BY LevelEquation
  <2> HIDE DEF level
  <2> QED BY <2>1
<1>2. shared \in 0..height /\ height \in Nat
  <2>1. height \in 0..MAX_TREE_HEIGHT /\ prf[b.key] \in Tag /\ height \in Nat
    BY MaxTreeHeightAssumption DEF Routed, Block
  <2> QED BY <2>1, SharedLevel
<1>3. room \subseteq 0..shared
  BY DEF free_levels
<1>4. CASE room = {}
  <2>1. level[b] = Overflow
    BY <1>1, <1>4 DEF best_level
  <2> HIDE DEF level, room, shared
  <2>2. level[b] = -1
    BY <2>1 DEF Overflow
  <2>3. level[b] \in Overflow..height /\ level[b] <= shared
    BY <2>2, <1>2 DEF Overflow
  <2> QED BY <1>1, <1>4, <2>1, <2>3 DEF level, room, shared
<1>5. CASE room # {}
  <2>1. level[b] = Max(room)
    BY <1>1, <1>5 DEF best_level
  <2> HIDE DEF level, room, shared
  <2>2. room \in SUBSET Int /\ shared \in Int /\ \A l \in room : l <= shared
    BY <1>2, <1>3
  <2>3. level[b] \in room /\ \A l \in room : l <= level[b]
    BY <1>5, <2>1, <2>2, MaxOfBounded
  <2>4. level[b] \in Overflow..height /\ level[b] <= shared
    <3> DEFINE l == level[b]
    <3>1. l \in 0..shared
      BY <2>3, <1>3
    <3> HIDE DEF l
    <3>2. l \in -1..height /\ l <= shared
      BY <3>1, <1>2
    <3> QED BY <3>2 DEF Overflow, l
  <2> QED BY <1>1, <2>3, <2>4 DEF level, room, shared
<1> QED BY <1>4, <1>5

\* No block is assigned a deeper level than one ahead of it.
LEMMA LevelsDescend ==
  ASSUME Routed, NEW leaf \in Leaf(height), NEW blocks \in SUBSET Block, Distinct(blocks),
         IsFiniteSet(blocks), NEW b \in blocks, NEW c \in ahead_of(blocks, b, leaf)
  PROVE  assigned_level(blocks, leaf)[b] <= assigned_level(blocks, leaf)[c]
<1> DEFINE level == assigned_level(blocks, leaf)
           l == level[b]
           held(d) == {e \in ahead_of(blocks, d, leaf) : level[e] = l}
<1>1. c \in blocks
  BY DEF ahead_of
<1>2. /\ l \in Overflow..height /\ level[c] \in Overflow..height
      /\ l # Overflow => l \in free_levels(blocks, level, b, leaf)
      /\ l \in free_levels(blocks, level, c, leaf) => l <= level[c]
  BY <1>1, GreedyLevel
<1>3. height \in Nat
  BY MaxTreeHeightAssumption DEF Routed
<1>4. CASE l = Overflow
  <2> HIDE DEF level, l
  <2> QED BY <1>2, <1>3, <1>4 DEF Overflow, level, l
<1>5. CASE l # Overflow
  <2>1. l \in 0..deepest_shared_level(leaf, prf[b.key], height) /\ Cardinality(held(b)) < Z
    BY <1>2, <1>5 DEF free_levels
  <2>2. l \in 0..deepest_shared_level(leaf, prf[c.key], height)
    <3>1. deepest_shared_level(leaf, prf[c.key], height)
            >= deepest_shared_level(leaf, prf[b.key], height)
      BY <1>1, AheadOrder
    <3>2. /\ deepest_shared_level(leaf, prf[b.key], height) \in 0..height
          /\ deepest_shared_level(leaf, prf[c.key], height) \in 0..height
      <4>1. height \in 0..MAX_TREE_HEIGHT /\ prf[b.key] \in Tag /\ prf[c.key] \in Tag
        BY <1>1, MaxTreeHeightAssumption DEF Routed, Block
      <4> QED BY <4>1, SharedLevel
    <3> HIDE DEF l
    <3> QED BY <2>1, <3>1, <3>2, <1>3
  <2>3. held(c) \in SUBSET held(b) /\ held(b) \in SUBSET blocks
    <3>1. ahead_of(blocks, c, leaf) \subseteq ahead_of(blocks, b, leaf)
      BY <1>1, AheadOrder
    <3> QED BY <3>1 DEF ahead_of
  <2>4. Cardinality(held(c)) < Z
    <3>1. IsFiniteSet(held(b)) /\ IsFiniteSet(held(c))
      BY <2>3, FS_Subset
    <3>2. Cardinality(held(c)) <= Cardinality(held(b))
      BY <2>3, <3>1, FS_Subset
    <3>3. Cardinality(held(c)) \in Nat /\ Cardinality(held(b)) \in Nat
      BY <3>1, FS_CardinalityType
    <3> QED BY <2>1, <3>2, <3>3, BucketAssumption
  <2>5. l \in free_levels(blocks, level, c, leaf)
    BY <2>2, <2>4 DEF free_levels
  <2> QED BY <1>2, <2>5
<1> QED BY <1>4, <1>5

\* A bucket is never assigned more blocks than it has slots.
LEMMA LevelsFit ==
  ASSUME Routed, NEW leaf \in Leaf(height), NEW blocks \in SUBSET Block, Distinct(blocks),
         IsFiniteSet(blocks), NEW l \in 0..height
  PROVE  level_count(assigned_level(blocks, leaf), l) <= Z
<1> DEFINE level == assigned_level(blocks, leaf)
           at == {b \in blocks : level[b] = l}
<1>1. at \in SUBSET blocks /\ at \in SUBSET Block /\ IsFiniteSet(at) /\ Distinct(at)
  BY FS_Subset DEF Distinct
<1>2. level_count(level, l) = Cardinality(at)
  <2>1. DOMAIN level = blocks
    BY LevelEquation
  <2> QED BY <2>1 DEF level_count
<1>3. CASE at = {}
  BY <1>2, <1>3, FS_EmptySet, BucketAssumption
<1>4. CASE at # {}
  <2>1. PICK m \in at : \A b \in at : m \notin ahead_of(at, b, leaf)
    <3> HIDE DEF at
    <3> QED BY <1>1, <1>4, LastBlock
  <2> DEFINE held == {c \in ahead_of(blocks, m, leaf) : level[c] = l}
  <2>2. l \in free_levels(blocks, level, m, leaf)
    <3>1. level[m] = l /\ l # Overflow
      BY MaxTreeHeightAssumption DEF Overflow, Routed
    <3> QED BY <3>1, GreedyLevel
  <2>3. Cardinality(held) < Z
    BY <2>2 DEF free_levels
  <2>4. at \ {m} \in SUBSET held /\ held \in SUBSET blocks
    <3>1. ASSUME NEW b \in at, b # m PROVE b \in ahead_of(blocks, m, leaf)
      BY <1>1, <2>1, <3>1, AheadOrder DEF ahead_of
    <3> QED BY <3>1 DEF ahead_of
  <2>5. /\ IsFiniteSet(held) /\ Cardinality(held) \in Nat
        /\ Cardinality(at) \in Nat
        /\ Cardinality(at \ {m}) = Cardinality(at) - 1
        /\ Cardinality(at \ {m}) <= Cardinality(held)
    <3>1. IsFiniteSet(held)
      BY <2>4, FS_Subset
    <3> HIDE DEF at, held
    <3> QED BY <1>1, <2>1, <2>4, <3>1, FS_Subset, FS_CardinalityType, FS_RemoveElement
  <2> HIDE DEF at, held
  <2> QED BY <1>2, <2>3, <2>5, BucketAssumption
<1> QED BY <1>3, <1>4

\* Dealing the sorted blocks out by the level counts alone puts each of them in
\* the very bucket it was counted for (write_to_path, build_leaf_to_root_layout_marks).
LEMMA LayoutIsAssignment ==
  ASSUME Routed, NEW leaf \in Leaf(height), NEW blocks \in SUBSET Block, Distinct(blocks),
         IsFiniteSet(blocks), NEW l \in Overflow..height
  PROVE  LET level == assigned_level(blocks, leaf)
         IN laid_out(level, l, leaf) = {b \in blocks : level[b] = l}
<1> DEFINE level     == assigned_level(blocks, leaf)
           ahead(b)  == ahead_of(blocks, b, leaf)
           at(i)     == {b \in blocks : level[b] = i}
           deeper(i) == {b \in blocks : level[b] > i}
<1>1. DOMAIN level = blocks /\ \A b \in blocks : level[b] \in Overflow..height
  BY LevelEquation, GreedyLevel
<1>2. height \in Nat /\ l \in Int /\ \A b \in blocks : level[b] \in Int
  BY <1>1, MaxTreeHeightAssumption DEF Routed, Overflow
<1>3. \A i : /\ level_count(level, i) = Cardinality(at(i))
             /\ deeper_count(level, i) = Cardinality(deeper(i))
  BY <1>1 DEF level_count, deeper_count
<1>4. \A T \in SUBSET blocks : IsFiniteSet(T) /\ Cardinality(T) \in Nat
  BY FS_Subset, FS_CardinalityType
<1>5. \A b \in blocks : ahead(b) \in SUBSET blocks
  BY DEF ahead_of
<1>6. \A T, U \in SUBSET blocks : T \subseteq U => Cardinality(T) <= Cardinality(U)
  BY <1>4, FS_Subset
<1>7. \A i : Cardinality(at(i) \cup deeper(i)) = Cardinality(at(i)) + Cardinality(deeper(i))
  <2> TAKE i
  <2>1. at(i) \in SUBSET blocks /\ deeper(i) \in SUBSET blocks
    OBVIOUS
  <2>2. at(i) \cap deeper(i) = {}
    BY <1>2
  <2>3. /\ IsFiniteSet(at(i)) /\ IsFiniteSet(deeper(i))
        /\ Cardinality(at(i)) \in Nat /\ Cardinality(deeper(i)) \in Nat
    BY <1>4, <2>1
  <2> HIDE DEF at, deeper
  <2>4. Cardinality(at(i) \cup deeper(i))
          = Cardinality(at(i)) + Cardinality(deeper(i)) - Cardinality(at(i) \cap deeper(i))
    BY <2>3, FS_Union
  <2>5. Cardinality(at(i) \cap deeper(i)) = 0
    BY <2>2, FS_EmptySet
  <2> QED BY <2>3, <2>4, <2>5
<1>8. ASSUME NEW b \in blocks
      PROVE  /\ Cardinality(ahead(b)) >= Cardinality(deeper(level[b]))
             /\ Cardinality(ahead(b)) < Cardinality(at(level[b]) \cup deeper(level[b]))
  <2> DEFINE upto == at(level[b]) \cup deeper(level[b])
  <2>1. deeper(level[b]) \subseteq ahead(b)
    <3> SUFFICES ASSUME NEW c \in blocks, level[c] > level[b] PROVE c \in ahead(b)
      OBVIOUS
    <3>1. level[b] \in Int /\ level[c] \in Int /\ c # b
      BY <1>2
    <3>2. c \in ahead(b) \/ b \in ahead(c)
      BY <3>1, AheadOrder
    <3>3. b \in ahead(c) => level[c] <= level[b]
      BY LevelsDescend
    <3> HIDE DEF level, ahead
    <3> QED BY <3>1, <3>2, <3>3
  <2>2. ahead(b) \subseteq upto \ {b}
    <3> SUFFICES ASSUME NEW c \in ahead(b) PROVE c \in upto /\ c # b
      OBVIOUS
    <3>1. c \in blocks /\ level[b] <= level[c]
      BY <1>5, LevelsDescend
    <3>2. c # b
      BY AheadOrder
    <3>3. level[b] \in Int /\ level[c] \in Int
      BY <1>2, <3>1
    <3> HIDE DEF level, ahead
    <3> QED BY <3>1, <3>2, <3>3
  <2>3. b \in upto /\ upto \in SUBSET blocks /\ upto \ {b} \in SUBSET blocks
    OBVIOUS
  <2>4. Cardinality(upto \ {b}) = Cardinality(upto) - 1 /\ Cardinality(upto) \in Nat
    <3> HIDE DEF upto
    <3> QED BY <1>4, <2>3, FS_RemoveElement
  <2>5. Cardinality(ahead(b)) <= Cardinality(upto \ {b}) /\ Cardinality(ahead(b)) \in Nat
    <3> HIDE DEF upto, ahead
    <3> QED BY <1>4, <1>5, <1>6, <2>2, <2>3
  <2>6. deeper(level[b]) \in SUBSET blocks
    OBVIOUS
  <2>7. Cardinality(deeper(level[b])) <= Cardinality(ahead(b))
    <3> HIDE DEF ahead, deeper
    <3> QED BY <1>5, <1>6, <2>1, <2>6
  <2>8. Cardinality(deeper(level[b])) \in Nat
    <3> HIDE DEF deeper
    <3> QED BY <1>4, <2>6
  <2> HIDE DEF ahead, deeper, level
  <2>9. Cardinality(ahead(b)) < Cardinality(upto)
    <3> HIDE DEF upto
    <3> QED BY <2>4, <2>5
  <2> QED BY <2>5, <2>7, <2>8, <2>9
<1>9. ASSUME NEW b \in blocks
      PROVE  b \in laid_out(level, l, leaf) <=> level[b] = l
  <2> DEFINE before == Cardinality(ahead(b))
             d == Cardinality(deeper(l))
             n == Cardinality(at(l))
  <2>1. b \in laid_out(level, l, leaf) <=> before >= d /\ before < d + n
    BY <1>1, <1>3 DEF laid_out
  <2>2. before \in Nat /\ d \in Nat /\ n \in Nat
    <3>1. deeper(l) \in SUBSET blocks /\ at(l) \in SUBSET blocks
      OBVIOUS
    <3> HIDE DEF ahead, deeper, at
    <3> QED BY <1>4, <1>5, <3>1
  <2>3. level[b] \in Int
    BY <1>2
  <2>4. Cardinality(at(l) \cup deeper(l)) = n + d
    BY <1>7
  <2>5. CASE level[b] = l
    <3>1. before >= Cardinality(deeper(level[b]))
          /\ before < Cardinality(at(level[b]) \cup deeper(level[b]))
      BY <1>8
    <3>2. before >= d /\ before < n + d
      <4> HIDE DEF at, deeper, ahead, level
      <4> QED BY <2>4, <2>5, <3>1
    <3> HIDE DEF before, d, n, level
    <3> QED BY <2>1, <2>2, <2>5, <3>2
  <2>6. CASE level[b] > l
    <3>1. before < Cardinality(at(level[b]) \cup deeper(level[b]))
      BY <1>8
    <3>2. at(level[b]) \cup deeper(level[b]) \subseteq deeper(l)
      BY <1>2, <2>6
    <3>3. deeper(l) \in SUBSET blocks /\ at(level[b]) \cup deeper(level[b]) \in SUBSET blocks
      OBVIOUS
    <3>4. Cardinality(at(level[b]) \cup deeper(level[b])) <= d
      <4> HIDE DEF at, deeper, level
      <4> QED BY <1>6, <3>2, <3>3
    <3>5. Cardinality(at(level[b]) \cup deeper(level[b])) \in Nat
      <4> HIDE DEF at, deeper, level
      <4> QED BY <1>4, <3>3
    <3>6. before < d
      <4> HIDE DEF before, d, at, deeper, level
      <4> QED BY <2>2, <3>1, <3>4, <3>5
    <3> HIDE DEF before, d, n, level
    <3> QED BY <1>2, <2>1, <2>2, <2>3, <2>6, <3>6
  <2>7. CASE level[b] < l
    <3>1. before >= Cardinality(deeper(level[b]))
      BY <1>8
    <3>2. at(l) \cup deeper(l) \subseteq deeper(level[b])
      BY <1>2, <2>7
    <3>3. deeper(level[b]) \in SUBSET blocks /\ at(l) \cup deeper(l) \in SUBSET blocks
      OBVIOUS
    <3>4. n + d <= Cardinality(deeper(level[b]))
      <4> HIDE DEF at, deeper, level
      <4> QED BY <1>6, <2>4, <3>2, <3>3
    <3>5. Cardinality(deeper(level[b])) \in Nat
      <4> HIDE DEF deeper
      <4> QED BY <1>4, <3>3
    <3>6. before >= n + d
      <4> HIDE DEF before, d, n, deeper, level
      <4> QED BY <2>2, <3>1, <3>4, <3>5
    <3> HIDE DEF before, d, n, level
    <3> QED BY <1>2, <2>1, <2>2, <2>3, <2>7, <3>6
  <2> HIDE DEF level
  <2> QED BY <1>2, <2>3, <2>5, <2>6, <2>7
<1>10. laid_out(level, l, leaf) \subseteq blocks
  BY <1>1 DEF laid_out
<1> HIDE DEF level
<1> QED BY <1>9, <1>10 DEF level

-----------------------------------------------------------------------------
\* Merging leaves one block for each key that had one, and real ones: it keeps
\* all values of the key and the epoch of one of its blocks.
LEMMA MergeProperties ==
  ASSUME NEW blocks \in SUBSET Block
  PROVE  LET merged == merge_accumulate(blocks)
         IN /\ merged \in SUBSET Block
            /\ IsFiniteSet(merged)
            /\ Distinct(merged)
            /\ \A b \in merged :
                 b.value = UNION {c.value : c \in {d \in blocks : d.key = b.key}}
            /\ \A b \in blocks : \E c \in merged : c.key = b.key
<1> DEFINE merged == merge_accumulate(blocks)
           copies(k) == {c \in blocks : c.key = k}
           oldest(k) == Min({b.epoch : b \in copies(k)})
           united(k) == UNION {b.value : b \in copies(k)}
           keys == {b.key : b \in blocks}
           one(k) == [key |-> k, epoch |-> oldest(k), value |-> united(k)]
<1>1. merged = {one(k) : k \in keys}
  BY Zenon DEF merge_accumulate
<1>2. \A b \in blocks : b.key \in Key /\ b.epoch \in Nat /\ b.value \in SUBSET Update
  BY DEF Block
<1>3. ASSUME NEW k \in keys PROVE oldest(k) \in Nat /\ united(k) \in SUBSET Update /\ k \in Key
  <2> DEFINE epochs == {b.epoch : b \in copies(k)}
  <2>1. epochs \in SUBSET Nat /\ epochs # {}
    BY <1>2
  <2>2. Min(epochs) \in epochs
    <3> HIDE DEF epochs
    <3> QED BY <2>1, MinOfNat
  <2>3. oldest(k) \in Nat
    <3> HIDE DEF epochs
    <3> QED BY <2>1, <2>2 DEF epochs
  <2> HIDE DEF oldest
  <2> QED BY <1>2, <2>3
<1>4. merged \in SUBSET Block
  <2> SUFFICES ASSUME NEW k \in keys PROVE one(k) \in Block
    BY <1>1
  <2> HIDE DEF oldest, united, keys
  <2> QED BY <1>3 DEF Block
<1>5. IsFiniteSet(merged)
  <2>1. IsFiniteSet(keys)
    BY <1>2, KeyAssumption, FS_Subset
  <2> DEFINE f == [k \in keys |-> one(k)]
  <2>2. f \in Surjection(keys, merged)
    BY <1>1 DEF Surjection
  <2> HIDE DEF f, merged, keys
  <2> QED BY <2>1, <2>2, FS_Surjection
<1>6. \A k \in keys : one(k).key = k /\ one(k).value = united(k)
  OBVIOUS
<1>7. Distinct(merged)
  <2> HIDE DEF one, keys, merged
  <2> QED BY <1>1, <1>6 DEF Distinct
<1>8. \A b \in merged : b.value = united(b.key)
  <2> HIDE DEF one, united, keys, merged
  <2> QED BY <1>1, <1>6
<1>9. \A b \in blocks : \E c \in merged : c.key = b.key
  <2> TAKE b \in blocks
  <2>1. b.key \in keys
    OBVIOUS
  <2> HIDE DEF one, keys, merged
  <2> QED BY <1>1, <1>6, <2>1
<1> QED BY <1>4, <1>5, <1>7, <1>8, <1>9

-----------------------------------------------------------------------------
\* A node's depth is its length.
LEMMA NodeLength ==
  ASSUME NEW d \in Nat, NEW n \in [1..d -> Bit]
  PROVE  Len(n) = d
BY DEF Bit

\* A path has one node on each level, and they are nodes of the tree.
LEMMA PathNodes ==
  ASSUME NEW h \in Nat, NEW leaf \in Leaf(h)
  PROVE  /\ path(leaf, h) \subseteq Node(h)
         /\ \A d \in 0..h : /\ node_on_path(leaf, d) \in path(leaf, h)
                            /\ node_on_path(leaf, d) \in Node(h)
                            /\ Len(node_on_path(leaf, d)) = d
         /\ \A n \in path(leaf, h) : Len(n) \in 0..h /\ n = node_on_path(leaf, Len(n))
<1>1. ASSUME NEW d \in 0..h
      PROVE  node_on_path(leaf, d) \in [1..d -> Bit]
  BY DEF node_on_path, Leaf
<1>2. ASSUME NEW d \in 0..h PROVE Len(node_on_path(leaf, d)) = d
  BY <1>1, NodeLength
<1>3. \A d \in 0..h : node_on_path(leaf, d) \in Node(h)
  BY <1>1 DEF Node
<1> QED BY <1>2, <1>3 DEF path
=============================================================================
