-------------------------- MODULE NetworkProofs --------------------------
(***************************************************************************)
(* The compaction and distribution networks at every length.  A network is  *)
(* which slot's element each slot gets, so distribution is the inverse of   *)
(* compaction (half by half), and compaction brings the r-th marked element *)
(* to slot r: a power of two by the offsets at which its halves meet, any   *)
(* other length by the offset of its right part.                            *)
(*                                                                         *)
(* What they do for a frontend follows: every update of a sub-batch arrives *)
(* once, in the slots of its shard if the sort key has room for the shards. *)
(***************************************************************************)
EXTENDS CompactionRuns, FrontendRouting, BasicLemmas

\* Prefix sums of the marks of N slots.
Prefixes(P, N) ==
  /\ N \in Nat /\ P \in Seq(Nat) /\ Len(P) = N + 1
  /\ \A k \in 1..N : P[k + 1] = P[k] \/ P[k + 1] = P[k] + 1

marked(P, slot)     == P[slot + 2] = P[slot + 1] + 1
before(P, first, i) == P[first + i + 1] - P[first + 1]
-----------------------------------------------------------------------------
(***************************************************************************)
(* Where a power of two places its marked elements.                         *)
(***************************************************************************)

\* Remainders of numbers that exceed the divisor at most three times.
LEMMA SmallRemainder ==
  ASSUME NEW h \in Nat \ {0}, NEW x \in Nat, x < 4 * h
  PROVE  x % h = IF x < h THEN x
                 ELSE IF x < 2 * h THEN x - h
                 ELSE IF x < 3 * h THEN x - 2 * h ELSE x - 3 * h
<1>1. CASE x < h
  <2>1. x = h * 0 + x /\ x \in 0..(h - 1)
    BY <1>1
  <2> QED BY <1>1, <2>1, Remainder
<1>2. CASE h <= x /\ x < 2 * h
  <2>1. x = h * 1 + (x - h) /\ x - h \in 0..(h - 1)
    BY <1>2
  <2>2. (h * 1 + (x - h)) % h = x - h
    BY <2>1, Remainder
  <2> QED BY <1>2, <2>1, <2>2
<1>3. CASE 2 * h <= x /\ x < 3 * h
  <2>1. x = h * 2 + (x - 2 * h) /\ x - 2 * h \in 0..(h - 1)
    BY <1>3
  <2>2. (h * 2 + (x - 2 * h)) % h = x - 2 * h
    BY <2>1, Remainder
  <2> QED BY <1>3, <2>1, <2>2
<1>4. CASE 3 * h <= x
  <2>1. x = h * 3 + (x - 3 * h) /\ x - 3 * h \in 0..(h - 1)
    BY <1>4
  <2>2. (h * 3 + (x - 3 * h)) % h = x - 3 * h
    BY <2>1, Remainder
  <2> QED BY <1>4, <2>1, <2>2
<1> QED BY <1>1, <1>2, <1>3, <1>4

\* Those that exceed it once.
LEMMA SmallerRemainder ==
  ASSUME NEW h \in Nat \ {0}, NEW x \in Nat, x < 2 * h
  PROVE  x % h = IF x < h THEN x ELSE x - h
<1>1. x < 4 * h
  OBVIOUS
<1>2. x % h = IF x < h THEN x ELSE IF x < 2 * h THEN x - h
              ELSE IF x < 3 * h THEN x - 2 * h ELSE x - 3 * h
  BY <1>1, SmallRemainder, Zenon
<1> QED BY <1>2, Zenon

\* The c-th marked element of the left half is where its target is, or across from it, and
\* is exchanged just when it is across.
LEMMA LeftTarget ==
  ASSUME NEW h \in Nat \ {0}, NEW z \in 0..(2 * h - 1), NEW m \in 0..h, NEW c \in 0..(m - 1)
  PROVE  LET j == (zleft(2 * h, z) + c) % h
             t == (z + c) % (2 * h)
         IN  /\ zleft(2 * h, z) \in 0..(h - 1) /\ j \in 0..(h - 1)
             /\ t = IF half_choice(2 * h, m, z, j) THEN j + h ELSE j
<1> DEFINE zl == zleft(2 * h, z)
           zr == zright(2 * h, m, z)
           j  == (zl + c) % h
           t  == (z + c) % (2 * h)
<1>1. /\ h \in Nat \ {0} /\ 2 * h \in Nat \ {0} /\ (2 * h) \div 2 = h
      /\ z \in Nat /\ z < 2 * h
      /\ z + m \in Nat /\ z + m < 4 * h
      /\ z + c \in Nat /\ z + c < 2 * (2 * h)
  OBVIOUS
<1>2. zl = IF z < h THEN z ELSE z - h
  BY <1>1, SmallerRemainder, Zenon DEF zleft
<1>3. zr = IF z + m < h THEN z + m ELSE IF z + m < 2 * h THEN z + m - h
           ELSE IF z + m < 3 * h THEN z + m - 2 * h ELSE z + m - 3 * h
  <2> DEFINE x == z + m
  <2>1. x \in Nat /\ x < 4 * h
    BY <1>1
  <2>2. zr = x % h
    BY <1>1, Zenon DEF zright
  <2> HIDE DEF x, zr
  <2>3. x % h = IF x < h THEN x ELSE IF x < 2 * h THEN x - h
                ELSE IF x < 3 * h THEN x - 2 * h ELSE x - 3 * h
    BY <2>1, SmallRemainder
  <2> QED BY <2>2, <2>3 DEF x
<1>4. half_choice(2 * h, m, z, j) <=> ((zl + m >= h) # (z >= h)) # (j >= zr)
  BY <1>1, Zenon DEF half_choice
<1> HIDE DEF zl, zr
<1>5. zl \in 0..(h - 1) /\ zl + c \in Nat /\ zl + c < 2 * h
  BY <1>2, <1>3
<1>6. j = IF zl + c < h THEN zl + c ELSE (zl + c) - h
  <2> DEFINE x == zl + c
  <2>1. x \in Nat /\ x < 2 * h
    BY <1>5
  <2> HIDE DEF x
  <2>2. x % h = IF x < h THEN x ELSE x - h
    BY <2>1, SmallerRemainder
  <2> QED BY <2>2 DEF x
<1>7. t = IF z + c < 2 * h THEN z + c ELSE z + c - 2 * h
  <2> DEFINE n == 2 * h
             x == z + c
  <2>1. n \in Nat \ {0} /\ x \in Nat /\ x < 2 * n
    BY <1>1
  <2> HIDE DEF n, x
  <2>2. x % n = IF x < n THEN x ELSE x - n
    BY <2>1, SmallerRemainder
  <2> QED BY <2>2 DEF n, x
<1> HIDE DEF j, t
<1>8. t = IF ((zl + m >= h) # (z >= h)) # (j >= zr) THEN j + h ELSE j
  BY <1>2, <1>3, <1>6, <1>7
<1>9. j \in 0..(h - 1)
  BY <1>5, <1>6
<1> QED BY <1>4, <1>5, <1>8, <1>9, Zenon DEF zl, j, t

\* So it is with the c-th of the right half, before which there are m marks in the left.
LEMMA RightTarget ==
  ASSUME NEW h \in Nat \ {0}, NEW z \in 0..(2 * h - 1), NEW m \in 0..h, NEW c \in 0..(h - 1)
  PROVE  LET j == (zright(2 * h, m, z) + c) % h
             t == (z + m + c) % (2 * h)
         IN  /\ zright(2 * h, m, z) \in 0..(h - 1) /\ j \in 0..(h - 1)
             /\ t = IF half_choice(2 * h, m, z, j) THEN j ELSE j + h
<1> DEFINE zl == zleft(2 * h, z)
           zr == zright(2 * h, m, z)
           j  == (zr + c) % h
           t  == (z + m + c) % (2 * h)
<1>1. /\ h \in Nat \ {0} /\ 2 * h \in Nat \ {0} /\ (2 * h) \div 2 = h
      /\ z \in Nat /\ z < 2 * h
      /\ z + m \in Nat /\ z + m < 4 * h
      /\ z + m + c \in Nat /\ z + m + c < 2 * (2 * h)
  OBVIOUS
<1>2. zl = IF z < h THEN z ELSE z - h
  BY <1>1, SmallerRemainder, Zenon DEF zleft
<1>3. zr = IF z + m < h THEN z + m ELSE IF z + m < 2 * h THEN z + m - h
           ELSE IF z + m < 3 * h THEN z + m - 2 * h ELSE z + m - 3 * h
  <2> DEFINE x == z + m
  <2>1. x \in Nat /\ x < 4 * h
    BY <1>1
  <2>2. zr = x % h
    BY <1>1, Zenon DEF zright
  <2> HIDE DEF x, zr
  <2>3. x % h = IF x < h THEN x ELSE IF x < 2 * h THEN x - h
                ELSE IF x < 3 * h THEN x - 2 * h ELSE x - 3 * h
    BY <2>1, SmallRemainder
  <2> QED BY <2>2, <2>3 DEF x
<1>4. half_choice(2 * h, m, z, j) <=> ((zl + m >= h) # (z >= h)) # (j >= zr)
  BY <1>1, Zenon DEF half_choice
<1> HIDE DEF zl, zr
<1>5. zr \in 0..(h - 1) /\ zr + c \in Nat /\ zr + c < 2 * h
  BY <1>2, <1>3
<1>6. j = IF zr + c < h THEN zr + c ELSE (zr + c) - h
  <2> DEFINE x == zr + c
  <2>1. x \in Nat /\ x < 2 * h
    BY <1>5
  <2> HIDE DEF x
  <2>2. x % h = IF x < h THEN x ELSE x - h
    BY <2>1, SmallerRemainder
  <2> QED BY <2>2 DEF x
<1>7. t = IF z + m + c < 2 * h THEN z + m + c ELSE z + m + c - 2 * h
  <2> DEFINE n == 2 * h
             x == z + m + c
  <2>1. n \in Nat \ {0} /\ x \in Nat /\ x < 2 * n
    BY <1>1
  <2> HIDE DEF n, x
  <2>2. x % n = IF x < n THEN x ELSE x - n
    BY <2>1, SmallerRemainder
  <2> QED BY <2>2 DEF n, x
<1> HIDE DEF j, t
<1>8. t = IF ((zl + m >= h) # (z >= h)) # (j >= zr) THEN j ELSE j + h
  BY <1>2, <1>3, <1>6, <1>7
<1>9. j \in 0..(h - 1)
  BY <1>5, <1>6
<1> QED BY <1>4, <1>5, <1>8, <1>9, Zenon DEF zr, j, t
-----------------------------------------------------------------------------
(***************************************************************************)
(* The four recursions have solutions: each is one step on a smaller length.*)
(***************************************************************************)

Networks == {"compact_pow2", "distribute_pow2", "compact_payload", "distribute_payload"}

shorter(network, n) ==
  IF network \in {"compact_pow2", "distribute_pow2"} THEN n \div 2 ELSE n - leading_power(n)

step(network, P, n, v) ==
  CASE network = "compact_pow2" -> compact_halves(P, n, v)
    [] network = "distribute_pow2" -> distribute_halves(P, n, v)
    [] network = "compact_payload" -> compact_parts(P, n, compact_pow2(P), v)
    [] network = "distribute_payload" -> distribute_parts(P, n, distribute_pow2(P), v)

Solves(network, P, g, N) ==
  g = [n \in 0..N |-> step(network, P, n, g[shorter(network, n)])]

\* leading_power is a power of two, and the next one exceeds the number.
LEMMA LeadingPower ==
  ASSUME NEW n \in Nat \ {0}, n <= 2^30
  PROVE  /\ leading_power(n) \in 1..n /\ n < 2 * leading_power(n)
         /\ \E e \in Nat : leading_power(n) = 2^e
<1> DEFINE powers == {p \in {2^e : e \in 0..30} : p <= n}
<1>1. \A e \in Nat : 2^e \in Nat \ {0} /\ 2^(e + 1) = 2 * 2^e
  BY PowerOfTwo
<1>2. 1 \in powers
  <2>1. 2^0 = 1 /\ 0 \in 0..30
    OBVIOUS
  <2> QED BY <2>1
<1>3. powers \in SUBSET Int /\ powers # {} /\ \A p \in powers : p <= n
  BY <1>1, <1>2
<1> DEFINE top == Max(powers)
<1>4. top \in powers /\ \A p \in powers : p <= top
  <2> HIDE DEF powers
  <2> QED BY <1>3, MaxOfBounded
<1>5. PICK e \in 0..30 : top = 2^e
  BY <1>4
<1>6. top \in Nat \ {0} /\ top <= n /\ 2^(e + 1) = 2 * top
  BY <1>1, <1>4, <1>5
<1> HIDE DEF top
<1>7. n < 2 * top
  <2>1. CASE e = 30
    BY <1>5, <1>6, <2>1
  <2>2. CASE e # 30
    <3>1. SUFFICES ASSUME 2 * top <= n PROVE FALSE
      BY <1>6
    <3>2. e + 1 \in 0..30
      BY <2>2
    <3>3. 2^(e + 1) \in powers
      BY <1>6, <3>1, <3>2
    <3>4. 2 * top \in powers
      BY <1>6, <3>3
    <3> HIDE DEF powers
    <3>5. 2 * top <= top
      BY <1>4, <3>4
    <3> QED BY <1>6, <3>5
  <2> QED BY <2>1, <2>2
<1> QED BY <1>5, <1>6, <1>7 DEF top, leading_power

LEMMA Shorter ==
  ASSUME NEW network \in Networks, NEW n \in Nat \ {0}, n <= 2^30
  PROVE  shorter(network, n) \in 0..(n - 1)
<1>1. n \div 2 \in 0..(n - 1)
  OBVIOUS
<1>2. n - leading_power(n) \in 0..(n - 1)
  BY LeadingPower
<1> QED BY <1>1, <1>2 DEF shorter

\* A step on length 0 takes nothing from a smaller one.
LEMMA StepAtZero ==
  ASSUME NEW network \in Networks, NEW P, NEW v, NEW w
  PROVE  step(network, P, 0, v) = step(network, P, 0, w)
<1>1. 0 \div 2 = 0 /\ 0 <= 2 /\ 0 <= 1
  OBVIOUS
<1>2. compact_halves(P, 0, v) = compact_halves(P, 0, w)
  BY <1>1, Zenon DEF compact_halves
<1>3. distribute_halves(P, 0, v) = distribute_halves(P, 0, w)
  BY <1>1, Zenon DEF distribute_halves
<1>4. compact_parts(P, 0, compact_pow2(P), v) = compact_parts(P, 0, compact_pow2(P), w)
  BY <1>1, Zenon DEF compact_parts
<1>5. distribute_parts(P, 0, distribute_pow2(P), v) = distribute_parts(P, 0, distribute_pow2(P), w)
  BY <1>1, Zenon DEF distribute_parts
<1> QED BY <1>2, <1>3, <1>4, <1>5 DEF step, Networks

LEMMA SolutionExists ==
  ASSUME NEW network \in Networks, NEW P, NEW N \in Nat, N <= 2^30
  PROVE  \E g : Solves(network, P, g, N)
<1> DEFINE bad == {m \in 0..N : ~ \E g : Solves(network, P, g, m)}
<1> SUFFICES ASSUME bad # {} PROVE FALSE
  BY DEF bad
<1>1. Min(bad) \in bad /\ \A x \in bad : Min(bad) <= x
  <2>1. bad \in SUBSET Nat
    OBVIOUS
  <2> HIDE DEF bad
  <2> QED BY <2>1, MinOfNat
<1> DEFINE m == Min(bad)
<1>2. m \in 0..N /\ m \in bad
  BY <1>1
<1>3. m # 0
  <2> SUFFICES ASSUME m = 0 PROVE FALSE
    OBVIOUS
  <2> DEFINE g == [n \in 0..0 |-> step(network, P, n, {})]
  <2>1. \A n \in 0..0 : step(network, P, n, g[shorter(network, n)]) = step(network, P, n, {})
    <3>1. \A n \in 0..0 : n = 0
      OBVIOUS
    <3> QED BY <3>1, StepAtZero
  <2>2. Solves(network, P, g, 0)
    BY <2>1 DEF Solves
  <2> QED BY <1>2, <2>2
<1>4. m - 1 \in 0..N /\ m - 1 \notin bad
  <2> HIDE DEF bad
  <2> QED BY <1>1, <1>2, <1>3
<1>5. PICK f : Solves(network, P, f, m - 1)
  BY <1>4
<1> HIDE DEF m
<1> DEFINE g == [n \in 0..m |-> IF n = m THEN step(network, P, m, f[shorter(network, m)]) ELSE f[n]]
<1>6. ASSUME NEW n \in 0..m
      PROVE  g[n] = step(network, P, n, g[shorter(network, n)])
  <2> DEFINE s == shorter(network, n)
  <2>1. CASE n = 0
    <3>1. g[0] = f[0]
      BY <1>2, <1>3
    <3>2. f[0] = step(network, P, 0, f[shorter(network, 0)])
      <4>1. 0 \in 0..(m - 1)
        BY <1>2, <1>3
      <4> QED BY <1>5, <4>1 DEF Solves
    <3> HIDE DEF g
    <3> QED BY <2>1, <3>1, <3>2, StepAtZero
  <2>2. CASE n # 0
    <3>1. s \in 0..(m - 1) /\ s \in 0..m /\ s # m
      <4>1. s \in 0..(n - 1)
        BY <1>2, <2>2, Shorter
      <4> HIDE DEF s
      <4> QED BY <1>2, <4>1
    <3>2. g[s] = f[s]
      <4> HIDE DEF s
      <4> QED BY <3>1
    <3>3. CASE n = m
      <4>1. g[n] = step(network, P, n, f[s])
        BY <3>3
      <4> HIDE DEF g
      <4> QED BY <3>2, <4>1
    <3>4. CASE n # m
      <4>1. n \in 0..(m - 1)
        BY <1>2, <3>4
      <4>2. f[n] = step(network, P, n, f[s])
        BY <1>5, <4>1 DEF Solves
      <4>3. g[n] = f[n]
        BY <3>4
      <4> HIDE DEF g
      <4> QED BY <3>2, <4>2, <4>3
    <3> QED BY <3>3, <3>4
  <2> QED BY <2>1, <2>2
<1>7. Solves(network, P, g, m)
  <2>1. g = [n \in 0..m |-> g[n]]
    OBVIOUS
  <2> HIDE DEF g
  <2>2. [n \in 0..m |-> g[n]] = [n \in 0..m |-> step(network, P, n, g[shorter(network, n)])]
    BY <1>6, Zenon
  <2> QED BY <2>1, <2>2 DEF Solves
<1> HIDE DEF g
<1> QED BY <1>2, <1>7

\* What the recursions of compact_payload and distribute_payload solve.
compact_sources(P) ==
  CHOOSE f : f = [n \in 0..Len(P) |-> compact_parts(P, n, compact_pow2(P), f[n - leading_power(n)])]
distribute_sources(P) ==
  CHOOSE f :
    f = [n \in 0..Len(P) |-> distribute_parts(P, n, distribute_pow2(P), f[n - leading_power(n)])]

LEMMA PayloadSources ==
  ASSUME NEW a, NEW P
  PROVE  /\ compact_payload(a, P) = [k \in DOMAIN a |-> a[compact_sources(P)[Len(a)][k - 1] + 1]]
         /\ distribute_payload(a, P) =
              [k \in DOMAIN a |-> a[distribute_sources(P)[Len(a)][k - 1] + 1]]
BY Zenon DEF compact_payload, distribute_payload, compact_sources, distribute_sources

\* The steps of the networks.
LEMMA CompactHalves ==
  ASSUME NEW P \in Seq(Nat), Len(P) <= 2^30, NEW n \in 0..Len(P)
  PROVE  compact_pow2(P)[n] = compact_halves(P, n, compact_pow2(P)[n \div 2])
<1> DEFINE body(f) == [l \in 0..Len(P) |-> compact_halves(P, l, f[l \div 2])]
<1>1. PICK g : Solves("compact_pow2", P, g, Len(P))
  <2>1. Len(P) \in Nat /\ "compact_pow2" \in Networks
    BY DEF Networks
  <2> QED BY <2>1, SolutionExists
<1>2. g = body(g)
  <2>1. \A l : step("compact_pow2", P, l, g[shorter("compact_pow2", l)])
                 = compact_halves(P, l, g[l \div 2])
    BY DEF step, shorter
  <2> QED BY <1>1, <2>1 DEF Solves
<1>3. compact_pow2(P) = CHOOSE f : f = body(f)
  BY Zenon DEF compact_pow2
<1> HIDE DEF body
<1>4. compact_pow2(P) = body(compact_pow2(P))
  BY <1>2, <1>3, Zenon
<1> QED BY <1>4, Zenon DEF body

LEMMA DistributeHalves ==
  ASSUME NEW P \in Seq(Nat), Len(P) <= 2^30, NEW n \in 0..Len(P)
  PROVE  distribute_pow2(P)[n] = distribute_halves(P, n, distribute_pow2(P)[n \div 2])
<1> DEFINE body(f) == [l \in 0..Len(P) |-> distribute_halves(P, l, f[l \div 2])]
<1>1. PICK g : Solves("distribute_pow2", P, g, Len(P))
  <2>1. Len(P) \in Nat /\ "distribute_pow2" \in Networks
    BY DEF Networks
  <2> QED BY <2>1, SolutionExists
<1>2. g = body(g)
  <2>1. \A l : step("distribute_pow2", P, l, g[shorter("distribute_pow2", l)])
                 = distribute_halves(P, l, g[l \div 2])
    BY DEF step, shorter
  <2> QED BY <1>1, <2>1 DEF Solves
<1>3. distribute_pow2(P) = CHOOSE f : f = body(f)
  BY Zenon DEF distribute_pow2
<1> HIDE DEF body
<1>4. distribute_pow2(P) = body(distribute_pow2(P))
  BY <1>2, <1>3, Zenon
<1> QED BY <1>4, Zenon DEF body

LEMMA CompactParts ==
  ASSUME NEW P \in Seq(Nat), Len(P) <= 2^30, NEW n \in 0..Len(P)
  PROVE  compact_sources(P)[n]
           = compact_parts(P, n, compact_pow2(P), compact_sources(P)[n - leading_power(n)])
<1> DEFINE body(f) == [l \in 0..Len(P) |->
                         compact_parts(P, l, compact_pow2(P), f[l - leading_power(l)])]
<1>1. PICK g : Solves("compact_payload", P, g, Len(P))
  <2>1. Len(P) \in Nat /\ "compact_payload" \in Networks
    BY DEF Networks
  <2> QED BY <2>1, SolutionExists
<1>2. g = body(g)
  <2>1. \A l : step("compact_payload", P, l, g[shorter("compact_payload", l)])
                 = compact_parts(P, l, compact_pow2(P), g[l - leading_power(l)])
    BY DEF step, shorter
  <2> QED BY <1>1, <2>1 DEF Solves
<1>3. compact_sources(P) = CHOOSE f : f = body(f)
  BY Zenon DEF compact_sources
<1> HIDE DEF body
<1>4. compact_sources(P) = body(compact_sources(P))
  BY <1>2, <1>3, Zenon
<1> QED BY <1>4, Zenon DEF body

LEMMA DistributeParts ==
  ASSUME NEW P \in Seq(Nat), Len(P) <= 2^30, NEW n \in 0..Len(P)
  PROVE  distribute_sources(P)[n]
           = distribute_parts(P, n, distribute_pow2(P), distribute_sources(P)[n - leading_power(n)])
<1> DEFINE body(f) == [l \in 0..Len(P) |->
                         distribute_parts(P, l, distribute_pow2(P), f[l - leading_power(l)])]
<1>1. PICK g : Solves("distribute_payload", P, g, Len(P))
  <2>1. Len(P) \in Nat /\ "distribute_payload" \in Networks
    BY DEF Networks
  <2> QED BY <2>1, SolutionExists
<1>2. g = body(g)
  <2>1. \A l : step("distribute_payload", P, l, g[shorter("distribute_payload", l)])
                 = distribute_parts(P, l, distribute_pow2(P), g[l - leading_power(l)])
    BY DEF step, shorter
  <2> QED BY <1>1, <2>1 DEF Solves
<1>3. distribute_sources(P) = CHOOSE f : f = body(f)
  BY Zenon DEF distribute_sources
<1> HIDE DEF body
<1>4. distribute_sources(P) = body(distribute_sources(P))
  BY <1>2, <1>3, Zenon
<1> QED BY <1>4, Zenon DEF body
-----------------------------------------------------------------------------
(***************************************************************************)
(* Compaction of a power of two brings each marked element to its target,   *)
(* and distribution is its inverse.                                         *)
(***************************************************************************)

LEMMA PrefixNumbers ==
  ASSUME NEW P, NEW N, Prefixes(P, N)
  PROVE  N \in Nat /\ \A k \in 1..(N + 1) : P[k] \in Nat
BY DEF Prefixes

\* As many marks lie between two slots as there are slots, at most.
LEMMA PrefixGap ==
  ASSUME NEW P, NEW N, Prefixes(P, N), NEW a \in 1..(N + 1), NEW b \in a..(N + 1)
  PROVE  /\ P[a] \in Nat /\ P[b] \in Nat
         /\ P[b] - P[a] \in 0..(b - a)
<1>1. N \in Nat /\ \A k \in 1..(N + 1) : P[k] \in Nat
  BY DEF Prefixes
<1> DEFINE bad == {d \in a..(N + 1) : ~ (P[d] - P[a] \in 0..(d - a))}
<1>2. bad = {}
  <2> SUFFICES ASSUME bad # {} PROVE FALSE
    OBVIOUS
  <2>1. Min(bad) \in bad /\ \A x \in bad : Min(bad) <= x
    <3>1. bad \in SUBSET Nat
      BY <1>1
    <3> HIDE DEF bad
    <3> QED BY <3>1, MinOfNat
  <2> DEFINE d == Min(bad)
  <2>2. d \in a..(N + 1) /\ ~ (P[d] - P[a] \in 0..(d - a))
    BY <2>1
  <2>3. d # a
    BY <1>1, <2>2
  <2>4. d - 1 \in a..(N + 1) /\ d - 1 \notin bad
    <3> HIDE DEF bad
    <3> QED BY <1>1, <2>1, <2>2, <2>3
  <2>5. P[d - 1] - P[a] \in 0..((d - 1) - a)
    BY <2>4
  <2> HIDE DEF d, bad
  <2>6. P[(d - 1) + 1] = P[d - 1] \/ P[(d - 1) + 1] = P[d - 1] + 1
    <3>1. d - 1 \in 1..N
      BY <1>1, <2>2, <2>3
    <3> QED BY <3>1 DEF Prefixes
  <2>7. (d - 1) + 1 = d /\ P[d] \in Nat /\ P[d - 1] \in Nat /\ P[a] \in Nat
    BY <1>1, <2>2, <2>3
  <2> QED BY <1>1, <2>2, <2>3, <2>5, <2>6, <2>7
<1> QED BY <1>1, <1>2

\* Fewer marks come before a marked slot than before a later one.
LEMMA MarkedBefore ==
  ASSUME NEW P, NEW N, Prefixes(P, N), NEW first \in Nat, NEW n \in Nat, first + n <= N,
         NEW i \in 0..(n - 1), marked(P, first + i)
  PROVE  /\ before(P, first, i) \in Nat /\ before(P, first, n) \in 0..n
         /\ before(P, first, i) < before(P, first, n)
<1> DEFINE a == first + 1
           b == first + i + 1
           c == first + i + 2
           d == first + n + 1
<1>1. /\ a \in 1..(N + 1) /\ b \in a..(N + 1) /\ c \in 1..(N + 1) /\ d \in c..(N + 1)
      /\ d \in a..(N + 1) /\ d - a = n
  BY DEF Prefixes
<1>2. P[c] = P[b] + 1
  BY DEF marked
<1>3. before(P, first, i) = P[b] - P[a] /\ before(P, first, n) = P[d] - P[a]
  BY DEF before
<1> HIDE DEF a, b, c, d
<1>4. /\ P[a] \in Nat /\ P[b] \in Nat /\ P[b] - P[a] \in 0..(b - a)
      /\ P[c] \in Nat /\ P[d] \in Nat /\ P[d] - P[c] \in 0..(d - c)
      /\ P[d] - P[a] \in 0..(d - a)
  BY <1>1, PrefixGap
<1>5. b - a \in Int /\ d - c \in Int /\ d - a \in Int
  BY <1>1 DEF Prefixes
<1> QED BY <1>1, <1>2, <1>3, <1>4, <1>5

\* compact_pow2 of n slots from first on brings the marked ones to their targets, from z on.
Compacts(P, n, first) ==
  \A z \in 0..(n - 1) : \A i \in 0..(n - 1) :
    marked(P, first + i) => compact_pow2(P)[n][first][z][(z + before(P, first, i)) % n] = i

\* distribute_pow2 undoes compact_pow2.
Inverts(P, n, first) ==
  \A z \in 0..(n - 1) : \A k \in 0..(n - 1) :
    /\ compact_pow2(P)[n][first][z][k] \in 0..(n - 1)
    /\ distribute_pow2(P)[n][first][z][compact_pow2(P)[n][first][z][k]] = k

\* The slot exchanged with slot k, and the slot whose element slot j takes within its half.
swapped(P, h, first, z, k) ==
  partner(k, h, {i \in Nat : half_choice(2 * h, before(P, first, h), z, i)})
within(P, v, h, first, z, j) ==
  IF j < h THEN v[first][zleft(2 * h, z)][j]
  ELSE h + v[first + h][zright(2 * h, before(P, first, h), z)][j - h]

\* What the step of more than two slots says of a slot.
LEMMA HalvesAt ==
  ASSUME NEW P, NEW v, NEW h \in Nat, h >= 2, NEW first \in Nat, NEW z \in Nat, NEW k \in Nat
  PROVE  /\ compact_halves(P, 2 * h, v)[first][z][k] =
              within(P, v, h, first, z, swapped(P, h, first, z, k))
         /\ distribute_halves(P, 2 * h, v)[first][z][k] =
              swapped(P, h, first, z, within(P, v, h, first, z, k))
<1>1. (2 * h) \div 2 = h /\ ~ (2 * h <= 2) /\ 2 * h # 2
  OBVIOUS
<1>2. before(P, first, h) = P[first + h + 1] - P[first + 1]
  BY DEF before
<1>3. compact_halves(P, 2 * h, v)[first][z][k] =
        within(P, v, h, first, z, swapped(P, h, first, z, k))
  BY <1>1, <1>2, Zenon DEF compact_halves, crosses, marked_in, swapped, within
<1>4. distribute_halves(P, 2 * h, v)[first][z][k] =
        swapped(P, h, first, z, within(P, v, h, first, z, k))
  BY <1>1, <1>2, Zenon DEF distribute_halves, crosses, marked_in, swapped, within
<1> QED BY <1>3, <1>4

\* The halves of a power of two have at most half of the slots that the marks count.
LEMMA HalvesFit ==
  ASSUME NEW P, NEW N, Prefixes(P, N), N < 2^30, NEW h \in Nat, h >= 2, NEW first \in Nat,
         first + 2 * h <= N
  PROVE  /\ before(P, first, h) \in 0..h
         /\ first + h \in Nat /\ first + h <= N /\ (first + h) + h <= N
         /\ compact_pow2(P)[2 * h] = compact_halves(P, 2 * h, compact_pow2(P)[h])
         /\ distribute_pow2(P)[2 * h] = distribute_halves(P, 2 * h, distribute_pow2(P)[h])
<1>1. P \in Seq(Nat) /\ Len(P) = N + 1 /\ N \in Nat /\ Len(P) <= 2^30
  <2>1. 2^30 \in Nat
    BY PowerOfTwo
  <2> QED BY <2>1 DEF Prefixes
<1>2. 2 * h \in 0..Len(P) /\ (2 * h) \div 2 = h
  BY <1>1
<1>3. before(P, first, h) \in 0..h
  <2>1. first + 1 \in 1..(N + 1) /\ first + h + 1 \in (first + 1)..(N + 1)
        /\ (first + h + 1) - (first + 1) = h
    BY <1>1
  <2>2. P[first + h + 1] - P[first + 1] \in 0..((first + h + 1) - (first + 1))
    BY <2>1, PrefixGap
  <2> QED BY <2>1, <2>2 DEF before
<1>4. /\ compact_pow2(P)[2 * h] = compact_halves(P, 2 * h, compact_pow2(P)[h])
      /\ distribute_pow2(P)[2 * h] = distribute_halves(P, 2 * h, distribute_pow2(P)[h])
  <2> DEFINE n == 2 * h
  <2>1. n \in 0..Len(P) /\ n \div 2 = h
    BY <1>2
  <2> HIDE DEF n
  <2>2. /\ compact_pow2(P)[n] = compact_halves(P, n, compact_pow2(P)[n \div 2])
        /\ distribute_pow2(P)[n] = distribute_halves(P, n, distribute_pow2(P)[n \div 2])
    BY <1>1, <2>1, CompactHalves, DistributeHalves
  <2> QED BY <2>1, <2>2 DEF n
<1> QED BY <1>1, <1>3, <1>4

LEMMA CompactsHalves ==
  ASSUME NEW P, NEW N, Prefixes(P, N), N < 2^30, NEW h \in Nat, h >= 2, NEW first \in Nat,
         first + 2 * h <= N, Compacts(P, h, first), Compacts(P, h, first + h)
  PROVE  Compacts(P, 2 * h, first)
<1> DEFINE n == 2 * h
           m == before(P, first, h)
           v == compact_pow2(P)[h]
<1>1. /\ m \in 0..h /\ compact_pow2(P)[n] = compact_halves(P, n, v)
      /\ first + h \in Nat /\ first + h <= N /\ (first + h) + h <= N
  BY HalvesFit
<1>2. ASSUME NEW z \in 0..(n - 1), NEW i \in 0..(n - 1), marked(P, first + i)
      PROVE  compact_pow2(P)[n][first][z][(z + before(P, first, i)) % n] = i
  <2> DEFINE zl == zleft(n, z)
             zr == zright(n, m, z)
             chosen == {k \in Nat : half_choice(n, m, z, k)}
             at(j) == IF j < h THEN v[first][zl][j] ELSE h + v[first + h][zr][j - h]
             across(k) == IF k < h THEN IF k \in chosen THEN k + h ELSE k
                          ELSE IF k - h \in chosen THEN k - h ELSE k
  <2>1. \A k \in Nat : compact_pow2(P)[n][first][z][k] = at(across(k))
    <3>1. h \in Nat /\ h >= 2 /\ first \in Nat /\ z \in Nat
      OBVIOUS
    <3>2. ASSUME NEW k \in Nat PROVE compact_halves(P, 2 * h, v)[first][z][k] = at(across(k))
      <4>1. compact_halves(P, 2 * h, v)[first][z][k] =
              within(P, v, h, first, z, swapped(P, h, first, z, k))
        BY <3>1, HalvesAt
      <4> QED BY <4>1, Zenon DEF within, swapped, partner
    <3> HIDE DEF at, across
    <3> QED BY <1>1, <3>2, Zenon
  <2> HIDE DEF at
  <2>2. CASE i < h
    <3> DEFINE c == before(P, first, i)
               j == (zl + c) % h
               t == (z + c) % n
    <3>1. i \in 0..(h - 1) /\ c \in 0..(m - 1)
      <4>1. i \in 0..(h - 1) /\ first + h <= N
        BY <1>1, <2>2
      <4>2. c \in Nat /\ m \in 0..h /\ c < m
        BY <1>2, <4>1, MarkedBefore
      <4> HIDE DEF c, m
      <4> QED BY <4>1, <4>2
    <3>2. zl \in 0..(h - 1) /\ j \in 0..(h - 1) /\ t = IF half_choice(n, m, z, j) THEN j + h ELSE j
      <4> HIDE DEF c, m
      <4>1. h \in Nat \ {0} /\ z \in 0..(2 * h - 1)
        OBVIOUS
      <4> QED BY <4>1, <1>1, <3>1, LeftTarget, Zenon
    <3>3. v[first][zl][j] = i
      BY <1>2, <3>1, <3>2 DEF Compacts
    <3>4. j \in chosen <=> half_choice(n, m, z, j)
      BY <3>2
    <3> HIDE DEF c, m, j, t, zl, v, chosen
    <3>5. t \in Nat /\ across(t) = j
      BY <3>2, <3>4
    <3>6. at(j) = i
      BY <3>2, <3>3 DEF at
    <3> HIDE DEF across, n
    <3> QED BY <2>1, <3>5, <3>6 DEF t, c
  <2>3. CASE ~ (i < h)
    <3> DEFINE i2 == i - h
               c == before(P, first + h, i2)
               j == (zr + c) % h
               t == (z + m + c) % n
    <3>1. i2 \in 0..(h - 1) /\ marked(P, (first + h) + i2) /\ i = h + i2
      BY <1>2, <2>3
    <3>2. c \in 0..(h - 1)
      <4> HIDE DEF i2
      <4>1. c \in Nat /\ before(P, first + h, h) \in 0..h /\ c < before(P, first + h, h)
        BY <1>1, <3>1, MarkedBefore
      <4> HIDE DEF c
      <4> QED BY <4>1
    <3>3. before(P, first, i) = m + c
      <4>1. P[first + i + 1] \in Int /\ P[first + h + 1] \in Int /\ P[first + 1] \in Int
        <5>1. N \in Nat /\ \A k \in 1..(N + 1) : P[k] \in Nat
          BY PrefixNumbers
        <5>2. /\ first + i + 1 \in 1..(N + 1) /\ first + h + 1 \in 1..(N + 1)
              /\ first + 1 \in 1..(N + 1)
          <6> HIDE DEF i2
          <6> QED BY <1>1, <3>1, <5>1
        <5>3. P[first + i + 1] \in Nat /\ P[first + h + 1] \in Nat /\ P[first + 1] \in Nat
          BY <5>1, <5>2, Zenon
        <5> QED BY <5>3
      <4>2. (first + h) + i2 + 1 = first + i + 1
        BY <3>1
      <4> QED BY <4>1, <4>2, SMT DEF before
    <3>4. zr \in 0..(h - 1) /\ j \in 0..(h - 1) /\ t = IF half_choice(n, m, z, j) THEN j ELSE j + h
      <4> HIDE DEF c, m
      <4>1. h \in Nat \ {0} /\ z \in 0..(2 * h - 1)
        OBVIOUS
      <4> QED BY <4>1, <1>1, <3>2, RightTarget, Zenon
    <3>5. v[first + h][zr][j] = i2
      BY <3>1, <3>4 DEF Compacts
    <3>6. j \in chosen <=> half_choice(n, m, z, j)
      BY <3>4
    <3> HIDE DEF i2, c, m, j, t, zr, v, chosen
    <3>7. t \in Nat /\ across(t) = j + h
      BY <3>4, <3>6
    <3>8. at(j + h) = i
      <4>1. ~ (j + h < h) /\ (j + h) - h = j
        BY <3>4
      <4> QED BY <3>1, <3>5, <4>1 DEF at
    <3>9. z + before(P, first, i) = z + m + c
      BY <1>1, <3>2, <3>3
    <3> HIDE DEF across, n
    <3> QED BY <2>1, <3>7, <3>8, <3>9 DEF t
  <2> QED BY <2>2, <2>3
<1> QED BY <1>2 DEF Compacts

LEMMA InvertsHalves ==
  ASSUME NEW P, NEW N, Prefixes(P, N), N < 2^30, NEW h \in Nat, h >= 2, NEW first \in Nat,
         first + 2 * h <= N, Inverts(P, h, first), Inverts(P, h, first + h)
  PROVE  Inverts(P, 2 * h, first)
<1> DEFINE n == 2 * h
           m == before(P, first, h)
           v == compact_pow2(P)[h]
           w == distribute_pow2(P)[h]
<1>1. /\ m \in 0..h
      /\ compact_pow2(P)[n] = compact_halves(P, n, v)
      /\ distribute_pow2(P)[n] = distribute_halves(P, n, w)
  BY HalvesFit
<1>2. ASSUME NEW z \in 0..(n - 1), NEW k \in 0..(n - 1)
      PROVE  /\ compact_pow2(P)[n][first][z][k] \in 0..(n - 1)
             /\ distribute_pow2(P)[n][first][z][compact_pow2(P)[n][first][z][k]] = k
  <2> DEFINE zl == zleft(n, z)
             zr == zright(n, m, z)
             chosen == {i \in Nat : half_choice(n, m, z, i)}
             across(i) == IF i < h THEN IF i \in chosen THEN i + h ELSE i
                          ELSE IF i - h \in chosen THEN i - h ELSE i
             from(i) == IF i < h THEN v[first][zl][i] ELSE h + v[first + h][zr][i - h]
             to(i) == IF i < h THEN w[first][zl][i] ELSE h + w[first + h][zr][i - h]
  <2>1. zl \in 0..(h - 1) /\ zr \in 0..(h - 1)
    <3>1. (2 * h) \div 2 = h /\ z \in Nat /\ h \in Nat \ {0} /\ z + m \in Nat
      BY <1>1
    <3>2. z % h \in 0..(h - 1)
      BY <3>1
    <3>3. (z + m) % h \in 0..(h - 1)
      <4> DEFINE x == z + m
      <4>1. x \in Nat
        BY <3>1
      <4> HIDE DEF x
      <4>2. x % h \in 0..(h - 1)
        BY <3>1, <4>1
      <4> QED BY <4>2 DEF x
    <3> QED BY <3>1, <3>2, <3>3, Zenon DEF zleft, zright
  <2>2. ASSUME NEW i \in Nat PROVE compact_pow2(P)[n][first][z][i] = from(across(i))
    <3>1. h \in Nat /\ h >= 2 /\ first \in Nat /\ z \in Nat
      OBVIOUS
    <3>2. compact_halves(P, 2 * h, v)[first][z][i] = from(across(i))
      <4>1. compact_halves(P, 2 * h, v)[first][z][i] =
              within(P, v, h, first, z, swapped(P, h, first, z, i))
        BY <3>1, HalvesAt
      <4> QED BY <4>1, Zenon DEF within, swapped, partner
    <3> HIDE DEF from, across
    <3> QED BY <1>1, <3>2, Zenon
  <2>3. ASSUME NEW i \in Nat PROVE distribute_pow2(P)[n][first][z][i] = across(to(i))
    <3>1. h \in Nat /\ h >= 2 /\ first \in Nat /\ z \in Nat
      OBVIOUS
    <3>2. distribute_halves(P, 2 * h, w)[first][z][i] = across(to(i))
      <4>1. distribute_halves(P, 2 * h, w)[first][z][i] =
              swapped(P, h, first, z, within(P, w, h, first, z, i))
        BY <3>1, HalvesAt
      <4> QED BY <4>1, Zenon DEF within, swapped, partner
    <3> HIDE DEF to, across
    <3> QED BY <1>1, <3>2, Zenon
  <2>4. /\ \A i \in 0..(h - 1) : v[first][zl][i] \in 0..(h - 1) /\ w[first][zl][v[first][zl][i]] = i
        /\ \A i \in 0..(h - 1) :
             v[first + h][zr][i] \in 0..(h - 1) /\ w[first + h][zr][v[first + h][zr][i]] = i
    BY <2>1 DEF Inverts
  <2> HIDE DEF zl, zr, v, w, chosen
  <2>5. ASSUME NEW i \in 0..(n - 1) PROVE across(i) \in 0..(n - 1) /\ across(across(i)) = i
    OBVIOUS
  <2>6. ASSUME NEW i \in 0..(n - 1) PROVE from(i) \in 0..(n - 1) /\ to(from(i)) = i
    <3>1. CASE i < h
      <4> DEFINE l == v[first][zl][i]
      <4>1. l \in 0..(h - 1) /\ w[first][zl][l] = i /\ from(i) = l
        BY <2>4, <3>1
      <4> HIDE DEF l, from
      <4> QED BY <4>1
    <3>2. CASE ~ (i < h)
      <4> DEFINE i2 == i - h
                 l == v[first + h][zr][i2]
      <4>1. i2 \in 0..(h - 1) /\ i = h + i2
        BY <3>2
      <4>2. l \in 0..(h - 1) /\ w[first + h][zr][l] = i2 /\ from(i) = h + l
        BY <2>4, <3>2, <4>1
      <4>3. h + l \in 0..(n - 1) /\ ~ (h + l < h) /\ (h + l) - h = l
        <5> HIDE DEF l
        <5> QED BY <4>2
      <4> HIDE DEF l, i2, from
      <4> QED BY <4>1, <4>2, <4>3
    <3> QED BY <3>1, <3>2
  <2>7. /\ across(k) \in 0..(n - 1) /\ from(across(k)) \in 0..(n - 1)
        /\ across(to(from(across(k)))) = k
    <3> HIDE DEF from, to, across
    <3> QED BY <2>5, <2>6
  <2> HIDE DEF from, to, across
  <2>8. \A i \in 0..(n - 1) : i \in Nat
    OBVIOUS
  <2> QED BY <2>2, <2>3, <2>7, <2>8
<1> QED BY <1>2 DEF Inverts

\* Two slots.
LEMMA Pairs ==
  ASSUME NEW P, NEW N, Prefixes(P, N), N < 2^30, NEW first \in Nat, first + 2 <= N
  PROVE  Compacts(P, 2, first) /\ Inverts(P, 2, first)
<1>1. P \in Seq(Nat) /\ Len(P) = N + 1 /\ N \in Nat /\ Len(P) <= 2^30 /\ 2 \in 0..Len(P)
  <2>1. 2^30 \in Nat
    BY PowerOfTwo
  <2> QED BY <2>1 DEF Prefixes
<1> DEFINE v == compact_pow2(P)[2 \div 2]
           w == distribute_pow2(P)[2 \div 2]
           choice(z) == pair_choice(P, first, z)
           across(z, k) == IF k < 1 THEN IF choice(z) THEN k + 1 ELSE k
                           ELSE IF choice(z) THEN k - 1 ELSE k
<1>2. compact_pow2(P)[2] = compact_halves(P, 2, v) /\ distribute_pow2(P)[2] = distribute_halves(P, 2, w)
  BY <1>1, CompactHalves, DistributeHalves
<1>3. ASSUME NEW z \in Nat, NEW k \in Nat
      PROVE  /\ compact_pow2(P)[2][first][z][k] = across(z, k)
             /\ distribute_pow2(P)[2][first][z][k] = across(z, k)
  <2>1. 2 \div 2 = 1 /\ 2 <= 2
    OBVIOUS
  <2>2. k \in Nat /\ (~ (k < 1) => k - 1 \in Nat)
    OBVIOUS
  <2>3. partner(k, 1, {i \in Nat : crosses(P, 2, first, z, i)}) = across(z, k)
    BY <2>2, Zenon DEF partner, crosses
  <2> HIDE DEF across
  <2>4. compact_halves(P, 2, v)[first][z][k] = across(z, k)
    BY <2>1, <2>3, Zenon DEF compact_halves
  <2>5. distribute_halves(P, 2, w)[first][z][k] = across(z, k)
    BY <2>1, <2>3, Zenon DEF distribute_halves
  <2> HIDE DEF v, w
  <2> QED BY <1>2, <2>4, <2>5
<1> DEFINE a == marked_in(P, first, first + 1)
           b == marked_in(P, first + 1, first + 2)
<1>4. /\ a \in {0, 1} /\ b \in {0, 1}
      /\ marked(P, first) <=> a = 1
      /\ marked(P, first + 1) <=> b = 1
      /\ before(P, first, 0) = 0 /\ before(P, first, 1) = a
  <2>1. P[first + 1] \in Nat /\ P[first + 2] \in Nat /\ P[first + 3] \in Nat
    BY <1>1
  <2>2. /\ P[first + 2] = P[first + 1] \/ P[first + 2] = P[first + 1] + 1
        /\ P[first + 3] = P[first + 2] \/ P[first + 3] = P[first + 2] + 1
    <3>1. first + 1 \in 1..N /\ first + 2 \in 1..N /\ (first + 1) + 1 = first + 2
          /\ (first + 2) + 1 = first + 3
      BY <1>1
    <3> QED BY <3>1 DEF Prefixes
  <2>3. /\ (first + 1) + 1 = first + 2 /\ (first + 2) + 1 = first + 3
        /\ (first + 1) + 2 = first + 3 /\ first + 0 + 1 = first + 1 /\ first + 1 + 1 = first + 2
    OBVIOUS
  <2>4. a = P[first + 2] - P[first + 1] /\ b = P[first + 3] - P[first + 2]
    BY <2>3 DEF marked_in
  <2>5. before(P, first, 0) = P[first + 1] - P[first + 1]
        /\ before(P, first, 1) = P[first + 2] - P[first + 1]
    BY <2>3 DEF before
  <2> HIDE DEF a, b
  <2> QED BY <2>1, <2>2, <2>3, <2>4, <2>5 DEF marked
<1>5. \A z \in Nat : choice(z) <=> (1 - a) * b # z
  BY Zenon DEF pair_choice
<1> HIDE DEF a, b, choice
<1>6. \A z \in {0, 1} : choice(z) <=> (IF a = 0 /\ b = 1 THEN 1 # z ELSE 0 # z)
  <2>1. (1 - a) * b = IF a = 0 /\ b = 1 THEN 1 ELSE 0
    BY <1>4
  <2> QED BY <1>5, <2>1
<1>7. \A z \in {0, 1}, k \in {0, 1} : across(z, k) \in {0, 1} /\ across(z, across(z, k)) = k
  OBVIOUS
<1>8. \A z \in {0, 1} : /\ a = 1 => across(z, z) = 0
                        /\ b = 1 => across(z, (z + a) % 2) = 1
  <2>1. 0 % 2 = 0 /\ 1 % 2 = 1 /\ 2 % 2 = 0
    OBVIOUS
  <2>2. (0 + a) % 2 = a /\ (1 + a) % 2 = 1 - a
    BY <1>4, <2>1
  <2> QED BY <1>4, <1>6, <2>2
<1> HIDE DEF across
<1>9. 0..(2 - 1) = {0, 1}
  OBVIOUS
<1>10. Inverts(P, 2, first)
  BY <1>3, <1>7, <1>9 DEF Inverts
<1>11. Compacts(P, 2, first)
  <2>1. ASSUME NEW z \in {0, 1}, NEW i \in {0, 1}, marked(P, first + i)
        PROVE  compact_pow2(P)[2][first][z][(z + before(P, first, i)) % 2] = i
    <3>1. CASE i = 0
      <4>1. first + 0 = first /\ z \in Nat
        OBVIOUS
      <4>2. before(P, first, i) = 0 /\ a = 1
        BY <1>4, <2>1, <3>1, <4>1
      <4>3. (z + before(P, first, i)) % 2 = z
        BY <4>2
      <4>4. compact_pow2(P)[2][first][z][z] = across(z, z)
        BY <1>3, <4>1
      <4> QED BY <1>8, <3>1, <4>2, <4>3, <4>4
    <3>2. CASE i = 1
      <4>1. (z + a) % 2 \in Nat
        BY <1>4
      <4> QED BY <1>3, <1>4, <1>8, <2>1, <3>2, <4>1
    <3> QED BY <3>1, <3>2
  <2> QED BY <1>9, <2>1 DEF Compacts
<1> QED BY <1>10, <1>11

LEMMA PowersOfTwo ==
  ASSUME NEW P, NEW N, Prefixes(P, N), N < 2^30, NEW e \in Nat \ {0}, NEW first \in Nat,
         first + 2^e <= N
  PROVE  Compacts(P, 2^e, first) /\ Inverts(P, 2^e, first)
<1> DEFINE right(d) == \A f \in Nat : f + 2^d <= N => Compacts(P, 2^d, f) /\ Inverts(P, 2^d, f)
           bad == {d \in Nat \ {0} : ~ right(d)}
<1>1. bad = {}
  <2> SUFFICES ASSUME bad # {} PROVE FALSE
    OBVIOUS
  <2>1. Min(bad) \in bad /\ \A x \in bad : Min(bad) <= x
    <3>1. bad \in SUBSET Nat
      OBVIOUS
    <3> HIDE DEF bad
    <3> QED BY <3>1, MinOfNat
  <2> DEFINE d == Min(bad)
  <2>2. d \in Nat \ {0} /\ ~ right(d)
    BY <2>1
  <2>3. d # 1
    <3>1. 2^1 = 2
      OBVIOUS
    <3>2. right(1)
      BY <3>1, Pairs
    <3> HIDE DEF right, d
    <3> QED BY <2>2, <3>2
  <2>4. d - 1 \in Nat \ {0} /\ right(d - 1)
    <3>1. d - 1 \in Nat \ {0} /\ d - 1 \notin bad
      <4> HIDE DEF bad, right
      <4> QED BY <2>1, <2>2, <2>3
    <3> HIDE DEF right, d
    <3> QED BY <3>1
  <2> HIDE DEF bad
  <2> DEFINE h == 2^(d - 1)
  <2>5. h \in Nat /\ h >= 2 /\ 2^d = 2 * h
    <3> DEFINE c == d - 2
    <3>1. c \in Nat /\ d - 1 = c + 1 /\ d = (d - 1) + 1 /\ d - 1 \in Nat
      BY <2>2, <2>3
    <3> HIDE DEF c, d
    <3>2. 2^c \in Nat \ {0} /\ 2^(c + 1) = 2 * 2^c
      BY <3>1, PowerOfTwo
    <3>3. 2^(d - 1) \in Nat /\ 2^((d - 1) + 1) = 2 * 2^(d - 1)
      BY <3>1, PowerOfTwo
    <3>4. h >= 2
      BY <3>1, <3>2
    <3> QED BY <3>1, <3>3, <3>4
  <2> HIDE DEF h, d
  <2>6. ASSUME NEW f \in Nat, f + 2^d <= N
        PROVE  Compacts(P, 2^d, f) /\ Inverts(P, 2^d, f)
    <3>1. f + 2 * h <= N /\ f + h \in Nat /\ f + h <= N /\ (f + h) + h <= N
      <4>1. N \in Nat
        BY DEF Prefixes
      <4> QED BY <2>5, <2>6, <4>1
    <3>2. \A g \in Nat : g + h <= N => Compacts(P, h, g) /\ Inverts(P, h, g)
      BY <2>4 DEF h
    <3>3. /\ Compacts(P, h, f) /\ Inverts(P, h, f)
          /\ Compacts(P, h, f + h) /\ Inverts(P, h, f + h)
      BY <3>1, <3>2
    <3> QED BY <2>5, <3>1, <3>3, CompactsHalves, InvertsHalves
  <2> QED BY <2>2, <2>6
<1> HIDE DEF right
<1>2. right(e)
  BY <1>1
<1> QED BY <1>2 DEF right
-----------------------------------------------------------------------------
(***************************************************************************)
(* So they do at every length: a power of two is the right part, at the     *)
(* offset where the marked elements of the left part end.                   *)
(***************************************************************************)

CompactsAll(P, n) ==
  \A i \in 0..(n - 1) : marked(P, i) => compact_sources(P)[n][before(P, 0, i)] = i

InvertsAll(P, n) ==
  \A k \in 0..(n - 1) :
    /\ compact_sources(P)[n][k] \in 0..(n - 1)
    /\ distribute_sources(P)[n][compact_sources(P)[n][k]] = k

\* The slot exchanged with slot k, and the slot whose element slot j takes within its part.
exchanged(P, n1, n2, k) ==
  LET m == before(P, 0, n2)
  IN  IF k < n1 THEN IF k \in m..(n2 - 1) THEN k + n1 ELSE k
      ELSE IF k - n1 \in m..(n2 - 1) THEN k - n1 ELSE k
joined(P, v, left, n1, n2, j) ==
  IF j < n2 THEN left[j]
  ELSE n2 + v[n1][n2][right_offset(n1, n2, before(P, 0, n2))][j - n2]

LEMMA PartsAt ==
  ASSUME NEW P, NEW v, NEW left, NEW n \in Nat \ {0, 1}, leading_power(n) \in 1..(n - 1),
         NEW k \in Nat
  PROVE  LET n1 == leading_power(n)
             n2 == n - n1
         IN  /\ compact_parts(P, n, v, left)[k] =
                  joined(P, v, left, n1, n2, exchanged(P, n1, n2, k))
             /\ distribute_parts(P, n, v, left)[k] =
                  exchanged(P, n1, n2, joined(P, v, left, n1, n2, k))
<1> DEFINE n1 == leading_power(n)
           n2 == n - n1
<1>1. ~ (n <= 1) /\ n2 # 0 /\ n2 \in Nat
  OBVIOUS
<1> HIDE DEF n1
<1>2. before(P, 0, n2) = P[n2 + 1] - P[0 + 1]
  <2>1. 0 + n2 = n2
    BY <1>1
  <2> QED BY <2>1, Zenon DEF before
<1>3. marked_in(P, 0, n2) = before(P, 0, n2)
  BY <1>2, Zenon DEF marked_in
<1>4. compact_parts(P, n, v, left)[k] = joined(P, v, left, n1, n2, exchanged(P, n1, n2, k))
  BY <1>1, <1>3, Zenon DEF compact_parts, partner, exchanged, joined, n1
<1>5. distribute_parts(P, n, v, left)[k] = exchanged(P, n1, n2, joined(P, v, left, n1, n2, k))
  BY <1>1, <1>3, Zenon DEF distribute_parts, partner, exchanged, joined, n1
<1> QED BY <1>4, <1>5 DEF n1

LEMMA WholePower ==
  ASSUME NEW P, NEW v, NEW left, NEW n \in Nat \ {0, 1}, leading_power(n) = n, NEW k \in Nat
  PROVE  /\ compact_parts(P, n, v, left)[k] = v[n][0][0][k]
         /\ distribute_parts(P, n, v, left)[k] = v[n][0][0][k]
<1>1. ~ (n <= 1) /\ n - n = 0
  OBVIOUS
<1> QED BY <1>1, Zenon DEF compact_parts, distribute_parts

LEMMA PartsFit ==
  ASSUME NEW P, NEW N, Prefixes(P, N), N < 2^30, NEW n \in Nat \ {0, 1}, n <= N
  PROVE  LET n1 == leading_power(n)
             n2 == n - n1
         IN  /\ n1 \in 2..n /\ n2 \in 0..(n1 - 1) /\ n = n2 + n1
             /\ before(P, 0, n2) \in 0..n2
             /\ compact_sources(P)[n] = compact_parts(P, n, compact_pow2(P), compact_sources(P)[n2])
             /\ distribute_sources(P)[n] =
                  distribute_parts(P, n, distribute_pow2(P), distribute_sources(P)[n2])
             /\ Compacts(P, n1, n2) /\ Inverts(P, n1, n2)
<1> DEFINE n1 == leading_power(n)
           n2 == n - n1
<1>1. P \in Seq(Nat) /\ Len(P) = N + 1 /\ N \in Nat /\ Len(P) <= 2^30 /\ n <= 2^30
  <2>1. 2^30 \in Nat
    BY PowerOfTwo
  <2> QED BY <2>1 DEF Prefixes
<1>2. n1 \in 1..n /\ n < 2 * n1 /\ \E e \in Nat : n1 = 2^e
  <2>1. n \in Nat \ {0}
    OBVIOUS
  <2> QED BY <1>1, <2>1, LeadingPower
<1>3. PICK e \in Nat : n1 = 2^e
  BY <1>2
<1> HIDE DEF n1
<1>4. n1 \in 2..n /\ n2 \in 0..(n1 - 1) /\ n = n2 + n1
  BY <1>2
<1>5. e \in Nat \ {0}
  <2>1. SUFFICES ASSUME e = 0 PROVE FALSE
    OBVIOUS
  <2>2. 2^0 = 1
    OBVIOUS
  <2> QED BY <1>3, <1>4, <2>1, <2>2
<1>6. Compacts(P, n1, n2) /\ Inverts(P, n1, n2)
  <2>1. n2 \in Nat /\ n2 + 2^e <= N
    BY <1>1, <1>3, <1>4
  <2> HIDE DEF n2
  <2> QED BY <1>3, <1>5, <2>1, PowersOfTwo
<1>7. before(P, 0, n2) \in 0..n2
  <2>1. 0 + 1 \in 1..(N + 1) /\ 0 + n2 + 1 \in (0 + 1)..(N + 1) /\ (0 + n2 + 1) - (0 + 1) = n2
    BY <1>1, <1>4
  <2> HIDE DEF n2
  <2>2. P[0 + n2 + 1] - P[0 + 1] \in 0..((0 + n2 + 1) - (0 + 1))
    BY <2>1, PrefixGap
  <2> QED BY <2>1, <2>2 DEF before
<1>8. /\ compact_sources(P)[n] = compact_parts(P, n, compact_pow2(P), compact_sources(P)[n2])
      /\ distribute_sources(P)[n] =
           distribute_parts(P, n, distribute_pow2(P), distribute_sources(P)[n2])
  <2>1. n \in 0..Len(P)
    BY <1>1
  <2> QED BY <1>1, <2>1, CompactParts, DistributeParts, Zenon DEF n1
<1> QED BY <1>4, <1>6, <1>7, <1>8 DEF n1

LEMMA CompactsParts ==
  ASSUME NEW P, NEW N, Prefixes(P, N), N < 2^30, NEW n \in Nat \ {0, 1}, n <= N,
         CompactsAll(P, n - leading_power(n))
  PROVE  CompactsAll(P, n)
<1> DEFINE n1 == leading_power(n)
           n2 == n - n1
           m  == before(P, 0, n2)
           v  == compact_pow2(P)
           left == compact_sources(P)[n2]
<1>1. /\ n1 \in 2..n /\ n2 \in 0..(n1 - 1) /\ n = n2 + n1
      /\ m \in 0..n2
      /\ compact_sources(P)[n] = compact_parts(P, n, v, left)
      /\ Compacts(P, n1, n2)
  BY PartsFit
<1>2. CompactsAll(P, n2) /\ N \in Nat /\ P \in Seq(Nat) /\ Len(P) = N + 1
  BY DEF Prefixes
<1> HIDE DEF n1
<1>3. CASE n2 = 0
  <2>1. n1 = n
    BY <1>1, <1>3
  <2> HIDE DEF n2, left, v
  <2>2. ASSUME NEW i \in 0..(n - 1), marked(P, i)
        PROVE  compact_sources(P)[n][before(P, 0, i)] = i
    <3> DEFINE c == before(P, 0, i)
    <3>1. c \in 0..(n - 1)
      <4>1. 0 + n <= N /\ marked(P, 0 + i)
        BY <2>2
      <4>2. c \in Nat /\ before(P, 0, n) \in 0..n /\ c < before(P, 0, n)
        BY <4>1, MarkedBefore
      <4> HIDE DEF c
      <4> QED BY <4>2
    <3>2. compact_sources(P)[n][c] = v[n][0][0][c]
      <4> HIDE DEF c
      <4>1. c \in Nat /\ n \in Nat \ {0, 1} /\ leading_power(n) = n
        BY <2>1, <3>1 DEF n1
      <4>2. compact_parts(P, n, v, left)[c] = v[n][0][0][c]
        BY <4>1, WholePower
      <4> QED BY <1>1, <4>2, Zenon
    <3>3. v[n][0][0][(0 + c) % n] = i
      <4>1. 0 \in 0..(n - 1) /\ marked(P, 0 + i)
        BY <2>2
      <4> QED BY <1>1, <1>3, <2>1, <4>1 DEF Compacts, v
    <3>4. (0 + c) % n = c
      <4> HIDE DEF c
      <4>1. c = n * 0 + c
        BY <3>1
      <4> QED BY <3>1, <4>1
    <3> QED BY <3>2, <3>3, <3>4
  <2> QED BY <2>2 DEF CompactsAll
<1>4. CASE n2 # 0
  <2> DEFINE off == right_offset(n1, n2, m)
             across(k) == IF k < n1 THEN IF k \in m..(n2 - 1) THEN k + n1 ELSE k
                          ELSE IF k - n1 \in m..(n2 - 1) THEN k - n1 ELSE k
             at(j) == IF j < n2 THEN left[j] ELSE n2 + v[n1][n2][off][j - n2]
  <2>1. off = IF m = n2 THEN 0 ELSE (n1 - n2) + m
    <3> HIDE DEF m, n2
    <3> DEFINE x == (n1 - n2) + m
    <3>1. x \in Nat /\ n1 \in Nat \ {0} /\ x < 2 * n1
      BY <1>1
    <3>2. off = x % n1
      BY Zenon DEF right_offset
    <3> HIDE DEF x
    <3>3. x % n1 = IF x < n1 THEN x ELSE x - n1
      BY <3>1, SmallerRemainder
    <3> HIDE DEF off
    <3> QED BY <1>1, <3>2, <3>3 DEF x
  <2>2. ASSUME NEW k \in Nat PROVE compact_sources(P)[n][k] = at(across(k))
    <3>1. leading_power(n) \in 1..(n - 1)
      <4> HIDE DEF n2
      <4> QED BY <1>1, <1>4 DEF n1
    <3>2. compact_parts(P, n, v, left)[k] = joined(P, v, left, n1, n2, exchanged(P, n1, n2, k))
      <4>1. n \in Nat \ {0, 1} /\ k \in Nat
        OBVIOUS
      <4> HIDE DEF left, v
      <4> QED BY <3>1, <4>1, PartsAt DEF n1
    <3> QED BY <1>1, <3>2, Zenon DEF joined, exchanged
  <2> HIDE DEF at, off
  <2>3. ASSUME NEW i \in 0..(n - 1), marked(P, i)
        PROVE  compact_sources(P)[n][before(P, 0, i)] = i
    <3>1. CASE i < n2
      <4> DEFINE c == before(P, 0, i)
      <4>1. i \in 0..(n2 - 1) /\ 0 + n2 <= N /\ marked(P, 0 + i) /\ n2 \in Nat
        <5> HIDE DEF n2
        <5> QED BY <1>1, <1>2, <2>3, <3>1
      <4>2. c \in Nat /\ c < m
        <5> HIDE DEF n2
        <5> QED BY <4>1, MarkedBefore
      <4>3. left[c] = i
        <5> HIDE DEF n2
        <5> QED BY <1>2, <2>3, <4>1 DEF CompactsAll, left
      <4> HIDE DEF c, m, n2, left
      <4>4. across(c) = c /\ c < n2
        BY <1>1, <4>2
      <4> HIDE DEF across
      <4>5. at(c) = i
        BY <4>3, <4>4 DEF at
      <4> QED BY <2>2, <4>2, <4>4, <4>5 DEF c
    <3>2. CASE ~ (i < n2)
      <4> DEFINE i2 == i - n2
                 c == before(P, n2, i2)
                 t == m + c
                 l == (off + c) % n1
      <4>1. i2 \in 0..(n1 - 1) /\ n2 + i2 = i /\ n2 \in Nat /\ n2 + n1 <= N /\ n1 \in Nat
        <5> HIDE DEF n2
        <5> QED BY <1>1, <2>3, <3>2
      <4>2. marked(P, n2 + i2)
        BY <2>3, <4>1
      <4>3. c \in 0..(n1 - 1)
        <5> HIDE DEF n2, i2
        <5>1. c \in Nat /\ before(P, n2, n1) \in 0..n1 /\ c < before(P, n2, n1)
          BY <4>1, <4>2, MarkedBefore
        <5> HIDE DEF c
        <5> QED BY <4>1, <5>1
      <4>4. before(P, 0, i) = t
        <5> HIDE DEF n2
        <5>1. P[n2 + 1] \in Int /\ P[i + 1] \in Int /\ P[1] \in Int
          BY <1>1, <1>2, <2>3
        <5>2. n2 + i2 + 1 = i + 1 /\ 0 + n2 + 1 = n2 + 1 /\ 0 + i + 1 = i + 1 /\ 0 + 1 = 1
          BY <4>1
        <5>3. c = P[i + 1] - P[n2 + 1] /\ m = P[n2 + 1] - P[1] /\ before(P, 0, i) = P[i + 1] - P[1]
          BY <5>2 DEF before
        <5> HIDE DEF c, m
        <5> QED BY <5>1, <5>3
      <4> HIDE DEF c, m, i2, n2
      <4>5. v[n1][n2][off][l] = i2
        <5>1. off \in 0..(n1 - 1)
          BY <1>1, <2>1
        <5> QED BY <1>1, <4>1, <4>2, <5>1 DEF Compacts, c, v
      <4>6. l = IF off + c < n1 THEN off + c ELSE (off + c) - n1
        <5> DEFINE x == off + c
        <5>1. x \in Nat /\ n1 \in Nat \ {0} /\ x < 2 * n1
          BY <1>1, <2>1, <4>3
        <5> HIDE DEF x
        <5>2. x % n1 = IF x < n1 THEN x ELSE x - n1
          BY <5>1, SmallerRemainder
        <5> QED BY <5>2 DEF x
      <4> HIDE DEF l, v, left
      <4>7. across(t) = n2 + l /\ t \in Nat /\ ~ (n2 + l < n2) /\ (n2 + l) - n2 = l
        BY <1>1, <2>1, <4>3, <4>6
      <4> HIDE DEF across, t
      <4>8. at(n2 + l) = i
        BY <4>1, <4>5, <4>7 DEF at
      <4> QED BY <2>2, <4>4, <4>7, <4>8
    <3> QED BY <3>1, <3>2
  <2> QED BY <2>3 DEF CompactsAll
<1> QED BY <1>3, <1>4

LEMMA InvertsParts ==
  ASSUME NEW P, NEW N, Prefixes(P, N), N < 2^30, NEW n \in Nat \ {0, 1}, n <= N,
         InvertsAll(P, n - leading_power(n))
  PROVE  InvertsAll(P, n)
<1> DEFINE n1 == leading_power(n)
           n2 == n - n1
           m  == before(P, 0, n2)
           v  == compact_pow2(P)
           w  == distribute_pow2(P)
           vleft == compact_sources(P)[n2]
           wleft == distribute_sources(P)[n2]
<1>1. /\ n1 \in 2..n /\ n2 \in 0..(n1 - 1) /\ n = n2 + n1
      /\ m \in 0..n2
      /\ compact_sources(P)[n] = compact_parts(P, n, v, vleft)
      /\ distribute_sources(P)[n] = distribute_parts(P, n, w, wleft)
      /\ Inverts(P, n1, n2)
  BY PartsFit
<1>2. InvertsAll(P, n2) /\ n \in Nat \ {0, 1}
  OBVIOUS
<1> HIDE DEF n1
<1>3. CASE n2 = 0
  <2>1. n1 = n /\ leading_power(n) = n
    BY <1>1, <1>3 DEF n1
  <2> HIDE DEF n2, vleft, wleft, v, w
  <2>2. ASSUME NEW k \in Nat
        PROVE  /\ compact_sources(P)[n][k] = v[n][0][0][k]
               /\ distribute_sources(P)[n][k] = w[n][0][0][k]
    <3>1. /\ compact_parts(P, n, v, vleft)[k] = v[n][0][0][k]
          /\ distribute_parts(P, n, w, wleft)[k] = w[n][0][0][k]
      BY <1>2, <2>1, WholePower
    <3> QED BY <1>1, <3>1, Zenon
  <2>3. \A k \in 0..(n - 1) : v[n][0][0][k] \in 0..(n - 1) /\ w[n][0][0][v[n][0][0][k]] = k
    <3>1. 0 \in 0..(n - 1)
      OBVIOUS
    <3>2. Inverts(P, n, 0)
      BY <1>1, <1>3, <2>1, Zenon
    <3> QED BY <3>1, <3>2, Zenon DEF Inverts, v, w
  <2>4. \A k \in 0..(n - 1) : k \in Nat
    OBVIOUS
  <2> QED BY <2>2, <2>3, <2>4 DEF InvertsAll
<1>4. CASE n2 # 0
  <2> DEFINE off == right_offset(n1, n2, m)
             across(k) == IF k < n1 THEN IF k \in m..(n2 - 1) THEN k + n1 ELSE k
                          ELSE IF k - n1 \in m..(n2 - 1) THEN k - n1 ELSE k
             from(j) == IF j < n2 THEN vleft[j] ELSE n2 + v[n1][n2][off][j - n2]
             to(j)   == IF j < n2 THEN wleft[j] ELSE n2 + w[n1][n2][off][j - n2]
  <2>1. off \in 0..(n1 - 1)
    <3> HIDE DEF m, n2
    <3> DEFINE x == (n1 - n2) + m
    <3>1. x \in Nat /\ n1 \in Nat \ {0}
      BY <1>1
    <3>2. off = x % n1
      BY Zenon DEF right_offset
    <3> HIDE DEF x
    <3>3. x % n1 \in 0..(n1 - 1)
      BY <3>1
    <3> HIDE DEF off
    <3> QED BY <3>2, <3>3
  <2>2. leading_power(n) \in 1..(n - 1)
    <3> HIDE DEF n2
    <3> QED BY <1>1, <1>4 DEF n1
  <2>3. ASSUME NEW k \in Nat PROVE compact_sources(P)[n][k] = from(across(k))
    <3>1. compact_parts(P, n, v, vleft)[k] = joined(P, v, vleft, n1, n2, exchanged(P, n1, n2, k))
      <4> HIDE DEF vleft, v
      <4> QED BY <1>2, <2>2, PartsAt DEF n1
    <3> QED BY <1>1, <3>1, Zenon DEF joined, exchanged
  <2>4. ASSUME NEW k \in Nat PROVE distribute_sources(P)[n][k] = across(to(k))
    <3>1. distribute_parts(P, n, w, wleft)[k] = exchanged(P, n1, n2, joined(P, w, wleft, n1, n2, k))
      <4> HIDE DEF wleft, w
      <4> QED BY <1>2, <2>2, PartsAt DEF n1
    <3> QED BY <1>1, <3>1, Zenon DEF joined, exchanged
  <2>5. /\ \A i \in 0..(n2 - 1) : vleft[i] \in 0..(n2 - 1) /\ wleft[vleft[i]] = i
        /\ \A i \in 0..(n1 - 1) :
             v[n1][n2][off][i] \in 0..(n1 - 1) /\ w[n1][n2][off][v[n1][n2][off][i]] = i
    BY <1>1, <1>2, <2>1 DEF Inverts, InvertsAll
  <2> HIDE DEF m, n2, v, w, vleft, wleft, off
  <2>6. ASSUME NEW i \in 0..(n - 1) PROVE across(i) \in 0..(n - 1) /\ across(across(i)) = i
    BY <1>1
  <2>7. ASSUME NEW i \in 0..(n - 1) PROVE from(i) \in 0..(n - 1) /\ to(from(i)) = i
    <3>1. CASE i < n2
      <4> DEFINE l == vleft[i]
      <4>1. i \in 0..(n2 - 1)
        BY <1>1, <3>1
      <4>2. l \in 0..(n2 - 1) /\ wleft[l] = i /\ from(i) = l
        BY <2>5, <3>1, <4>1
      <4> HIDE DEF l, from
      <4> QED BY <1>1, <4>2
    <3>2. CASE ~ (i < n2)
      <4> DEFINE i2 == i - n2
                 l == v[n1][n2][off][i2]
      <4>1. i2 \in 0..(n1 - 1) /\ i = n2 + i2
        BY <1>1, <3>2
      <4>2. l \in 0..(n1 - 1) /\ w[n1][n2][off][l] = i2 /\ from(i) = n2 + l
        BY <2>5, <3>2, <4>1
      <4>3. n2 + l \in 0..(n - 1) /\ ~ (n2 + l < n2) /\ (n2 + l) - n2 = l
        <5> HIDE DEF l
        <5> QED BY <1>1, <4>2
      <4> HIDE DEF l, i2, from
      <4> QED BY <4>1, <4>2, <4>3
    <3> QED BY <3>1, <3>2
  <2>8. ASSUME NEW k \in 0..(n - 1)
        PROVE  /\ compact_sources(P)[n][k] \in 0..(n - 1)
               /\ distribute_sources(P)[n][compact_sources(P)[n][k]] = k
    <3> HIDE DEF from, to, across
    <3>1. /\ across(k) \in 0..(n - 1) /\ from(across(k)) \in 0..(n - 1)
          /\ across(to(from(across(k)))) = k
      BY <2>6, <2>7
    <3>2. \A i \in 0..(n - 1) : i \in Nat
      OBVIOUS
    <3> QED BY <2>3, <2>4, <3>1, <3>2
  <2> QED BY <2>8 DEF InvertsAll
<1> QED BY <1>3, <1>4

\* Nothing moves in an array of one element.
LEMMA ShortArrays ==
  ASSUME NEW P, NEW N, Prefixes(P, N), N < 2^30, NEW n \in {0, 1}, n <= N
  PROVE  CompactsAll(P, n) /\ InvertsAll(P, n)
<1>1. P \in Seq(Nat) /\ Len(P) = N + 1 /\ N \in Nat /\ Len(P) <= 2^30 /\ n \in 0..Len(P) /\ n <= 1
  <2>1. 2^30 \in Nat
    BY PowerOfTwo
  <2> QED BY <2>1 DEF Prefixes
<1>2. ASSUME NEW k \in Nat
      PROVE  compact_sources(P)[n][k] = k /\ distribute_sources(P)[n][k] = k
  <2>1. \A v, left : compact_parts(P, n, v, left)[k] = k /\ distribute_parts(P, n, v, left)[k] = k
    BY <1>1, Zenon DEF compact_parts, distribute_parts
  <2>2. /\ \E left : compact_sources(P)[n] = compact_parts(P, n, compact_pow2(P), left)
        /\ \E left : distribute_sources(P)[n] = distribute_parts(P, n, distribute_pow2(P), left)
    BY <1>1, CompactParts, DistributeParts
  <2> QED BY <2>1, <2>2, Zenon
<1>3. \A k \in 0..(n - 1) : k = 0 /\ k \in Nat
  OBVIOUS
<1>4. before(P, 0, 0) = 0
  <2>1. 0 + 0 + 1 = 1 /\ 0 + 1 = 1 /\ P[1] \in Nat
    BY <1>1
  <2> QED BY <2>1 DEF before
<1>5. CompactsAll(P, n)
  BY <1>2, <1>3, <1>4 DEF CompactsAll
<1>6. InvertsAll(P, n)
  BY <1>2, <1>3 DEF InvertsAll
<1> QED BY <1>5, <1>6

LEMMA AllLengths ==
  ASSUME NEW P, NEW N, Prefixes(P, N), N < 2^30
  PROVE  CompactsAll(P, N) /\ InvertsAll(P, N)
<1> DEFINE right(n) == CompactsAll(P, n) /\ InvertsAll(P, n)
           bad == {n \in 0..N : ~ right(n)}
<1>1. bad = {}
  <2> SUFFICES ASSUME bad # {} PROVE FALSE
    OBVIOUS
  <2>1. Min(bad) \in bad /\ \A x \in bad : Min(bad) <= x
    <3>1. bad \in SUBSET Nat
      OBVIOUS
    <3> HIDE DEF bad
    <3> QED BY <3>1, MinOfNat
  <2> DEFINE n == Min(bad)
             s == n - leading_power(n)
  <2>2. n \in 0..N /\ ~ right(n)
    BY <2>1
  <2>3. \A x \in 0..N : x < n => right(x)
    <3> HIDE DEF right
    <3>1. \A x \in 0..N : x \notin bad => right(x)
      OBVIOUS
    <3> HIDE DEF bad
    <3>2. ASSUME NEW x \in 0..N, x < n PROVE x \notin bad
      <4>1. x \in bad => n <= x
        BY <2>1
      <4> HIDE DEF n
      <4> QED BY <2>2, <3>2, <4>1
    <3> QED BY <3>1, <3>2
  <2> HIDE DEF bad, n
  <2>4. n \in Nat \ {0, 1} /\ n <= N /\ N \in Nat
    <3>1. N \in Nat
      BY DEF Prefixes
    <3>2. n \notin {0, 1}
      BY <2>2, <3>1, ShortArrays
    <3> QED BY <2>2, <3>1, <3>2
  <2>5. s \in 0..N /\ s < n
    <3>1. leading_power(n) \in 2..n
      BY <2>4, PartsFit
    <3> QED BY <2>4, <3>1
  <2>6. CompactsAll(P, s) /\ InvertsAll(P, s)
    <3> HIDE DEF s
    <3> QED BY <2>3, <2>5
  <2>7. CompactsAll(P, n) /\ InvertsAll(P, n)
    BY <2>4, <2>6, CompactsParts, InvertsParts
  <2> QED BY <2>2, <2>7
<1> HIDE DEF right
<1>2. N \in 0..N
  BY DEF Prefixes
<1>3. right(N)
  BY <1>1, <1>2
<1> QED BY <1>3 DEF right
-----------------------------------------------------------------------------
(***************************************************************************)
(* The marks of a set of slots.                                             *)
(***************************************************************************)

LEMMA MarksFinite ==
  ASSUME NEW n \in Nat, NEW S \in SUBSET (1..n)
  PROVE  IsFiniteSet(S) /\ Cardinality(S) \in Nat
<1>1. IsFiniteSet(1..n)
  BY FS_Interval
<1> QED BY <1>1, FS_Subset, FS_CardinalityType

LEMMA PrefixMarks ==
  ASSUME NEW n \in Nat, NEW S \in SUBSET (1..n)
  PROVE  LET P == prefix_marks(S, n)
         IN  /\ Prefixes(P, n)
             /\ P[1] = 0 /\ P[n + 1] = Cardinality(S)
             /\ \A i \in 0..(n - 1) : marked(P, i) <=> i + 1 \in S
             /\ \A i \in 0..(n - 1) : rank(i + 1, S) = P[i + 2]
<1> DEFINE P == prefix_marks(S, n)
           upto(k) == {s \in S : s < k}
<1>0. \A s \in S : s \in Int /\ 1 <= s /\ s < n + 1
  OBVIOUS
<1>1. IsFiniteSet(S) /\ \A k : IsFiniteSet(upto(k)) /\ Cardinality(upto(k)) \in Nat
  <2>1. IsFiniteSet(S)
    <3>1. IsFiniteSet(1..n) /\ S \subseteq 1..n
      BY FS_Interval
    <3> QED BY <3>1, FS_Subset
  <2>2. \A k : upto(k) \subseteq S
    OBVIOUS
  <2> HIDE DEF upto
  <2> QED BY <2>1, <2>2, FS_Subset, FS_CardinalityType
<1>2. P = [k \in 1..(n + 1) |-> Cardinality(upto(k))]
  BY DEF prefix_marks
<1>3. P \in Seq(Nat) /\ Len(P) = n + 1 /\ \A k \in 1..(n + 1) : P[k] = Cardinality(upto(k))
  <2> HIDE DEF upto, P
  <2> QED BY <1>1, <1>2
<1>4. ASSUME NEW k \in 1..n
      PROVE  P[k + 1] = IF k \in S THEN P[k] + 1 ELSE P[k]
  <2>1. k \in 1..(n + 1) /\ k + 1 \in 1..(n + 1)
    OBVIOUS
  <2>2. CASE k \in S
    <3>1. upto(k + 1) = upto(k) \cup {k} /\ k \notin upto(k)
      <4>1. \A s \in S : s < k + 1 <=> s < k \/ s = k
        BY <1>0
      <4>2. upto(k + 1) = {s \in S : s < k \/ s = k}
        BY <4>1
      <4> QED BY <2>2, <4>2
    <3> HIDE DEF upto, P
    <3> QED BY <1>1, <1>3, <2>1, <2>2, <3>1, FS_AddElement
  <2>3. CASE k \notin S
    <3>1. upto(k + 1) = upto(k)
      <4>1. \A s \in S : s < k + 1 <=> s < k
        BY <1>0, <2>3
      <4> QED BY <4>1
    <3> HIDE DEF upto, P
    <3> QED BY <1>3, <2>1, <2>3, <3>1
  <2> QED BY <2>2, <2>3
<1>5. P[1] = 0 /\ P[n + 1] = Cardinality(S)
  <2>1. upto(1) = {} /\ upto(n + 1) = S
    <3>1. \A s \in S : ~ (s < 1) /\ s < n + 1
      BY <1>0
    <3> QED BY <3>1
  <2>2. 1 \in 1..(n + 1) /\ n + 1 \in 1..(n + 1)
    OBVIOUS
  <2> HIDE DEF upto, P
  <2> QED BY <1>3, <2>1, <2>2, FS_EmptySet
<1>6. ASSUME NEW i \in 0..(n - 1)
      PROVE  (marked(P, i) <=> i + 1 \in S) /\ rank(i + 1, S) = P[i + 2]
  <2>1. i + 1 \in 1..n /\ i + 2 \in 1..(n + 1) /\ i + 2 = (i + 1) + 1 /\ i + 1 \in 1..(n + 1)
    OBVIOUS
  <2>2. {s \in S : s <= i + 1} = upto(i + 2)
    <3>1. \A s \in S : s <= i + 1 <=> s < i + 2
      BY <1>0
    <3> QED BY <3>1
  <2>3. P[i + 1] \in Nat
    BY <1>1, <1>3, <2>1
  <2>4. rank(i + 1, S) = P[i + 2]
    <3> HIDE DEF upto, P
    <3> QED BY <1>3, <2>1, <2>2 DEF rank
  <2> HIDE DEF P, upto
  <2>5. P[i + 2] = IF i + 1 \in S THEN P[i + 1] + 1 ELSE P[i + 1]
    BY <1>4, <2>1
  <2> QED BY <2>3, <2>4, <2>5 DEF marked
<1> HIDE DEF P, upto
<1>7. Prefixes(P, n)
  BY <1>3, <1>4 DEF Prefixes
<1> QED BY <1>5, <1>6, <1>7 DEF P

\* The rank of a marked slot.
LEMMA RankOfMarked ==
  ASSUME NEW n \in Nat, NEW S \in SUBSET (1..n), NEW e \in S
  PROVE  LET P == prefix_marks(S, n)
         IN  /\ e - 1 \in 0..(n - 1) /\ marked(P, e - 1)
             /\ before(P, 0, e - 1) = rank(e, S) - 1
             /\ rank(e, S) \in 1..Cardinality(S) /\ rank(e, S) \in 1..n
<1> DEFINE P == prefix_marks(S, n)
<1>1. /\ Prefixes(P, n) /\ P[1] = 0 /\ P[n + 1] = Cardinality(S)
      /\ \A i \in 0..(n - 1) : (marked(P, i) <=> i + 1 \in S) /\ rank(i + 1, S) = P[i + 2]
  BY PrefixMarks
<1> HIDE DEF P
<1>2. e - 1 \in 0..(n - 1) /\ (e - 1) + 1 = e /\ (e - 1) + 2 = e + 1 /\ 0 + (e - 1) + 1 = e
      /\ 0 + 1 = 1 /\ e \in 1..(n + 1) /\ e + 1 \in 1..(n + 1) /\ n + 1 \in (e + 1)..(n + 1)
      /\ e \in Nat /\ e <= n
  OBVIOUS
<1>3. marked(P, e - 1) /\ rank(e, S) = P[e + 1]
  <2>1. e - 1 \in 0..(n - 1) => (marked(P, e - 1) <=> (e - 1) + 1 \in S)
                                /\ rank((e - 1) + 1, S) = P[(e - 1) + 2]
    BY <1>1
  <2> QED BY <1>2, <2>1
<1>4. P[e + 1] = P[e] + 1
  BY <1>2, <1>3 DEF marked
<1>5. before(P, 0, e - 1) = P[e] - P[1]
  BY <1>2 DEF before
<1>6. P[e] \in 0..(e - 1) /\ P[n + 1] - P[e + 1] \in Nat
  <2>1. 1 \in 1..(n + 1) /\ e \in 1..(n + 1) /\ P[e] \in Nat
    BY <1>1, <1>2 DEF Prefixes
  <2>2. P[e] - P[1] \in 0..(e - 1)
    BY <1>1, <1>2, <2>1, PrefixGap
  <2>3. P[n + 1] - P[e + 1] \in 0..((n + 1) - (e + 1))
    BY <1>1, <1>2, PrefixGap
  <2> QED BY <1>1, <1>2, <2>1, <2>2, <2>3
<1>7. P[n + 1] \in Nat
  <2>1. n + 1 \in 1..(n + 1)
    OBVIOUS
  <2> QED BY <1>1, <2>1 DEF Prefixes
<1> QED BY <1>1, <1>2, <1>3, <1>4, <1>5, <1>6, <1>7 DEF P

\* Every rank is some marked slot's.
LEMMA RankTaken ==
  ASSUME NEW n \in Nat, NEW S \in SUBSET (1..n), NEW r \in 1..Cardinality(S)
  PROVE  \E e \in S : rank(e, S) = r
<1> DEFINE P == prefix_marks(S, n)
           reached == {k \in 1..(n + 1) : P[k] >= r}
<1>1. /\ Prefixes(P, n) /\ P[1] = 0 /\ P[n + 1] = Cardinality(S)
      /\ \A i \in 0..(n - 1) : (marked(P, i) <=> i + 1 \in S) /\ rank(i + 1, S) = P[i + 2]
  BY PrefixMarks
<1> HIDE DEF P
<1>2. \A k \in 1..(n + 1) : P[k] \in Nat
  BY <1>1 DEF Prefixes
<1>3. Min(reached) \in reached /\ \A x \in reached : Min(reached) <= x
  <2>1. reached \in SUBSET Nat
    OBVIOUS
  <2>2. n + 1 \in reached
    <3>1. n + 1 \in 1..(n + 1)
      OBVIOUS
    <3>2. P[n + 1] \in Nat
      BY <1>2, <3>1
    <3> QED BY <1>1, <3>1, <3>2
  <2> HIDE DEF reached
  <2> QED BY <2>1, <2>2, MinOfNat
<1> DEFINE k == Min(reached)
<1>4. k \in 1..(n + 1) /\ P[k] >= r
  BY <1>3
<1>5. k # 1
  BY <1>1, <1>4
<1>6. k - 1 \in 1..n /\ P[k - 1] < r
  <2>1. k - 1 \in 1..n /\ k - 1 \in 1..(n + 1) /\ k - 1 \notin reached
    <3> HIDE DEF reached
    <3> QED BY <1>3, <1>4, <1>5
  <2> HIDE DEF k
  <2>2. P[k - 1] \in Nat /\ r \in Nat
    BY <1>2, <2>1
  <2> QED BY <2>1, <2>2
<1> HIDE DEF k, reached
<1>7. P[k] = P[k - 1] \/ P[k] = P[k - 1] + 1
  <2>1. (k - 1) + 1 = k
    BY <1>4
  <2>2. P[(k - 1) + 1] = P[k - 1] \/ P[(k - 1) + 1] = P[k - 1] + 1
    BY <1>1, <1>6 DEF Prefixes
  <2> QED BY <2>1, <2>2
<1>8. P[k] = r /\ P[k] = P[k - 1] + 1
  <2>1. P[k] \in Nat /\ P[k - 1] \in Nat
    <3>1. k - 1 \in 1..(n + 1)
      BY <1>6
    <3> QED BY <1>2, <1>4, <3>1
  <2> QED BY <1>4, <1>6, <1>7, <2>1
<1>9. k - 1 \in S /\ rank(k - 1, S) = r
  <2> DEFINE i == k - 2
  <2>1. i \in 0..(n - 1) /\ i + 1 = k - 1 /\ i + 2 = k
    BY <1>4, <1>6
  <2> HIDE DEF i
  <2>2. marked(P, i)
    BY <1>8, <2>1 DEF marked
  <2> QED BY <1>1, <1>8, <2>1, <2>2
<1> QED BY <1>9
-----------------------------------------------------------------------------
(***************************************************************************)
(* Arrays of every length.                                                  *)
(***************************************************************************)

\* What both networks make of an array a whose slots S are marked: c compacted, d distributed.
Moves(a, n, S, c, d) ==
  /\ c = [k \in 1..n |-> c[k]] /\ \A k \in 1..n : \E j \in 1..n : c[k] = a[j]
  /\ d = [k \in 1..n |-> d[k]] /\ \A k \in 1..n : \E j \in 1..n : d[k] = a[j]
  /\ \A e \in S : c[rank(e, S)] = a[e] /\ d[e] = a[rank(e, S)]
  /\ \A k \in (1..n) \ S : \E j \in (Cardinality(S) + 1)..n : d[k] = a[j]

\* Both networks move what they should, and distribution fills the other slots with what is
\* behind the front.
LEMMA SourcesMove ==
  ASSUME NEW n \in Nat, n < 2^30, NEW S \in SUBSET (1..n), NEW a, DOMAIN a = 1..n, Len(a) = n
  PROVE  Moves(a, n, S, compact_payload(a, prefix_marks(S, n)),
                        distribute_payload(a, prefix_marks(S, n)))
<1> DEFINE P == prefix_marks(S, n)
           to(k) == compact_sources(P)[n][k]
           from(k) == distribute_sources(P)[n][k]
<1>1. CompactsAll(P, n) /\ InvertsAll(P, n)
  BY PrefixMarks, AllLengths
<1>2. Len(a) = n /\ DOMAIN a = 1..n
  OBVIOUS
<1>3. /\ compact_payload(a, P) = [k \in 1..n |-> a[to(k - 1) + 1]]
      /\ distribute_payload(a, P) = [k \in 1..n |-> a[from(k - 1) + 1]]
  <2> HIDE DEF P
  <2>1. /\ compact_payload(a, P) = [k \in DOMAIN a |-> a[compact_sources(P)[Len(a)][k - 1] + 1]]
        /\ distribute_payload(a, P) =
             [k \in DOMAIN a |-> a[distribute_sources(P)[Len(a)][k - 1] + 1]]
    BY PayloadSources
  <2> QED BY <1>2, <2>1, Zenon
<1>4. \A k \in 0..(n - 1) : to(k) \in 0..(n - 1) /\ from(to(k)) = k
  BY <1>1 DEF InvertsAll
<1>5. ASSUME NEW e \in S
      PROVE  /\ rank(e, S) \in 1..n /\ e \in 1..n
             /\ to(rank(e, S) - 1) = e - 1 /\ from(e - 1) = rank(e, S) - 1
  <2>1. /\ e - 1 \in 0..(n - 1) /\ marked(P, e - 1)
        /\ before(P, 0, e - 1) = rank(e, S) - 1 /\ rank(e, S) \in 1..n
    BY RankOfMarked
  <2> HIDE DEF P
  <2>2. to(rank(e, S) - 1) = e - 1
    BY <1>1, <2>1 DEF CompactsAll
  <2>3. rank(e, S) - 1 \in 0..(n - 1)
    BY <2>1
  <2>4. e \in 1..n
    OBVIOUS
  <2> HIDE DEF to, from
  <2> QED BY <1>4, <2>1, <2>2, <2>3, <2>4
<1> HIDE DEF P, to, from
<1>6. \A k \in 1..n : \E j \in 1..n : compact_payload(a, P)[k] = a[j]
  <2>1. ASSUME NEW k \in 1..n PROVE to(k - 1) + 1 \in 1..n
    <3>1. k - 1 \in 0..(n - 1)
      OBVIOUS
    <3>2. to(k - 1) \in 0..(n - 1)
      BY <1>4, <3>1
    <3> QED BY <3>2
  <2> QED BY <1>3, <2>1
<1>7. ASSUME NEW e \in S
      PROVE  /\ compact_payload(a, P)[rank(e, S)] = a[e]
             /\ distribute_payload(a, P)[e] = a[rank(e, S)]
  <2>1. (e - 1) + 1 = e /\ (rank(e, S) - 1) + 1 = rank(e, S)
    BY <1>5
  <2> DEFINE r == rank(e, S)
  <2>2. r \in 1..n /\ e \in 1..n /\ to(r - 1) = e - 1 /\ from(e - 1) = r - 1
    BY <1>5
  <2> HIDE DEF r
  <2>3. compact_payload(a, P)[r] = a[to(r - 1) + 1] /\ distribute_payload(a, P)[e] = a[from(e - 1) + 1]
    BY <1>3, <2>2
  <2> QED BY <2>1, <2>2, <2>3 DEF r
<1> DEFINE C == [k \in 0..(n - 1) |-> to(k)]
<1>8. ASSUME NEW k \in 0..(n - 1) PROVE \E j \in 0..(n - 1) : to(j) = k /\ from(k) = j
  <2>1. C \in Injection(0..(n - 1), 0..(n - 1))
    <3>1. C \in [0..(n - 1) -> 0..(n - 1)]
      BY <1>4
    <3>2. \A i, j \in 0..(n - 1) : C[i] = C[j] => i = j
      BY <1>4
    <3> HIDE DEF C
    <3> QED BY <3>1, <3>2 DEF Injection, IsInjective
  <2>2. C \in Surjection(0..(n - 1), 0..(n - 1))
    <3>1. IsFiniteSet(0..(n - 1))
      BY FS_Interval
    <3> HIDE DEF C
    <3> QED BY <2>1, <3>1, FS_Injection
  <2>3. PICK j \in 0..(n - 1) : C[j] = k
    <3> HIDE DEF C
    <3> QED BY <2>2 DEF Surjection
  <2> QED BY <1>4, <2>3
<1> HIDE DEF C
<1>9. \A k \in 1..n : \E j \in 1..n : distribute_payload(a, P)[k] = a[j]
  <2>1. ASSUME NEW k \in 1..n PROVE from(k - 1) + 1 \in 1..n
    <3>1. k - 1 \in 0..(n - 1)
      OBVIOUS
    <3>2. from(k - 1) \in 0..(n - 1)
      BY <1>8, <3>1
    <3> QED BY <3>2
  <2> QED BY <1>3, <2>1
<1>10. ASSUME NEW k \in (1..n) \ S
       PROVE  \E j \in (Cardinality(S) + 1)..n : distribute_payload(a, P)[k] = a[j]
  <2>1. PICK i \in 0..(n - 1) : to(i) = k - 1 /\ from(k - 1) = i
    <3>1. k - 1 \in 0..(n - 1)
      OBVIOUS
    <3> QED BY <1>8, <3>1
  <2>2. ~ (i + 1 <= Cardinality(S))
    <3> SUFFICES ASSUME i + 1 <= Cardinality(S) PROVE FALSE
      OBVIOUS
    <3>1. i + 1 \in 1..Cardinality(S)
      <4>1. Cardinality(S) \in Nat
        BY MarksFinite
      <4> QED BY <2>1, <4>1
    <3>2. PICK e \in S : rank(e, S) = i + 1
      BY <3>1, RankTaken
    <3>3. to((i + 1) - 1) = e - 1 /\ e \in 1..n
      BY <1>5, <3>2
    <3>4. (i + 1) - 1 = i
      BY <2>1
    <3>5. e = k
      BY <2>1, <3>3, <3>4
    <3> QED BY <3>5
  <2>3. distribute_payload(a, P)[k] = a[i + 1]
    BY <1>3, <2>1
  <2>4. i + 1 \in (Cardinality(S) + 1)..n
    <3>1. Cardinality(S) \in Nat
      BY MarksFinite
    <3> QED BY <2>1, <2>2, <3>1
  <2> QED BY <2>3, <2>4
<1>11. /\ compact_payload(a, P) = [k \in 1..n |-> compact_payload(a, P)[k]]
       /\ distribute_payload(a, P) = [k \in 1..n |-> distribute_payload(a, P)[k]]
  BY <1>3
<1> QED BY <1>6, <1>7, <1>9, <1>10, <1>11 DEF P, Moves
-----------------------------------------------------------------------------
\* The marks fit the array, and while it is compacted or waits for it the rank of an element
\* tells where it is.
Inv ==
  /\ phase \in {"filled", "compacted", "distributed"}
  /\ \E n \in 0..MaxArray :
       /\ kept \in SUBSET (1..n)
       /\ phase # "distributed" => arr \in [1..n -> Nat]
       /\ phase = "filled" => \A k \in 1..n : arr[k] = k
  /\ MovesInOrder

LEMMA Initialized == CompactionInit => Inv
<1> SUFFICES ASSUME CompactionInit PROVE Inv
  OBVIOUS
<1>1. PICK n \in 0..MaxArray :
        kept \in SUBSET (1..n) /\ arr = [k \in 1..n |-> k] /\ slots = {} /\ phase = "filled"
  BY DEF CompactionInit
<1>2. arr \in [1..n -> Nat] /\ \A k \in 1..n : arr[k] = k
  BY <1>1
<1> QED BY <1>1, <1>2 DEF Inv, MovesInOrder

LEMMA CompactStep ==
  ASSUME Inv, Compact
  PROVE  Inv'
<1>1. phase = "filled" /\ phase' = "compacted" /\ kept' = kept
  BY DEF Compact
<1>2. PICK n \in 0..MaxArray :
        kept \in SUBSET (1..n) /\ arr \in [1..n -> Nat] /\ \A k \in 1..n : arr[k] = k
  BY <1>1 DEF Inv
<1>3. n \in Nat /\ n < 2^30 /\ Len(arr) = n
  <2>1. 2^30 \in Nat
    BY PowerOfTwo
  <2> QED BY <1>2, <2>1, ArrayAssumption
<1>4. arr' = compact_payload(arr, prefix_marks(kept, n))
  BY <1>3 DEF Compact, compact_marks
<1>5. arr' \in [1..n -> Nat] /\ \A e \in kept : arr'[rank(e, kept)] = arr[e]
  <2>1. DOMAIN arr = 1..n
    BY <1>2
  <2>2. /\ arr' = [k \in 1..n |-> arr'[k]]
        /\ \A k \in 1..n : \E j \in 1..n : arr'[k] = arr[j]
        /\ \A e \in kept : arr'[rank(e, kept)] = arr[e]
    <3>1. Moves(arr, n, kept, arr', distribute_payload(arr, prefix_marks(kept, n)))
      BY <1>2, <1>3, <1>4, <2>1, SourcesMove
    <3> QED BY <3>1 DEF Moves
  <2>3. \A k \in 1..n : arr'[k] \in Nat
    BY <1>2, <2>2
  <2> QED BY <2>2, <2>3
<1>6. \A e \in kept : arr'[rank(e, kept)] = e
  BY <1>2, <1>5
<1>7. MovesInOrder'
  BY <1>1, <1>6 DEF MovesInOrder
<1> QED BY <1>1, <1>2, <1>5, <1>7 DEF Inv

LEMMA DistributeStep ==
  ASSUME Inv, Distribute
  PROVE  Inv'
<1>1. phase = "compacted" /\ phase' = "distributed" /\ kept' = kept
  BY DEF Distribute
<1>2. PICK n \in 0..MaxArray : kept \in SUBSET (1..n) /\ arr \in [1..n -> Nat]
  BY <1>1 DEF Inv
<1>3. n \in Nat /\ n < 2^30 /\ Len(arr) = n /\ DOMAIN arr = 1..n
  <2>1. 2^30 \in Nat
    BY PowerOfTwo
  <2> QED BY <1>2, <2>1, ArrayAssumption
<1>4. /\ slots' \in SUBSET (1..n) /\ Cardinality(slots') = Cardinality(kept)
      /\ arr' = distribute_payload(arr, prefix_marks(slots', n))
  BY <1>3 DEF Distribute, kSubset
<1>5. \A s \in slots' : arr'[s] = arr[rank(s, slots')]
  <2>1. Moves(arr, n, slots', compact_payload(arr, prefix_marks(slots', n)), arr')
    BY <1>2, <1>3, <1>4, SourcesMove
  <2> QED BY <2>1 DEF Moves
<1>6. ASSUME NEW s \in slots'
      PROVE  \E e \in kept : rank(e, kept) = rank(s, slots') /\ arr'[s] = e
  <2>1. rank(s, slots') \in 1..Cardinality(kept)
    BY <1>3, <1>4, RankOfMarked
  <2>2. PICK e \in kept : rank(e, kept) = rank(s, slots')
    BY <1>2, <1>3, <2>1, RankTaken
  <2>3. arr[rank(e, kept)] = e
    BY <1>1 DEF Inv, MovesInOrder
  <2> QED BY <1>5, <2>2, <2>3
<1>7. MovesInOrder'
  BY <1>1, <1>6 DEF MovesInOrder, rank
<1> QED BY <1>1, <1>2, <1>7 DEF Inv

\* compact_payload and distribute_payload keep the order of what they move, at every length:
\* the offsets at which the halves of a power of two meet, and that of the right part at other
\* lengths, bring the r-th marked element to slot r, and back to the r-th marked slot.
THEOREM NetworksMoveInOrder == CompactionSpec => []MovesInOrder
<1>1. Inv /\ [CompactionNext]_compaction_vars => Inv'
  <2> SUFFICES ASSUME Inv, [CompactionNext]_compaction_vars PROVE Inv'
    OBVIOUS
  <2>1. CASE Compact
    BY <2>1, CompactStep
  <2>2. CASE Distribute
    BY <2>2, DistributeStep
  <2>3. CASE UNCHANGED compaction_vars
    BY <2>3 DEF Inv, MovesInOrder, rank, compaction_vars
  <2> QED BY <2>1, <2>2, <2>3 DEF CompactionNext
<1>2. Inv => MovesInOrder
  BY DEF Inv
<1> QED BY Initialized, <1>1, <1>2, PTL DEF CompactionSpec
-----------------------------------------------------------------------------
(***************************************************************************)
(* Arrays of blocks, and what their real blocks hold.                       *)
(***************************************************************************)

RoutedBlock == [tag : Nat, key : Key \cup {"none"}, value : Nat, epoch : Nat]
Blocks(n)   == [1..n -> RoutedBlock]
values(b)   == [k \in DOMAIN b |-> b[k].value]

\* Every key's updates in one array are those in the other.
SameUpdates(a, b) == \A key \in Key : value_of(b, key) = value_of(a, key)

\* A block is made of its four parts.
LEMMA BlockParts ==
  ASSUME NEW b \in RoutedBlock
  PROVE  /\ b.tag \in Nat /\ b.key \in Key \cup {"none"} /\ b.value \in Nat /\ b.epoch \in Nat
         /\ b = [tag |-> b.tag, key |-> b.key, value |-> b.value, epoch |-> b.epoch]
BY DEF RoutedBlock

\* A key's updates in an array weigh what their values add up to.
LEMMA ValueIsWeight ==
  ASSUME NEW n \in Nat, NEW b \in Blocks(n), NEW key
  PROVE  /\ value_of(b, key) = weight(values(b), blocks_of(b, key))
         /\ blocks_of(b, key) = {k \in 1..n : b[k].tag # 0 /\ b[k].key = key}
         /\ blocks_of(b, key) \subseteq 1..n /\ IsFiniteSet(blocks_of(b, key))
         /\ \A k \in 1..n : values(b)[k] = b[k].value /\ b[k].value \in Nat
<1>1. DOMAIN b = 1..n
  BY DEF Blocks
<1>2. blocks_of(b, key) = {k \in 1..n : b[k].tag # 0 /\ b[k].key = key}
  BY <1>1 DEF blocks_of, ct_is_real
<1>3. blocks_of(b, key) \subseteq 1..n /\ IsFiniteSet(blocks_of(b, key))
  <2>1. blocks_of(b, key) \subseteq 1..n
    BY <1>2
  <2> QED BY <2>1, MarksFinite
<1>4. \A k \in 1..n : values(b)[k] = b[k].value /\ b[k].value \in Nat
  <2>1. \A k \in 1..n : b[k] \in RoutedBlock
    BY DEF Blocks
  <2> QED BY <1>1, <2>1, BlockParts DEF values
<1>5. value_of(b, key) = weight(values(b), blocks_of(b, key))
  BY DEF value_of, weight, values
<1> QED BY <1>2, <1>3, <1>4, <1>5

\* f gives each element of S another of T, and together all of T, with the same weight.
Renames(S, T, f, v, w) ==
  /\ \A x \in S : f[x] \in T /\ v[x] \in Nat /\ w[f[x]] = v[x]
  /\ \A y \in T : \E x \in S : y = f[x]
  /\ \A x, y \in S : f[x] = f[y] => x = y

\* What is renamed one for one weighs the same.
LEMMA RenamedWeight ==
  ASSUME NEW S, IsFiniteSet(S), NEW T, NEW f, NEW v, NEW w, Renames(S, T, f, v, w)
  PROVE  weight(w, T) = weight(v, S)
<1>1. \A x \in S : f[x] \in T /\ v[x] \in Nat /\ w[f[x]] = v[x]
  BY DEF Renames
<1>2. \A y \in T : \E x \in S : y = f[x]
  BY DEF Renames
<1>3. \A x, y \in S : f[x] = f[y] => x = y
  BY DEF Renames
<1> QED BY <1>1, <1>2, <1>3, WeightImage

\* f is where the real blocks of a are in b, which has no others.
Places(a, n, b, m, f) ==
  /\ \A k \in 1..n : a[k].tag # 0 => f[k] \in 1..m /\ b[f[k]] = a[k]
  /\ \A l \in 1..m : b[l].tag # 0 => \E k \in 1..n : a[k].tag # 0 /\ l = f[k]
  /\ \A k, l \in 1..n : a[k].tag # 0 /\ a[l].tag # 0 /\ f[k] = f[l] => k = l

\* Blocks that are the same in other places hold the same updates.
LEMMA SameBlocks ==
  ASSUME NEW n \in Nat, NEW m \in Nat, NEW a \in Blocks(n), NEW b \in Blocks(m), NEW f,
         Places(a, n, b, m, f)
  PROVE  SameUpdates(a, b)
<1>0. /\ \A k \in 1..n : a[k].tag # 0 => f[k] \in 1..m /\ b[f[k]] = a[k]
      /\ \A l \in 1..m : b[l].tag # 0 => \E k \in 1..n : a[k].tag # 0 /\ l = f[k]
      /\ \A k, l \in 1..n : a[k].tag # 0 /\ a[l].tag # 0 /\ f[k] = f[l] => k = l
  BY DEF Places
<1> SUFFICES ASSUME NEW key \in Key PROVE value_of(b, key) = value_of(a, key)
  BY DEF SameUpdates
<1> DEFINE S == blocks_of(a, key)
           T == blocks_of(b, key)
           v == values(a)
           w == values(b)
<1>1. /\ value_of(a, key) = weight(v, S) /\ IsFiniteSet(S)
      /\ S = {k \in 1..n : a[k].tag # 0 /\ a[k].key = key}
      /\ \A k \in 1..n : v[k] = a[k].value /\ a[k].value \in Nat
  BY ValueIsWeight
<1>2. /\ value_of(b, key) = weight(w, T)
      /\ T = {k \in 1..m : b[k].tag # 0 /\ b[k].key = key}
      /\ \A k \in 1..m : w[k] = b[k].value /\ b[k].value \in Nat
  BY ValueIsWeight
<1> HIDE DEF S, T, v, w
<1>3. \A x \in S : f[x] \in T /\ v[x] \in Nat /\ w[f[x]] = v[x]
  BY <1>0, <1>1, <1>2
<1>4. \A y \in T : \E x \in S : y = f[x]
  BY <1>0, <1>1, <1>2
<1>5. \A x, y \in S : f[x] = f[y] => x = y
  BY <1>0, <1>1
<1>6. weight(w, T) = weight(v, S)
  <2>1. IsFiniteSet(S)
    BY <1>1
  <2>2. Renames(S, T, f, v, w)
    BY <1>3, <1>4, <1>5 DEF Renames
  <2> QED BY <2>1, <2>2, RenamedWeight
<1> QED BY <1>1, <1>2, <1>6

\* In b, block j of a has taken over what block i of its key holds, which is now a dummy.
Merges(a, b, n, i, j) ==
  /\ i \in 1..n /\ j \in 1..n /\ i # j /\ a[i].key = a[j].key
  /\ a[i].tag # 0 /\ a[j].tag # 0 /\ b[i].tag = 0 /\ b[j].tag # 0 /\ b[j].key = a[j].key
  /\ b[j].value = a[i].value + a[j].value
  /\ \A l \in 1..n : l # i /\ l # j => b[l] = a[l]

\* Merging two blocks of a key keeps the updates.
LEMMA MergeKeeps ==
  ASSUME NEW n \in Nat, NEW a \in Blocks(n), NEW b \in Blocks(n),
         NEW i, NEW j, Merges(a, b, n, i, j)
  PROVE  SameUpdates(a, b)
<1>0. /\ i \in 1..n /\ j \in 1..n /\ i # j /\ a[i].key = a[j].key
      /\ a[i].tag # 0 /\ a[j].tag # 0 /\ b[i].tag = 0 /\ b[j].tag # 0 /\ b[j].key = a[j].key
      /\ b[j].value = a[i].value + a[j].value
      /\ \A l \in 1..n : l # i /\ l # j => b[l] = a[l]
  BY DEF Merges
<1> SUFFICES ASSUME NEW key \in Key PROVE value_of(b, key) = value_of(a, key)
  BY DEF SameUpdates
<1> DEFINE S == blocks_of(a, key)
           T == blocks_of(b, key)
           v == values(a)
           w == values(b)
<1>1. /\ value_of(a, key) = weight(v, S) /\ IsFiniteSet(S)
      /\ S = {k \in 1..n : a[k].tag # 0 /\ a[k].key = key}
      /\ \A k \in 1..n : v[k] = a[k].value /\ a[k].value \in Nat
  BY ValueIsWeight
<1>2. /\ value_of(b, key) = weight(w, T) /\ IsFiniteSet(T)
      /\ T = {k \in 1..n : b[k].tag # 0 /\ b[k].key = key}
      /\ \A k \in 1..n : w[k] = b[k].value /\ b[k].value \in Nat
  BY ValueIsWeight
<1> HIDE DEF S, T, v, w
<1>3. CASE key # a[j].key
  <2>1. S = T /\ \A x \in S : w[x] = v[x]
    BY <1>0, <1>1, <1>2, <1>3
  <2>2. weight(w, S) = weight(v, S)
    BY <1>1, <2>1, WeightEqual
  <2> QED BY <1>1, <1>2, <2>1, <2>2
<1>4. CASE key = a[j].key
  <2>1. i \in S /\ j \in S \ {i} /\ j \in T /\ T = S \ {i} /\ w[j] = v[i] + v[j]
    BY <1>0, <1>1, <1>2, <1>4
  <2> DEFINE R == S \ {i}
             U == R \ {j}
  <2>2. IsFiniteSet(R) /\ IsFiniteSet(U)
    BY <1>1, FS_Subset
  <2>3. \A x \in S : v[x] \in Nat
    BY <1>1
  <2>4. \A x \in T : w[x] \in Nat
    BY <1>2
  <2>5. weight(v, S) = v[i] + weight(v, R)
    BY <1>1, <2>1, <2>3, WeightRemove
  <2>6. weight(v, R) = v[j] + weight(v, U)
    <3>1. j \in R /\ \A x \in R : v[x] \in Nat
      BY <2>1, <2>3
    <3> HIDE DEF R
    <3> QED BY <2>2, <3>1, WeightRemove
  <2>7. weight(w, R) = w[j] + weight(w, U)
    <3>1. T = R
      BY <2>1
    <3> QED BY <2>1, <2>2, <2>4, <3>1, WeightRemove
  <2>8. weight(w, U) = weight(v, U)
    <3>1. \A x \in U : w[x] = v[x]
      BY <1>0, <1>1, <1>2
    <3> HIDE DEF U
    <3> QED BY <2>2, <3>1, WeightEqual
  <2>9. weight(v, U) \in Nat /\ v[i] \in Nat /\ v[j] \in Nat
    <3>1. \A x \in U : v[x] \in Nat
      BY <2>3
    <3> HIDE DEF U
    <3> QED BY <2>1, <2>2, <2>3, <3>1, WeightType
  <2>10. value_of(a, key) = v[i] + (v[j] + weight(v, U))
    BY <1>1, <2>5, <2>6
  <2>11. value_of(b, key) = (v[i] + v[j]) + weight(v, U)
    BY <1>2, <2>1, <2>7, <2>8
  <2> QED BY <2>9, <2>10, <2>11
<1> QED BY <1>3, <1>4
-----------------------------------------------------------------------------
(***************************************************************************)
(* The pass that reduces equal runs.                                        *)
(***************************************************************************)

pass_step(b, g, k) == IF k = 1 THEN started(b) ELSE reduce_step(g[k - 1], k)
Passes(b, g, n)    == g = [k \in 1..n |-> pass_step(b, g, k)]
pass_of(b)         == CHOOSE g : Passes(b, g, Len(b))

\* The pass over any array: reduce_equal_runs is a recursive function, which has a graph.
LEMMA PassExists ==
  ASSUME NEW b, NEW N \in Nat
  PROVE  \E g : Passes(b, g, N)
<1> DEFINE bad == {m \in 0..N : ~ \E g : Passes(b, g, m)}
<1> SUFFICES ASSUME bad # {} PROVE FALSE
  BY DEF bad
<1>1. Min(bad) \in bad /\ \A x \in bad : Min(bad) <= x
  <2>1. bad \in SUBSET Nat
    OBVIOUS
  <2> HIDE DEF bad
  <2> QED BY <2>1, MinOfNat
<1> DEFINE m == Min(bad)
<1>2. m \in 0..N /\ m \in bad
  BY <1>1
<1>3. m # 0
  <2> SUFFICES ASSUME m = 0 PROVE FALSE
    OBVIOUS
  <2> DEFINE g == [k \in 1..0 |-> {}]
  <2>1. Passes(b, g, 0)
    <3>1. \A h : [k \in 1..0 |-> pass_step(b, h, k)] = [k \in 1..0 |-> {}]
      <4>1. 1..0 = {}
        OBVIOUS
      <4> QED BY <4>1
    <3> QED BY <3>1 DEF Passes
  <2> QED BY <1>2, <2>1
<1>4. m - 1 \in 0..N /\ m - 1 \notin bad
  <2> HIDE DEF bad
  <2> QED BY <1>1, <1>2, <1>3
<1>5. PICK f : Passes(b, f, m - 1)
  BY <1>4
<1> HIDE DEF m
<1> DEFINE g == [k \in 1..m |-> IF k = m THEN pass_step(b, f, m) ELSE f[k]]
<1>6. ASSUME NEW k \in 1..m PROVE g[k] = pass_step(b, g, k)
  <2>1. k # 1 => k - 1 \in 1..m /\ k - 1 # m /\ g[k - 1] = f[k - 1]
    BY <1>2
  <2>2. pass_step(b, g, k) = pass_step(b, f, k)
    <3> HIDE DEF g
    <3> QED BY <2>1 DEF pass_step
  <2>3. CASE k = m
    <3>1. g[k] = pass_step(b, f, k)
      BY <2>3
    <3> HIDE DEF g
    <3> QED BY <2>2, <3>1
  <2>4. CASE k # m
    <3>1. k \in 1..(m - 1) /\ g[k] = f[k]
      BY <1>2, <2>4
    <3>2. f[k] = pass_step(b, f, k)
      BY <1>5, <3>1 DEF Passes
    <3> HIDE DEF g
    <3> QED BY <2>2, <3>1, <3>2
  <2> QED BY <2>3, <2>4
<1>7. Passes(b, g, m)
  <2>1. g = [k \in 1..m |-> g[k]]
    OBVIOUS
  <2> HIDE DEF g
  <2>2. [k \in 1..m |-> g[k]] = [k \in 1..m |-> pass_step(b, g, k)]
    BY <1>6, Zenon
  <2> QED BY <2>1, <2>2 DEF Passes
<1> HIDE DEF g
<1> QED BY <1>2, <1>7

\* The pass starts at the first block and takes one step for each of the others.
LEMMA PassSteps ==
  ASSUME NEW b, Len(b) \in Nat
  PROVE  /\ Passes(b, pass_of(b), Len(b))
         /\ reduce_equal_runs(b) = IF b = <<>> THEN <<>> ELSE pass_of(b)[Len(b)].blocks
<1>1. Passes(b, pass_of(b), Len(b))
  BY PassExists, Zenon DEF pass_of
<1>3. reduce_equal_runs(b) = IF b = <<>> THEN <<>> ELSE pass_of(b)[Len(b)].blocks
  BY Zenon DEF reduce_equal_runs, pass_of, Passes, pass_step
<1> QED BY <1>1, <1>3

\* What the pass has made of b after block k: nothing of the blocks ahead, of those behind
\* no two neighbours that are both real and of one key, and of every key the same updates.
Reduced(b, n, k, run) ==
  /\ run.blocks \in Blocks(n) /\ run.acc_val \in Nat /\ run.acc_epoch \in Nat
  /\ \A l \in 1..n : /\ run.blocks[l].key = b[l].key
                     /\ run.blocks[l].tag \in {0, b[l].tag}
                     /\ l > k => run.blocks[l] = b[l]
  /\ run.blocks[k].tag = b[k].tag
  /\ run.blocks[k].tag # 0 => run.acc_val = run.blocks[k].value
  /\ \A l \in 1..n : l < k /\ run.blocks[l].tag # 0 /\ b[l + 1].tag # 0 => b[l].key # b[l + 1].key
  /\ SameUpdates(b, run.blocks)

\* At the first block nothing has been merged.
LEMMA PassStarts ==
  ASSUME NEW n \in Nat \ {0}, NEW b \in Blocks(n)
  PROVE  Reduced(b, n, 1, started(b))
<1>1. 1 \in 1..n /\ DOMAIN b = 1..n /\ b # <<>>
  BY DEF Blocks
<1>2. \A l \in 1..n : b[l] \in RoutedBlock
  BY DEF Blocks
<1>3. /\ started(b).blocks = b
      /\ started(b).acc_val \in Nat /\ started(b).acc_epoch \in Nat
      /\ b[1].tag # 0 => started(b).acc_val = b[1].value
  BY <1>1, <1>2, BlockParts DEF started, ct_is_real
<1>4. SameUpdates(b, b)
  BY DEF SameUpdates
<1>5. \A l \in 1..n : ~ (l < 1)
  OBVIOUS
<1> QED BY <1>3, <1>4, <1>5 DEF Reduced

\* Each step of the pass merges a block with its neighbour or leaves both.
LEMMA PassGoesOn ==
  ASSUME NEW n \in Nat \ {0}, NEW b \in Blocks(n), NEW k \in 2..n, NEW run, Reduced(b, n, k - 1, run)
  PROVE  Reduced(b, n, k, reduce_step(run, k))
<1> DEFINE a == run.blocks
           j == k - 1
           on == a[k].key = a[j].key /\ a[k].tag # 0 /\ a[j].tag # 0
           value == IF on THEN run.acc_val + a[k].value ELSE a[k].value
           epoch == IF on THEN Min({run.acc_epoch, a[k].epoch}) ELSE a[k].epoch
           c == [a EXCEPT ![k].value = value, ![k].epoch = epoch,
                          ![j].tag = IF on THEN 0 ELSE @]
<1>1. /\ k \in 1..n /\ j \in 1..n /\ j # k /\ k > j /\ k = j + 1
      /\ \A l \in 1..n : (l > k => l > j) /\ (l < k => l < j \/ l = j)
  OBVIOUS
<1>2. /\ a \in Blocks(n) /\ run.acc_val \in Nat /\ run.acc_epoch \in Nat /\ DOMAIN a = 1..n
      /\ \A l \in 1..n : /\ a[l].key = b[l].key /\ a[l].tag \in {0, b[l].tag}
                         /\ l > j => a[l] = b[l]
                         /\ a[l] \in RoutedBlock /\ b[l] \in RoutedBlock
      /\ a[j].tag = b[j].tag
      /\ a[j].tag # 0 => run.acc_val = a[j].value
      /\ \A l \in 1..n : l < j /\ a[l].tag # 0 /\ b[l + 1].tag # 0 => b[l].key # b[l + 1].key
      /\ SameUpdates(b, a)
  BY DEF Reduced, Blocks
<1>3. a[k] = b[k]
  BY <1>1, <1>2
<1>4. CASE a[k].tag = 0
  <2>1. reduce_step(run, k) = run
    BY <1>4 DEF reduce_step, ct_is_real
  <2> HIDE DEF j, a
  <2>2. \A l \in 1..n : l < k /\ a[l].tag # 0 /\ b[l + 1].tag # 0 => b[l].key # b[l + 1].key
    <3> SUFFICES ASSUME NEW l \in 1..n, l < k, a[l].tag # 0, b[l + 1].tag # 0
                 PROVE  b[l].key # b[l + 1].key
      OBVIOUS
    <3>1. l # j
      BY <1>1, <1>3, <1>4
    <3> QED BY <1>1, <1>2, <3>1
  <2> QED BY <1>1, <1>2, <1>3, <1>4, <2>1, <2>2 DEF Reduced, a
<1>5. CASE a[k].tag # 0
  <2>1. reduce_step(run, k) = [blocks |-> c, acc_val |-> value, acc_epoch |-> epoch]
    BY <1>5 DEF reduce_step, same, ct_is_real, ct_identity_eq, Plus
  <2>2. value \in Nat /\ epoch \in Nat
    <3>1. a[k].value \in Nat /\ a[k].epoch \in Nat
      BY <1>1, <1>2, BlockParts
    <3>2. Min({run.acc_epoch, a[k].epoch}) \in Nat
      <4>1. run.acc_epoch \in Int /\ a[k].epoch \in Int
        BY <1>2, <3>1
      <4> HIDE DEF a
      <4> QED BY <1>2, <3>1, <4>1, MinOfTwo
    <3> QED BY <1>2, <3>1, <3>2
  <2>3. on => value = a[j].value + a[k].value
    BY <1>2
  <2> HIDE DEF value, epoch, on
  <2>4. /\ DOMAIN c = 1..n
        /\ c[k] = [[a[k] EXCEPT !.value = value] EXCEPT !.epoch = epoch]
        /\ c[j] = [a[j] EXCEPT !.tag = IF on THEN 0 ELSE @]
        /\ \A l \in 1..n : l # k /\ l # j => c[l] = a[l]
        /\ c = [l \in 1..n |-> c[l]]
    BY <1>1, <1>2
  <2> HIDE DEF c, a, j
  <2>5. /\ c[k] = [tag |-> a[k].tag, key |-> a[k].key, value |-> value, epoch |-> epoch]
        /\ c[j] = [tag |-> IF on THEN 0 ELSE a[j].tag, key |-> a[j].key,
                   value |-> a[j].value, epoch |-> a[j].epoch]
    <3>2. a[k] \in RoutedBlock /\ a[j] \in RoutedBlock
      BY <1>1, <1>2
    <3>3. c[k] = [tag |-> a[k].tag, key |-> a[k].key, value |-> value, epoch |-> epoch]
      <4> DEFINE x == a[k]
      <4>1. c[k] = [[x EXCEPT !.value = value] EXCEPT !.epoch = epoch]
            /\ x = [tag |-> x.tag, key |-> x.key, value |-> x.value, epoch |-> x.epoch]
        BY <2>4, <3>2, BlockParts
      <4> HIDE DEF x
      <4> QED BY <4>1 DEF x
    <3>4. c[j] = [tag |-> IF on THEN 0 ELSE a[j].tag, key |-> a[j].key,
                  value |-> a[j].value, epoch |-> a[j].epoch]
      <4> DEFINE x == a[j]
                 t == IF on THEN 0 ELSE x.tag
      <4>1. c[j] = [x EXCEPT !.tag = t]
            /\ x = [tag |-> x.tag, key |-> x.key, value |-> x.value, epoch |-> x.epoch]
        BY <2>4, <3>2, BlockParts
      <4> HIDE DEF x, t
      <4>2. c[j] = [tag |-> t, key |-> x.key, value |-> x.value, epoch |-> x.epoch]
        BY <4>1
      <4> QED BY <4>2 DEF x, t
    <3> QED BY <3>3, <3>4
  <2>6. /\ c[k].tag = a[k].tag /\ c[k].key = a[k].key /\ c[k].value = value
        /\ c[j].tag = (IF on THEN 0 ELSE a[j].tag) /\ c[j].key = a[j].key /\ c[j].value = a[j].value
    BY <2>5
  <2>7. c \in Blocks(n)
    <3>1. c[k] \in RoutedBlock
      BY <1>1, <1>2, <2>2, <2>5, BlockParts DEF RoutedBlock
    <3>2. c[j] \in RoutedBlock
      <4>1. (IF on THEN 0 ELSE a[j].tag) \in Nat
        BY <1>1, <1>2, BlockParts
      <4> QED BY <1>1, <1>2, <2>5, <4>1, BlockParts DEF RoutedBlock
    <3>3. \A l \in 1..n : c[l] \in RoutedBlock
      BY <1>2, <2>4, <3>1, <3>2
    <3> QED BY <2>4, <3>3 DEF Blocks
  <2>8. SameUpdates(a, c)
    <3>1. CASE on
      <4>1. /\ a[j].key = a[k].key /\ a[j].tag # 0 /\ a[k].tag # 0 /\ c[j].tag = 0 /\ c[k].tag # 0
            /\ c[k].key = a[k].key /\ c[k].value = a[j].value + a[k].value
        BY <1>5, <2>3, <2>6, <3>1 DEF on
      <4>2. \A l \in 1..n : l # j /\ l # k => c[l] = a[l]
        BY <2>4
      <4>3. Merges(a, c, n, j, k)
        BY <1>1, <4>1, <4>2 DEF Merges
      <4>4. a \in Blocks(n)
        BY <1>2
      <4> QED BY <2>7, <4>3, <4>4, MergeKeeps
    <3>2. CASE ~ on
      <4> DEFINE f == [l \in 1..n |-> l]
      <4>1. value = a[k].value
        BY <3>2 DEF value
      <4>2. \A l \in 1..n : /\ c[l].tag = a[l].tag /\ c[l].key = a[l].key /\ c[l].value = a[l].value
        BY <1>1, <2>4, <2>6, <3>2, <4>1
      <4> SUFFICES ASSUME NEW key \in Key PROVE value_of(c, key) = value_of(a, key)
        BY DEF SameUpdates
      <4> DEFINE S == blocks_of(a, key)
      <4>3. /\ value_of(a, key) = weight(values(a), S) /\ IsFiniteSet(S) /\ S \subseteq 1..n
            /\ S = {l \in 1..n : a[l].tag # 0 /\ a[l].key = key}
            /\ \A l \in 1..n : values(a)[l] = a[l].value
        BY <1>2, ValueIsWeight
      <4>4. /\ value_of(c, key) = weight(values(c), blocks_of(c, key))
            /\ blocks_of(c, key) = {l \in 1..n : c[l].tag # 0 /\ c[l].key = key}
            /\ \A l \in 1..n : values(c)[l] = c[l].value
        BY <2>7, ValueIsWeight
      <4> HIDE DEF S
      <4>5. blocks_of(c, key) = S
        BY <4>2, <4>3, <4>4
      <4>6. weight(values(c), S) = weight(values(a), S)
        <5>1. \A l \in S : values(c)[l] = values(a)[l]
          BY <4>2, <4>3, <4>4
        <5> QED BY <4>3, <5>1, WeightEqual
      <4> QED BY <4>3, <4>4, <4>5, <4>6
    <3> QED BY <3>1, <3>2
  <2>9. SameUpdates(b, c)
    BY <1>2, <2>8 DEF SameUpdates
  <2>10. \A l \in 1..n : /\ c[l].key = b[l].key /\ c[l].tag \in {0, b[l].tag}
                         /\ l > k => c[l] = b[l]
    <3> SUFFICES ASSUME NEW l \in 1..n
                 PROVE  c[l].key = b[l].key /\ c[l].tag \in {0, b[l].tag} /\ (l > k => c[l] = b[l])
      OBVIOUS
    <3>1. CASE l = k
      BY <1>2, <1>3, <2>6, <3>1
    <3>2. CASE l = j
      BY <1>1, <1>2, <2>6, <3>2
    <3>3. CASE l # k /\ l # j
      BY <1>1, <1>2, <2>4, <3>3
    <3> QED BY <3>1, <3>2, <3>3
  <2>11. \A l \in 1..n : l < k /\ c[l].tag # 0 /\ b[l + 1].tag # 0 => b[l].key # b[l + 1].key
    <3> SUFFICES ASSUME NEW l \in 1..n, l < k, c[l].tag # 0, b[l + 1].tag # 0
                 PROVE  b[l].key # b[l + 1].key
      OBVIOUS
    <3>1. CASE l = j
      <4>1. ~ on /\ a[j].tag # 0
        BY <2>6, <3>1
      <4>2. a[k].key # a[j].key
        BY <1>5, <4>1 DEF on
      <4> QED BY <1>1, <1>2, <1>3, <3>1, <4>2
    <3>2. CASE l # j
      <4>1. l < j /\ l # k /\ c[l] = a[l]
        BY <1>1, <2>4, <3>2
      <4> QED BY <1>2, <4>1
    <3> QED BY <3>1, <3>2
  <2>12. c[k].tag = b[k].tag /\ c[k].value = value
    BY <1>3, <2>6
  <2>13. /\ reduce_step(run, k).blocks = c /\ reduce_step(run, k).acc_val = value
         /\ reduce_step(run, k).acc_epoch = epoch
    BY <2>1
  <2> QED BY <2>2, <2>7, <2>9, <2>10, <2>11, <2>12, <2>13 DEF Reduced
<1> QED BY <1>4, <1>5

\* reduce_equal_runs keeps what every key has and leaves no two equal neighbours.
LEMMA PassReduces ==
  ASSUME NEW n \in Nat \ {0}, NEW b \in Blocks(n)
  PROVE  \E run : Reduced(b, n, n, run) /\ reduce_equal_runs(b) = run.blocks
<1>1. DOMAIN b = 1..n /\ Len(b) = n /\ b # <<>>
  BY DEF Blocks
<1> DEFINE g == pass_of(b)
           bad == {k \in 1..n : ~ Reduced(b, n, k, g[k])}
<1>2. Passes(b, g, n) /\ reduce_equal_runs(b) = g[n].blocks
  BY <1>1, PassSteps
<1>3. \A k \in 1..n : g[k] = pass_step(b, g, k)
  <2> HIDE DEF g
  <2> QED BY <1>2 DEF Passes
<1> HIDE DEF g
<1>4. bad = {}
  <2> SUFFICES ASSUME bad # {} PROVE FALSE
    OBVIOUS
  <2>1. Min(bad) \in bad /\ \A x \in bad : Min(bad) <= x
    <3>1. bad \in SUBSET Nat
      OBVIOUS
    <3> HIDE DEF bad
    <3> QED BY <3>1, MinOfNat
  <2> DEFINE k == Min(bad)
  <2>2. k \in 1..n /\ ~ Reduced(b, n, k, g[k])
    BY <2>1
  <2>3. k - 1 \in 1..n => k - 1 \notin bad
    <3> HIDE DEF bad
    <3> QED BY <2>1, <2>2
  <2> HIDE DEF k
  <2>4. k # 1
    <3>1. g[1] = started(b)
      <4>1. 1 \in 1..n
        OBVIOUS
      <4> QED BY <1>3, <4>1 DEF pass_step
    <3> QED BY <2>2, <3>1, PassStarts
  <2>5. k \in 2..n /\ k - 1 \in 1..n
    BY <2>2, <2>4
  <2>6. Reduced(b, n, k - 1, g[k - 1])
    BY <2>3, <2>5
  <2>7. g[k] = reduce_step(g[k - 1], k)
    BY <1>3, <2>2, <2>4 DEF pass_step
  <2> QED BY <2>2, <2>5, <2>6, <2>7, PassGoesOn
<1>5. Reduced(b, n, n, g[n])
  <2>1. n \in 1..n /\ n \notin bad
    BY <1>4
  <2> QED BY <2>1
<1> QED BY <1>2, <1>5
-----------------------------------------------------------------------------
(***************************************************************************)
(* The order of the sort keys.                                              *)
(***************************************************************************)

\* The sizes of the frontend: 2^30 blocks are beyond memory, tags are numbers.
FrontendSizes ==
  /\ ShardCount \in Nat \ {0}
  /\ SubBatchSize \in Nat /\ SubBatchSize < 2^30
  /\ SubQuotas \subseteq Nat /\ \A quota \in SubQuotas : ShardCount * quota < 2^30
  /\ LowBits \in Nat /\ ShardField \in Nat /\ RouteShift \in Nat
  /\ Prfs \subseteq [Key -> Nat]

\* The shard fits its field of the sort key.
ShardsFit == ShardCount <= 2^ShardField

\* Powers of two multiply.
LEMMA PowerOfSum ==
  ASSUME NEW a \in Nat, NEW b \in Nat
  PROVE  2^(a + b) = 2^a * 2^b
<1> DEFINE bad == {m \in 0..b : 2^(a + m) # 2^a * 2^m}
<1> SUFFICES ASSUME bad # {} PROVE FALSE
  <2>1. b \in 0..b
    OBVIOUS
  <2> QED BY <2>1
<1>1. Min(bad) \in bad /\ \A x \in bad : Min(bad) <= x
  <2>1. bad \in SUBSET Nat
    OBVIOUS
  <2> HIDE DEF bad
  <2> QED BY <2>1, MinOfNat
<1> DEFINE m == Min(bad)
<1>2. m \in 0..b /\ 2^(a + m) # 2^a * 2^m
  BY <1>1
<1>3. m # 0 => m - 1 \in 0..b /\ m - 1 \notin bad
  <2>1. m - 1 \in bad => m <= m - 1
    BY <1>1
  <2>2. m \in 0..b
    BY <1>2
  <2> HIDE DEF bad, m
  <2> QED BY <2>1, <2>2
<1> HIDE DEF m
<1>4. CASE m = 0
  <2>1. a + 0 = a /\ 2^0 = 1 /\ 2^a \in Nat
    BY PowerOfTwo
  <2> QED BY <1>2, <1>4, <2>1
<1>5. CASE m # 0
  <2> DEFINE l == m - 1
  <2>1. l \in Nat /\ l + 1 = m /\ a + l \in Nat /\ (a + l) + 1 = a + m
    BY <1>2, <1>5
  <2>2. 2^(a + l) = 2^a * 2^l
    BY <1>3, <1>5
  <2> HIDE DEF l
  <2>3. 2^a \in Nat /\ 2^l \in Nat /\ 2^m = 2 * 2^l /\ 2^(a + m) = 2 * 2^(a + l)
    BY <2>1, PowerOfTwo
  <2> DEFINE x == 2^a
             y == 2^l
  <2>4. 2^(a + m) = 2 * (x * y) /\ 2^m = 2 * y /\ x \in Nat /\ y \in Nat
    BY <2>2, <2>3
  <2> HIDE DEF x, y
  <2>5. 2 * (x * y) = x * (2 * y)
    BY <2>4
  <2> QED BY <1>2, <2>4, <2>5 DEF x
<1> QED BY <1>4, <1>5

\* shard_index_for_tag gives a shard.
LEMMA ShardOfTag ==
  ASSUME FrontendSizes, NEW t \in Nat
  PROVE  shard_index_for_tag(t) \in Nat /\ shard_index_for_tag(t) < ShardCount
         /\ shard_index_for_tag(t) \in Shard
<1>1. 2^RouteShift \in Nat \ {0} /\ ShardCount \in Nat \ {0}
  BY PowerOfTwo DEF FrontendSizes
<1>2. t \div 2^RouteShift \in Nat
  BY <1>1, Division
<1>3. shard_index_for_tag(t) \in 0..(ShardCount - 1)
  BY <1>1, <1>2, Division DEF shard_index_for_tag
<1> QED BY <1>1, <1>3 DEF Shard

\* A block's sort key with room for its shard.
LEMMA SortKeyParts ==
  ASSUME FrontendSizes, ShardsFit, NEW b \in RoutedBlock
  PROVE  LET w == 2^LowBits
             s == shard_index_for_tag(b.tag)
         IN  /\ w \in Nat \ {0} /\ s \in Nat /\ b.tag % w \in 0..(w - 1)
             /\ sort_key(b) = (2 * w) * s + (IF b.tag # 0 THEN 0 ELSE w) + (b.tag % w)
<1> DEFINE w == 2^LowBits
           s == shard_index_for_tag(b.tag)
           f == 2^ShardField
<1>1. LowBits \in Nat /\ ShardField \in Nat /\ ShardCount \in Nat /\ ShardCount <= f
      /\ LowBits + 1 \in Nat
  BY DEF FrontendSizes, ShardsFit
<1>2. b.tag \in Nat
  BY BlockParts
<1>3. s \in Nat /\ s < ShardCount
  BY <1>2, ShardOfTag
<1>4. w \in Nat \ {0} /\ 2^(LowBits + 1) = 2 * w /\ f \in Nat
  BY <1>1, PowerOfTwo
<1>5. 2^(LowBits + 1 + ShardField) = (2 * w) * f
  <2>1. 2^((LowBits + 1) + ShardField) = 2^(LowBits + 1) * f
    BY <1>1, PowerOfSum
  <2> QED BY <1>4, <2>1
<1>6. b.tag % w \in 0..(w - 1)
  BY <1>2, <1>4, Division
<1>7. sort_key(b) = ((s * (2 * w)) % ((2 * w) * f)) + (IF b.tag # 0 THEN 0 ELSE w) + (b.tag % w)
  BY <1>4, <1>5, Zenon DEF sort_key, ct_is_real
<1> HIDE DEF w, s, f
<1>8. (s * (2 * w)) % ((2 * w) * f) = (2 * w) * s
  <2> DEFINE u == 2 * w
             x == u * s
             m == u * f
  <2>1. u \in Nat \ {0} /\ s + 1 \in Int /\ f \in Int /\ s + 1 <= f
    BY <1>1, <1>3, <1>4
  <2>2. u * (s + 1) <= u * f
    <3> HIDE DEF u
    <3> QED BY <2>1, Monotone
  <2>3. u * (s + 1) = x + u /\ s * u = x /\ x \in Nat /\ m \in Nat
    <3> HIDE DEF u
    <3> QED BY <1>3, <1>4, <2>1
  <2> HIDE DEF x, m
  <2>4. m \in Nat \ {0} /\ x \in 0..(m - 1)
    <3>1. x + u <= m
      BY <2>2, <2>3 DEF m
    <3> HIDE DEF u
    <3> QED BY <2>1, <2>3, <3>1
  <2>5. (m * 0 + x) % m = x
    BY <2>4, Remainder
  <2>6. m * 0 + x = x
    BY <2>3
  <2>7. x % m = x
    BY <2>5, <2>6
  <2> HIDE DEF u
  <2>8. (s * u) % (u * f) = u * s
    BY <2>3, <2>7 DEF x, m
  <2> QED BY <2>8 DEF u
<1> QED BY <1>3, <1>4, <1>6, <1>7, <1>8 DEF w, s

\* Sort keys are numbers.
LEMMA SortKeyNumber ==
  ASSUME FrontendSizes, ShardsFit, NEW b \in RoutedBlock
  PROVE  sort_key(b) \in Int
<1> DEFINE w == 2^LowBits
           s == shard_index_for_tag(b.tag)
           d == IF b.tag # 0 THEN 0 ELSE w
           x == b.tag % w
<1>1. w \in Nat /\ s \in Nat /\ x \in Nat /\ sort_key(b) = (2 * w) * s + d + x
  BY SortKeyParts
<1>2. d \in Nat
  BY <1>1
<1> HIDE DEF w, s, d, x
<1> QED BY <1>1, <1>2

\* Of real blocks the shards ascend with the sort keys; equal sort keys have equal shards
\* and low bits, and no dummy has the sort key of a real block.
LEMMA SortKeyOrder ==
  ASSUME FrontendSizes, ShardsFit, NEW b \in RoutedBlock, NEW c \in RoutedBlock, b.tag # 0,
         sort_key(b) <= sort_key(c)
  PROVE  /\ c.tag # 0 => shard_index_for_tag(b.tag) <= shard_index_for_tag(c.tag)
         /\ sort_key(b) = sort_key(c) =>
              /\ c.tag # 0
              /\ shard_index_for_tag(b.tag) = shard_index_for_tag(c.tag)
              /\ b.tag % 2^LowBits = c.tag % 2^LowBits
<1> DEFINE w == 2^LowBits
           s == shard_index_for_tag(b.tag)
           t == shard_index_for_tag(c.tag)
           x == b.tag % w
           y == c.tag % w
           d == IF c.tag # 0 THEN 0 ELSE w
           u == 2 * w
<1>1. /\ w \in Nat \ {0} /\ s \in Nat /\ x \in 0..(w - 1)
      /\ sort_key(b) = u * s + 0 + x
  BY SortKeyParts
<1>2. /\ t \in Nat /\ y \in 0..(w - 1) /\ sort_key(c) = u * t + d + y
  BY SortKeyParts
<1>3. d \in {0, w} /\ (d = 0 => c.tag # 0) /\ (c.tag # 0 => d = 0)
  BY <1>1
<1> HIDE DEF w, s, t, x, y, d
<1>4. d + y \in Nat /\ d + y < u /\ u \in Nat /\ x < u /\ x \in Nat
  BY <1>1, <1>2, <1>3
<1> HIDE DEF u
<1>5. u * s + x <= u * t + (d + y)
  BY <1>1, <1>2, <1>3, <1>4
<1>6. s <= t
  <2> SUFFICES ASSUME t + 1 <= s PROVE FALSE
    BY <1>1, <1>2
  <2>1. u * (t + 1) <= u * s
    BY <1>1, <1>2, <1>4, Monotone
  <2>2. u * (t + 1) = u * t + u /\ u * t \in Nat /\ u * s \in Nat
    BY <1>1, <1>2, <1>4
  <2> DEFINE ut == u * t
             us == u * s
  <2> HIDE DEF ut, us
  <2>3. us + x <= ut + (d + y) /\ ut + u <= us /\ ut \in Nat /\ us \in Nat
    BY <1>5, <2>1, <2>2 DEF ut, us
  <2> QED BY <1>4, <2>3
<1>7. ASSUME sort_key(b) = sort_key(c) PROVE c.tag # 0 /\ s = t /\ x = y
  <2>1. t <= s
    <3> SUFFICES ASSUME s + 1 <= t PROVE FALSE
      BY <1>1, <1>2
    <3>1. u * (s + 1) <= u * t
      BY <1>1, <1>2, <1>4, Monotone
    <3>2. u * (s + 1) = u * s + u /\ u * t \in Nat /\ u * s \in Nat
      BY <1>1, <1>2, <1>4
    <3> DEFINE ut == u * t
               us == u * s
    <3> HIDE DEF ut, us
    <3>3. us + x = ut + (d + y) /\ us + u <= ut /\ ut \in Nat /\ us \in Nat
      <4>1. us + 0 + x = ut + d + y
        BY <1>1, <1>2, <1>7 DEF ut, us
      <4>2. ut \in Nat /\ us \in Nat
        BY <3>2 DEF ut, us
      <4>3. us + u <= ut
        BY <3>1, <3>2 DEF ut, us
      <4> QED BY <1>1, <1>2, <1>3, <4>1, <4>2, <4>3
    <3> QED BY <1>4, <3>3
  <2>2. s = t
    BY <1>1, <1>2, <1>6, <2>1
  <2>3. x = d + y
    <3> DEFINE us == u * s
    <3>1. us + 0 + x = us + d + y /\ us \in Nat
      BY <1>1, <1>2, <1>4, <1>7, <2>2
    <3> HIDE DEF us
    <3> QED BY <1>1, <1>2, <1>3, <3>1
  <2> QED BY <1>1, <1>2, <1>3, <2>2, <2>3
<1> QED BY <1>6, <1>7 DEF s, t, w, x, y

\* What ascends from each element to the next ascends.
Ascends(g, n) == \A k, l \in 1..n : k <= l => g[k] <= g[l]

LEMMA StepsAscend ==
  ASSUME NEW n \in Nat, NEW g \in [1..n -> Int], \A k \in 2..n : g[k - 1] <= g[k]
  PROVE  Ascends(g, n)
<1> SUFFICES ASSUME NEW k \in 1..n PROVE \A l \in 1..n : k <= l => g[k] <= g[l]
  BY DEF Ascends
<1> DEFINE bad == {l \in 1..n : k <= l /\ ~ (g[k] <= g[l])}
<1> SUFFICES ASSUME bad # {} PROVE FALSE
  OBVIOUS
<1>1. Min(bad) \in bad /\ \A x \in bad : Min(bad) <= x
  <2>1. bad \in SUBSET Nat
    OBVIOUS
  <2> HIDE DEF bad
  <2> QED BY <2>1, MinOfNat
<1> DEFINE m == Min(bad)
<1>2. m \in 1..n /\ k <= m /\ ~ (g[k] <= g[m])
  BY <1>1
<1>3. m # k
  BY <1>2
<1>4. m - 1 \in 1..n /\ k <= m - 1 /\ m \in 2..n /\ m - 1 \notin bad
  <2>1. m - 1 \in bad => m <= m - 1
    BY <1>1
  <2> HIDE DEF bad, m
  <2> QED BY <1>2, <1>3, <2>1
<1>5. g[k] <= g[m - 1]
  BY <1>4
<1> HIDE DEF m
<1>6. g[m - 1] <= g[m] /\ g[m - 1] \in Int /\ g[m] \in Int /\ g[k] \in Int
  BY <1>2, <1>4
<1> QED BY <1>2, <1>5, <1>6
-----------------------------------------------------------------------------
(***************************************************************************)
(* The frontend's stages.                                                   *)
(***************************************************************************)

\* Real blocks are of keys of the sub-batch, with the tags of their keys.
Known(b, n) ==
  \A k \in 1..n :
    b[k].tag # 0 =>
      b[k].key \in Key /\ b[k].tag = prf[b[k].key] /\ blocks_of(batch_slice, b[k].key) # {}

\* The real blocks are in the order of their shards.
ShardsAscend(b, n) ==
  \A k, l \in 1..n :
    k < l /\ b[k].tag # 0 /\ b[l].tag # 0 =>
      shard_index_for_tag(b[k].tag) <= shard_index_for_tag(b[l].tag)

\* A key has two real blocks only if the sort can mistake it for another.
RepeatsShareSortKeys(b, n) ==
  \A k, l \in 1..n :
    k < l /\ b[k].tag # 0 /\ b[l].tag # 0 /\ b[k].key = b[l].key => shares_sort_key(b[k].key)

\* What the stages from the reduction on keep of the blocks.
Kept(b, n) ==
  /\ b \in Blocks(n) /\ Known(b, n) /\ SameUpdates(batch_slice, b)
  /\ ShardsFit => ShardsAscend(b, n) /\ RepeatsShareSortKeys(b, n)

\* The sub-batch.
Taken ==
  /\ prf \in [Key -> Nat]
  /\ batch_slice \in Blocks(SubBatchSize) /\ Known(batch_slice, SubBatchSize)

\* The places of the real blocks of a, in order, in b, which has no others.
Carries(a, n, b, m, f) ==
  /\ \A k \in 1..n : a[k].tag # 0 => f[k] \in 1..m /\ b[f[k]] = a[k]
  /\ \A l \in 1..m : b[l].tag # 0 => \E k \in 1..n : a[k].tag # 0 /\ l = f[k]
  /\ \A k, l \in 1..n : a[k].tag # 0 /\ a[l].tag # 0 /\ k < l => f[k] < f[l]

\* Moving the real blocks in order keeps what is kept of them.
LEMMA CarriedBlocksKept ==
  ASSUME NEW n \in Nat, NEW m \in Nat, NEW a, Kept(a, n), NEW b \in Blocks(m),
         NEW f, Carries(a, n, b, m, f)
  PROVE  Kept(b, m)
<1>1. a \in Blocks(n) /\ Known(a, n) /\ SameUpdates(batch_slice, a)
  BY DEF Kept
<1>2. \A k \in 1..n : a[k].tag # 0 => f[k] \in 1..m /\ b[f[k]] = a[k]
  BY DEF Carries
<1>3. \A l \in 1..m : b[l].tag # 0 => \E k \in 1..n : a[k].tag # 0 /\ l = f[k]
  BY DEF Carries
<1>4. ASSUME NEW k \in 1..n, NEW l \in 1..n, a[k].tag # 0, a[l].tag # 0
      PROVE  (k < l => f[k] < f[l]) /\ (f[k] < f[l] => k < l) /\ (f[k] = f[l] => k = l)
  <2>1. (k < l => f[k] < f[l]) /\ (l < k => f[l] < f[k])
    BY <1>4 DEF Carries
  <2>2. f[k] \in Int /\ f[l] \in Int /\ (k < l \/ l < k \/ k = l)
    BY <1>2, <1>4
  <2> QED BY <2>1, <2>2
<1>5. SameUpdates(a, b)
  <2>1. \A k, l \in 1..n : a[k].tag # 0 /\ a[l].tag # 0 /\ f[k] = f[l] => k = l
    BY <1>4
  <2>2. Places(a, n, b, m, f)
    BY <1>2, <1>3, <2>1 DEF Places
  <2> QED BY <1>1, <2>2, SameBlocks
<1>6. SameUpdates(batch_slice, b)
  BY <1>1, <1>5 DEF SameUpdates
<1>7. Known(b, m)
  BY <1>1, <1>2, <1>3 DEF Known
<1>8. ASSUME ShardsFit PROVE ShardsAscend(b, m) /\ RepeatsShareSortKeys(b, m)
  <2>1. ShardsAscend(a, n) /\ RepeatsShareSortKeys(a, n)
    BY <1>8 DEF Kept
  <2>2. ASSUME NEW i \in 1..m, NEW j \in 1..m, i < j, b[i].tag # 0, b[j].tag # 0
        PROVE  \E k, l \in 1..n : /\ k < l /\ a[k].tag # 0 /\ a[l].tag # 0
                                  /\ b[i] = a[k] /\ b[j] = a[l]
    <3>1. PICK k \in 1..n : a[k].tag # 0 /\ i = f[k]
      BY <1>3, <2>2
    <3>2. PICK l \in 1..n : a[l].tag # 0 /\ j = f[l]
      BY <1>3, <2>2
    <3>3. k < l
      BY <1>4, <2>2, <3>1, <3>2
    <3>4. b[i] = a[k] /\ b[j] = a[l]
      BY <1>2, <3>1, <3>2
    <3> QED BY <3>1, <3>2, <3>3, <3>4
  <2>3. ShardsAscend(b, m)
    BY <2>1, <2>2 DEF ShardsAscend
  <2>4. RepeatsShareSortKeys(b, m)
    BY <2>1, <2>2 DEF RepeatsShareSortKeys
  <2> QED BY <2>3, <2>4
<1> QED BY <1>6, <1>7, <1>8 DEF Kept

\* The sort keys ascend.
SortedBlocks(b, n) == \A k, l \in 1..n : k <= l => sort_key(b[k]) <= sort_key(b[l])

\* An order in which the sort keys ascend from each block to the next.
LEMMA BatchSorted ==
  ASSUME FrontendSizes, Taken, NEW order \in Orders, NEW b,
         b = [k \in 1..SubBatchSize |-> batch_slice[order[k]]],
         \A k \in 2..SubBatchSize : sort_key(b[k - 1]) <= sort_key(b[k])
  PROVE  /\ b \in Blocks(SubBatchSize) /\ Known(b, SubBatchSize) /\ SameUpdates(batch_slice, b)
         /\ ShardsFit => SortedBlocks(b, SubBatchSize)
<1> DEFINE n == SubBatchSize
<1>1. n \in Nat /\ batch_slice \in Blocks(n) /\ Known(batch_slice, n)
  BY DEF Taken, FrontendSizes
<1>2. order \in [1..n -> 1..n] /\ \A l \in 1..n : \E k \in 1..n : order[k] = l
  BY DEF Orders, Bijection, Surjection
<1>3. \A k \in 1..n : order[k] \in 1..n /\ b[k] = batch_slice[order[k]]
  BY <1>2
<1>4. b \in Blocks(n)
  BY <1>1, <1>3 DEF Blocks
<1>5. Known(b, n)
  BY <1>1, <1>3 DEF Known
<1>6. \A k, l \in 1..n : order[k] = order[l] => k = l
  BY DEF Orders, Bijection, Injection, IsInjective
<1>7. SameUpdates(b, batch_slice)
  <2>1. \A k \in 1..n : b[k].tag # 0 => order[k] \in 1..n /\ batch_slice[order[k]] = b[k]
    BY <1>3
  <2>2. \A l \in 1..n : batch_slice[l].tag # 0 => \E k \in 1..n : b[k].tag # 0 /\ l = order[k]
    BY <1>2, <1>3
  <2>3. \A k, l \in 1..n : b[k].tag # 0 /\ b[l].tag # 0 /\ order[k] = order[l] => k = l
    BY <1>6
  <2> HIDE DEF n
  <2>4. n \in Nat /\ batch_slice \in Blocks(n)
    BY <1>1
  <2>5. Places(b, n, batch_slice, n, order)
    BY <2>1, <2>2, <2>3 DEF Places
  <2> QED BY <1>4, <2>4, <2>5, SameBlocks
<1>8. SameUpdates(batch_slice, b)
  BY <1>7 DEF SameUpdates
<1>9. ASSUME ShardsFit PROVE SortedBlocks(b, n)
  <2> DEFINE g == [k \in 1..n |-> sort_key(b[k])]
  <2>1. ASSUME NEW k \in 1..n PROVE sort_key(b[k]) \in Int
    <3>1. b[k] \in RoutedBlock
      BY <1>4 DEF Blocks
    <3> QED BY <1>9, <3>1, SortKeyNumber
  <2>2. g \in [1..n -> Int]
    BY <2>1
  <2>3. \A k \in 2..n : g[k - 1] <= g[k]
    <3>1. \A k \in 2..n : k - 1 \in 1..n /\ k \in 1..n
      BY <1>1
    <3> QED BY <3>1
  <2>4. Ascends(g, n)
    <3> HIDE DEF g
    <3> QED BY <1>1, <2>2, <2>3, StepsAscend
  <2> QED BY <2>4 DEF Ascends, SortedBlocks
<1> QED BY <1>4, <1>5, <1>8, <1>9

\* The reduction of blocks in the order of their sort keys: each shard's are together, and only
\* a key of the same sort key can lie between two blocks of a key.
LEMMA ReducedKept ==
  ASSUME FrontendSizes, Taken, NEW n \in Nat \ {0}, NEW b \in Blocks(n), Known(b, n),
         SameUpdates(batch_slice, b), ShardsFit => SortedBlocks(b, n),
         NEW run, Reduced(b, n, n, run)
  PROVE  Kept(run.blocks, n)
<1> DEFINE r == run.blocks
<1>1. /\ r \in Blocks(n) /\ SameUpdates(b, r)
      /\ \A l \in 1..n : r[l].key = b[l].key /\ r[l].tag \in {0, b[l].tag}
      /\ \A l \in 1..n : l < n /\ r[l].tag # 0 /\ b[l + 1].tag # 0 => b[l].key # b[l + 1].key
  BY DEF Reduced
<1> HIDE DEF r
<1>2. \A l \in 1..n : r[l].tag # 0 => r[l].tag = b[l].tag /\ b[l].tag # 0
  BY <1>1
<1>3. Known(r, n)
  BY <1>1, <1>2 DEF Known
<1>4. SameUpdates(batch_slice, r)
  BY <1>1 DEF SameUpdates
<1>5. \A l \in 1..n : b[l] \in RoutedBlock
  BY DEF Blocks
<1>6. ASSUME ShardsFit PROVE ShardsAscend(r, n) /\ RepeatsShareSortKeys(r, n)
  <2>1. \A k, l \in 1..n : k <= l => sort_key(b[k]) <= sort_key(b[l])
    BY <1>6 DEF SortedBlocks
  <2>2. ShardsAscend(r, n)
    <3> SUFFICES ASSUME NEW k \in 1..n, NEW l \in 1..n, k < l, r[k].tag # 0, r[l].tag # 0
                 PROVE  shard_index_for_tag(r[k].tag) <= shard_index_for_tag(r[l].tag)
      BY DEF ShardsAscend
    <3>1. sort_key(b[k]) <= sort_key(b[l]) /\ b[k].tag # 0 /\ b[l].tag # 0
      BY <1>2, <2>1
    <3>2. shard_index_for_tag(b[k].tag) <= shard_index_for_tag(b[l].tag)
      BY <1>5, <1>6, <3>1, SortKeyOrder
    <3> QED BY <1>2, <3>2
  <2>3. RepeatsShareSortKeys(r, n)
    <3> SUFFICES ASSUME NEW k \in 1..n, NEW l \in 1..n, k < l, r[k].tag # 0, r[l].tag # 0,
                        r[k].key = r[l].key
                 PROVE  shares_sort_key(r[k].key)
      BY DEF RepeatsShareSortKeys
    <3> DEFINE p == k + 1
               key == r[k].key
    <3>1. p \in 1..n /\ k < n /\ k <= p /\ p <= l
      OBVIOUS
    <3> HIDE DEF p
    <3>2. /\ b[k].tag # 0 /\ b[l].tag # 0 /\ b[k].key = key /\ b[l].key = key
          /\ key \in Key /\ b[k].tag = prf[key] /\ b[l].tag = prf[key]
      BY <1>1, <1>2 DEF Known
    <3> HIDE DEF key
    <3>3. sort_key(b[k]) = sort_key(b[l])
      BY <3>2 DEF sort_key, ct_is_real
    <3>4. sort_key(b[k]) = sort_key(b[p])
      <4>1. sort_key(b[k]) <= sort_key(b[p]) /\ sort_key(b[p]) <= sort_key(b[l])
        BY <2>1, <3>1
      <4>2. sort_key(b[k]) \in Int /\ sort_key(b[p]) \in Int
        BY <1>5, <1>6, <3>1, SortKeyNumber
      <4> QED BY <3>3, <4>1, <4>2
    <3>5. /\ b[p].tag # 0
          /\ shard_index_for_tag(b[k].tag) = shard_index_for_tag(b[p].tag)
          /\ b[k].tag % 2^LowBits = b[p].tag % 2^LowBits
      <4>1. sort_key(b[k]) <= sort_key(b[p])
        BY <2>1, <3>1
      <4> QED BY <1>5, <1>6, <3>1, <3>2, <3>4, <4>1, SortKeyOrder
    <3>6. b[p].key # key
      BY <1>1, <3>1, <3>2, <3>5 DEF p
    <3>7. /\ b[p].key \in Key \ {key} /\ blocks_of(batch_slice, b[p].key) # {}
          /\ b[p].tag = prf[b[p].key]
      BY <3>1, <3>5, <3>6 DEF Known
    <3> DEFINE other == b[p].key
    <3>8. /\ other \in Key \ {key} /\ blocks_of(batch_slice, other) # {}
          /\ shard_index_for_tag(prf[other]) = shard_index_for_tag(prf[key])
          /\ prf[other] % 2^LowBits = prf[key] % 2^LowBits
      BY <3>2, <3>5, <3>7
    <3> HIDE DEF other
    <3>9. shares_sort_key(key)
      BY <3>8 DEF shares_sort_key
    <3> QED BY <3>9 DEF key
  <2> QED BY <2>2, <2>3
<1> QED BY <1>1, <1>3, <1>4, <1>6 DEF Kept, r

\* sort_reduce_compact up to its compaction keeps every update, of all the orders of a sort.
LEMMA SortReduceKeeps ==
  ASSUME FrontendSizes, Taken, SortReduce
  PROVE  Kept(router_blocks', SubBatchSize)
<1> DEFINE n == SubBatchSize
<1>1. n \in Nat /\ batch_slice \in Blocks(n) /\ DOMAIN batch_slice = 1..n
  BY DEF Taken, FrontendSizes, Blocks
<1>2. PICK order \in Orders :
        LET sorted == [k \in 1..n |-> batch_slice[order[k]]]
        IN  /\ \A k \in 2..Len(sorted) : sort_key(sorted[k - 1]) <= sort_key(sorted[k])
            /\ router_blocks' = reduce_equal_runs(sorted)
  BY <1>1 DEF SortReduce
<1> DEFINE b == [k \in 1..n |-> batch_slice[order[k]]]
<1>3. Len(b) = n
  BY <1>1
<1>4. /\ \A k \in 2..n : sort_key(b[k - 1]) <= sort_key(b[k])
      /\ router_blocks' = reduce_equal_runs(b)
  BY <1>2, <1>3
<1>5. b = [k \in 1..SubBatchSize |-> batch_slice[order[k]]]
  OBVIOUS
<1> HIDE DEF b
<1>6. b \in Blocks(n) /\ Known(b, n) /\ SameUpdates(batch_slice, b) /\ (ShardsFit => SortedBlocks(b, n))
  BY <1>4, <1>5, BatchSorted
<1>7. CASE n # 0
  <2>1. PICK run : Reduced(b, n, n, run) /\ reduce_equal_runs(b) = run.blocks
    BY <1>1, <1>6, <1>7, PassReduces
  <2>2. Kept(run.blocks, n)
    <3> HIDE DEF n
    <3> QED BY <1>1, <1>6, <1>7, <2>1, ReducedKept
  <2> QED BY <1>4, <2>1, <2>2
<1>8. CASE n = 0
  <2>1. \A k, l \in 1..n : FALSE
    BY <1>8
  <2>2. b = <<>> /\ reduce_equal_runs(b) = b
    <3>1. DOMAIN b = {} /\ b = [k \in DOMAIN b |-> b[k]]
      BY <1>6, <1>8 DEF Blocks
    <3>2. b = <<>>
      BY <1>5, <1>8
    <3> QED BY <3>2 DEF reduce_equal_runs
  <2>3. Kept(b, n)
    BY <1>6, <2>1 DEF Kept, ShardsAscend, RepeatsShareSortKeys
  <2> QED BY <1>4, <2>2, <2>3
<1> QED BY <1>7, <1>8

\* A marked slot behind another has the larger rank.
LEMMA RankGrows ==
  ASSUME NEW n \in Nat, NEW S \in SUBSET (1..n), NEW d \in S, NEW e \in S, d < e
  PROVE  rank(d, S) < rank(e, S)
<1> DEFINE P == prefix_marks(S, n)
<1>1. Prefixes(P, n) /\ \A i \in 0..(n - 1) : (marked(P, i) <=> i + 1 \in S) /\ rank(i + 1, S) = P[i + 2]
  BY PrefixMarks
<1> HIDE DEF P
<1>2. ASSUME NEW x \in S PROVE rank(x, S) = P[x + 1] /\ P[x + 1] = P[x] + 1
  <2> DEFINE i == x - 1
  <2>1. i \in 0..(n - 1) /\ i + 1 = x /\ i + 2 = x + 1
    OBVIOUS
  <2> HIDE DEF i
  <2>2. marked(P, i) /\ rank(i + 1, S) = P[i + 2]
    BY <1>1, <2>1
  <2> QED BY <2>1, <2>2 DEF marked
<1>3. d + 1 \in 1..(n + 1) /\ e \in (d + 1)..(n + 1)
  OBVIOUS
<1>4. P[d + 1] \in Nat /\ P[e] \in Nat /\ P[e] - P[d + 1] \in 0..(e - (d + 1))
  BY <1>1, <1>3, PrefixGap
<1>5. P[d + 1] <= P[e]
  BY <1>4
<1> QED BY <1>2, <1>4, <1>5

\* Compaction leaves the real blocks, in order, in the first reduced_len slots.
Compacted(b, n, len) == len \in 0..n /\ \A k \in 1..n : b[k].tag # 0 <=> k <= len

\* The compaction of the real blocks and its cut lose none of them.
LEMMA CompactRealsKeeps ==
  ASSUME FrontendSizes, Taken, Kept(router_blocks, SubBatchSize), CompactReals
  PROVE  /\ Kept(router_blocks', SubBatchSize)
         /\ Compacted(router_blocks', SubBatchSize, reduced_len')
<1> DEFINE n == SubBatchSize
           r == router_blocks
           S == {k \in 1..n : r[k].tag # 0}
           P == prefix_marks(S, n)
           a == compact_payload(r, P)
           d == distribute_payload(r, P)
           c == router_blocks'
           f == [k \in 1..n |-> rank(k, S)]
           len == Cardinality(S)
<1>1. n \in Nat /\ n < 2^30 /\ r \in Blocks(n) /\ DOMAIN r = 1..n /\ Len(r) = n
      /\ S \in SUBSET (1..n)
  BY DEF FrontendSizes, Kept, Blocks
<1>2. real_blocks(r) = S /\ compact_marks(r, S) = P
  BY <1>1 DEF real_blocks, ct_is_real, compact_marks
<1>3. Len(P) = n + 1 /\ P[n + 1] = len
  <2>1. Prefixes(P, n) /\ P[n + 1] = len
    BY <1>1, PrefixMarks
  <2> QED BY <2>1 DEF Prefixes
<1>4. reduced_len' = len /\ c = blanked(a, len)
  <2>1. /\ reduced_len' = compact_marks(r, real_blocks(r))[Len(compact_marks(r, real_blocks(r)))]
        /\ c = blanked(compact_payload(r, compact_marks(r, real_blocks(r))), reduced_len')
    BY DEF CompactReals
  <2> HIDE DEF S, P, c, len, r
  <2> QED BY <1>2, <1>3, <2>1
<1>5. Moves(r, n, S, a, d)
  <2> HIDE DEF n, r, S
  <2> QED BY <1>1, SourcesMove
<1>6. /\ DOMAIN a = 1..n /\ \A k \in 1..n : \E j \in 1..n : a[k] = r[j]
      /\ \A e \in S : a[rank(e, S)] = r[e]
  <2>1. a = [k \in 1..n |-> a[k]]
    <3> HIDE DEF a, r, S, P, d
    <3> QED BY <1>5 DEF Moves
  <2> HIDE DEF a, r, S, P, d
  <2> QED BY <1>5, <2>1 DEF Moves
<1>7. len \in 0..n
  <2>1. IsFiniteSet(1..n) /\ Cardinality(1..n) = n
    BY <1>1, FS_Interval
  <2>2. IsFiniteSet(S) /\ Cardinality(S) <= Cardinality(1..n)
    BY <1>1, <2>1, FS_Subset
  <2>3. len \in Nat
    BY <2>2, FS_CardinalityType
  <2> HIDE DEF len, S
  <2> QED BY <1>1, <2>1, <2>2, <2>3 DEF len
<1>8. ASSUME NEW e \in S PROVE rank(e, S) \in 1..len /\ rank(e, S) \in 1..n
  <2> HIDE DEF S, n
  <2> QED BY <1>1, RankOfMarked
<1>9. ASSUME NEW k \in 1..len PROVE \E e \in S : rank(e, S) = k
  <2> HIDE DEF S, n
  <2> QED BY <1>1, RankTaken
<1>10. \A d1, e1 \in S : d1 < e1 => rank(d1, S) < rank(e1, S)
  <2> HIDE DEF S, n
  <2> QED BY <1>1, RankGrows
<1> HIDE DEF a, d, P, len
<1>11. c = [k \in 1..n |-> IF k > len THEN [a[k] EXCEPT !.tag = 0] ELSE a[k]]
  <2> HIDE DEF c, r, S
  <2> QED BY <1>4, <1>6 DEF blanked
<1>12. \A k \in 1..n : a[k] \in RoutedBlock
  BY <1>1, <1>6 DEF Blocks
<1> HIDE DEF c, r
<1>13. ASSUME NEW k \in 1..n
       PROVE  c[k] \in RoutedBlock /\ (k <= len => c[k] = a[k]) /\ (k > len => c[k].tag = 0)
  <2>1. CASE k > len
    <3> DEFINE x == a[k]
    <3>1. c[k] = [x EXCEPT !.tag = 0] /\ x \in RoutedBlock
      BY <1>11, <1>12, <2>1
    <3> HIDE DEF x
    <3>2. c[k] \in RoutedBlock /\ c[k].tag = 0
      BY <3>1 DEF RoutedBlock
    <3> QED BY <1>7, <2>1, <3>2
  <2>2. CASE ~ (k > len)
    BY <1>7, <1>11, <1>12, <2>2
  <2> QED BY <2>1, <2>2
<1>14. c \in Blocks(n)
  BY <1>11, <1>13 DEF Blocks
<1>15. /\ \A k \in 1..n : r[k].tag # 0 => f[k] \in 1..n /\ c[f[k]] = r[k]
       /\ \A k, l \in 1..n : r[k].tag # 0 /\ r[l].tag # 0 /\ k < l => f[k] < f[l]
  <2>1. ASSUME NEW k \in 1..n, r[k].tag # 0 PROVE f[k] \in 1..n /\ c[f[k]] = r[k] /\ f[k] = rank(k, S)
    <3>1. k \in S /\ f[k] = rank(k, S)
      BY <2>1
    <3>2. rank(k, S) \in 1..n /\ rank(k, S) <= len
      BY <1>7, <1>8, <3>1
    <3>3. c[rank(k, S)] = a[rank(k, S)]
      BY <1>13, <3>2
    <3> QED BY <1>6, <3>1, <3>2, <3>3
  <2> QED BY <1>10, <2>1
<1>16. \A l \in 1..n : l <= len => \E e \in S : l = rank(e, S) /\ c[l] = r[e] /\ c[l].tag # 0
  <2> SUFFICES ASSUME NEW l \in 1..n, l <= len
               PROVE  \E e \in S : l = rank(e, S) /\ c[l] = r[e] /\ c[l].tag # 0
    OBVIOUS
  <2>1. l \in 1..len
    BY <1>7
  <2>2. PICK e \in S : rank(e, S) = l
    BY <1>9, <2>1
  <2>3. c[l] = r[e]
    BY <1>6, <1>13, <2>2
  <2> QED BY <2>2, <2>3
<1>17. \A l \in 1..n : c[l].tag # 0 => \E k \in 1..n : r[k].tag # 0 /\ l = f[k]
  <2> SUFFICES ASSUME NEW l \in 1..n, c[l].tag # 0 PROVE \E k \in 1..n : r[k].tag # 0 /\ l = f[k]
    OBVIOUS
  <2>1. l <= len
    BY <1>7, <1>13
  <2> QED BY <1>16, <2>1
<1>18. Kept(c, n)
  <2>1. Carries(r, n, c, n, f)
    <3> HIDE DEF f, S
    <3> QED BY <1>15, <1>17 DEF Carries
  <2>2. Kept(r, n)
    BY DEF r
  <2> HIDE DEF f, S, n
  <2> QED BY <1>1, <1>14, <2>1, <2>2, CarriedBlocksKept
<1>19. Compacted(c, n, len)
  <2>1. \A k \in 1..n : c[k].tag # 0 <=> k <= len
    <3> SUFFICES ASSUME NEW k \in 1..n PROVE c[k].tag # 0 <=> k <= len
      OBVIOUS
    <3>1. CASE k <= len
      BY <1>16, <3>1
    <3>2. CASE ~ (k <= len)
      <4>1. k > len
        BY <1>7, <3>2
      <4> QED BY <1>13, <3>2, <4>1
    <3> QED BY <3>1, <3>2
  <2> QED BY <1>7, <2>1 DEF Compacted
<1> QED BY <1>4, <1>18, <1>19 DEF c
-----------------------------------------------------------------------------
(***************************************************************************)
(* The slots of the shards.                                                 *)
(***************************************************************************)

\* The shards of the first len blocks, and how many of them are of each shard.
Counts(g, len, counts) ==
  /\ len \in Nat /\ g \in [1..len -> Shard]
  /\ counts = [s \in Shard |-> Cardinality({k \in 1..len : g[k] = s})]
  /\ \A s \in Shard : counts[s] <= per_shard_sub_quota

of_shards_below(g, len, x) == {k \in 1..len : g[k] < x}
slots_below(counts, x)     == {d \in slots_for(counts) : d <= x * per_shard_sub_quota}

\* Disjoint sets together.
LEMMA DisjointUnion ==
  ASSUME NEW S, NEW T, IsFiniteSet(S), IsFiniteSet(T), S \cap T = {}
  PROVE  IsFiniteSet(S \cup T) /\ Cardinality(S \cup T) = Cardinality(S) + Cardinality(T)
<1>1. Cardinality(S \cap T) = 0
  BY FS_EmptySet
<1>2. Cardinality(S) \in Nat /\ Cardinality(T) \in Nat
  BY FS_CardinalityType
<1>3. IsFiniteSet(S \cup T) /\ Cardinality(S \cup T) = Cardinality(S) + Cardinality(T) - Cardinality(S \cap T)
  BY FS_Union
<1> QED BY <1>1, <1>2, <1>3

\* The r-th slot of shard s lies behind the slots of the shards before, and ahead of the others.
LEMMA SlotOfShard ==
  ASSUME NEW q \in Nat, NEW s \in Nat, NEW r \in 1..q, NEW x \in Nat
  PROVE  /\ s < x => s * q + r <= x * q
         /\ x <= s => s * q + r >= x * q + r
         /\ s * q + r \in Nat /\ x * q \in Nat
<1>1. s * q \in Nat /\ x * q \in Nat /\ s * q = q * s /\ x * q = q * x
  OBVIOUS
<1>2. ASSUME s < x PROVE s * q + r <= x * q
  <2>1. q * (s + 1) <= q * x
    BY <1>2, Monotone
  <2>2. q * (s + 1) = q * s + q
    OBVIOUS
  <2> QED BY <1>1, <2>1, <2>2
<1>3. ASSUME x <= s PROVE s * q + r >= x * q + r
  <2>1. q * x <= q * s
    BY <1>3, Monotone
  <2> QED BY <1>1, <2>1
<1> QED BY <1>1, <1>2, <1>3

\* What is counted, and where a shard's slots are.
LEMMA CountsParts ==
  ASSUME ShardCount \in Nat \ {0}, per_shard_sub_quota \in Nat, NEW g, NEW len, NEW counts,
         Counts(g, len, counts)
  PROVE  /\ \A s \in Shard : /\ counts[s] = Cardinality({k \in 1..len : g[k] = s})
                             /\ counts[s] \in 0..per_shard_sub_quota
                             /\ IsFiniteSet({k \in 1..len : g[k] = s})
         /\ \A x : /\ IsFiniteSet(of_shards_below(g, len, x))
                   /\ Cardinality(of_shards_below(g, len, x)) \in Nat
         /\ \A d \in slots_for(counts) :
              \E s \in Shard : \E r \in 1..counts[s] : d = s * per_shard_sub_quota + r
         /\ \A s \in Shard : \A r \in 1..counts[s] :
              s * per_shard_sub_quota + r \in slots_for(counts)
<1>1. len \in Nat
  BY DEF Counts
<1>2. ASSUME NEW s \in Shard
      PROVE  /\ counts[s] = Cardinality({k \in 1..len : g[k] = s})
             /\ counts[s] \in 0..per_shard_sub_quota
             /\ IsFiniteSet({k \in 1..len : g[k] = s})
  <2> DEFINE T == {k \in 1..len : g[k] = s}
  <2>1. T \subseteq 1..len
    OBVIOUS
  <2>2. counts[s] = Cardinality(T) /\ counts[s] <= per_shard_sub_quota
    BY DEF Counts
  <2> HIDE DEF T
  <2>3. IsFiniteSet(T) /\ Cardinality(T) \in Nat
    BY <1>1, <2>1, MarksFinite
  <2> QED BY <2>2, <2>3 DEF T
<1>3. ASSUME NEW x
      PROVE  /\ IsFiniteSet(of_shards_below(g, len, x))
             /\ Cardinality(of_shards_below(g, len, x)) \in Nat
  <2>1. of_shards_below(g, len, x) \subseteq 1..len
    BY DEF of_shards_below
  <2> QED BY <1>1, <2>1, MarksFinite
<1>4. \A d \in slots_for(counts) :
        \E s \in Shard : \E r \in 1..counts[s] : d = s * per_shard_sub_quota + r
  BY DEF slots_for
<1>5. \A s \in Shard : \A r \in 1..counts[s] :
        s * per_shard_sub_quota + r \in slots_for(counts)
  BY DEF slots_for
<1> QED BY <1>2, <1>3, <1>4, <1>5

\* The slots of the shards before x are as many as the blocks of those shards.
LEMMA SlotsBelow ==
  ASSUME ShardCount \in Nat \ {0}, per_shard_sub_quota \in Nat, NEW g, NEW len, NEW counts,
         Counts(g, len, counts), NEW x \in 0..ShardCount
  PROVE  /\ IsFiniteSet(slots_below(counts, x))
         /\ Cardinality(slots_below(counts, x)) = Cardinality(of_shards_below(g, len, x))
<1> DEFINE q == per_shard_sub_quota
           right(y) == /\ IsFiniteSet(slots_below(counts, y))
                       /\ Cardinality(slots_below(counts, y))
                            = Cardinality(of_shards_below(g, len, y))
           bad == {y \in 0..ShardCount : ~ right(y)}
<1> SUFFICES ASSUME bad # {} PROVE FALSE
  OBVIOUS
<1>1. Min(bad) \in bad /\ \A y \in bad : Min(bad) <= y
  <2>1. bad \in SUBSET Nat
    OBVIOUS
  <2> HIDE DEF bad
  <2> QED BY <2>1, MinOfNat
<1> DEFINE m == Min(bad)
<1>2. m \in 0..ShardCount /\ ~ right(m)
  BY <1>1
<1>3. m # 0 => m - 1 \in 0..ShardCount /\ right(m - 1)
  <2>1. m - 1 \in bad => m <= m - 1
    BY <1>1
  <2>2. m - 1 \in 0..ShardCount /\ m - 1 \notin bad => right(m - 1)
    OBVIOUS
  <2>3. m \in 0..ShardCount
    BY <1>2
  <2> HIDE DEF bad, m, right
  <2> QED BY <2>1, <2>2, <2>3
<1>c. /\ \A s \in Shard : /\ counts[s] = Cardinality({k \in 1..len : g[k] = s})
                          /\ counts[s] \in 0..q
                          /\ IsFiniteSet({k \in 1..len : g[k] = s})
      /\ \A y : /\ IsFiniteSet(of_shards_below(g, len, y))
                /\ Cardinality(of_shards_below(g, len, y)) \in Nat
      /\ \A d \in slots_for(counts) : \E s \in Shard : \E r \in 1..counts[s] : d = s * q + r
      /\ \A s \in Shard : \A r \in 1..counts[s] : s * q + r \in slots_for(counts)
  BY CountsParts
<1>g. g \in [1..len -> Shard] /\ len \in Nat /\ q \in Nat
  BY DEF Counts
<1>s. \A s : s \in Shard <=> s \in Nat /\ s < ShardCount
  BY DEF Shard
<1>n. ASSUME NEW s \in Shard, NEW r \in 1..counts[s] PROVE s \in Nat /\ r \in 1..q
  <2>1. counts[s] \in 0..q
    BY <1>c
  <2> HIDE DEF q
  <2> QED BY <1>s, <1>g, <2>1
<1> HIDE DEF m, bad, q
<1>4. CASE m = 0
  <2>1. of_shards_below(g, len, m) = {}
    BY <1>4, <1>g, <1>s DEF of_shards_below
  <2>2. slots_below(counts, m) = {}
    <3> SUFFICES ASSUME NEW d \in slots_for(counts), d <= m * q PROVE FALSE
      BY DEF slots_below, q
    <3>1. PICK s \in Shard : \E r \in 1..counts[s] : d = s * q + r
      BY <1>c
    <3>2. PICK r \in 1..counts[s] : d = s * q + r
      BY <3>1
    <3>3. s \in Nat /\ r \in 1..q
      BY <1>n
    <3>4. s * q \in Nat /\ m * q = 0
      BY <1>4, <1>g, <3>3
    <3> QED BY <3>2, <3>3, <3>4
  <2> QED BY <1>2, <2>1, <2>2, FS_EmptySet
<1>5. CASE m # 0
  <2> DEFINE x1 == m - 1
             B == of_shards_below(g, len, x1)
             E == {k \in 1..len : g[k] = x1}
             D == slots_below(counts, x1)
             I == (x1 * q + 1)..(x1 * q + counts[x1])
  <2>1. x1 \in Shard /\ x1 \in Nat /\ m = x1 + 1
    BY <1>2, <1>5, <1>s
  <2>2. IsFiniteSet(D) /\ Cardinality(D) = Cardinality(B) /\ IsFiniteSet(B)
    BY <1>3, <1>5, <1>c
  <2>3. IsFiniteSet(E) /\ Cardinality(E) = counts[x1] /\ counts[x1] \in 0..q
    BY <1>c, <2>1
  <2> HIDE DEF x1
  <2>4. x1 * q \in Nat
    BY <1>g, <2>1
  <2>5. IsFiniteSet(I) /\ Cardinality(I) = counts[x1]
    <3> DEFINE lo == x1 * q
               n == counts[x1]
    <3>1. lo \in Nat /\ n \in Nat
      BY <1>g, <2>3, <2>4
    <3> HIDE DEF lo, n
    <3>2. /\ IsFiniteSet((lo + 1)..(lo + n))
          /\ Cardinality((lo + 1)..(lo + n))
               = IF lo + 1 > lo + n THEN 0 ELSE ((lo + n) - (lo + 1)) + 1
      <4>1. lo + 1 \in Int /\ lo + n \in Int
        BY <3>1
      <4> QED BY <4>1, FS_Interval
    <3>3. (IF lo + 1 > lo + n THEN 0 ELSE ((lo + n) - (lo + 1)) + 1) = n
      BY <3>1
    <3> QED BY <3>2, <3>3 DEF lo, n
  <2>6. of_shards_below(g, len, m) = B \cup E /\ B \cap E = {}
    <3>1. \A k \in 1..len : g[k] \in Nat /\ (g[k] < m <=> g[k] < x1 \/ g[k] = x1)
      BY <1>g, <1>s, <2>1
    <3>2. \A k \in 1..len : ~ (g[k] < x1 /\ g[k] = x1)
      BY <2>1
    <3> QED BY <3>1, <3>2 DEF of_shards_below
  <2>7. slots_below(counts, m) = D \cup I /\ D \cap I = {}
    <3>1. ASSUME NEW d, d \in slots_below(counts, m) PROVE d \in D \cup I
      <4>1. d \in slots_for(counts) /\ d <= m * q
        BY <3>1 DEF slots_below, q
      <4>2. PICK s \in Shard : \E r \in 1..counts[s] : d = s * q + r
        BY <1>c, <4>1
      <4>3. PICK r \in 1..counts[s] : d = s * q + r
        BY <4>2
      <4>4. s \in Nat /\ r \in 1..q
        BY <1>n
      <4>5. CASE s < x1
        <5>1. d <= x1 * q
          BY <1>g, <2>1, <4>3, <4>4, <4>5, SlotOfShard
        <5> QED BY <4>1, <5>1 DEF slots_below, q
      <4>6. CASE s = x1
        <5> DEFINE lo == x1 * q
        <5>1. d = lo + r /\ r \in 1..counts[x1] /\ lo \in Nat /\ counts[x1] \in Nat
          BY <2>3, <2>4, <4>3, <4>6
        <5> HIDE DEF lo
        <5>2. d \in (lo + 1)..(lo + counts[x1])
          BY <5>1
        <5> QED BY <5>2 DEF lo
      <4>7. CASE s > x1
        <5>1. m <= s /\ m \in Nat
          BY <2>1, <4>4, <4>7
        <5>2. d >= m * q + r /\ m * q \in Nat
          BY <1>g, <4>3, <4>4, <5>1, SlotOfShard
        <5>3. m * q + r > m * q /\ d \in Int
          BY <1>g, <4>3, <4>4, <5>2, SlotOfShard
        <5> QED BY <4>1, <4>4, <5>2, <5>3
      <4> QED BY <2>1, <4>4, <4>5, <4>6, <4>7
    <3>2. ASSUME NEW d \in D PROVE d \in slots_below(counts, m)
      <4>1. d \in slots_for(counts) /\ d <= x1 * q
        BY DEF slots_below, q
      <4>2. PICK s \in Shard : \E r \in 1..counts[s] : d = s * q + r
        BY <1>c, <4>1
      <4>3. PICK r \in 1..counts[s] : d = s * q + r
        BY <4>2
      <4>4. s \in Nat /\ r \in 1..q /\ d \in Int
        BY <1>n, <1>g, <4>3, SlotOfShard
      <4>5. x1 * q <= m * q /\ m * q \in Nat
        <5>1. q * x1 <= q * m
          BY <1>g, <2>1, Monotone
        <5> QED BY <1>g, <2>1, <5>1
      <4>6. d <= m * q
        BY <2>4, <4>1, <4>4, <4>5
      <4> QED BY <4>1, <4>6 DEF slots_below, q
    <3>3. ASSUME NEW d \in I PROVE d \in slots_below(counts, m) /\ d \notin D
      <4> DEFINE r == d - x1 * q
      <4>1. r \in 1..counts[x1] /\ d = x1 * q + r /\ r \in 1..q /\ d > x1 * q
        BY <1>g, <2>3, <2>4
      <4> HIDE DEF r
      <4>2. d \in slots_for(counts)
        BY <1>c, <2>1, <4>1
      <4>3. d <= m * q
        BY <1>g, <2>1, <4>1, SlotOfShard
      <4>4. ~ (d <= x1 * q)
        BY <2>4, <4>1
      <4> QED BY <4>2, <4>3, <4>4 DEF slots_below, q
    <3> QED BY <3>1, <3>2, <3>3
  <2> HIDE DEF B, E, D, I
  <2>8. Cardinality(B \cup E) = Cardinality(B) + Cardinality(E)
    BY <2>2, <2>3, <2>6, DisjointUnion
  <2>9. IsFiniteSet(D \cup I) /\ Cardinality(D \cup I) = Cardinality(D) + Cardinality(I)
    BY <2>2, <2>5, <2>7, DisjointUnion
  <2> QED BY <1>2, <2>2, <2>3, <2>5, <2>6, <2>7, <2>8, <2>9
<1> QED BY <1>4, <1>5

\* The slots are slots, as many as there are blocks.
LEMMA SlotsFit ==
  ASSUME ShardCount \in Nat \ {0}, per_shard_sub_quota \in Nat, NEW g, NEW len, NEW counts,
         Counts(g, len, counts)
  PROVE  /\ slots_for(counts) \in SUBSET (1..(ShardCount * per_shard_sub_quota))
         /\ Cardinality(slots_for(counts)) = len
<1> DEFINE q == per_shard_sub_quota
           m == ShardCount * q
<1>1. q \in Nat /\ m \in Nat /\ len \in Nat /\ g \in [1..len -> Shard]
  BY DEF Counts
<1>2. ASSUME NEW d \in slots_for(counts) PROVE d \in 1..m
  <2>1. PICK s \in Shard : \E r \in 1..counts[s] : d = s * q + r
    BY CountsParts
  <2>2. PICK r \in 1..counts[s] : d = s * q + r
    BY <2>1
  <2>3. s \in Nat /\ s < ShardCount /\ counts[s] \in 0..q
    <3>1. counts[s] \in 0..q
      BY CountsParts
    <3>2. s \in Nat /\ s < ShardCount
      BY DEF Shard
    <3> QED BY <3>1, <3>2
  <2> HIDE DEF q
  <2>4. r \in 1..q
    BY <1>1, <2>3
  <2>5. s * q + r <= ShardCount * q /\ s * q \in Nat
    <3>1. ShardCount \in Nat
      OBVIOUS
    <3> QED BY <1>1, <2>3, <2>4, <3>1, SlotOfShard
  <2> HIDE DEF m
  <2> QED BY <1>1, <2>2, <2>4, <2>5 DEF m
<1>3. slots_below(counts, ShardCount) = slots_for(counts)
  <2>1. \A d \in slots_for(counts) : d <= ShardCount * q
    BY <1>1, <1>2
  <2> QED BY <2>1 DEF slots_below
<1>4. of_shards_below(g, len, ShardCount) = 1..len
  <2>1. \A k \in 1..len : g[k] < ShardCount
    BY <1>1 DEF Shard
  <2> QED BY <2>1 DEF of_shards_below
<1>5. Cardinality(1..len) = len
  BY <1>1, FS_Interval
<1>6. Cardinality(slots_below(counts, ShardCount)) = Cardinality(of_shards_below(g, len, ShardCount))
  <2>1. ShardCount \in 0..ShardCount
    OBVIOUS
  <2> QED BY <2>1, SlotsBelow
<1>7. slots_for(counts) \subseteq 1..m
  BY <1>2
<1> QED BY <1>3, <1>4, <1>5, <1>6, <1>7

\* The r-th slot of a shard comes after the blocks of the shards before and r - 1 more.
LEMMA RankOfSlot ==
  ASSUME ShardCount \in Nat \ {0}, per_shard_sub_quota \in Nat, NEW g, NEW len, NEW counts,
         Counts(g, len, counts), NEW s \in Shard, NEW r \in 1..counts[s]
  PROVE  rank(s * per_shard_sub_quota + r, slots_for(counts))
           = Cardinality(of_shards_below(g, len, s)) + r
<1> DEFINE q == per_shard_sub_quota
           e == s * q + r
           X == slots_for(counts)
           D == slots_below(counts, s)
           I == (s * q + 1)..(s * q + r)
           W == Cardinality(of_shards_below(g, len, s))
<1>0. \A t \in Shard : t \in Nat /\ t < ShardCount
  BY DEF Shard
<1>1. /\ s \in Nat /\ s \in 0..ShardCount /\ q \in Nat /\ counts[s] \in 0..q /\ W \in Nat
      /\ \A d \in X : \E t \in Shard : \E u \in 1..counts[t] : d = t * q + u
      /\ \A t \in Shard : \A u \in 1..counts[t] : t * q + u \in X
  <2>1. s \in Nat /\ s \in 0..ShardCount /\ q \in Nat
    BY <1>0
  <2>2. counts[s] \in 0..q /\ W \in Nat
    BY CountsParts
  <2>3. /\ \A d \in X : \E t \in Shard : \E u \in 1..counts[t] : d = t * q + u
        /\ \A t \in Shard : \A u \in 1..counts[t] : t * q + u \in X
    BY CountsParts
  <2> QED BY <2>1, <2>2, <2>3
<1>2. \A t \in Shard : t \in Nat /\ \A u \in 1..counts[t] : u \in 1..q
  <2>1. \A t \in Shard : t \in Nat /\ counts[t] \in 0..q
    BY <1>0, CountsParts
  <2> HIDE DEF q
  <2> QED BY <1>1, <2>1
<1>3. IsFiniteSet(D) /\ Cardinality(D) = W
  BY <1>1, SlotsBelow
<1>4. r \in 1..q /\ r \in Nat
  BY <1>2
<1> HIDE DEF q
<1>5. s * q \in Nat
  BY <1>1
<1>6. IsFiniteSet(I) /\ Cardinality(I) = r
  <2> DEFINE lo == s * q
  <2>1. lo \in Nat
    BY <1>5
  <2> HIDE DEF lo
  <2>2. /\ IsFiniteSet((lo + 1)..(lo + r))
        /\ Cardinality((lo + 1)..(lo + r)) = IF lo + 1 > lo + r THEN 0 ELSE ((lo + r) - (lo + 1)) + 1
    <3>1. lo + 1 \in Int /\ lo + r \in Int
      BY <1>4, <2>1
    <3> QED BY <3>1, FS_Interval
  <2>3. (IF lo + 1 > lo + r THEN 0 ELSE ((lo + r) - (lo + 1)) + 1) = r
    BY <1>4, <2>1
  <2> QED BY <2>2, <2>3 DEF lo
<1>7. {d \in X : d <= e} = D \cup I /\ D \cap I = {}
  <2>1. ASSUME NEW d \in X, d <= e PROVE d \in D \cup I
    <3>1. PICK t \in Shard : \E u \in 1..counts[t] : d = t * q + u
      BY <1>1
    <3>2. PICK u \in 1..counts[t] : d = t * q + u
      BY <3>1
    <3>3. t \in Nat /\ u \in 1..q
      BY <1>2
    <3>4. CASE t < s
      <4>1. d <= s * q
        BY <1>1, <3>2, <3>3, <3>4, SlotOfShard
      <4> QED BY <4>1 DEF slots_below, q
    <3>5. CASE t = s
      <4> DEFINE lo == s * q
      <4>1. d = lo + u /\ lo \in Nat /\ d <= lo + r
        BY <1>5, <2>1, <3>2, <3>5
      <4> HIDE DEF lo
      <4>2. d \in (lo + 1)..(lo + r)
        BY <1>4, <3>3, <4>1
      <4> QED BY <4>2 DEF lo
    <3>6. CASE t > s
      <4>1. s + 1 <= t /\ s + 1 \in Nat
        BY <1>1, <3>3, <3>6
      <4>2. d >= (s + 1) * q + u /\ (s + 1) * q = s * q + q
        <5>1. d >= (s + 1) * q + u
          BY <1>1, <3>2, <3>3, <4>1, SlotOfShard
        <5>2. (s + 1) * q = s * q + q
          BY <1>1
        <5> QED BY <5>1, <5>2
      <4>3. d \in Int
        BY <1>1, <3>2, <3>3, SlotOfShard
      <4> DEFINE lo == s * q
      <4>4. d >= (lo + q) + u /\ d <= lo + r /\ lo \in Nat
        BY <1>5, <2>1, <4>2
      <4> HIDE DEF lo
      <4> QED BY <1>1, <1>4, <3>3, <4>3, <4>4
    <3> QED BY <1>1, <3>3, <3>4, <3>5, <3>6
  <2>2. ASSUME NEW d \in D PROVE d \in X /\ d <= e
    <3>1. d \in X /\ d <= s * q
      BY DEF slots_below, q
    <3>2. PICK t \in Shard : \E u \in 1..counts[t] : d = t * q + u
      BY <1>1, <3>1
    <3>3. PICK u \in 1..counts[t] : d = t * q + u
      BY <3>2
    <3>4. d \in Int
      BY <1>1, <1>2, <3>3, SlotOfShard
    <3> DEFINE lo == s * q
    <3>5. lo \in Nat /\ d <= lo
      BY <1>5, <3>1
    <3> HIDE DEF lo
    <3>6. d <= lo + r
      BY <1>4, <3>4, <3>5
    <3> QED BY <3>1, <3>6 DEF lo
  <2>3. ASSUME NEW d \in I PROVE d \in X /\ d <= e /\ d \notin D
    <3> DEFINE lo == s * q
               u == d - lo
    <3>1. lo \in Nat /\ d \in (lo + 1)..(lo + r)
      BY <1>5
    <3> HIDE DEF lo
    <3>2. u \in 1..r /\ d = lo + u /\ d > lo /\ d <= lo + r /\ ~ (d <= lo)
      BY <1>4, <3>1
    <3> HIDE DEF u
    <3>3. u \in 1..counts[s]
      <4>1. counts[s] \in Nat
        BY <1>1
      <4> QED BY <3>2, <4>1
    <3>4. d \in X
      BY <1>1, <3>2, <3>3 DEF lo
    <3> QED BY <3>2, <3>4 DEF lo, slots_below, q
  <2> QED BY <2>1, <2>2, <2>3
<1> HIDE DEF D, I
<1>8. Cardinality(D \cup I) = W + r
  BY <1>3, <1>6, <1>7, DisjointUnion
<1> QED BY <1>7, <1>8 DEF rank, q

\* A set of numbers that holds all up to each of its own.
LEMMA InitialSegment ==
  ASSUME NEW n \in Nat, NEW T \in SUBSET (1..n), \A k \in T : \A l \in 1..k : l \in T
  PROVE  T = 1..Cardinality(T)
<1>1. CASE T = {}
  <2>1. Cardinality(T) = 0
    BY <1>1, FS_EmptySet
  <2> QED BY <1>1, <2>1
<1>2. CASE T # {}
  <2>1. Max(T) \in T /\ \A x \in T : x <= Max(T)
    <3>1. T \in SUBSET Int /\ n \in Int /\ \A x \in T : x <= n
      OBVIOUS
    <3> QED BY <1>2, <3>1, MaxOfBounded
  <2> DEFINE m == Max(T)
  <2> HIDE DEF m
  <2>2. m \in T /\ \A x \in T : x <= m
    BY <2>1 DEF m
  <2>3. m \in Nat /\ T = 1..m
    <3>1. m \in 1..n
      BY <2>2
    <3>2. \A x \in T : x \in 1..m
      BY <2>2, <3>1
    <3>3. \A x \in 1..m : x \in T
      BY <2>2
    <3>4. T \subseteq 1..m /\ 1..m \subseteq T
      BY <3>2, <3>3
    <3>5. T = 1..m
      BY <3>4, Zenon
    <3> QED BY <3>1, <3>5
  <2>4. Cardinality(1..m) = m
    BY <2>3, FS_Interval
  <2> QED BY <2>3, <2>4
<1> QED BY <1>1, <1>2

\* Of blocks whose shards ascend, those of a shard come after those of the shards before.
LEMMA ShardOfRank ==
  ASSUME ShardCount \in Nat \ {0}, per_shard_sub_quota \in Nat, NEW g, NEW len, NEW counts,
         Counts(g, len, counts), \A k, l \in 1..len : k < l => g[k] <= g[l],
         NEW s \in Shard, NEW r \in 1..counts[s]
  PROVE  /\ Cardinality(of_shards_below(g, len, s)) + r \in 1..len
         /\ g[Cardinality(of_shards_below(g, len, s)) + r] = s
<1> DEFINE B == of_shards_below(g, len, s)
           C == of_shards_below(g, len, s + 1)
           E == {k \in 1..len : g[k] = s}
           W == Cardinality(B)
           V == Cardinality(C)
<1>1. /\ len \in Nat /\ \A k \in 1..len : g[k] \in Nat /\ s \in Nat
  BY DEF Counts, Shard
<1>2. IsFiniteSet(B) /\ IsFiniteSet(E) /\ counts[s] = Cardinality(E) /\ W \in Nat /\ V \in Nat
      /\ counts[s] \in Nat
  BY CountsParts
<1>3. C = B \cup E /\ B \cap E = {}
  <2>1. s \in Nat
    BY DEF Shard
  <2>2. \A k \in 1..len : (g[k] < s + 1 <=> g[k] < s \/ g[k] = s) /\ ~ (g[k] < s /\ g[k] = s)
    BY <1>1, <2>1
  <2> QED BY <2>2 DEF of_shards_below
<1>4. V = W + counts[s]
  <2> HIDE DEF B, C, E
  <2> QED BY <1>2, <1>3, DisjointUnion
<1>5. ASSUME NEW x \in Nat
      PROVE  of_shards_below(g, len, x) = 1..Cardinality(of_shards_below(g, len, x))
  <2> DEFINE T == of_shards_below(g, len, x)
  <2>1. T \in SUBSET (1..len)
    BY DEF of_shards_below
  <2>2. ASSUME NEW k \in T, NEW l \in 1..k PROVE l \in T
    <3>1. k \in 1..len /\ g[k] < x
      BY DEF of_shards_below
    <3>2. l \in 1..len /\ (l = k \/ l < k)
      BY <1>1, <3>1
    <3>3. g[l] <= g[k]
      BY <1>1, <3>1, <3>2
    <3>4. g[l] < x
      BY <1>1, <3>1, <3>2, <3>3
    <3> QED BY <3>2, <3>4 DEF of_shards_below
  <2> HIDE DEF T
  <2>3. T = 1..Cardinality(T)
    BY <1>1, <2>1, <2>2, InitialSegment
  <2> QED BY <2>3 DEF T
<1>6. s \in Nat /\ s + 1 \in Nat
  BY DEF Shard
<1>7. B = 1..W /\ C = 1..V
  <2>1. of_shards_below(g, len, s) = 1..Cardinality(of_shards_below(g, len, s))
    BY <1>5, <1>6
  <2>2. of_shards_below(g, len, s + 1) = 1..Cardinality(of_shards_below(g, len, s + 1))
    BY <1>5, <1>6
  <2> QED BY <2>1, <2>2
<1> DEFINE k == W + r
<1> HIDE DEF W, V
<1>8. k \in 1..V /\ k \notin 1..W
  BY <1>2, <1>4
<1>9. k \in C /\ k \notin B
  BY <1>7, <1>8
<1>10. k \in 1..len /\ g[k] < s + 1 /\ ~ (g[k] < s)
  <2> HIDE DEF k
  <2> QED BY <1>9 DEF of_shards_below
<1>11. g[k] = s
  <2> HIDE DEF k
  <2> QED BY <1>1, <1>6, <1>10
<1> QED BY <1>10, <1>11 DEF W
-----------------------------------------------------------------------------
(***************************************************************************)
(* The loads of the shards and the routed blocks.                           *)
(***************************************************************************)

\* The shards of the first len blocks of b.
shards_of(b, len) == [k \in 1..len |-> shard_index_for_tag(b[k].tag)]

\* The loads were counted, and fit.
Counted ==
  /\ per_shard_sub_quota \in SubQuotas
  /\ Kept(router_blocks, SubBatchSize)
  /\ Compacted(router_blocks, SubBatchSize, reduced_len)
  /\ Counts(shards_of(router_blocks, reduced_len), reduced_len, router_counts)

\* The blocks are in their slots.
Routed ==
  /\ per_shard_sub_quota \in SubQuotas
  /\ Kept(router_blocks, ShardCount * per_shard_sub_quota)
  /\ ShardsFit => RoutedToOwnShard

\* counts has the number of blocks of every shard among the first len.
LoadsOf(b, len, counts) ==
  /\ shards_of(b, len) \in [1..len -> Shard]
  /\ counts = [s \in Shard |-> Cardinality({k \in 1..len : shards_of(b, len)[k] = s})]
  /\ \A s \in Shard : /\ counts[s] \in Nat /\ counts[s] <= len
                       /\ IsFiniteSet({k \in 1..len : shards_of(b, len)[k] = s})

\* count_shard_loads_oblivious counts the blocks of every shard.
LEMMA LoadsCounted ==
  ASSUME FrontendSizes, NEW n \in Nat, NEW b \in Blocks(n), NEW len, Compacted(b, n, len)
  PROVE  LoadsOf(b, len, shard_loads(b, len))
<1> DEFINE g == shards_of(b, len)
<1>1. len \in Nat /\ \A k \in 1..len : k \in 1..n /\ b[k].tag # 0
  BY DEF Compacted
<1>2. \A k \in 1..len : b[k].tag \in Nat
  <2>1. \A k \in 1..n : b[k] \in RoutedBlock
    BY DEF Blocks
  <2> QED BY <1>1, <2>1, BlockParts
<1>3. g \in [1..len -> Shard] /\ \A k \in 1..len : g[k] = shard_index_for_tag(b[k].tag)
  BY <1>2, ShardOfTag DEF shards_of
<1>4. \A s : {k \in 1..len : ct_is_real(b[k]) /\ shard_index_for_tag(b[k].tag) = s}
               = {k \in 1..len : g[k] = s}
  BY <1>1, <1>3 DEF ct_is_real
<1> HIDE DEF g
<1>5. shard_loads(b, len) = [s \in Shard |-> Cardinality({k \in 1..len : g[k] = s})]
  BY <1>4 DEF shard_loads
<1>6. ASSUME NEW s \in Shard
      PROVE  /\ shard_loads(b, len)[s] \in Nat /\ shard_loads(b, len)[s] <= len
             /\ IsFiniteSet({k \in 1..len : g[k] = s})
  <2> DEFINE T == {k \in 1..len : g[k] = s}
  <2>1. T \subseteq 1..len /\ shard_loads(b, len)[s] = Cardinality(T)
    BY <1>5
  <2> HIDE DEF T
  <2>2. IsFiniteSet(T) /\ Cardinality(T) \in Nat
    BY <1>1, <2>1, MarksFinite
  <2>3. IsFiniteSet(1..len) /\ Cardinality(1..len) = len
    BY <1>1, FS_Interval
  <2>4. Cardinality(T) <= len
    BY <2>1, <2>3, FS_Subset
  <2> QED BY <2>1, <2>2, <2>4 DEF T
<1> QED BY <1>3, <1>5, <1>6 DEF LoadsOf, g

\* The largest load exceeds the quota when one does.
LEMMA LargestLoad ==
  ASSUME FrontendSizes, NEW counts, NEW len \in Nat, NEW quota \in Nat,
         \A s \in Shard : counts[s] \in Nat /\ counts[s] <= len
  PROVE  Max({counts[s] : s \in Shard}) > quota <=> \E s \in Shard : counts[s] > quota
<1> DEFINE T == {counts[s] : s \in Shard}
<1>1. 0 \in Shard
  BY DEF FrontendSizes, Shard
<1>2. T \in SUBSET Int /\ T # {} /\ \A x \in T : x <= len
  BY <1>1
<1>3. \A s \in Shard : counts[s] \in T
  OBVIOUS
<1>4. \A x \in T : \E s \in Shard : x = counts[s]
  OBVIOUS
<1> HIDE DEF T
<1>5. Max(T) \in T /\ \A x \in T : x <= Max(T)
  <2>1. len \in Int /\ T \in SUBSET Int /\ T # {} /\ \A x \in T : x <= len
    BY <1>2
  <2> QED BY <2>1, MaxOfBounded
<1> DEFINE m == Max(T)
<1> HIDE DEF m
<1>6. m \in T /\ m \in Int /\ \A x \in T : x <= m
  BY <1>2, <1>5 DEF m
<1>7. m > quota <=> \E s \in Shard : counts[s] > quota
  <2>1. ASSUME m > quota PROVE \E s \in Shard : counts[s] > quota
    BY <1>4, <1>6, <2>1
  <2>2. ASSUME NEW s \in Shard, counts[s] > quota PROVE m > quota
    BY <1>3, <1>6, <2>2
  <2> QED BY <2>1, <2>2
<1> QED BY <1>7 DEF m, T

\* build_distribute_marks_router and the distribution network carry each block, in order, to
\* a slot of its shard.
LEMMA DistributeKeeps ==
  ASSUME FrontendSizes, Taken, Counted, DistributeToShards, stage' = "routed"
  PROVE  Routed'
<1> DEFINE n == SubBatchSize
           q == per_shard_sub_quota
           m == ShardCount * q
           len == reduced_len
           b == router_blocks
           a == resized(b, m)
           X == slots_for(router_counts)
           P == prefix_marks(X, m)
           c == compact_payload(a, P)
           d == distribute_payload(a, P)
           f == [k \in 1..n |-> IF k <= len THEN CHOOSE e \in X : rank(e, X) = k ELSE 0]
           g == shards_of(b, len)
<1>1. /\ n \in Nat /\ q \in Nat /\ m \in Nat /\ m < 2^30 /\ ShardCount \in Nat \ {0}
      /\ b \in Blocks(n) /\ DOMAIN b = 1..n /\ Len(b) = n
  BY DEF FrontendSizes, Counted, Kept, Blocks
<1>2. len \in 0..n /\ \A k \in 1..n : b[k].tag # 0 <=> k <= len
  BY DEF Counted, Compacted
<1>r. ASSUME NEW k \in 1..len PROVE k \in 1..n /\ b[k].tag # 0
  <2>1. k \in 1..n /\ k <= len
    BY <1>1, <1>2
  <2> QED BY <1>2, <2>1
<1>3. Counts(g, len, router_counts) /\ \A k \in 1..len : g[k] = shard_index_for_tag(b[k].tag)
  BY DEF Counted, shards_of
<1> HIDE DEF g
<1>4. X \in SUBSET (1..m) /\ Cardinality(X) = len
  BY <1>1, <1>3, SlotsFit
<1> HIDE DEF m
<1>5. len <= m
  <2>1. IsFiniteSet(1..m) /\ Cardinality(1..m) = m
    BY <1>1, FS_Interval
  <2> HIDE DEF X
  <2> QED BY <1>4, <2>1, FS_Subset
<1>6. /\ a = [k \in 1..m |-> IF k <= n THEN b[k] ELSE Dummy]
      /\ DOMAIN a = 1..m /\ Len(a) = m /\ a \in Blocks(m)
      /\ \A k \in 1..m : k > len => a[k].tag = 0
      /\ \A k \in 1..len : a[k] = b[k] /\ a[k].tag # 0
  <2>1. a = [k \in 1..m |-> IF k <= n THEN b[k] ELSE Dummy]
    BY <1>1 DEF resized
  <2> HIDE DEF a, b, len
  <2>2. Dummy \in RoutedBlock /\ Dummy.tag = 0
    BY DEF Dummy, RoutedBlock
  <2>3. \A k \in 1..n : b[k] \in RoutedBlock
    BY <1>1 DEF Blocks
  <2>4. \A k \in 1..m : a[k] \in RoutedBlock
    BY <1>1, <2>1, <2>2, <2>3
  <2>5. DOMAIN a = 1..m /\ Len(a) = m /\ a \in Blocks(m)
    BY <1>1, <2>1, <2>4 DEF Blocks
  <2>6. \A k \in 1..m : k > len => a[k].tag = 0
    BY <1>1, <1>2, <2>1, <2>2
  <2>7. \A k \in 1..len : a[k] = b[k] /\ a[k].tag # 0
    BY <1>1, <1>2, <1>5, <2>1
  <2> QED BY <2>1, <2>5, <2>6, <2>7
<1>7. router_blocks' = d /\ per_shard_sub_quota' = q /\ prf' = prf /\ batch_slice' = batch_slice
  BY <1>6 DEF DistributeToShards, given, m
<1>8. Moves(a, m, X, c, d)
  <2> HIDE DEF a, X
  <2> QED BY <1>1, <1>4, <1>6, SourcesMove
<1>9. /\ d = [k \in 1..m |-> d[k]] /\ \A k \in 1..m : \E j \in 1..m : d[k] = a[j]
      /\ \A e \in X : d[e] = a[rank(e, X)]
      /\ \A k \in (1..m) \ X : \E j \in (len + 1)..m : d[k] = a[j]
  <2>1. \A k \in (1..m) \ X : \E j \in (Cardinality(X) + 1)..m : d[k] = a[j]
    <3> HIDE DEF a, X, c, d
    <3> QED BY <1>8 DEF Moves
  <2>2. d = [k \in 1..m |-> d[k]] /\ \A k \in 1..m : \E j \in 1..m : d[k] = a[j]
    <3> HIDE DEF a, X, c, d
    <3> QED BY <1>8 DEF Moves
  <2>3. \A e \in X : d[e] = a[rank(e, X)]
    <3> HIDE DEF a, X, c, d
    <3> QED BY <1>8 DEF Moves
  <2> HIDE DEF a, X, c, d
  <2> QED BY <1>4, <2>1, <2>2, <2>3
<1>10. ASSUME NEW e \in X PROVE rank(e, X) \in 1..len
  <2> HIDE DEF X
  <2> QED BY <1>1, <1>4, RankOfMarked
<1>11. ASSUME NEW k \in 1..len PROVE \E e \in X : rank(e, X) = k
  <2> HIDE DEF X
  <2> QED BY <1>1, <1>4, RankTaken
<1>12. \A x, y \in X : x < y => rank(x, X) < rank(y, X)
  <2> HIDE DEF X
  <2> QED BY <1>1, <1>4, RankGrows
<1> HIDE DEF a, X, c, d, P
<1>13. d \in Blocks(m)
  <2>1. \A k \in 1..m : d[k] \in RoutedBlock
    BY <1>6, <1>9 DEF Blocks
  <2> QED BY <1>9, <2>1 DEF Blocks
<1>14. \A k \in 1..m : d[k].tag # 0 => k \in X
  <2> SUFFICES ASSUME NEW k \in 1..m, k \notin X PROVE d[k].tag = 0
    OBVIOUS
  <2>1. PICK j \in (len + 1)..m : d[k] = a[j]
    BY <1>9
  <2>2. j \in 1..m /\ j > len
    BY <1>2, <2>1
  <2> QED BY <1>6, <2>1, <2>2
<1>15. Kept(d, m)
  <2>1. ASSUME NEW k \in 1..n, b[k].tag # 0
        PROVE  f[k] \in X /\ rank(f[k], X) = k /\ k \in 1..len
    <3>1. k \in 1..len /\ k <= len
      BY <1>2, <2>1
    <3>2. f[k] = CHOOSE e \in X : rank(e, X) = k
      BY <3>1
    <3> HIDE DEF f
    <3> QED BY <1>11, <3>1, <3>2
  <2>2. ASSUME NEW k \in 1..n, b[k].tag # 0 PROVE f[k] \in 1..m /\ d[f[k]] = b[k]
    <3>1. f[k] \in X /\ rank(f[k], X) = k /\ k \in 1..len
      BY <2>1, <2>2
    <3> HIDE DEF f
    <3>2. f[k] \in 1..m
      BY <1>4, <3>1
    <3>3. d[f[k]] = a[k]
      BY <1>9, <3>1
    <3>4. a[k] = b[k]
      BY <1>6, <3>1
    <3> QED BY <3>2, <3>3, <3>4
  <2>3. ASSUME NEW k \in 1..n, NEW l \in 1..n, b[k].tag # 0, b[l].tag # 0, k < l
        PROVE  f[k] < f[l]
    <3>1. f[k] \in X /\ rank(f[k], X) = k /\ f[l] \in X /\ rank(f[l], X) = l
      BY <2>1, <2>3
    <3> HIDE DEF f
    <3>2. f[k] \in Int /\ f[l] \in Int
      <4>1. \A e \in X : e \in Int
        BY <1>4
      <4> QED BY <3>1, <4>1
    <3>3. f[k] = f[l] => k = l
      BY <3>1
    <3>4. f[l] < f[k] => l < k
      BY <1>12, <3>1
    <3> QED BY <2>3, <3>2, <3>3, <3>4
  <2>4. ASSUME NEW e \in 1..m, d[e].tag # 0 PROVE \E k \in 1..n : b[k].tag # 0 /\ e = f[k]
    <3>1. e \in X
      BY <1>14, <2>4
    <3> DEFINE k == rank(e, X)
    <3>2. k \in 1..len
      BY <1>10, <3>1
    <3> HIDE DEF k
    <3>3. k \in 1..n /\ b[k].tag # 0
      BY <1>r, <3>2
    <3>6. f[k] \in X /\ rank(f[k], X) = k
      BY <2>1, <3>3
    <3> HIDE DEF f
    <3>4. f[k] \in Int /\ e \in Int
      <4>1. \A x \in X : x \in Int
        BY <1>4
      <4> QED BY <3>1, <3>6, <4>1
    <3>5. e = f[k]
      <4>1. e < f[k] => rank(e, X) < rank(f[k], X)
        BY <1>12, <3>1, <3>6
      <4>2. f[k] < e => rank(f[k], X) < rank(e, X)
        BY <1>12, <3>1, <3>6
      <4>3. rank(e, X) = k /\ ~ (k < k)
        BY <3>2 DEF k
      <4> QED BY <3>4, <3>6, <4>1, <4>2, <4>3
    <3> QED BY <3>3, <3>5
  <2> HIDE DEF f
  <2>5. Carries(b, n, d, m, f)
    BY <2>2, <2>3, <2>4 DEF Carries
  <2>6. Kept(b, n)
    BY DEF Counted
  <2> HIDE DEF b, n
  <2> QED BY <1>1, <1>13, <2>5, <2>6, CarriedBlocksKept
<1>16. ASSUME ShardsFit, NEW k \in 1..m, d[k].tag # 0
       PROVE  shard_index_for_tag(d[k].tag) = (k - 1) \div q
  <2>1. k \in X
    BY <1>14, <1>16
  <2>2. PICK s \in Shard : \E r \in 1..router_counts[s] : k = s * q + r
    BY <1>1, <1>3, <2>1, CountsParts DEF X
  <2>3. PICK r \in 1..router_counts[s] : k = s * q + r
    BY <2>2
  <2>4. \A i, j \in 1..len : i < j => g[i] <= g[j]
    <3>1. ShardsAscend(b, n)
      BY <1>16 DEF Counted, Kept
    <3> SUFFICES ASSUME NEW i \in 1..len, NEW j \in 1..len, i < j PROVE g[i] <= g[j]
      OBVIOUS
    <3>2. i \in 1..n /\ j \in 1..n /\ b[i].tag # 0 /\ b[j].tag # 0
      BY <1>r
    <3>3. shard_index_for_tag(b[i].tag) <= shard_index_for_tag(b[j].tag)
      BY <3>1, <3>2 DEF ShardsAscend
    <3> QED BY <1>3, <3>3
  <2> DEFINE W == Cardinality(of_shards_below(g, len, s))
  <2>5. W + r \in 1..len /\ g[W + r] = s
    BY <1>1, <1>3, <2>4, ShardOfRank
  <2>6. rank(k, X) = W + r
    BY <1>1, <1>3, <2>3, RankOfSlot DEF X
  <2> HIDE DEF W
  <2>7. d[k] = b[W + r]
    <3> DEFINE w == W + r
    <3> HIDE DEF w
    <3>1. w \in 1..len /\ rank(k, X) = w
      BY <2>5, <2>6 DEF w
    <3>2. d[k] = a[w] /\ a[w] = b[w]
      BY <1>6, <1>9, <2>1, <3>1
    <3> QED BY <3>2 DEF w
  <2>8. shard_index_for_tag(d[k].tag) = s
    BY <1>3, <2>5, <2>7
  <2>9. (k - 1) \div q = s
    <3>1. s \in Nat /\ router_counts[s] \in 0..q
      <4>1. router_counts[s] \in 0..q
        BY <1>1, <1>3, CountsParts
      <4> QED BY <4>1 DEF Shard
    <3>2. q \in Nat \ {0} /\ r - 1 \in 0..(q - 1)
      BY <1>1, <3>1
    <3> DEFINE u == r - 1
    <3>3. k - 1 = q * s + u /\ u \in 0..(q - 1)
      BY <1>1, <2>3, <3>1, <3>2
    <3> HIDE DEF u, q
    <3>4. (q * s + u) \div q = s
      BY <3>1, <3>2, <3>3
    <3> QED BY <3>3, <3>4
  <2> QED BY <2>8, <2>9
<1>17. ShardsFit => RoutedToOwnShard'
  <2> SUFFICES ASSUME ShardsFit PROVE RoutedToOwnShard'
    OBVIOUS
  <2>1. DOMAIN d = 1..m
    BY <1>13 DEF Blocks
  <2>2. \A k \in 1..m : d[k].tag # 0 => shard_index_for_tag(d[k].tag) = (k - 1) \div q
    BY <1>16
  <2> HIDE DEF d
  <2> QED BY <1>7, <2>1, <2>2 DEF RoutedToOwnShard, ct_is_real
<1>18. q \in SubQuotas
  BY DEF Counted
<1>19. Kept(router_blocks, ShardCount * per_shard_sub_quota)'
  BY <1>7, <1>15 DEF Kept, Known, ShardsAscend, RepeatsShareSortKeys, shares_sort_key, SameUpdates, m
<1> QED BY <1>7, <1>17, <1>18, <1>19 DEF Routed

\* The loads were counted, and one does not fit.
Overfull ==
  /\ Kept(router_blocks, SubBatchSize)
  /\ Compacted(router_blocks, SubBatchSize, reduced_len)
  /\ router_counts = shard_loads(router_blocks, reduced_len)
  /\ \E s \in Shard : router_counts[s] > per_shard_sub_quota

\* What holds of the blocks after each stage.
RoutingInv ==
  /\ Taken /\ per_shard_sub_quota \in SubQuotas
  /\ stage \in {"taken", "reduced", "compacted", "counted", "panicked", "routed"}
  /\ stage = "taken" => router_blocks = batch_slice
  /\ stage = "reduced" => Kept(router_blocks, SubBatchSize)
  /\ stage = "compacted" =>
       Kept(router_blocks, SubBatchSize) /\ Compacted(router_blocks, SubBatchSize, reduced_len)
  /\ stage = "counted" => Counted
  /\ stage = "panicked" => Overfull
  /\ stage = "routed" => Routed

\* A sub-batch as it is taken: updates under the tags of their keys, and dummies.
LEMMA InitTaken ==
  ASSUME FrontendSizes, Init
  PROVE  RoutingInv
<1> DEFINE n == SubBatchSize
<1>1. /\ prf \in [Key -> Nat] /\ n \in Nat /\ per_shard_sub_quota \in SubQuotas
      /\ router_blocks = batch_slice /\ stage = "taken"
  BY DEF Init, FrontendSizes
<1>2. PICK keys \in [1..n -> Key \cup {"none"}] :
        batch_slice = [k \in 1..n |->
                         IF keys[k] = "none" THEN Dummy
                         ELSE [tag |-> prf[keys[k]], key |-> keys[k], value |-> 2^k, epoch |-> 0]]
  BY DEF Init
<1>3. ASSUME NEW k \in 1..n
      PROVE  /\ batch_slice[k] \in RoutedBlock
             /\ batch_slice[k].tag # 0 =>
                  batch_slice[k].key \in Key /\ batch_slice[k].tag = prf[batch_slice[k].key]
  <2>1. CASE keys[k] = "none"
    <3>1. batch_slice[k] = Dummy
      BY <1>2, <2>1
    <3> QED BY <3>1 DEF Dummy, RoutedBlock
  <2>2. CASE keys[k] # "none"
    <3>1. batch_slice[k] = [tag |-> prf[keys[k]], key |-> keys[k], value |-> 2^k, epoch |-> 0]
      BY <1>2, <2>2
    <3>2. keys[k] \in Key /\ prf[keys[k]] \in Nat /\ 2^k \in Nat
      <4>1. k \in Nat
        OBVIOUS
      <4> QED BY <1>1, <1>2, <2>2, <4>1, PowerOfTwo
    <3> QED BY <3>1, <3>2 DEF RoutedBlock
  <2> QED BY <2>1, <2>2
<1>4. batch_slice \in Blocks(n)
  <2>1. DOMAIN batch_slice = 1..n /\ batch_slice = [k \in 1..n |-> batch_slice[k]]
    BY <1>2
  <2> QED BY <1>3, <2>1 DEF Blocks
<1>5. Known(batch_slice, n)
  <2> SUFFICES ASSUME NEW k \in 1..n, batch_slice[k].tag # 0
               PROVE  /\ batch_slice[k].key \in Key /\ batch_slice[k].tag = prf[batch_slice[k].key]
                      /\ blocks_of(batch_slice, batch_slice[k].key) # {}
    BY DEF Known
  <2>1. k \in blocks_of(batch_slice, batch_slice[k].key)
    BY <1>4 DEF blocks_of, ct_is_real, Blocks
  <2> QED BY <1>3, <2>1
<1> QED BY <1>1, <1>4, <1>5 DEF RoutingInv, Taken

\* What the stages leave as it is.
LEMMA GivenKept ==
  ASSUME Taken, per_shard_sub_quota \in SubQuotas, UNCHANGED given
  PROVE  Taken' /\ per_shard_sub_quota' \in SubQuotas
BY DEF Taken, given, Known

\* Every stage keeps the invariant.
LEMMA StepKept ==
  ASSUME FrontendSizes, RoutingInv, Next
  PROVE  RoutingInv'
<1>1. Taken /\ per_shard_sub_quota \in SubQuotas /\ SubBatchSize \in Nat
  BY DEF RoutingInv, FrontendSizes
<1>2. UNCHANGED given
  BY DEF Next, SortReduce, CompactReals, CountLoads, DistributeToShards
<1>3. Taken' /\ per_shard_sub_quota' \in SubQuotas
  BY <1>1, <1>2, GivenKept
<1>4. CASE SortReduce
  <2>1. stage' = "reduced"
    BY <1>4 DEF SortReduce
  <2>2. Kept(router_blocks', SubBatchSize)
    BY <1>1, <1>4, SortReduceKeeps
  <2>3. Kept(router_blocks, SubBatchSize)'
    BY <1>2, <2>2
    DEF given, Kept, Known, ShardsAscend, RepeatsShareSortKeys, shares_sort_key, SameUpdates
  <2> QED BY <1>3, <2>1, <2>3 DEF RoutingInv
<1>5. CASE CompactReals
  <2>1. stage' = "compacted" /\ Kept(router_blocks, SubBatchSize)
    BY <1>5 DEF CompactReals, RoutingInv
  <2>2. /\ Kept(router_blocks', SubBatchSize)
        /\ Compacted(router_blocks', SubBatchSize, reduced_len')
    BY <1>1, <1>5, <2>1, CompactRealsKeeps
  <2>3. Kept(router_blocks, SubBatchSize)'
    BY <1>2, <2>2
    DEF given, Kept, Known, ShardsAscend, RepeatsShareSortKeys, shares_sort_key, SameUpdates
  <2>4. Compacted(router_blocks, SubBatchSize, reduced_len)'
    BY <2>2
  <2> QED BY <1>3, <2>1, <2>3, <2>4 DEF RoutingInv
<1>6. CASE CountLoads
  <2> DEFINE b == router_blocks
             n == SubBatchSize
             len == reduced_len
             q == per_shard_sub_quota
             c == router_counts'
  <2>1. /\ Kept(b, n) /\ Compacted(b, n, len) /\ c = shard_loads(b, len)
        /\ stage' = IF Max({c[s] : s \in Shard}) > q THEN "panicked" ELSE "counted"
        /\ router_blocks' = b /\ reduced_len' = len /\ per_shard_sub_quota' = q
    BY <1>6 DEF CountLoads, RoutingInv, given
  <2>2. b \in Blocks(n) /\ len \in Nat /\ q \in Nat
    BY <1>1, <2>1 DEF Kept, Compacted, FrontendSizes
  <2> HIDE DEF b, n, len, q, c
  <2>3. /\ shards_of(b, len) \in [1..len -> Shard]
        /\ c = [s \in Shard |-> Cardinality({k \in 1..len : shards_of(b, len)[k] = s})]
        /\ \A s \in Shard : c[s] \in Nat /\ c[s] <= len
    <3>1. n \in Nat /\ b \in Blocks(n) /\ Compacted(b, n, len)
      BY <1>1, <2>1, <2>2 DEF n
    <3>2. LoadsOf(b, len, shard_loads(b, len))
      BY <3>1, LoadsCounted
    <3>3. LoadsOf(b, len, c)
      BY <2>1, <3>2
    <3> QED BY <3>3 DEF LoadsOf
  <2>4. Max({c[s] : s \in Shard}) > q <=> \E s \in Shard : c[s] > q
    <3>1. len \in Nat /\ q \in Nat /\ \A s \in Shard : c[s] \in Nat /\ c[s] <= len
      BY <2>2, <2>3
    <3> QED BY <3>1, LargestLoad
  <2>5. Kept(router_blocks, SubBatchSize)'
    BY <1>2, <2>1
    DEF b, n, given, Kept, Known, ShardsAscend, RepeatsShareSortKeys, shares_sort_key, SameUpdates
  <2>6. Compacted(router_blocks, SubBatchSize, reduced_len)'
    BY <2>1 DEF b, n, len
  <2>7. CASE \E s \in Shard : c[s] > q
    <3>1. stage' = "panicked"
      BY <2>1, <2>4, <2>7
    <3>2. Overfull'
      BY <2>1, <2>5, <2>6, <2>7 DEF Overfull, b, len, q, c
    <3> QED BY <1>3, <3>1, <3>2 DEF RoutingInv
  <2>8. CASE ~ \E s \in Shard : c[s] > q
    <3>1. stage' = "counted"
      BY <2>1, <2>4, <2>8
    <3>2. \A s \in Shard : c[s] <= q
      <4> SUFFICES ASSUME NEW s \in Shard PROVE c[s] <= q
        OBVIOUS
      <4>1. c[s] \in Nat /\ ~ (c[s] > q)
        BY <2>3, <2>8
      <4> QED BY <2>2, <4>1
    <3>3. Counts(shards_of(b, len), len, c)
      BY <2>2, <2>3, <3>2 DEF Counts, q
    <3>4. Counts(shards_of(router_blocks, reduced_len), reduced_len, router_counts)'
      BY <2>1, <3>3 DEF Counts, b, len, q, c
    <3>5. Counted'
      BY <1>3, <2>5, <2>6, <3>4 DEF Counted
    <3> QED BY <1>3, <3>1, <3>5 DEF RoutingInv
  <2> QED BY <2>7, <2>8
<1>7. CASE DistributeToShards
  <2>1. stage' = "routed" /\ Counted
    BY <1>7 DEF DistributeToShards, RoutingInv
  <2>2. Routed'
    BY <1>1, <1>7, <2>1, DistributeKeeps
  <2> QED BY <1>3, <2>1, <2>2 DEF RoutingInv
<1> QED BY <1>4, <1>5, <1>6, <1>7 DEF Next

\* The invariant of the stages.
LEMMA RoutingInvariant ==
  ASSUME FrontendSizes
  PROVE  Spec => []RoutingInv
<1>1. Init => RoutingInv
  BY InitTaken
<1>2. RoutingInv /\ [Next]_vars => RoutingInv'
  <2> SUFFICES ASSUME RoutingInv, [Next]_vars PROVE RoutingInv'
    OBVIOUS
  <2>1. CASE Next
    BY <2>1, StepKept
  <2>2. CASE UNCHANGED vars
    BY <2>2
    DEF vars, given, RoutingInv, Taken, Known, Kept, ShardsAscend, RepeatsShareSortKeys,
        shares_sort_key, SameUpdates, Counted, Counts, Overfull, Routed, RoutedToOwnShard
  <2> QED BY <2>1, <2>2
<1> QED BY <1>1, <1>2, PTL DEF Spec
-----------------------------------------------------------------------------
\* process_sub_batch up to the shards' own work, for every sub-batch, keys' tags, order a sort
\* may leave, number of shards and quota: unless it panics, every update of a key is in the
\* routed blocks exactly once (EveryUpdateOnce), nothing lost in the reduction, the two
\* networks, the cut or the extension to the routed length.
THEOREM UpdatesRoutedOnce ==
  ASSUME FrontendSizes
  PROVE  Spec => []EveryUpdateOnce
<1>1. RoutingInv => EveryUpdateOnce
  <2> SUFFICES ASSUME RoutingInv, stage # "panicked", NEW key \in Key
               PROVE  value_of(router_blocks, key) = value_of(batch_slice, key)
    BY DEF EveryUpdateOnce
  <2>1. stage = "taken" \/ SameUpdates(batch_slice, router_blocks)
    BY DEF RoutingInv, Kept, Counted, Routed
  <2> QED BY <2>1 DEF RoutingInv, SameUpdates
<1> QED BY <1>1, RoutingInvariant, PTL

\* With as many shards as the sort key's field tells apart (64 in the code), every routed
\* block lies in the slots of the shard its tag names.  With more shards run frontend_many
\* finds blocks in other shards' slots.
THEOREM RoutedWhereShardsFit ==
  ASSUME FrontendSizes, ShardsFit
  PROVE  Spec => []RoutedToOwnShard
<1>1. RoutingInv => RoutedToOwnShard
  BY DEF RoutingInv, Routed, RoutedToOwnShard
<1> QED BY <1>1, RoutingInvariant, PTL

\* Of two numbers one is the smaller.
LEMMA TwoElements ==
  ASSUME NEW n \in Nat, NEW S \in SUBSET (1..n), Cardinality(S) > 1
  PROVE  \E k, l \in S : k < l
<1>1. S # {}
  BY FS_EmptySet
<1>2. PICK k \in S : TRUE
  BY <1>1
<1>3. S # {k}
  BY FS_Singleton
<1>4. PICK l \in S : l # k
  BY <1>2, <1>3
<1>5. k \in Int /\ l \in Int
  OBVIOUS
<1> QED BY <1>4, <1>5

\* A shard whose load exceeds the quota has as many different keys, unless two share a sort key.
LEMMA OverfullMerged ==
  ASSUME FrontendSizes, ShardsFit, Taken, Overfull, NEW s \in Shard,
         router_counts[s] > per_shard_sub_quota, per_shard_sub_quota \in SubQuotas,
         ~ \E key \in keys_of_shard(s) : shares_sort_key(key)
  PROVE  Cardinality(keys_of_shard(s)) > per_shard_sub_quota
<1> DEFINE b == router_blocks
           n == SubBatchSize
           len == reduced_len
           T == {k \in 1..len : shards_of(b, len)[k] = s}
           K == keys_of_shard(s)
           h == [k \in T |-> b[k].key]
<1>1. /\ n \in Nat /\ b \in Blocks(n) /\ Known(b, n) /\ RepeatsShareSortKeys(b, n)
      /\ Compacted(b, n, len) /\ batch_slice \in Blocks(n)
  BY DEF Overfull, Kept, Taken, FrontendSizes
<1>2. /\ router_counts[s] = Cardinality(T) /\ IsFiniteSet(T) /\ router_counts[s] \in Nat
  <2>1. /\ shard_loads(b, len) =
             [t \in Shard |-> Cardinality({k \in 1..len : shards_of(b, len)[k] = t})]
        /\ shard_loads(b, len)[s] \in Nat
        /\ IsFiniteSet({k \in 1..len : shards_of(b, len)[k] = s})
    <3>1. n \in Nat /\ b \in Blocks(n) /\ Compacted(b, n, len)
      BY <1>1
    <3> HIDE DEF n, b, len
    <3>2. LoadsOf(b, len, shard_loads(b, len))
      BY <3>1, LoadsCounted
    <3> QED BY <3>2 DEF LoadsOf
  <2>2. router_counts = shard_loads(b, len)
    BY DEF Overfull
  <2> QED BY <2>1, <2>2
<1>3. ASSUME NEW k \in T
      PROVE  /\ k \in 1..n /\ b[k].tag # 0 /\ b[k].key \in K
  <2>1. k \in 1..len /\ shard_index_for_tag(b[k].tag) = s
    BY DEF shards_of
  <2>2. k \in 1..n /\ k <= len
    BY <1>1, <2>1 DEF Compacted
  <2>3. b[k].tag # 0
    BY <1>1, <2>2 DEF Compacted
  <2>4. b[k].key \in Key /\ b[k].tag = prf[b[k].key] /\ blocks_of(batch_slice, b[k].key) # {}
    BY <1>1, <2>2, <2>3 DEF Known
  <2> QED BY <2>1, <2>2, <2>3, <2>4 DEF keys_of_shard
<1>4. ASSUME NEW k \in T, NEW l \in T, k < l PROVE b[k].key # b[l].key
  <2>1. k \in 1..n /\ l \in 1..n /\ b[k].tag # 0 /\ b[l].tag # 0 /\ b[k].key \in K
    BY <1>3
  <2>2. b[k].key = b[l].key => shares_sort_key(b[k].key)
    BY <1>1, <1>4, <2>1 DEF RepeatsShareSortKeys
  <2> QED BY <2>1, <2>2
<1>5. IsFiniteSet(K)
  <2> DEFINE i == [k \in 1..n |-> batch_slice[k].key]
             I == {i[k] : k \in 1..n}
  <2>1. IsFiniteSet(I)
    <3>1. IsFiniteSet(1..n)
      BY <1>1, FS_Interval
    <3>2. i \in Surjection(1..n, I)
      BY Fun_IsSurj
    <3> HIDE DEF i, I
    <3> QED BY <3>1, <3>2, FS_Surjection
  <2>2. K \subseteq I
    <3> SUFFICES ASSUME NEW key \in K PROVE key \in I
      OBVIOUS
    <3>1. PICK k \in DOMAIN batch_slice : batch_slice[k].key = key
      BY DEF keys_of_shard, blocks_of
    <3>2. k \in 1..n
      BY <1>1 DEF Blocks
    <3> QED BY <3>1, <3>2
  <2> QED BY <2>1, <2>2, FS_Subset
<1>6. h \in Injection(T, K)
  <2>1. h \in [T -> K]
    BY <1>3
  <2>2. ASSUME NEW k \in T, NEW l \in T, h[k] = h[l] PROVE k = l
    <3>1. k \in Int /\ l \in Int
      <4>1. k \in 1..n /\ l \in 1..n
        BY <1>3
      <4> QED BY <4>1
    <3>2. b[k].key = b[l].key
      BY <2>2
    <3>3. ~ (k < l) /\ ~ (l < k)
      BY <1>4, <3>2
    <3> QED BY <3>1, <3>3
  <2> HIDE DEF h, T, K
  <2> QED BY <2>1, <2>2 DEF Injection, IsInjective
<1> HIDE DEF h, T, K
<1>7. Cardinality(T) <= Cardinality(K) /\ Cardinality(K) \in Nat
  BY <1>5, <1>6, FS_Injection, FS_CardinalityType
<1>8. per_shard_sub_quota \in Nat
  BY DEF FrontendSizes
<1>9. Cardinality(K) > per_shard_sub_quota
  BY <1>2, <1>7, <1>8
<1> QED BY <1>9 DEF K

\* With as many shards as the field tells apart, a key is routed in two blocks only if another
\* key of the sub-batch has its sort key, and a frontend panics only if a shard has more
\* different keys than its quota or two that share a sort key: repeating one key, however
\* often, does not overfill a shard.
THEOREM MergedWhereShardsFit ==
  ASSUME FrontendSizes, ShardsFit
  PROVE  Spec => []MergedUnlessTagsCollide
<1>1. ASSUME RoutingInv PROVE MergedUnlessTagsCollide
  <2>1. ASSUME stage = "routed", NEW key \in Key, Cardinality(blocks_of(router_blocks, key)) > 1
        PROVE  shares_sort_key(key)
    <3> DEFINE b == router_blocks
               m == ShardCount * per_shard_sub_quota
               S == blocks_of(b, key)
    <3>1. /\ m \in Nat /\ b \in Blocks(m) /\ RepeatsShareSortKeys(b, m)
      BY <1>1, <2>1 DEF RoutingInv, Routed, Kept, FrontendSizes
    <3> HIDE DEF m, b
    <3>2. S \in SUBSET (1..m) /\ S = {k \in 1..m : b[k].tag # 0 /\ b[k].key = key}
      BY <3>1, ValueIsWeight
    <3>3. \E k, l \in S : k < l
      <4>1. Cardinality(S) > 1
        BY <2>1 DEF b
      <4> HIDE DEF S
      <4> QED BY <3>1, <3>2, <4>1, TwoElements
    <3> HIDE DEF S
    <3> QED BY <3>1, <3>2, <3>3 DEF RepeatsShareSortKeys
  <2>2. ASSUME stage = "panicked"
        PROVE  \E s \in Shard : \/ Cardinality(keys_of_shard(s)) > per_shard_sub_quota
                                \/ \E key \in keys_of_shard(s) : shares_sort_key(key)
    <3>1. Taken /\ Overfull /\ per_shard_sub_quota \in SubQuotas
      BY <1>1, <2>2 DEF RoutingInv
    <3>2. PICK s \in Shard : router_counts[s] > per_shard_sub_quota
      BY <3>1 DEF Overfull
    <3> QED BY <3>1, <3>2, OverfullMerged
  <2> QED BY <2>1, <2>2 DEF MergedUnlessTagsCollide
<1>2. RoutingInv => MergedUnlessTagsCollide
  BY <1>1
<1> QED BY <1>2, RoutingInvariant, PTL
=============================================================================
