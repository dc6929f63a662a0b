---------------------------- MODULE BasicLemmas ----------------------------
(***************************************************************************)
(* Facts about numbers and finite sets that the proofs of several           *)
(* components cite: smallest and largest elements, quotients and powers,    *)
(* and sums over finite sets.                                               *)
(***************************************************************************)
EXTENDS Integers, FiniteSetsExt, FunctionTheorems, FiniteSetTheorems, WellFoundedInduction, TLAPS

\* A non-empty set of natural numbers has a smallest element.
LEMMA MinOfNat ==
  ASSUME NEW T \in SUBSET Nat, T # {}
  PROVE  /\ Min(T) \in T
         /\ \A x \in T : Min(T) <= x
<1> DEFINE initial(n) == 1..n
           intervals == {initial(n) : n \in T}
<1>1. intervals \subseteq FiniteSubsetsOf(Nat) /\ intervals # {}
  <2>1. \A n \in T : IsFiniteSet(1..n) /\ 1..n \subseteq Nat
    BY FS_Interval
  <2> QED BY <2>1 DEF FiniteSubsetsOf
<1>2. PICK m \in T : \A n \in T : <<1..n, 1..m>> \notin StrictSubsetOrdering(Nat)
  <2>1. PICK I \in intervals : \A J \in intervals : <<J, I>> \notin StrictSubsetOrdering(Nat)
    BY <1>1, FS_StrictSubsetOrderingWellFounded, WFMin
  <2> QED BY <2>1
<1>3. ASSUME NEW n \in T, n < m PROVE FALSE
  <2>1. 1..n \subseteq 1..m /\ 1..n # 1..m
    <3>1. m \in 1..m /\ m \notin 1..n
      BY <1>3
    <3> QED BY <1>3, <3>1
  <2>2. <<1..n, 1..m>> \in (SUBSET Nat) \X (SUBSET Nat)
    OBVIOUS
  <2>3. <<1..n, 1..m>> \in StrictSubsetOrdering(Nat)
    BY <2>1, <2>2, Zenon DEF StrictSubsetOrdering
  <2> QED BY <1>2, <2>3
<1>4. \A x \in T : m <= x
  BY <1>3
<1> QED BY <1>4 DEF Min

\* A non-empty set of integers up to a bound has a largest element.
LEMMA MaxOfBounded ==
  ASSUME NEW T \in SUBSET Int, T # {}, NEW u \in Int, \A x \in T : x <= u
  PROVE  /\ Max(T) \in T
         /\ \A x \in T : x <= Max(T)
<1> DEFINE gaps == {u - x : x \in T}
<1>1. gaps \in SUBSET Nat /\ gaps # {}
  <2>1. \A x \in T : u - x \in Nat
    OBVIOUS
  <2> QED BY <2>1
<1>2. PICK x \in T : u - x = Min(gaps)
  BY <1>1, MinOfNat
<1>3. \A y \in T : Min(gaps) <= u - y
  BY <1>1, MinOfNat
<1>4. \A y \in T : y <= x
  BY <1>2, <1>3
<1> QED BY <1>4 DEF Max

\* The larger of two integers.
LEMMA MaxOfTwo ==
  ASSUME NEW i \in Int, NEW j \in Int
  PROVE  Max({i, j}) = IF i >= j THEN i ELSE j
<1> DEFINE m == IF i >= j THEN i ELSE j
<1>1. m \in {i, j} /\ \A y \in {i, j} : m >= y
  OBVIOUS
<1>2. \A x \in {i, j} : (\A y \in {i, j} : x >= y) => x = m
  OBVIOUS
<1> QED BY <1>1, <1>2 DEF Max

\* The smaller of two integers.
LEMMA MinOfTwo ==
  ASSUME NEW i \in Int, NEW j \in Int
  PROVE  Min({i, j}) = IF i <= j THEN i ELSE j
<1> DEFINE m == IF i <= j THEN i ELSE j
<1>1. m \in {i, j} /\ \A y \in {i, j} : m <= y
  OBVIOUS
<1>2. \A x \in {i, j} : (\A y \in {i, j} : x <= y) => x = m
  OBVIOUS
<1> QED BY <1>1, <1>2 DEF Min

\* Quotient and remainder.
LEMMA Division ==
  ASSUME NEW c \in Nat, NEW a \in Nat \ {0}
  PROVE  c \div a \in Nat /\ c % a \in 0..(a - 1) /\ c = a * (c \div a) + (c % a)
OBVIOUS

\* They are determined by the number.
LEMMA Remainder ==
  ASSUME NEW q \in Nat, NEW a \in Nat \ {0}, NEW r \in 0..(a - 1)
  PROVE  (a * q + r) % a = r
OBVIOUS

\* Remainders can be taken before adding.
LEMMA RemainderOfSum ==
  ASSUME NEW a \in Nat, NEW b \in Nat, NEW m \in Nat \ {0}
  PROVE  (a + b) % m = ((a % m) + b) % m
<1> DEFINE q == a \div m
           r == a % m
           p == (r + b) \div m
           t == (r + b) % m
<1>1. q \in Nat /\ r \in Nat /\ a = m * q + r
  BY Division
<1>2. p \in Nat /\ t \in 0..(m - 1) /\ r + b = m * p + t
  <2>1. r + b \in Nat
    BY <1>1
  <2> HIDE DEF r
  <2> QED BY <2>1, Division
<1> HIDE DEF q, r, p, t
<1>3. a + b = m * (q + p) + t /\ q + p \in Nat
  BY <1>1, <1>2
<1>4. (a + b) % m = t
  BY <1>2, <1>3, Remainder
<1> QED BY <1>4 DEF r, t

\* Multiplication is monotone.
LEMMA Monotone ==
  ASSUME NEW w \in Nat, NEW x \in Int, NEW y \in Int, x <= y
  PROVE  w * x <= w * y
OBVIOUS

\* The power of two of a natural number counts the subsets of an interval, so it
\* doubles with the interval's next number.
LEMMA PowerOfTwo ==
  ASSUME NEW n \in Nat
  PROVE  2^n \in Nat \ {0} /\ 2^(n + 1) = 2 * 2^n
<1> DEFINE without == SUBSET (1..n)
           with    == {T \cup {n + 1} : T \in without}
<1>1. IsFiniteSet(without) /\ Cardinality(without) = 2^n
  <2>1. IsFiniteSet(1..n) /\ Cardinality(1..n) = n
    BY FS_Interval
  <2> QED BY <2>1, FS_SUBSET
<1>2. IsFiniteSet(SUBSET (1..(n + 1))) /\ Cardinality(SUBSET (1..(n + 1))) = 2^(n + 1)
  <2>1. IsFiniteSet(1..(n + 1)) /\ Cardinality(1..(n + 1)) = n + 1
    BY FS_Interval
  <2> QED BY <2>1, FS_SUBSET
<1>3. IsFiniteSet(with) /\ Cardinality(with) = Cardinality(without)
  <2> DEFINE f == [T \in without |-> T \cup {n + 1}]
  <2>1. f \in Bijection(without, with)
    <3>1. f \in [without -> with]
      OBVIOUS
    <3>2. \A T, U \in without : f[T] = f[U] => T = U
      OBVIOUS
    <3>3. \A W \in with : \E T \in without : f[T] = W
      OBVIOUS
    <3> HIDE DEF f, with, without
    <3> QED BY <3>1, <3>2, <3>3 DEF Bijection, Injection, Surjection, IsInjective
  <2> HIDE DEF f, with, without
  <2>2. ExistsBijection(without, with)
    BY <2>1 DEF ExistsBijection
  <2> QED BY <1>1, <2>2, FS_Bijection
<1>4. SUBSET (1..(n + 1)) = without \cup with
  <2>1. ASSUME NEW T \in SUBSET (1..(n + 1)) PROVE T \in without \cup with
    <3>1. CASE n + 1 \in T
      <4>1. T \ {n + 1} \in without /\ T = (T \ {n + 1}) \cup {n + 1}
        BY <3>1
      <4> QED BY <4>1
    <3>2. CASE n + 1 \notin T
      <4>1. T \in without
        BY <3>2
      <4> QED BY <4>1
    <3> QED BY <3>1, <3>2
  <2>2. 1..n \subseteq 1..(n + 1) /\ n + 1 \in 1..(n + 1)
    OBVIOUS
  <2>3. \A T \in without : T \in SUBSET (1..(n + 1)) /\ T \cup {n + 1} \in SUBSET (1..(n + 1))
    BY <2>2
  <2>4. \A T \in with : T \in SUBSET (1..(n + 1))
    BY <2>3
  <2> HIDE DEF without, with
  <2> QED BY <2>1, <2>3, <2>4
<1>5. without \cap with = {}
  OBVIOUS
<1>6. Cardinality(without) \in Nat /\ Cardinality(without) # 0
  <2>1. {} \in without
    OBVIOUS
  <2> HIDE DEF without
  <2> QED BY <1>1, <2>1, FS_CardinalityType, FS_EmptySet
<1> HIDE DEF with, without
<1>7. Cardinality(without \cup with) = Cardinality(without) + Cardinality(with) - 0
  <2>1. Cardinality(without \cap with) = 0
    BY <1>5, FS_EmptySet
  <2> QED BY <1>1, <1>3, <2>1, FS_Union
<1> DEFINE c == Cardinality(without)
           p == 2^n
<1>8. c \in Nat /\ c # 0 /\ p = c /\ 2^(n + 1) = c + c - 0
  BY <1>1, <1>2, <1>3, <1>4, <1>6, <1>7
<1> HIDE DEF c, p
<1>9. p \in Nat \ {0} /\ 2^(n + 1) = 2 * p
  BY <1>8
<1> QED BY <1>9 DEF p
-----------------------------------------------------------------------------
(***************************************************************************)
(* Sums over finite sets, as MapThenSumSet computes them: it takes one      *)
(* element after the other off the set, in an order that CHOOSE fixes.  The *)
(* sum does not depend on that order.                                       *)
(***************************************************************************)

\* The sum of what w gives the elements of S.
weight(w, S) == MapThenSumSet(LAMBDA x : w[x], S)

pick(s) == CHOOSE x \in s : TRUE

\* The sums of all subsets of S, by the equation that MapThenFoldSet recurs by.
sums_step(w, g, s) == IF s = {} THEN 0 ELSE w[pick(s)] + g[s \ {pick(s)}]
Sums(w, S, g) == g = [s \in SUBSET S |-> sums_step(w, g, s)]

\* Nothing smaller than a smallest counterexample is one.
LEMMA SmallestSet ==
  ASSUME NEW S, IsFiniteSet(S), NEW bad \in SUBSET (SUBSET S), bad # {}
  PROVE  \E T \in bad : \A U \in SUBSET T : U # T => U \notin bad
<1>1. bad \subseteq FiniteSubsetsOf(S)
  BY FS_FiniteSubsetsOfFinite
<1>2. PICK T \in bad : \A U \in bad : <<U, T>> \notin StrictSubsetOrdering(S)
  BY <1>1, FS_StrictSubsetOrderingWellFounded, WFMin
<1>3. ASSUME NEW U \in SUBSET T, U # T, U \in bad PROVE FALSE
  <2>1. <<U, T>> \in (SUBSET S) \X (SUBSET S)
    OBVIOUS
  <2>2. <<U, T>> \in StrictSubsetOrdering(S)
    BY <1>3, <2>1, Zenon DEF StrictSubsetOrdering
  <2> QED BY <1>2, <1>3, <2>2
<1> QED BY <1>3

LEMMA Pick ==
  ASSUME NEW s, s # {}
  PROVE  pick(s) \in s
BY DEF pick

\* The equation determines the sum of every subset.
LEMMA SumsAgree ==
  ASSUME NEW w, NEW S, NEW T \in SUBSET S, IsFiniteSet(T),
         NEW g, NEW h, Sums(w, S, g), Sums(w, T, h)
  PROVE  \A U \in SUBSET T : g[U] = h[U]
<1> DEFINE bad == {U \in SUBSET T : g[U] # h[U]}
<1> SUFFICES ASSUME bad # {} PROVE FALSE
  OBVIOUS
<1>1. PICK U \in bad : \A V \in SUBSET U : V # U => V \notin bad
  <2>1. bad \in SUBSET (SUBSET T)
    OBVIOUS
  <2> HIDE DEF bad
  <2> QED BY <2>1, SmallestSet
<1>2. g[U] = sums_step(w, g, U) /\ h[U] = sums_step(w, h, U)
  <2>1. U \in SUBSET S /\ U \in SUBSET T
    OBVIOUS
  <2> QED BY <2>1 DEF Sums
<1>3. U # {} => g[U \ {pick(U)}] = h[U \ {pick(U)}]
  BY <1>1, Pick
<1> QED BY <1>2, <1>3 DEF sums_step

\* It has a solution for every finite set.
LEMMA SumsExist ==
  ASSUME NEW w, NEW S, IsFiniteSet(S)
  PROVE  \E g : Sums(w, S, g)
<1> DEFINE solved(T) == \E g : Sums(w, T, g)
           bad == {T \in SUBSET S : ~solved(T)}
<1> SUFFICES ASSUME bad # {} PROVE FALSE
  OBVIOUS
<1>1. PICK T \in bad : \A U \in SUBSET T : U # T => U \notin bad
  <2>1. bad \in SUBSET (SUBSET S)
    OBVIOUS
  <2> HIDE DEF bad
  <2> QED BY <2>1, SmallestSet
<1>2. T \in SUBSET S /\ ~solved(T) /\ \A U \in SUBSET T : U # T => solved(U)
  BY <1>1
<1> DEFINE sol(U) == CHOOSE g : Sums(w, U, g)
           h == [s \in SUBSET T |-> IF s = {} THEN 0
                                    ELSE w[pick(s)] + sol(s \ {pick(s)})[s \ {pick(s)}]]
<1>3. ASSUME NEW U \in SUBSET T, U # T PROVE Sums(w, U, sol(U)) /\ IsFiniteSet(U)
  <2>1. solved(U)
    BY <1>2, <1>3
  <2>2. IsFiniteSet(U)
    BY <1>2, FS_Subset
  <2> QED BY <2>1, <2>2
<1> HIDE DEF sol
<1>4. ASSUME NEW U \in SUBSET T, U # T PROVE h[U] = sol(U)[U]
  <2>1. sol(U)[U] = sums_step(w, sol(U), U)
    BY <1>3, <1>4 DEF Sums
  <2>2. ASSUME U # {} PROVE sol(U)[U \ {pick(U)}] = sol(U \ {pick(U)})[U \ {pick(U)}]
    <3> DEFINE V == U \ {pick(U)}
    <3>1. V \in SUBSET U /\ V \in SUBSET T /\ V # T
      BY <1>4, <2>2, Pick
    <3>2. Sums(w, U, sol(U)) /\ Sums(w, V, sol(V)) /\ IsFiniteSet(V)
      BY <1>3, <1>4, <3>1
    <3> HIDE DEF V
    <3>3. \A W \in SUBSET V : sol(U)[W] = sol(V)[W]
      BY <3>1, <3>2, SumsAgree
    <3> QED BY <3>3 DEF V
  <2> QED BY <2>1, <2>2 DEF sums_step
<1>5. ASSUME NEW s \in SUBSET T PROVE h[s] = sums_step(w, h, s)
  <2>1. CASE s = {}
    BY <2>1 DEF sums_step
  <2>2. CASE s # {}
    <3> DEFINE V == s \ {pick(s)}
    <3>1. V \in SUBSET T /\ V # T
      BY <2>2, Pick
    <3>2. h[s] = w[pick(s)] + sol(V)[V]
      BY <2>2
    <3> HIDE DEF h
    <3>3. h[V] = sol(V)[V]
      BY <1>4, <3>1
    <3> QED BY <2>2, <3>2, <3>3 DEF sums_step
  <2> QED BY <2>1, <2>2
<1>6. h = [s \in SUBSET T |-> sums_step(w, h, s)]
  <2>1. h = [s \in SUBSET T |-> h[s]]
    OBVIOUS
  <2> HIDE DEF h
  <2>2. [s \in SUBSET T |-> h[s]] = [s \in SUBSET T |-> sums_step(w, h, s)]
    BY <1>5, Zenon
  <2> QED BY <2>1, <2>2
<1>7. solved(T)
  <2> HIDE DEF h
  <2> QED BY <1>6 DEF Sums
<1> QED BY <1>2, <1>7

\* The sum of a set is what the solution gives it.
LEMMA WeightSolves ==
  ASSUME NEW w, NEW S, IsFiniteSet(S), NEW g, Sums(w, S, g)
  PROVE  weight(w, S) = g[S]
<1> DEFINE iter == CHOOSE f : f = [s \in SUBSET S |-> IF s = {} THEN 0
                                     ELSE w[CHOOSE x \in s : TRUE] + f[s \ {CHOOSE x \in s : TRUE}]]
<1>1. weight(w, S) = iter[S]
  BY DEF weight, MapThenSumSet, MapThenFoldSet
<1>2. Sums(w, S, iter)
  <2> DEFINE body(f) == [s \in SUBSET S |-> IF s = {} THEN 0
                           ELSE w[CHOOSE x \in s : TRUE] + f[s \ {CHOOSE x \in s : TRUE}]]
  <2>1. \A f : Sums(w, S, f) <=> f = body(f)
    BY Zenon DEF Sums, sums_step, pick
  <2>2. iter = CHOOSE f : f = body(f)
    BY Zenon
  <2> HIDE DEF iter, body
  <2>3. \E f : f = body(f)
    BY <2>1, SumsExist
  <2>4. iter = body(iter)
    BY <2>2, <2>3, Zenon
  <2> QED BY <2>1, <2>4
<1> HIDE DEF iter
<1>3. \A U \in SUBSET S : iter[U] = g[U]
  BY <1>2, SumsAgree
<1> QED BY <1>1, <1>3

LEMMA WeightEmpty ==
  ASSUME NEW w
  PROVE  weight(w, {}) = 0
<1>1. PICK g : Sums(w, {}, g)
  BY SumsExist, FS_EmptySet
<1>2. weight(w, {}) = g[{}]
  BY <1>1, WeightSolves, FS_EmptySet
<1>3. g[{}] = sums_step(w, g, {})
  <2>1. {} \in SUBSET {}
    OBVIOUS
  <2> QED BY <1>1, <2>1, Zenon DEF Sums
<1> QED BY <1>2, <1>3 DEF sums_step

\* One element off, the one that is picked.
LEMMA WeightPick ==
  ASSUME NEW w, NEW S, IsFiniteSet(S), S # {}
  PROVE  /\ pick(S) \in S
         /\ weight(w, S) = w[pick(S)] + weight(w, S \ {pick(S)})
<1> DEFINE R == S \ {pick(S)}
<1>1. PICK g : Sums(w, S, g)
  BY SumsExist
<1>2. PICK h : Sums(w, R, h)
  BY SumsExist, FS_Subset
<1>3. weight(w, S) = g[S] /\ weight(w, R) = h[R]
  BY <1>1, <1>2, WeightSolves, FS_Subset
<1>4. g[R] = h[R]
  <2>1. R \in SUBSET S /\ IsFiniteSet(R) /\ R \in SUBSET R
    BY FS_Subset
  <2> HIDE DEF R
  <2> QED BY <1>1, <1>2, <2>1, SumsAgree
<1>5. g[S] = sums_step(w, g, S)
  <2>1. S \in SUBSET S
    OBVIOUS
  <2> QED BY <1>1, <2>1, Zenon DEF Sums
<1> QED BY <1>3, <1>4, <1>5, Pick DEF sums_step

\* Natural weights have a natural sum.
LEMMA WeightType ==
  ASSUME NEW S, IsFiniteSet(S), NEW w, \A x \in S : w[x] \in Nat
  PROVE  weight(w, S) \in Nat
<1> DEFINE bad == {T \in SUBSET S : weight(w, T) \notin Nat}
<1> SUFFICES ASSUME bad # {} PROVE FALSE
  OBVIOUS
<1>1. PICK T \in bad : \A U \in SUBSET T : U # T => U \notin bad
  <2>1. bad \in SUBSET (SUBSET S)
    OBVIOUS
  <2> HIDE DEF bad
  <2> QED BY <2>1, SmallestSet
<1>2. T # {}
  <2>1. weight(w, T) \notin Nat
    BY <1>1
  <2>2. T = {} => weight(w, T) = 0
    BY WeightEmpty, Zenon
  <2> QED BY <2>1, <2>2
<1>3. pick(T) \in T /\ weight(w, T) = w[pick(T)] + weight(w, T \ {pick(T)})
  BY <1>1, <1>2, WeightPick, FS_Subset
<1>4. weight(w, T \ {pick(T)}) \in Nat
  BY <1>1, <1>3
<1> QED BY <1>1, <1>3, <1>4

\* The sum depends on the weights of the set's elements alone.
LEMMA WeightEqual ==
  ASSUME NEW S, IsFiniteSet(S), NEW v, NEW w, \A x \in S : v[x] = w[x]
  PROVE  weight(v, S) = weight(w, S)
<1> DEFINE bad == {T \in SUBSET S : weight(v, T) # weight(w, T)}
<1> SUFFICES ASSUME bad # {} PROVE FALSE
  OBVIOUS
<1>1. PICK T \in bad : \A U \in SUBSET T : U # T => U \notin bad
  <2>1. bad \in SUBSET (SUBSET S)
    OBVIOUS
  <2> HIDE DEF bad
  <2> QED BY <2>1, SmallestSet
<1>2. T # {}
  BY <1>1, WeightEmpty
<1>3. /\ pick(T) \in T
      /\ weight(v, T) = v[pick(T)] + weight(v, T \ {pick(T)})
      /\ weight(w, T) = w[pick(T)] + weight(w, T \ {pick(T)})
  BY <1>1, <1>2, WeightPick, FS_Subset
<1>4. weight(v, T \ {pick(T)}) = weight(w, T \ {pick(T)})
  BY <1>1, <1>3
<1> QED BY <1>1, <1>3, <1>4

\* One element off, whichever.
LEMMA WeightRemove ==
  ASSUME NEW S, IsFiniteSet(S), NEW w, \A x \in S : w[x] \in Nat, NEW x \in S
  PROVE  weight(w, S) = w[x] + weight(w, S \ {x})
<1> DEFINE splits(T) == \A y \in T : weight(w, T) = w[y] + weight(w, T \ {y})
           bad == {T \in SUBSET S : ~ splits(T)}
<1> SUFFICES ASSUME bad # {} PROVE FALSE
  <2>1. S \in SUBSET S
    OBVIOUS
  <2> QED BY <2>1
<1>1. PICK T \in bad : \A U \in SUBSET T : U # T => U \notin bad
  <2>1. bad \in SUBSET (SUBSET S)
    OBVIOUS
  <2> HIDE DEF bad
  <2> QED BY <2>1, SmallestSet
<1>2. T \in SUBSET S /\ ~ splits(T) /\ \A U \in SUBSET T : U # T => splits(U)
  BY <1>1
<1>3. PICK y \in T : weight(w, T) # w[y] + weight(w, T \ {y})
  BY <1>2
<1> DEFINE p == pick(T)
           R == T \ {p, y}
<1>4. p \in T /\ weight(w, T) = w[p] + weight(w, T \ {p})
  BY <1>2, <1>3, WeightPick, FS_Subset
<1> HIDE DEF p
<1>5. p # y
  BY <1>3, <1>4
<1>6. weight(w, T \ {p}) = w[y] + weight(w, R)
  <2>1. splits(T \ {p})
    BY <1>2, <1>4
  <2>2. y \in T \ {p} /\ (T \ {p}) \ {y} = R
    BY <1>3, <1>5
  <2> QED BY <2>1, <2>2
<1>7. weight(w, T \ {y}) = w[p] + weight(w, R)
  <2>1. splits(T \ {y})
    BY <1>2, <1>3
  <2>2. p \in T \ {y} /\ (T \ {y}) \ {p} = R
    BY <1>4, <1>5
  <2> QED BY <2>1, <2>2
<1>8. weight(w, R) \in Nat /\ w[p] \in Nat /\ w[y] \in Nat
  <2>1. R \subseteq S /\ IsFiniteSet(R) /\ p \in S /\ y \in S
    BY <1>2, <1>3, <1>4, FS_Subset
  <2> HIDE DEF R
  <2> QED BY <2>1, WeightType
<1> HIDE DEF R
<1> QED BY <1>3, <1>4, <1>6, <1>7, <1>8

\* The sum of a set of one.
LEMMA WeightOfOne ==
  ASSUME NEW x, NEW w, w[x] \in Nat
  PROVE  weight(w, {x}) = w[x]
<1> DEFINE S == {x}
<1>1. IsFiniteSet(S) /\ x \in S /\ \A y \in S : w[y] \in Nat
  BY FS_Singleton
<1>2. weight(w, S \ {x}) = 0
  <2>1. S \ {x} = {}
    OBVIOUS
  <2> HIDE DEF S
  <2> QED BY <2>1, WeightEmpty, Zenon
<1> HIDE DEF S
<1>3. weight(w, S) = w[x] + weight(w, S \ {x})
  BY <1>1, WeightRemove
<1> QED BY <1>2, <1>3 DEF S

\* The sum of two sets that share nothing.
LEMMA WeightUnion ==
  ASSUME NEW S, NEW T, IsFiniteSet(S), IsFiniteSet(T), S \cap T = {},
         NEW w, \A x \in S \cup T : w[x] \in Nat
  PROVE  weight(w, S \cup T) = weight(w, S) + weight(w, T)
<1> DEFINE adds(U) == weight(w, U \cup T) = weight(w, U) + weight(w, T)
           bad == {U \in SUBSET S : ~ adds(U)}
<1> SUFFICES ASSUME bad # {} PROVE FALSE
  <2>1. S \in SUBSET S
    OBVIOUS
  <2> QED BY <2>1
<1>1. PICK U \in bad : \A V \in SUBSET U : V # U => V \notin bad
  <2>1. bad \in SUBSET (SUBSET S)
    OBVIOUS
  <2> HIDE DEF bad
  <2> QED BY <2>1, SmallestSet
<1>2. U \in SUBSET S /\ ~ adds(U) /\ \A V \in SUBSET U : V # U => adds(V)
  BY <1>1
<1>3. IsFiniteSet(U) /\ IsFiniteSet(U \cup T)
  BY <1>2, FS_Subset, FS_Union
<1>4. weight(w, T) \in Nat
  BY WeightType
<1>5. PICK x \in U : TRUE
  <2>1. ASSUME U = {} PROVE FALSE
    <3>1. weight(w, U \cup T) = weight(w, T)
      <4>1. U \cup T = T
        BY <2>1
      <4> QED BY <4>1, Zenon
    <3>2. weight(w, U) = 0
      BY <2>1, WeightEmpty, Zenon
    <3>3. adds(U)
      BY <1>4, <3>1, <3>2
    <3> QED BY <1>2, <3>3
  <2> QED BY <2>1
<1> DEFINE V == U \ {x}
<1>6. weight(w, U) = w[x] + weight(w, V)
  BY <1>2, <1>3, <1>5, WeightRemove
<1>7. weight(w, U \cup T) = w[x] + weight(w, V \cup T)
  <2>1. (U \cup T) \ {x} = V \cup T /\ x \in U \cup T
    BY <1>2, <1>5
  <2>2. \A y \in U \cup T : w[y] \in Nat
    BY <1>2
  <2>3. weight(w, U \cup T) = w[x] + weight(w, (U \cup T) \ {x})
    BY <1>3, <2>1, <2>2, WeightRemove
  <2> QED BY <2>1, <2>3
<1>8. weight(w, V \cup T) = weight(w, V) + weight(w, T)
  BY <1>2, <1>5
<1>9. weight(w, V) \in Nat /\ w[x] \in Nat
  <2>1. V \subseteq S /\ IsFiniteSet(V) /\ x \in S
    BY <1>2, <1>3, <1>5, FS_Subset
  <2> HIDE DEF V
  <2> QED BY <2>1, WeightType
<1> HIDE DEF V
<1> QED BY <1>2, <1>4, <1>6, <1>7, <1>8, <1>9

\* A part weighs no more than the whole.
LEMMA WeightPart ==
  ASSUME NEW T, IsFiniteSet(T), NEW S \in SUBSET T, NEW w, \A x \in T : w[x] \in Nat
  PROVE  weight(w, S) \in Nat /\ weight(w, T) \in Nat /\ weight(w, S) <= weight(w, T)
<1> DEFINE R == T \ S
<1>1. IsFiniteSet(S) /\ IsFiniteSet(R) /\ S \cup R = T /\ S \cap R = {}
  BY FS_Subset
<1>2. (\A x \in S : w[x] \in Nat) /\ (\A x \in R : w[x] \in Nat)
  OBVIOUS
<1> HIDE DEF R
<1>3. weight(w, S) \in Nat /\ weight(w, R) \in Nat /\ weight(w, T) \in Nat
  BY <1>1, <1>2, WeightType
<1>4. weight(w, T) = weight(w, S) + weight(w, R)
  <2>1. weight(w, S \cup R) = weight(w, S) + weight(w, R)
    BY <1>1, WeightUnion
  <2> QED BY <1>1, <2>1, Zenon
<1> QED BY <1>1, <1>3, <1>4

\* Renaming the elements, each to another, keeps the sum.
LEMMA WeightImage ==
  ASSUME NEW S, IsFiniteSet(S), NEW T, NEW f, NEW v, NEW w,
         \A x \in S : f[x] \in T /\ v[x] \in Nat /\ w[f[x]] = v[x],
         \A y \in T : \E x \in S : y = f[x],
         \A x, y \in S : f[x] = f[y] => x = y
  PROVE  weight(w, T) = weight(v, S)
<1> DEFINE img(U) == {f[x] : x \in U}
           keeps(U) == weight(w, img(U)) = weight(v, U)
           bad == {U \in SUBSET S : ~ keeps(U)}
<1> SUFFICES ASSUME bad # {} PROVE FALSE
  <2>1. S \in SUBSET S /\ img(S) = T
    OBVIOUS
  <2> HIDE DEF img
  <2>2. keeps(S)
    BY <2>1
  <2> QED BY <2>1, <2>2, Zenon
<1>1. PICK U \in bad : \A V \in SUBSET U : V # U => V \notin bad
  <2>1. bad \in SUBSET (SUBSET S)
    OBVIOUS
  <2> HIDE DEF bad
  <2> QED BY <2>1, SmallestSet
<1>2. U \in SUBSET S /\ ~ keeps(U) /\ \A V \in SUBSET U : V # U => keeps(V)
  BY <1>1
<1>3. IsFiniteSet(U)
  BY <1>2, FS_Subset
<1>4. IsFiniteSet(img(U))
  <2> DEFINE g == [x \in U |-> f[x]]
  <2>1. g \in Surjection(U, img(U))
    BY Fun_IsSurj
  <2> HIDE DEF g, img
  <2> QED BY <1>3, <2>1, FS_Surjection
<1>5. PICK x \in U : TRUE
  <2>1. ASSUME U = {} PROVE FALSE
    <3>1. img(U) = {}
      BY <2>1
    <3> HIDE DEF img
    <3>2. weight(w, img(U)) = 0 /\ weight(v, U) = 0
      BY <2>1, <3>1, WeightEmpty, Zenon
    <3> QED BY <1>2, <3>2
  <2> QED BY <2>1
<1> DEFINE V == U \ {x}
<1>6. weight(v, U) = v[x] + weight(v, V)
  BY <1>2, <1>3, <1>5, WeightRemove
<1>7. weight(w, img(U)) = v[x] + weight(w, img(V))
  <2>1. f[x] \in img(U) /\ w[f[x]] = v[x]
    BY <1>2, <1>5
  <2>2. img(U) \ {f[x]} = img(V)
    BY <1>2, <1>5
  <2>3. \A y \in img(U) : w[y] \in Nat
    BY <1>2
  <2> HIDE DEF img
  <2>4. weight(w, img(U)) = w[f[x]] + weight(w, img(U) \ {f[x]})
    BY <1>4, <2>1, <2>3, WeightRemove
  <2> QED BY <2>1, <2>2, <2>4
<1>8. keeps(V)
  BY <1>2, <1>5
<1> QED BY <1>2, <1>6, <1>7, <1>8
=============================================================================
