--------------------------- MODULE ReduceRunsProofs ---------------------------
(***************************************************************************)
(* The pass of ReduceRuns on inputs of any length.  RunInv says of the      *)
(* blocks already read that each run holds all it gathered in its last      *)
(* block, that the accumulator is what the last real block's run gathered,  *)
(* and of the others that they are as they came.                            *)
(***************************************************************************)
EXTENDS ReduceRuns, BasicLemmas

\* What the run that ends at block l adds up to, and the block that holds it.
total(l) ==
  LET places == run_ending_at(l)
  IN  [packet_count |-> packets(places) % 2^Width,
       first_seen   |-> Min({input[m].value.first_seen : m \in places}),
       last_seen    |-> Max({input[m].value.last_seen : m \in places}),
       tcp_flags    |-> UNION {input[m].value.tcp_flags : m \in places}]
oldest(l)   == Min({input[m].epoch : m \in run_ending_at(l)})
gathered(l) == [tag |-> input[l].tag, key |-> input[l].key, epoch |-> oldest(l), value |-> total(l)]

\* Whether block l continues the run of the block before it.
continues(l) ==
  ct_is_real(input[l]) /\ ct_is_real(input[l - 1]) /\ input[l].key = input[l - 1].key

TypeOK ==
  /\ input \in Seq(Block)
  /\ checked \in BOOLEAN
  /\ next \in Nat \ {0, 1} /\ (next <= Len(input) + 1 \/ next = 2)
  /\ DOMAIN run.blocks = DOMAIN input
  /\ stage \in {"reducing", "reduced", "overflowed"}

\* A block that was read is left real just when it ends its run, as far as that has been
\* read, and then holds what the run gathered.
ReadInv ==
  \A l \in DOMAIN input :
    l < next =>
      /\ run.blocks[l].key = input[l].key
      /\ ct_is_real(run.blocks[l])
           <=> ct_is_real(input[l]) /\ ~ (l + 1 < next /\ l + 1 \in DOMAIN input /\ continues(l + 1))
      /\ ct_is_real(run.blocks[l]) => run.blocks[l] = gathered(l)

UnreadInv == \A l \in DOMAIN input : l >= next => run.blocks[l] = input[l]

\* The last real block that was read.
last_real(l) ==
  /\ l \in DOMAIN input /\ l < next /\ ct_is_real(input[l])
  /\ \A m \in DOMAIN input : l < m /\ m < next => ~ ct_is_real(input[m])

AccInv ==
  \/ run.acc_val = NoFlow /\ \A l \in DOMAIN input : l < next => ~ ct_is_real(input[l])
  \/ \E l \in DOMAIN input : last_real(l) /\ run.acc_val = total(l) /\ run.acc_epoch = oldest(l)

StageInv ==
  /\ stage = "reduced" => next > Len(input)
  /\ NoPanicBelowHalf

RunInv == TypeOK /\ ReadInv /\ UnreadInv /\ AccInv /\ StageInv
-----------------------------------------------------------------------------
(***************************************************************************)
(* Runs and what they add up to.                                            *)
(***************************************************************************)

\* The counts that are added up.
Counts == [l \in DOMAIN input |-> input[l].value.packet_count]

\* The parts of the blocks that came.
LEMMA InputParts ==
  ASSUME input \in Seq(Block)
  PROVE  /\ Len(input) \in Nat /\ DOMAIN input = 1..Len(input)
         /\ \A l \in DOMAIN input :
              /\ input[l] = [tag |-> input[l].tag, key |-> input[l].key,
                             value |-> input[l].value, epoch |-> input[l].epoch]
              /\ input[l].value \in FlowRecord
              /\ input[l].epoch \in Nat
              /\ input[l].tag \in {0, 1}
<1>1. ASSUME NEW b \in Block
      PROVE  /\ b = [tag |-> b.tag, key |-> b.key, value |-> b.value, epoch |-> b.epoch]
             /\ b.value \in FlowRecord /\ b.epoch \in Nat /\ b.tag \in {0, 1}
  <2>1. b \in [tag : {0, 1}, key : Key, value : Value, epoch : Epoch]
    BY DEF Block
  <2>2. b.value \in Value /\ b.epoch \in Epoch /\ b.tag \in {0, 1}
    BY <2>1
  <2>3. b = [tag |-> b.tag, key |-> b.key, value |-> b.value, epoch |-> b.epoch]
    BY <2>1
  <2> QED BY <2>2, <2>3, ValueAssumption
<1>2. \A l \in DOMAIN input : input[l] \in Block
  OBVIOUS
<1> QED BY <1>1, <1>2

\* The parts of a flow record.
LEMMA RecordParts ==
  ASSUME NEW v \in FlowRecord
  PROVE  /\ v = [packet_count |-> v.packet_count, first_seen |-> v.first_seen,
                 last_seen |-> v.last_seen, tcp_flags |-> v.tcp_flags]
         /\ 2^Width \in Nat \ {0} /\ Latest \in Nat
         /\ v.packet_count \in Nat /\ v.packet_count < 2^Width
         /\ v.first_seen \in Nat
         /\ v.last_seen \in Nat /\ v.last_seen <= Latest
<1>1. 2^Width \in Nat \ {0}
  BY WordAssumption, PowerOfTwo
<1> DEFINE word == 2^Width
<1>2. v.packet_count \in 0..(word - 1) /\ word \in Nat \ {0}
  BY <1>1 DEF FlowRecord
<1>3. /\ v = [packet_count |-> v.packet_count, first_seen |-> v.first_seen,
              last_seen |-> v.last_seen, tcp_flags |-> v.tcp_flags]
      /\ v.first_seen \in 0..Latest /\ v.last_seen \in 0..Latest
  BY DEF FlowRecord
<1> HIDE DEF word
<1>4. v.packet_count \in Nat /\ v.packet_count < word
  BY <1>2
<1> QED BY <1>1, <1>3, <1>4, WordAssumption DEF word

\* A run ends where it ends; a block that continues a run adds one place to it.
LEMMA RunPlaces ==
  ASSUME input \in Seq(Block), NEW l \in DOMAIN input
  PROVE  /\ run_ending_at(l) \subseteq 1..l /\ IsFiniteSet(run_ending_at(l))
         /\ run_ending_at(l) \subseteq DOMAIN input
         /\ ct_is_real(input[l]) => l \in run_ending_at(l)
         /\ ct_is_real(input[l]) /\ (l = 1 \/ ~ continues(l)) => run_ending_at(l) = {l}
         /\ l # 1 /\ continues(l) =>
              /\ run_ending_at(l) = run_ending_at(l - 1) \cup {l}
              /\ l - 1 \in run_ending_at(l - 1) /\ l \notin run_ending_at(l - 1)
<1>1. l \in 1..Len(input) /\ Len(input) \in Nat /\ DOMAIN input = 1..Len(input)
  BY InputParts
<1>2. run_ending_at(l) \subseteq 1..l /\ run_ending_at(l) \subseteq DOMAIN input
  BY <1>1 DEF run_ending_at
<1>3. IsFiniteSet(run_ending_at(l))
  <2>1. IsFiniteSet(1..l)
    BY <1>1, FS_Interval
  <2> QED BY <1>2, <2>1, FS_Subset
<1>4. ct_is_real(input[l]) => l \in run_ending_at(l)
  BY <1>1 DEF run_ending_at
<1>5. ASSUME ct_is_real(input[l]), l = 1 \/ ~ continues(l) PROVE run_ending_at(l) = {l}
  <2>1. ASSUME NEW m \in run_ending_at(l) PROVE m = l
    <3>1. m \in 1..l /\ \A x \in m..l : ct_is_real(input[x]) /\ input[x].key = input[l].key
      BY <2>1 DEF run_ending_at
    <3>2. SUFFICES ASSUME m # l PROVE FALSE
      OBVIOUS
    <3>3. l - 1 \in m..l /\ l # 1
      BY <1>1, <3>1, <3>2
    <3>4. ct_is_real(input[l - 1]) /\ input[l - 1].key = input[l].key
      BY <3>1, <3>3
    <3> QED BY <1>5, <3>3, <3>4 DEF continues
  <2> QED BY <1>4, <1>5, <2>1
<1>6. ASSUME l # 1, continues(l)
      PROVE  /\ run_ending_at(l) = run_ending_at(l - 1) \cup {l}
             /\ l - 1 \in run_ending_at(l - 1) /\ l \notin run_ending_at(l - 1)
  <2>1. l - 1 \in 1..(l - 1) /\ l \notin 1..(l - 1)
    BY <1>1, <1>6
  <2>2. l - 1 \in run_ending_at(l - 1)
    <3>1. \A x \in (l - 1)..(l - 1) : x = l - 1
      BY <1>1
    <3> QED BY <1>6, <2>1, <3>1 DEF run_ending_at, continues
  <2>3. l \notin run_ending_at(l - 1)
    BY <2>1 DEF run_ending_at
  <2>4. ASSUME NEW m \in 1..(l - 1) PROVE m \in run_ending_at(l) <=> m \in run_ending_at(l - 1)
    <3>1. m \in 1..l /\ m..l = (m..(l - 1)) \cup {l}
      BY <1>1
    <3>2. ct_is_real(input[l]) /\ input[l].key = input[l - 1].key
      BY <1>6 DEF continues
    <3> QED BY <2>4, <3>1, <3>2 DEF run_ending_at
  <2>5. l \in run_ending_at(l)
    BY <1>4, <1>6 DEF continues
  <2>6. run_ending_at(l - 1) \subseteq 1..(l - 1) /\ 1..l = 1..(l - 1) \cup {l}
    BY <1>1 DEF run_ending_at
  <2> QED BY <1>2, <2>2, <2>3, <2>4, <2>5, <2>6
<1> QED BY <1>2, <1>3, <1>4, <1>5, <1>6

\* packets adds up the counts.
LEMMA PacketsWeigh ==
  ASSUME input \in Seq(Block), NEW P \in SUBSET (DOMAIN input)
  PROVE  packets(P) = weight(Counts, P)
<1> DEFINE one(f) == [s \in SUBSET P |-> IF s = {} THEN 0
                        ELSE input[CHOOSE x \in s : TRUE].value.packet_count
                             + f[s \ {CHOOSE x \in s : TRUE}]]
           other(f) == [s \in SUBSET P |-> IF s = {} THEN 0
                          ELSE Counts[CHOOSE x \in s : TRUE] + f[s \ {CHOOSE x \in s : TRUE}]]
<1>1. \A l \in P : Counts[l] = input[l].value.packet_count
  BY DEF Counts
<1>2. ASSUME NEW f PROVE one(f) = other(f)
  <2>1. ASSUME NEW s \in SUBSET P, s # {}
        PROVE  Counts[CHOOSE x \in s : TRUE] = input[CHOOSE x \in s : TRUE].value.packet_count
    <3>1. (CHOOSE x \in s : TRUE) \in P
      BY <2>1
    <3> QED BY <1>1, <3>1
  <2>2. ASSUME NEW s \in SUBSET P
        PROVE  (IF s = {} THEN 0
                ELSE input[CHOOSE x \in s : TRUE].value.packet_count
                     + f[s \ {CHOOSE x \in s : TRUE}])
                 = (IF s = {} THEN 0
                    ELSE Counts[CHOOSE x \in s : TRUE] + f[s \ {CHOOSE x \in s : TRUE}])
    BY <2>1
  <2> QED BY <2>2, Zenon
<1>3. packets(P) = (CHOOSE f : f = one(f))[P]
  BY DEF packets, MapThenSumSet, MapThenFoldSet
<1>4. weight(Counts, P) = (CHOOSE f : f = other(f))[P]
  BY DEF weight, MapThenSumSet, MapThenFoldSet
<1> HIDE DEF one, other
<1> QED BY <1>2, <1>3, <1>4, Zenon

\* The smallest and the largest of a set and one more.
LEMMA MinWithOne ==
  ASSUME NEW T \in SUBSET Nat, T # {}, NEW x \in Nat
  PROVE  Min({x}) = x /\ Min(T) \in Nat /\ Min(T \cup {x}) = Min({Min(T), x})
<1>1. Min({x}) = x
  <2>1. {x} \in SUBSET Nat /\ {x} # {}
    OBVIOUS
  <2> QED BY <2>1, MinOfNat
<1> DEFINE U == T \cup {x}
<1>2. Min(T) \in T /\ (\A y \in T : Min(T) <= y)
  BY MinOfNat
<1>3. Min(U) \in U /\ (\A y \in U : Min(U) <= y)
  <2>1. U \in SUBSET Nat /\ U # {}
    OBVIOUS
  <2> HIDE DEF U
  <2> QED BY <2>1, MinOfNat
<1>4. Min(T) \in Nat /\ Min(T) \in U /\ x \in U
  BY <1>2
<1>5. Min({Min(T), x}) = IF Min(T) <= x THEN Min(T) ELSE x
  BY <1>4, MinOfTwo
<1>6. Min(U) \in T \/ Min(U) = x
  BY <1>3
<1> HIDE DEF U
<1>7. Min(U) = IF Min(T) <= x THEN Min(T) ELSE x
  <2>1. Min(U) \in Nat /\ Min(U) <= Min(T) /\ Min(U) <= x
    BY <1>2, <1>3, <1>4, <1>6
  <2>2. Min(U) \in T => Min(T) <= Min(U)
    BY <1>2
  <2> QED BY <1>4, <1>6, <2>1, <2>2
<1> QED BY <1>1, <1>4, <1>5, <1>7 DEF U

LEMMA MaxWithOne ==
  ASSUME NEW T \in SUBSET (0..Latest), T # {}, NEW x \in 0..Latest
  PROVE  Max({x}) = x /\ Max(T) \in Nat /\ Max(T \cup {x}) = Max({Max(T), x})
<1>0. /\ Latest \in Int /\ T \in SUBSET Int
      /\ (\A y \in T : y \in Nat) /\ (\A y \in T : y <= Latest)
      /\ x \in Nat /\ x <= Latest
  BY WordAssumption
<1>1. Max({x}) = x
  <2>1. Max({x, x}) = x
    BY MaxOfTwo
  <2>2. {x, x} = {x}
    OBVIOUS
  <2> QED BY <2>1, <2>2, Zenon
<1> DEFINE U == T \cup {x}
<1>2. Max(T) \in T /\ (\A y \in T : y <= Max(T))
  BY <1>0, MaxOfBounded
<1>3. Max(U) \in U /\ (\A y \in U : y <= Max(U))
  <2>1. U \in SUBSET Int /\ U # {} /\ \A y \in U : y <= Latest
    BY <1>0
  <2> HIDE DEF U
  <2> QED BY <1>0, <2>1, MaxOfBounded
<1>4. Max(T) \in Nat /\ Max(T) \in U /\ x \in U
  BY <1>0, <1>2
<1>5. Max({Max(T), x}) = IF Max(T) >= x THEN Max(T) ELSE x
  BY <1>4, MaxOfTwo
<1>6. Max(U) \in T \/ Max(U) = x
  BY <1>3
<1> HIDE DEF U
<1>7. Max(U) = IF Max(T) >= x THEN Max(T) ELSE x
  <2>1. Max(U) \in Nat /\ Max(T) <= Max(U) /\ x <= Max(U)
    BY <1>0, <1>2, <1>3, <1>4, <1>6
  <2>2. Max(U) \in T => Max(U) <= Max(T)
    BY <1>2
  <2> QED BY <1>4, <1>6, <2>1, <2>2
<1> QED BY <1>1, <1>4, <1>5, <1>7 DEF U

\* A block that starts a run is all there is to it so far.
LEMMA TotalOfOne ==
  ASSUME input \in Seq(Block), NEW l \in DOMAIN input, run_ending_at(l) = {l}
  PROVE  total(l) = input[l].value /\ oldest(l) = input[l].epoch /\ gathered(l) = input[l]
<1> DEFINE v == input[l].value
<1>1. /\ input[l] = [tag |-> input[l].tag, key |-> input[l].key, value |-> v,
                     epoch |-> input[l].epoch]
      /\ v \in FlowRecord /\ input[l].epoch \in Nat
  BY InputParts
<1>2. packets({l}) % 2^Width = v.packet_count
  <2>1. Counts[l] = v.packet_count
    BY DEF Counts
  <2> HIDE DEF v
  <2>2. v.packet_count \in Nat /\ v.packet_count < 2^Width /\ 2^Width \in Nat \ {0}
    BY <1>1, RecordParts
  <2>3. packets({l}) = v.packet_count
    BY <2>1, <2>2, PacketsWeigh, WeightOfOne
  <2> DEFINE c == v.packet_count
             word == 2^Width
  <2>4. c \in Nat /\ c < word /\ word \in Nat \ {0}
    BY <2>2
  <2> HIDE DEF c, word
  <2>5. c % word = c
    BY <2>4
  <2> QED BY <2>3, <2>5 DEF c, word
<1>3. /\ Min({input[m].value.first_seen : m \in {l}}) = v.first_seen
      /\ Min({input[m].epoch : m \in {l}}) = input[l].epoch
  <2>1. /\ {input[m].value.first_seen : m \in {l}} = {v.first_seen}
        /\ {input[m].epoch : m \in {l}} = {input[l].epoch}
    OBVIOUS
  <2>2. v.first_seen \in Nat
    <3> HIDE DEF v
    <3> QED BY <1>1, RecordParts
  <2>3. \A x \in Nat : Min({x}) = x
    <3>1. {0} \in SUBSET Nat /\ {0} # {}
      OBVIOUS
    <3> QED BY <3>1, MinWithOne
  <2>4. Min({v.first_seen}) = v.first_seen /\ Min({input[l].epoch}) = input[l].epoch
    BY <1>1, <2>2, <2>3
  <2> QED BY <2>1, <2>4, Zenon
<1>4. Max({input[m].value.last_seen : m \in {l}}) = v.last_seen
  <2>1. {input[m].value.last_seen : m \in {l}} = {v.last_seen}
    OBVIOUS
  <2>2. v.last_seen \in 0..Latest
    <3> HIDE DEF v
    <3>1. v.last_seen \in Nat /\ v.last_seen <= Latest /\ Latest \in Nat
      BY <1>1, RecordParts, WordAssumption
    <3> QED BY <3>1
  <2>3. Max({v.last_seen}) = v.last_seen
    <3> HIDE DEF v
    <3>1. {v.last_seen} # {} /\ {v.last_seen} \in SUBSET (0..Latest)
      BY <2>2
    <3> QED BY <2>2, <3>1, MaxWithOne
  <2> QED BY <2>1, <2>3, Zenon
<1>5. UNION {input[m].value.tcp_flags : m \in {l}} = v.tcp_flags
  OBVIOUS
<1>6. total(l) = v
  <2>1. total(l) = [packet_count |-> v.packet_count, first_seen |-> v.first_seen,
                    last_seen |-> v.last_seen, tcp_flags |-> v.tcp_flags]
    BY <1>2, <1>3, <1>4, <1>5, Zenon DEF total
  <2> HIDE DEF v
  <2> QED BY <1>1, <2>1, RecordParts
<1>7. oldest(l) = input[l].epoch
  BY <1>3 DEF oldest
<1> QED BY <1>1, <1>6, <1>7 DEF gathered

\* One that continues a run adds its value to what the run has gathered.
LEMMA TotalContinues ==
  ASSUME input \in Seq(Block), NEW l \in DOMAIN input, l # 1, continues(l)
  PROVE  /\ total(l) = add_flows(total(l - 1), input[l].value)
         /\ oldest(l) = Min({oldest(l - 1), input[l].epoch})
<1> DEFINE v == input[l].value
           P == run_ending_at(l - 1)
           Q == run_ending_at(l)
<1>1. /\ Q = P \cup {l} /\ l - 1 \in P /\ l \notin P
      /\ P \subseteq DOMAIN input /\ IsFiniteSet(P)
  <2>1. l - 1 \in DOMAIN input
    BY InputParts
  <2>2. IsFiniteSet(run_ending_at(l - 1)) /\ run_ending_at(l - 1) \subseteq DOMAIN input
    BY <2>1, RunPlaces
  <2> QED BY <2>2, RunPlaces
<1>2. \A m \in DOMAIN input : /\ input[m].value \in FlowRecord /\ input[m].epoch \in Nat
                              /\ Counts[m] = input[m].value.packet_count
  BY InputParts DEF Counts
<1>3. \A m \in DOMAIN input :
        /\ input[m].value.packet_count \in Nat /\ input[m].value.first_seen \in Nat
        /\ input[m].value.last_seen \in Nat /\ input[m].value.last_seen <= Latest
  BY <1>2, RecordParts
<1>4. 2^Width \in Nat \ {0} /\ Latest \in Nat
  BY WordAssumption, PowerOfTwo
<1> HIDE DEF P, Q
<1>5. packets(Q) % 2^Width = ((packets(P) % 2^Width) + v.packet_count) % 2^Width
  <2>1. \A m \in Q : Counts[m] \in Nat
    BY <1>1, <1>2, <1>3
  <2>2. IsFiniteSet(Q) /\ l \in Q /\ Q \ {l} = P /\ Q \in SUBSET (DOMAIN input)
    BY <1>1, FS_AddElement
  <2>3. weight(Counts, Q) = Counts[l] + weight(Counts, Q \ {l})
    BY <2>1, <2>2, WeightRemove
  <2>4. weight(Counts, P) \in Nat
    <3>1. \A m \in P : Counts[m] \in Nat
      BY <1>1, <2>1
    <3> QED BY <1>1, <3>1, WeightType
  <2>5. packets(Q) = weight(Counts, Q) /\ packets(P) = weight(Counts, P)
    BY <1>1, <2>2, PacketsWeigh
  <2>6. packets(Q) = packets(P) + v.packet_count /\ packets(P) \in Nat /\ v.packet_count \in Nat
    <3>1. weight(Counts, Q \ {l}) = weight(Counts, P)
      BY <2>2, Zenon
    <3> QED BY <1>2, <1>3, <2>3, <2>4, <2>5, <3>1
  <2> DEFINE a == packets(P)
             c == v.packet_count
             word == 2^Width
  <2>7. a \in Nat /\ c \in Nat /\ word \in Nat \ {0} /\ packets(Q) = a + c
    BY <1>4, <2>6
  <2> HIDE DEF a, c, word
  <2>8. (a + c) % word = ((a % word) + c) % word
    BY <2>7, RemainderOfSum
  <2>9. packets(Q) % word = ((a % word) + c) % word
    BY <2>7, <2>8
  <2> QED BY <2>9 DEF a, c, word
<1>6. /\ Min({input[m].value.first_seen : m \in Q})
           = Min({Min({input[m].value.first_seen : m \in P}), v.first_seen})
      /\ Min({input[m].epoch : m \in Q}) = Min({Min({input[m].epoch : m \in P}), input[l].epoch})
  <2> DEFINE T == {input[m].value.first_seen : m \in P}
             E == {input[m].epoch : m \in P}
  <2>1. /\ {input[m].value.first_seen : m \in Q} = T \cup {v.first_seen}
        /\ {input[m].epoch : m \in Q} = E \cup {input[l].epoch}
    BY <1>1
  <2>2. T \in SUBSET Nat /\ T # {} /\ E \in SUBSET Nat /\ E # {}
    BY <1>1, <1>2, <1>3
  <2>3. v.first_seen \in Nat /\ input[l].epoch \in Nat
    BY <1>2, <1>3
  <2> HIDE DEF T, E, v
  <2>4. /\ Min(T \cup {v.first_seen}) = Min({Min(T), v.first_seen})
        /\ Min(E \cup {input[l].epoch}) = Min({Min(E), input[l].epoch})
    BY <2>2, <2>3, MinWithOne
  <2> QED BY <2>1, <2>4, Zenon DEF T, E
<1>7. Max({input[m].value.last_seen : m \in Q})
        = Max({Max({input[m].value.last_seen : m \in P}), v.last_seen})
  <2> DEFINE T == {input[m].value.last_seen : m \in P}
  <2>1. {input[m].value.last_seen : m \in Q} = T \cup {v.last_seen}
    BY <1>1
  <2>2. T \in SUBSET (0..Latest) /\ T # {}
    BY <1>1, <1>3, <1>4
  <2>3. v.last_seen \in 0..Latest
    BY <1>3, <1>4
  <2> HIDE DEF T, v
  <2>4. Max(T \cup {v.last_seen}) = Max({Max(T), v.last_seen})
    BY <2>2, <2>3, MaxWithOne
  <2> QED BY <2>1, <2>4, Zenon DEF T
<1>8. UNION {input[m].value.tcp_flags : m \in Q}
        = (UNION {input[m].value.tcp_flags : m \in P}) \cup v.tcp_flags
  BY <1>1
<1>9. total(l) = add_flows(total(l - 1), v)
  <2>1. /\ total(l - 1).packet_count = packets(P) % 2^Width
        /\ total(l - 1).first_seen = Min({input[m].value.first_seen : m \in P})
        /\ total(l - 1).last_seen = Max({input[m].value.last_seen : m \in P})
        /\ total(l - 1).tcp_flags = UNION {input[m].value.tcp_flags : m \in P}
    BY DEF total, P
  <2>2. total(l) = [packet_count |-> packets(Q) % 2^Width,
                    first_seen |-> Min({input[m].value.first_seen : m \in Q}),
                    last_seen |-> Max({input[m].value.last_seen : m \in Q}),
                    tcp_flags |-> UNION {input[m].value.tcp_flags : m \in Q}]
    BY DEF total, Q
  <2> HIDE DEF v
  <2> QED BY <1>5, <1>6, <1>7, <1>8, <2>1, <2>2, Zenon DEF add_flows
<1>10. oldest(l) = Min({oldest(l - 1), input[l].epoch})
  BY <1>6, Zenon DEF oldest, P, Q
<1> QED BY <1>9, <1>10

\* All of this depends on the input alone.
LEMMA InputKept ==
  ASSUME input' = input
  PROVE  \A l : /\ run_ending_at(l)' = run_ending_at(l)
                /\ packets(run_ending_at(l))' = packets(run_ending_at(l))
                /\ total(l)' = total(l) /\ oldest(l)' = oldest(l)
                /\ gathered(l)' = gathered(l) /\ continues(l)' = continues(l)
                /\ ends_run(l)' = ends_run(l)
<1> SUFFICES ASSUME NEW l
             PROVE  /\ run_ending_at(l)' = run_ending_at(l)
                    /\ packets(run_ending_at(l))' = packets(run_ending_at(l))
                    /\ total(l)' = total(l) /\ oldest(l)' = oldest(l)
                    /\ gathered(l)' = gathered(l) /\ continues(l)' = continues(l)
                    /\ ends_run(l)' = ends_run(l)
  OBVIOUS
<1>1. run_ending_at(l)' = run_ending_at(l)
  BY DEF run_ending_at, ct_is_real
<1>2. packets(run_ending_at(l))' = packets(run_ending_at(l))
  <2> DEFINE P == run_ending_at(l)
  <2>1. P' = P
    BY <1>1
  <2> HIDE DEF P
  <2> QED BY <2>1 DEF packets, MapThenSumSet, MapThenFoldSet, P
<1>3. total(l)' = total(l) /\ oldest(l)' = oldest(l)
  <2> DEFINE P == run_ending_at(l)
  <2>1. P' = P /\ packets(P)' = packets(P)
    BY <1>1, <1>2
  <2>2. total(l) = [packet_count |-> packets(P) % 2^Width,
                    first_seen   |-> Min({input[m].value.first_seen : m \in P}),
                    last_seen    |-> Max({input[m].value.last_seen : m \in P}),
                    tcp_flags    |-> UNION {input[m].value.tcp_flags : m \in P}]
        /\ total(l)' = [packet_count |-> packets(P)' % 2^Width,
                        first_seen   |-> Min({input'[m].value.first_seen : m \in P'}),
                        last_seen    |-> Max({input'[m].value.last_seen : m \in P'}),
                        tcp_flags    |-> UNION {input'[m].value.tcp_flags : m \in P'}]
    BY DEF total
  <2>3. oldest(l) = Min({input[m].epoch : m \in P}) /\ oldest(l)' = Min({input'[m].epoch : m \in P'})
    BY DEF oldest
  <2> HIDE DEF P
  <2> QED BY <2>1, <2>2, <2>3
<1>4. gathered(l)' = gathered(l)
  BY <1>3 DEF gathered
<1> QED BY <1>1, <1>2, <1>3, <1>4 DEF continues, ends_run, ct_is_real
-----------------------------------------------------------------------------
(***************************************************************************)
(* The pass keeps RunInv.                                                   *)
(***************************************************************************)

\* What the loop's body for the next block looks at.
LEMMA NextBlock ==
  ASSUME RunInv, next <= Len(input)
  PROVE  /\ next \in DOMAIN input /\ next - 1 \in DOMAIN input /\ next # 1
         /\ run.blocks[next] = input[next]
         /\ same(run.blocks, next) <=> continues(next)
         /\ continues(next) => run.acc_val = total(next - 1) /\ run.acc_epoch = oldest(next - 1)
<1>1. next \in DOMAIN input /\ next - 1 \in DOMAIN input /\ next # 1 /\ next - 1 < next
  BY InputParts DEF RunInv, TypeOK
<1>2. run.blocks[next] = input[next]
  BY <1>1, InputParts DEF RunInv, UnreadInv
<1>3. /\ run.blocks[next - 1].key = input[next - 1].key
      /\ ct_is_real(run.blocks[next - 1]) <=> ct_is_real(input[next - 1])
  <2>1. ~ ((next - 1) + 1 < next)
    BY DEF RunInv, TypeOK
  <2> QED BY <1>1, <2>1 DEF RunInv, ReadInv
<1>4. same(run.blocks, next) <=> continues(next)
  BY <1>2, <1>3 DEF same, continues, ct_identity_eq
<1>5. ASSUME continues(next)
      PROVE  run.acc_val = total(next - 1) /\ run.acc_epoch = oldest(next - 1)
  <2>1. ct_is_real(input[next - 1])
    BY <1>5 DEF continues
  <2>2. PICK l \in DOMAIN input : last_real(l) /\ run.acc_val = total(l) /\ run.acc_epoch = oldest(l)
    BY <1>1, <2>1 DEF RunInv, AccInv
  <2>3. l = next - 1
    <3>1. l \in Nat /\ next \in Nat /\ l < next
      BY <2>2, InputParts DEF last_real, RunInv, TypeOK
    <3>2. ~ (l < next - 1)
      BY <1>1, <2>1, <2>2 DEF last_real
    <3> QED BY <3>1, <3>2
  <2> QED BY <2>2, <2>3
<1> QED BY <1>1, <1>2, <1>4, <1>5

\* The loop's body.
LEMMA StepKeeps ==
  ASSUME RunInv, Step
  PROVE  RunInv'
<1>0. PICK k \in Nat : k = next
  BY DEF RunInv, TypeOK
<1>1. /\ stage = "reducing" /\ next <= Len(input) /\ next' = next + 1
      /\ run' = reduce_step(run, next)
      /\ input' = input /\ checked' = checked /\ stage' = stage
  BY DEF Step
<1>2. /\ k \in DOMAIN input /\ k - 1 \in DOMAIN input /\ k # 1
      /\ run.blocks[k] = input[k]
      /\ same(run.blocks, k) <=> continues(k)
      /\ continues(k) => run.acc_val = total(k - 1) /\ run.acc_epoch = oldest(k - 1)
  BY <1>0, <1>1, NextBlock
<1>3. /\ input \in Seq(Block) /\ DOMAIN input = 1..Len(input) /\ Len(input) \in Nat
      /\ k \in Nat /\ DOMAIN run.blocks = DOMAIN input /\ k - 1 # k /\ next = k /\ next' = k + 1
  BY <1>0, <1>1, InputParts DEF RunInv, TypeOK
<1>4. \A l : /\ total(l)' = total(l) /\ oldest(l)' = oldest(l)
             /\ gathered(l)' = gathered(l) /\ continues(l)' = continues(l)
  BY <1>1, InputKept
<1>5. StageInv'
  BY <1>1 DEF StageInv, NoPanicBelowHalf
<1>6. CASE ~ ct_is_real(input[k])
  <2>1. run' = run
    BY <1>1, <1>2, <1>3, <1>6 DEF reduce_step
  <2>2. TypeOK'
    BY <1>1, <1>3, <2>1 DEF RunInv, TypeOK
  <2>3. UnreadInv'
    BY <1>1, <1>3, <2>1 DEF RunInv, UnreadInv
  <2>4. ReadInv'
    <3> SUFFICES ASSUME NEW l \in DOMAIN input, l < k + 1
                 PROVE  /\ run.blocks[l].key = input[l].key
                        /\ ct_is_real(run.blocks[l])
                             <=> ct_is_real(input[l])
                                 /\ ~ (l + 1 < k + 1 /\ l + 1 \in DOMAIN input /\ continues(l + 1))
                        /\ ct_is_real(run.blocks[l]) => run.blocks[l] = gathered(l)
      BY <1>1, <1>3, <1>4, <2>1 DEF ReadInv, ct_is_real
    <3>1. CASE l = k
      BY <1>2, <1>3, <1>6, <3>1
    <3>2. CASE l < k
      <4>1. l + 1 < k + 1 /\ continues(l + 1) => l + 1 < k
        <5>1. ~ continues(k)
          BY <1>6 DEF continues
        <5>2. l + 1 = k \/ l + 1 < k
          BY <1>3, <3>2
        <5> QED BY <5>1, <5>2
      <4>2. l + 1 < k => l + 1 < k + 1
        BY <1>3
      <4> QED BY <1>3, <3>2, <4>1, <4>2 DEF RunInv, ReadInv
    <3> QED BY <1>3, <3>1, <3>2
  <2>5. AccInv'
    <3>1. CASE run.acc_val = NoFlow /\ \A l \in DOMAIN input : l < next => ~ ct_is_real(input[l])
      <4>1. \A l \in DOMAIN input : l < k + 1 => ~ ct_is_real(input[l])
        BY <1>3, <1>6, <3>1
      <4> QED BY <1>1, <1>3, <2>1, <3>1, <4>1 DEF AccInv, ct_is_real, NoFlow
    <3>2. ASSUME NEW l \in DOMAIN input, last_real(l), run.acc_val = total(l),
                 run.acc_epoch = oldest(l)
          PROVE  AccInv'
      <4>1. last_real(l)'
        BY <1>1, <1>3, <1>6, <3>2 DEF last_real, ct_is_real
      <4> QED BY <1>1, <1>4, <2>1, <3>2, <4>1 DEF AccInv
    <3> QED BY <3>1, <3>2 DEF RunInv, AccInv
  <2> QED BY <1>5, <2>2, <2>3, <2>4, <2>5 DEF RunInv
<1>7. CASE ct_is_real(input[k])
  <2> DEFINE value == IF continues(k) THEN add_flows(run.acc_val, input[k].value) ELSE input[k].value
             epoch == IF continues(k) THEN Min({run.acc_epoch, input[k].epoch}) ELSE input[k].epoch
  <2>1. value = total(k) /\ epoch = oldest(k)
    <3>1. CASE continues(k)
      BY <1>2, <1>3, <3>1, TotalContinues
    <3>2. CASE ~ continues(k)
      BY <1>2, <1>3, <1>7, <3>2, RunPlaces, TotalOfOne
    <3> QED BY <3>1, <3>2
  <2>2. run' = [blocks    |-> [run.blocks EXCEPT
                                 ![k].value = value, ![k].epoch = epoch,
                                 ![k - 1].tag = IF continues(k) THEN 0 ELSE @],
                acc_val   |-> value,
                acc_epoch |-> epoch]
    BY <1>1, <1>2, <1>3, <1>7 DEF reduce_step
  <2> HIDE DEF value, epoch
  <2>3. /\ run'.acc_val = total(k) /\ run'.acc_epoch = oldest(k)
        /\ DOMAIN run'.blocks = DOMAIN input
    BY <1>3, <2>1, <2>2
  <2>4. run'.blocks[k] = gathered(k)
    <3>1. run'.blocks[k] = [[run.blocks[k] EXCEPT !.value = value] EXCEPT !.epoch = epoch]
      BY <1>2, <1>3, <2>2
    <3>2. input[k] = [tag |-> input[k].tag, key |-> input[k].key,
                      value |-> input[k].value, epoch |-> input[k].epoch]
      BY <1>2, <1>3, InputParts
    <3>3. run'.blocks[k] = [tag |-> input[k].tag, key |-> input[k].key,
                            value |-> value, epoch |-> epoch]
      <4> DEFINE b == input[k]
      <4>1. run'.blocks[k] = [[b EXCEPT !.value = value] EXCEPT !.epoch = epoch]
            /\ b = [tag |-> b.tag, key |-> b.key, value |-> b.value, epoch |-> b.epoch]
        BY <1>2, <3>1, <3>2
      <4> HIDE DEF b
      <4> QED BY <4>1 DEF b
    <3> QED BY <2>1, <3>3 DEF gathered
  <2>5. run'.blocks[k - 1] = [run.blocks[k - 1] EXCEPT !.tag = IF continues(k) THEN 0 ELSE @]
    BY <1>2, <1>3, <2>2
  <2>6. \A l \in DOMAIN input : l # k /\ l # k - 1 => run'.blocks[l] = run.blocks[l]
    BY <1>3, <2>2
  <2>7. TypeOK'
    BY <1>1, <1>3, <2>3 DEF RunInv, TypeOK
  <2>8. UnreadInv'
    <3>1. \A l \in DOMAIN input : l >= k + 1 => l # k /\ l # k - 1 /\ l >= k
      BY <1>3
    <3> QED BY <1>1, <1>3, <2>6, <3>1 DEF RunInv, UnreadInv
  <2>9. AccInv'
    <3>1. last_real(k)'
      BY <1>1, <1>2, <1>3, <1>7 DEF last_real, ct_is_real
    <3> QED BY <1>1, <1>2, <1>4, <2>3, <3>1 DEF AccInv
  <2>10. ReadInv'
    <3> SUFFICES ASSUME NEW l \in DOMAIN input, l < k + 1
                 PROVE  /\ run'.blocks[l].key = input[l].key
                        /\ ct_is_real(run'.blocks[l])
                             <=> ct_is_real(input[l])
                                 /\ ~ (l + 1 < k + 1 /\ l + 1 \in DOMAIN input /\ continues(l + 1))
                        /\ ct_is_real(run'.blocks[l]) => run'.blocks[l] = gathered(l)
      BY <1>1, <1>3, <1>4 DEF ReadInv, ct_is_real
    <3>1. CASE l = k
      <4>1. ~ (l + 1 < k + 1)
        BY <1>3, <3>1
      <4> QED BY <1>7, <2>4, <3>1, <4>1 DEF gathered, ct_is_real
    <3>2. CASE l = k - 1
      <4>1. /\ run.blocks[l].key = input[l].key
            /\ ct_is_real(run.blocks[l]) <=> ct_is_real(input[l])
            /\ ct_is_real(run.blocks[l]) => run.blocks[l] = gathered(l)
        <5>1. l < k /\ ~ (l + 1 < k)
          BY <1>3, <3>2
        <5> QED BY <1>3, <5>1 DEF RunInv, ReadInv
      <4>2. l + 1 = k /\ l + 1 < k + 1
        BY <1>3, <3>2
      <4>3. CASE continues(k)
        <5>1. run'.blocks[l] = [run.blocks[l] EXCEPT !.tag = 0]
          BY <2>5, <3>2, <4>3
        <5> QED BY <1>2, <4>1, <4>2, <4>3, <5>1 DEF ct_is_real
      <4>4. CASE ~ continues(k)
        <5>1. run'.blocks[l] = [run.blocks[l] EXCEPT !.tag = @]
          BY <2>5, <3>2, <4>4
        <5>2. run'.blocks[l].key = run.blocks[l].key /\ run'.blocks[l].tag = run.blocks[l].tag
          BY <5>1
        <5>3. run.blocks[l] = gathered(l) => run'.blocks[l] = gathered(l)
          BY <5>1 DEF gathered
        <5> QED BY <4>1, <4>2, <4>4, <5>2, <5>3 DEF ct_is_real
      <4> QED BY <4>3, <4>4
    <3>3. CASE l < k - 1
      <4>1. l # k /\ l # k - 1 /\ l < k /\ l + 1 < k /\ l + 1 < k + 1
        BY <1>3, <3>3
      <4> QED BY <1>3, <2>6, <4>1 DEF RunInv, ReadInv
    <3> QED BY <1>3, <3>1, <3>2, <3>3
  <2> QED BY <1>5, <2>7, <2>8, <2>9, <2>10 DEF RunInv
<1> QED BY <1>6, <1>7

\* Every run that was begun ends somewhere.
LEMMA RunGoesOn ==
  ASSUME input \in Seq(Block), NEW l \in DOMAIN input, ct_is_real(input[l])
  PROVE  \E k \in DOMAIN input : ends_run(k) /\ run_ending_at(l) \subseteq run_ending_at(k)
<1> DEFINE K == {k \in l..Len(input) :
                   \A x \in l..k : ct_is_real(input[x]) /\ input[x].key = input[l].key}
<1>1. l \in Nat /\ l >= 1 /\ Len(input) \in Nat /\ l <= Len(input) /\ DOMAIN input = 1..Len(input)
  BY InputParts
<1>2. PICK m \in K : \A y \in K : y <= m
  <2>1. K \in SUBSET Int /\ \A y \in K : y <= Len(input)
    BY <1>1
  <2>2. l \in K
    <3>1. \A x \in l..l : x = l
      BY <1>1
    <3> QED BY <1>1, <3>1
  <2>3. K # {} /\ Len(input) \in Int
    BY <1>1, <2>2
  <2> HIDE DEF K
  <2>4. Max(K) \in K /\ \A y \in K : y <= Max(K)
    BY <2>1, <2>3, MaxOfBounded
  <2> QED BY <2>4
<1>3. m \in l..Len(input) /\ \A x \in l..m : ct_is_real(input[x]) /\ input[x].key = input[l].key
  BY <1>2
<1>4. m \in DOMAIN input /\ m \in l..m
  BY <1>1, <1>3
<1>5. ends_run(m)
  <2> SUFFICES ASSUME m < Len(input), ct_is_real(input[m + 1]), input[m + 1].key = input[m].key
               PROVE  FALSE
    BY <1>3, <1>4 DEF ends_run
  <2>1. m + 1 \in l..Len(input) /\ l..(m + 1) = (l..m) \cup {m + 1}
    BY <1>1, <1>3
  <2>2. m + 1 \in K
    BY <1>3, <1>4, <2>1
  <2> HIDE DEF K
  <2>3. m + 1 <= m
    BY <1>2, <2>2
  <2> QED BY <1>1, <1>3, <2>3
<1>6. ASSUME NEW j \in run_ending_at(l) PROVE j \in run_ending_at(m)
  <2>1. j \in 1..l /\ \A x \in j..l : ct_is_real(input[x]) /\ input[x].key = input[l].key
    BY <1>6 DEF run_ending_at
  <2>2. j \in 1..m /\ \A x \in j..m : x \in j..l \/ x \in l..m
    BY <1>1, <1>3, <2>1
  <2>3. input[m].key = input[l].key
    BY <1>3, <1>4
  <2> QED BY <1>3, <2>1, <2>2, <2>3 DEF run_ending_at
<1> QED BY <1>4, <1>5, <1>6

\* What a run gathered is a part of what it comes to.
LEMMA RunGrows ==
  ASSUME input \in Seq(Block), NEW l \in DOMAIN input, NEW k \in DOMAIN input,
         run_ending_at(l) \subseteq run_ending_at(k)
  PROVE  /\ packets(run_ending_at(l)) \in Nat /\ packets(run_ending_at(k)) \in Nat
         /\ packets(run_ending_at(l)) <= packets(run_ending_at(k))
<1> DEFINE P == run_ending_at(l)
           Q == run_ending_at(k)
<1>1. IsFiniteSet(Q) /\ P \in SUBSET Q /\ Q \in SUBSET (DOMAIN input)
  BY RunPlaces
<1>2. \A m \in Q : Counts[m] \in Nat
  <2>1. \A m \in DOMAIN input : input[m].value.packet_count \in Nat
    BY InputParts, RecordParts
  <2> HIDE DEF P, Q
  <2> QED BY <1>1, <2>1 DEF Counts
<1> HIDE DEF P, Q
<1>3. packets(P) = weight(Counts, P) /\ packets(Q) = weight(Counts, Q)
  BY <1>1, PacketsWeigh
<1> QED BY <1>1, <1>2, <1>3, WeightPart DEF P, Q

\* An addition overflows only when one of the numbers is half of what a counter holds.
LEMMA OverflowMeansHalf ==
  ASSUME RunInv, OverflowPanic
  PROVE  \E k \in DOMAIN input :
           \/ input[k].value.packet_count >= 2^(Width - 1)
           \/ ends_run(k) /\ packets(run_ending_at(k)) >= 2^(Width - 1)
<1>1. next \in DOMAIN input /\ run.blocks[next] = input[next] /\ input \in Seq(Block)
  BY NextBlock DEF OverflowPanic, RunInv, TypeOK
<1> DEFINE acc  == run.acc_val.packet_count
           cur  == input[next].value.packet_count
           half == 2^(Width - 1)
<1>2. acc + cur >= 2^Width
  BY <1>1 DEF OverflowPanic, overflows
<1>3. half \in Nat \ {0} /\ 2^Width = 2 * half
  <2>1. Width - 1 \in Nat /\ (Width - 1) + 1 = Width
    BY WordAssumption
  <2>2. 2^(Width - 1) \in Nat \ {0} /\ 2^((Width - 1) + 1) = 2 * 2^(Width - 1)
    BY <2>1, PowerOfTwo
  <2> QED BY <2>1, <2>2
<1>4. cur \in Nat
  BY <1>1, InputParts, RecordParts
<1> HIDE DEF acc, cur, half
<1>5. CASE cur >= half
  BY <1>1, <1>5 DEF cur, half
<1>6. CASE cur < half
  <2>1. acc # 0
    BY <1>2, <1>3, <1>4, <1>6
  <2>2. PICK l \in DOMAIN input : ct_is_real(input[l]) /\ run.acc_val = total(l)
    BY <2>1 DEF RunInv, AccInv, last_real, acc, NoFlow
  <2>3. PICK k \in DOMAIN input : ends_run(k) /\ run_ending_at(l) \subseteq run_ending_at(k)
    BY <1>1, <2>2, RunGoesOn
  <2> DEFINE a == packets(run_ending_at(l))
             b == packets(run_ending_at(k))
             word == 2^Width
  <2>4. a \in Nat /\ b \in Nat /\ a <= b
    BY <1>1, <2>3, RunGrows
  <2>5. acc = a % word
    BY <2>2 DEF total, acc
  <2>6. acc + cur >= word /\ word = 2 * half
    BY <1>2, <1>3
  <2> HIDE DEF a, b, word
  <2>7. acc \in Nat /\ acc <= a
    <3>1. word \in Nat \ {0}
      BY <1>3, <2>6
    <3>2. a \div word \in Nat /\ a % word \in 0..(word - 1) /\ a = word * (a \div word) + (a % word)
      BY <2>4, <3>1, Division
    <3> DEFINE c == word * (a \div word)
    <3>3. c \in Nat
      BY <3>1, <3>2
    <3> HIDE DEF c
    <3>4. a = c + (a % word) /\ a % word \in Nat
      BY <3>1, <3>2 DEF c
    <3> QED BY <2>5, <3>3, <3>4
  <2>8. b >= half
    BY <1>3, <1>4, <1>6, <2>4, <2>6, <2>7
  <2> QED BY <2>3, <2>8 DEF b, half
<1> QED BY <1>3, <1>4, <1>5, <1>6

\* The other steps change no block.
LEMMA OverflowKeeps ==
  ASSUME RunInv, OverflowPanic
  PROVE  RunInv'
<1>1. /\ stage' = "overflowed"
      /\ input' = input /\ checked' = checked /\ run' = run /\ next' = next
  BY DEF OverflowPanic
<1>2. \A l : /\ total(l)' = total(l) /\ oldest(l)' = oldest(l)
             /\ gathered(l)' = gathered(l) /\ continues(l)' = continues(l)
             /\ packets(run_ending_at(l))' = packets(run_ending_at(l))
             /\ ends_run(l)' = ends_run(l)
  BY <1>1, InputKept
<1>3. NoPanicBelowHalf'
  BY <1>1, <1>2, OverflowMeansHalf DEF NoPanicBelowHalf
<1>4. StageInv'
  BY <1>1, <1>3 DEF StageInv
<1>5. TypeOK' /\ UnreadInv'
  BY <1>1 DEF RunInv, TypeOK, UnreadInv
<1>6. ReadInv'
  BY <1>1, <1>2 DEF RunInv, ReadInv, ct_is_real
<1>7. AccInv'
  BY <1>1, <1>2 DEF RunInv, AccInv, last_real, ct_is_real, NoFlow
<1> QED BY <1>4, <1>5, <1>6, <1>7 DEF RunInv

LEMMA RestKeeps ==
  ASSUME RunInv, Finish \/ UNCHANGED vars
  PROVE  RunInv'
<1>1. /\ \/ stage' = stage
         \/ stage' = "reduced" /\ next > Len(input)
      /\ input' = input /\ checked' = checked /\ run' = run /\ next' = next
  BY DEF Finish, vars
<1>2. \A l : /\ total(l)' = total(l) /\ oldest(l)' = oldest(l)
             /\ gathered(l)' = gathered(l) /\ continues(l)' = continues(l)
             /\ packets(run_ending_at(l))' = packets(run_ending_at(l))
             /\ ends_run(l)' = ends_run(l)
  BY <1>1, InputKept
<1>3. NoPanicBelowHalf'
  BY <1>1, <1>2 DEF RunInv, StageInv, NoPanicBelowHalf
<1>4. StageInv'
  BY <1>1, <1>3 DEF RunInv, StageInv
<1>5. TypeOK' /\ UnreadInv'
  BY <1>1 DEF RunInv, TypeOK, UnreadInv
<1>6. ReadInv'
  BY <1>1, <1>2 DEF RunInv, ReadInv, ct_is_real
<1>7. AccInv'
  BY <1>1, <1>2 DEF RunInv, AccInv, last_real, ct_is_real, NoFlow
<1> QED BY <1>4, <1>5, <1>6, <1>7 DEF RunInv

\* The first block, when it is real, is a run of its own.
LEMMA InitRuns ==
  ASSUME Init
  PROVE  RunInv
<1>1. input \in Seq(Block) /\ checked \in BOOLEAN /\ run = started(input) /\ next = 2
      /\ stage = "reducing"
  BY LengthAssumption DEF Init
<1>2. DOMAIN input = 1..Len(input) /\ Len(input) \in Nat /\ run.blocks = input
  BY <1>1, InputParts DEF started
<1>3. ASSUME NEW l \in DOMAIN input, l < 2 PROVE l = 1
  BY <1>2, <1>3
<1>4. ASSUME 1 \in DOMAIN input, ct_is_real(input[1])
      PROVE  /\ total(1) = input[1].value /\ oldest(1) = input[1].epoch /\ gathered(1) = input[1]
             /\ run.acc_val = input[1].value /\ run.acc_epoch = input[1].epoch
  <2>1. run_ending_at(1) = {1}
    BY <1>1, <1>4, RunPlaces
  <2>2. input # <<>>
    BY <1>4
  <2> QED BY <1>1, <1>4, <2>1, <2>2, TotalOfOne DEF started
<1>5. TypeOK /\ UnreadInv /\ StageInv
  BY <1>1, <1>2 DEF TypeOK, UnreadInv, StageInv, NoPanicBelowHalf
<1>6. ReadInv
  BY <1>1, <1>2, <1>3, <1>4 DEF ReadInv
<1>7. AccInv
  <2>1. CASE 1 \in DOMAIN input /\ ct_is_real(input[1])
    <3>1. last_real(1)
      BY <1>1, <1>2, <2>1 DEF last_real
    <3> QED BY <1>4, <2>1, <3>1 DEF AccInv
  <2>2. CASE ~ (1 \in DOMAIN input /\ ct_is_real(input[1]))
    <3>1. run.acc_val = NoFlow
      <4>1. input # <<>> => 1 \in DOMAIN input
        BY <1>1
      <4> QED BY <1>1, <2>2, <4>1 DEF started
    <3>2. \A l \in DOMAIN input : l < 2 => ~ ct_is_real(input[l])
      BY <1>3, <2>2
    <3> QED BY <1>1, <3>1, <3>2 DEF AccInv
  <2> QED BY <2>1, <2>2
<1> QED BY <1>5, <1>6, <1>7 DEF RunInv

\* When all is read, the runs are what they should be.
LEMMA AllRead ==
  ASSUME RunInv
  PROVE  SurvivorsHoldTheirRuns
<1> SUFFICES ASSUME stage = "reduced", NEW k \in DOMAIN input
             PROVE  /\ ct_is_real(run.blocks[k]) <=> ends_run(k)
                    /\ ends_run(k) => run.blocks[k] = gathered(k)
  BY DEF SurvivorsHoldTheirRuns, gathered, total, oldest
<1>1. /\ DOMAIN input = 1..Len(input) /\ Len(input) \in Nat /\ next \in Nat
      /\ next > Len(input) /\ (next <= Len(input) + 1 \/ next = 2)
  BY InputParts DEF RunInv, TypeOK, StageInv
<1>2. k < next /\ next = Len(input) + 1
  BY <1>1
<1>3. /\ ct_is_real(run.blocks[k])
           <=> ct_is_real(input[k]) /\ ~ (k + 1 < next /\ k + 1 \in DOMAIN input /\ continues(k + 1))
      /\ ct_is_real(run.blocks[k]) => run.blocks[k] = gathered(k)
  BY <1>2 DEF RunInv, ReadInv
<1>4. k + 1 < next <=> k < Len(input)
  BY <1>1, <1>2
<1>5. k < Len(input) => k + 1 \in DOMAIN input
  BY <1>1
<1>6. (k + 1) - 1 = k
  BY <1>1
<1>7. ct_is_real(input[k]) =>
        (continues(k + 1) <=> ct_is_real(input[k + 1]) /\ input[k + 1].key = input[k].key)
  BY <1>6 DEF continues
<1>8. ct_is_real(run.blocks[k]) <=> ends_run(k)
  BY <1>3, <1>4, <1>5, <1>7 DEF ends_run
<1> QED BY <1>3, <1>8

-----------------------------------------------------------------------------
\* RunInv holds of every pass, whatever the blocks.
LEMMA PassInvariant == Spec => []RunInv
<1>1. Init => RunInv
  BY InitRuns
<1>2. RunInv /\ [Next]_vars => RunInv'
  BY StepKeeps, OverflowKeeps, RestKeeps DEF Next
<1> QED BY <1>1, <1>2, PTL DEF Spec

\* reduce_equal_runs_with_accumulator leaves, of every run of equal blocks of an input of any
\* length, the last block with all that the run held, and no other real block
\* (reduction.rs:63-107).
THEOREM RunsAreReduced == Spec => []SurvivorsHoldTheirRuns
BY PassInvariant, AllRead, PTL

\* A build with overflow checks does not panic while all runs, and all values of dummies,
\* stay below half of what a counter holds.
THEOREM NoOverflowBelowHalf == Spec => []NoPanicBelowHalf
<1>1. RunInv => NoPanicBelowHalf
  BY DEF RunInv, StageInv
<1> QED BY <1>1, PassInvariant, PTL
=============================================================================
