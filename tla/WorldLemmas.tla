---------------------------- MODULE WorldLemmas ----------------------------
(***************************************************************************)
(* Facts about the operators of WorldModel, for every value of the          *)
(* constants: the truncating division, the sort of the queue, the removal   *)
(* of the due commands, and the preservation of WorldInv by the three       *)
(* operations of a world.                                                   *)
(***************************************************************************)
EXTENDS WorldInvariant, FiniteSetTheorems, WellFoundedInduction, TLAPS

(* Every non-empty set of naturals has a least element.                     *)
LEMMA LeastNat ==
    ASSUME NEW T \in SUBSET Nat, T # {}
    PROVE  \E m \in T : \A k \in T : m <= k
<1>1. PICK t \in T : TRUE
  OBVIOUS
<1> DEFINE S == 0 .. t
           U == {0 .. k : k \in {j \in T : j <= t}}
<1>2. IsFiniteSet(S)
  BY <1>1, FS_Interval
<1>3. IsWellFoundedOn(StrictSubsetOrdering(S), SUBSET S)
  BY <1>2, FS_StrictSubsetOrderingWellFounded, FS_FiniteSubsetsOfFinite
<1>4. U \subseteq SUBSET S /\ U # {}
  BY <1>1
<1>5. PICK u \in U : \A v \in U : ~(<<v, u>> \in StrictSubsetOrdering(S))
  BY <1>3, <1>4, WFMin
<1>6. PICK m \in T : m <= t /\ u = 0 .. m
  OBVIOUS
<1>7. ASSUME NEW k \in T, k < m
      PROVE  FALSE
  <2>1. 0 .. k \in U
    BY <1>1, <1>6, <1>7
  <2>2. 0 .. k \subseteq u /\ 0 .. k # u
    <3>1. m \in u /\ m \notin 0 .. k
      BY <1>6, <1>7
    <3>2. \A x \in 0 .. k : x \in 0 .. m
      BY <1>6, <1>7
    <3> QED BY <1>6, <3>1, <3>2
  <2>3. 0 .. k \in SUBSET S /\ u \in SUBSET S
    BY <1>4, <2>1
  <2>4. <<0 .. k, u>> \in StrictSubsetOrdering(S)
    BY <2>2, <2>3, Zenon DEF StrictSubsetOrdering
  <2> QED BY <1>5, <2>1, <2>4
<1>8. \A k \in T : m <= k
  BY <1>6, <1>7
<1> QED BY <1>6, <1>8

(* Truncating division splits a number exactly, and the remainder is        *)
(* smaller than the divisor, whatever the sign.                             *)
LEMMA TruncSplit ==
    ASSUME NEW n \in Int, NEW d \in Nat \ {0}
    PROVE  /\ TruncDiv(n, d) \in Int
           /\ TruncRem(n, d) \in Int
           /\ n = d * TruncDiv(n, d) + TruncRem(n, d)
           /\ within_symmetric_limit(TruncRem(n, d), d - 1)
<1>1. ASSUME NEW m \in Nat
      PROVE  /\ m \div d \in Int
             /\ 0 <= m - d * (m \div d)
             /\ m - d * (m \div d) <= d - 1
  OBVIOUS
<1>2. CASE n >= 0
  <2>1. TruncDiv(n, d) = n \div d
    BY <1>2 DEF TruncDiv
  <2> QED BY <1>1, <1>2, <2>1 DEF TruncRem, within_symmetric_limit
<1>3. CASE n < 0
  <2> DEFINE q == (-n) \div d
  <2>1. TruncDiv(n, d) = -q
    BY <1>3 DEF TruncDiv
  <2>2. /\ q \in Int /\ 0 <= (-n) - d * q /\ (-n) - d * q <= d - 1
    BY <1>1, <1>3
  <2>3. d * (-q) = -(d * q)
    BY <2>2
  <2> HIDE DEF q
  <2> QED BY <1>3, <2>1, <2>2, <2>3 DEF TruncRem, within_symmetric_limit
<1> QED BY <1>2, <1>3

-----------------------------------------------------------------------------
(* The order of the queue.                                                  *)

(* The command with no equal in key and s[i], as std::sort sees them.       *)
Key(c) == <<c.target_tick, c.entity_id, c.sequence>>

(* command_order is irreflexive, transitive, and total on distinct keys.    *)
LEMMA OrderFacts ==
    ASSUME NEW b \in VelocityCommand, NEW c \in VelocityCommand,
           NEW d \in VelocityCommand
    PROVE  /\ ~command_order(b, b)
           /\ command_order(b, c) => ~command_order(c, b)
           /\ command_order(b, c) /\ command_order(c, d)
                => command_order(b, d)
           /\ Key(b) # Key(c) => command_order(b, c) \/ command_order(c, b)
<1>1. /\ b.target_tick \in Int /\ b.entity_id \in Int /\ b.sequence \in Int
      /\ c.target_tick \in Int /\ c.entity_id \in Int /\ c.sequence \in Int
      /\ d.target_tick \in Int /\ d.entity_id \in Int /\ d.sequence \in Int
  <2>1. UInt64 \subseteq Int /\ EntityIds \subseteq Int
    BY WorldAssumption DEF UInt64
  <2> QED BY <2>1 DEF VelocityCommand
<1> QED BY <1>1 DEF command_order, Key

(* Where a new command belongs in a sorted queue.                           *)
LEMMA InsertionPoint ==
    ASSUME NEW q \in Seq(VelocityCommand), OrderedQueue(q),
           NEW c \in VelocityCommand,
           \A i \in DOMAIN q : Key(q[i]) # Key(c)
    PROVE  \E m \in 1 .. Len(q) + 1 :
              /\ \A i \in 1 .. m - 1 : command_order(q[i], c)
              /\ \A i \in m .. Len(q) : command_order(c, q[i])
<1> DEFINE T == {i \in 1 .. Len(q) + 1 :
                    i = Len(q) + 1 \/ command_order(c, q[i])}
<1>1. Len(q) \in Nat /\ DOMAIN q = 1 .. Len(q)
  OBVIOUS
<1>2. T \in SUBSET Nat /\ T # {}
  <2>1. Len(q) + 1 \in T
    BY <1>1
  <2> QED BY <1>1, <2>1
<1>3. PICK m \in T : \A k \in T : m <= k
  BY <1>2, LeastNat
<1>4. m \in 1 .. Len(q) + 1
  OBVIOUS
<1>5. \A i \in 1 .. Len(q) : q[i] \in VelocityCommand
  OBVIOUS
<1>6. ASSUME NEW i \in 1 .. m - 1
      PROVE  command_order(q[i], c)
  <2>1. i \in 1 .. Len(q) /\ i \notin T
    BY <1>1, <1>3, <1>4
  <2>2. ~command_order(c, q[i])
    BY <1>1, <2>1
  <2> QED BY <1>1, <1>5, <2>1, <2>2, OrderFacts
<1>7. ASSUME NEW i \in m .. Len(q)
      PROVE  command_order(c, q[i])
  <2>1. m \in 1 .. Len(q) /\ i \in 1 .. Len(q)
    BY <1>1, <1>4
  <2>2. command_order(c, q[m])
    BY <1>1, <2>1
  <2>3. CASE i = m
    BY <2>2, <2>3
  <2>4. CASE i > m
    <3>1. command_order(q[m], q[i])
      BY <1>1, <2>1, <2>4 DEF OrderedQueue
    <3> QED BY <1>5, <2>1, <2>2, <3>1, OrderFacts
  <2> QED BY <1>1, <1>4, <2>3, <2>4
<1> QED BY <1>4, <1>6, <1>7

(* Sorting a sorted queue with one more command inserts the command.        *)
LEMMA SortInserts ==
    ASSUME NEW q \in Seq(VelocityCommand), OrderedQueue(q),
           NEW c \in VelocityCommand,
           \A i \in DOMAIN q : Key(q[i]) # Key(c)
    PROVE  \E m \in 1 .. Len(q) + 1 :
              /\ \A i \in 1 .. m - 1 : command_order(q[i], c)
              /\ \A i \in m .. Len(q) : command_order(c, q[i])
              /\ sort(Append(q, c)) =
                    [k \in 1 .. Len(q) + 1 |->
                        IF k < m THEN q[k]
                        ELSE IF k = m THEN c ELSE q[k - 1]]
<1> DEFINE n == Len(q)
           s == Append(q, c)
<1>1. n \in Nat /\ DOMAIN q = 1 .. n /\ \A i \in 1 .. n : q[i] \in VelocityCommand
  OBVIOUS
<1>2. /\ DOMAIN s = 1 .. n + 1
      /\ \A i \in 1 .. n : s[i] = q[i]
      /\ s[n + 1] = c
  OBVIOUS
<1>3. PICK m \in 1 .. n + 1 :
         /\ \A i \in 1 .. m - 1 : command_order(q[i], c)
         /\ \A i \in m .. n : command_order(c, q[i])
  BY InsertionPoint
<1> HIDE DEF n, s
<1> DEFINE before(i) == {j \in 1 .. n + 1 : Precedes(s, j, i)}
           rank(i) == Cardinality(before(i))
<1>4. ASSUME NEW i \in 1 .. m - 1
      PROVE  rank(i) = i - 1
  <2>1. i \in 1 .. n
    BY <1>1, <1>3
  <2>2. before(i) = 1 .. i - 1
    <3>1. ASSUME NEW j \in 1 .. i - 1 PROVE Precedes(s, j, i)
      BY <1>1, <1>2, <2>1, <3>1 DEF Precedes, OrderedQueue
    <3>2. ASSUME NEW j \in i .. n PROVE ~Precedes(s, j, i)
      <4>1. j \in 1 .. n
        BY <1>1, <2>1
      <4>2. CASE j = i
        BY <1>1, <1>2, <2>1, <4>2, OrderFacts DEF Precedes
      <4>3. CASE j > i
        <5>1. command_order(q[i], q[j])
          BY <1>1, <2>1, <4>1, <4>3 DEF OrderedQueue
        <5> QED BY <1>1, <1>2, <2>1, <4>1, <4>3, <5>1, OrderFacts DEF Precedes
      <4> QED BY <1>1, <2>1, <4>2, <4>3
    <3>3. ~Precedes(s, n + 1, i)
      <4>1. command_order(q[i], c)
        BY <1>3
      <4> QED BY <1>1, <1>2, <2>1, <4>1, OrderFacts DEF Precedes
    <3> QED BY <1>1, <2>1, <3>1, <3>2, <3>3
  <2>3. Cardinality(1 .. i - 1) = i - 1
    BY <1>1, <2>1, FS_Interval
  <2> HIDE DEF before
  <2> QED BY <2>2, <2>3
<1>5. ASSUME NEW i \in m .. n
      PROVE  rank(i) = i
  <2>1. i \in 1 .. n
    BY <1>1, <1>3
  <2>2. before(i) = (1 .. i - 1) \cup {n + 1}
    <3>1. ASSUME NEW j \in 1 .. i - 1 PROVE Precedes(s, j, i)
      BY <1>1, <1>2, <2>1, <3>1 DEF Precedes, OrderedQueue
    <3>2. ASSUME NEW j \in i .. n PROVE ~Precedes(s, j, i)
      <4>1. j \in 1 .. n
        BY <1>1, <2>1
      <4>2. CASE j = i
        BY <1>1, <1>2, <2>1, <4>2, OrderFacts DEF Precedes
      <4>3. CASE j > i
        <5>1. command_order(q[i], q[j])
          BY <1>1, <2>1, <4>1, <4>3 DEF OrderedQueue
        <5> QED BY <1>1, <1>2, <2>1, <4>1, <4>3, <5>1, OrderFacts DEF Precedes
      <4> QED BY <1>1, <2>1, <4>2, <4>3
    <3>3. Precedes(s, n + 1, i)
      BY <1>1, <1>2, <1>3, <2>1 DEF Precedes
    <3> QED BY <1>1, <2>1, <3>1, <3>2, <3>3
  <2>3. IsFiniteSet(1 .. i - 1) /\ Cardinality(1 .. i - 1) = i - 1
    BY <1>1, <2>1, FS_Interval
  <2>4. n + 1 \notin 1 .. i - 1
    BY <1>1, <2>1
  <2>5. Cardinality((1 .. i - 1) \cup {n + 1}) = i - 1 + 1
    BY <2>3, <2>4, FS_AddElement
  <2> HIDE DEF before
  <2> QED BY <1>1, <2>1, <2>2, <2>5
<1>6. rank(n + 1) = m - 1
  <2>1. before(n + 1) = 1 .. m - 1
    <3>1. ASSUME NEW j \in 1 .. m - 1 PROVE Precedes(s, j, n + 1)
      BY <1>1, <1>2, <1>3 DEF Precedes
    <3>2. ASSUME NEW j \in m .. n PROVE ~Precedes(s, j, n + 1)
      <4>1. j \in 1 .. n /\ command_order(c, q[j])
        BY <1>1, <1>3
      <4> QED BY <1>1, <1>2, <4>1, OrderFacts DEF Precedes
    <3>3. ~Precedes(s, n + 1, n + 1)
      BY <1>1, <1>2, OrderFacts DEF Precedes
    <3> QED BY <1>1, <1>3, <3>1, <3>2, <3>3
  <2>2. Cardinality(1 .. m - 1) = m - 1
    BY <1>1, <1>3, FS_Interval
  <2> HIDE DEF before
  <2> QED BY <2>1, <2>2
<1> HIDE DEF before, rank
<1> DEFINE at(k) == CHOOSE i \in 1 .. n + 1 : rank(i) = k - 1
<1>7. ASSUME NEW k \in 1 .. n + 1
      PROVE  s[at(k)] = IF k < m THEN q[k] ELSE IF k = m THEN c ELSE q[k - 1]
  <2>1. \A i \in 1 .. n + 1 : rank(i) = IF i < m THEN i - 1
                              ELSE IF i = n + 1 THEN m - 1 ELSE i
    BY <1>1, <1>3, <1>4, <1>5, <1>6
  <2>2. at(k) = IF k < m THEN k ELSE IF k = m THEN n + 1 ELSE k - 1
    <3> DEFINE w == IF k < m THEN k ELSE IF k = m THEN n + 1 ELSE k - 1
    <3>1. w \in 1 .. n + 1 /\ rank(w) = k - 1
      BY <1>1, <1>3, <2>1
    <3>2. \A i \in 1 .. n + 1 : rank(i) = k - 1 => i = w
      BY <1>1, <1>3, <2>1
    <3> QED BY <3>1, <3>2
  <2> HIDE DEF at
  <2>3. CASE k < m
    BY <1>1, <1>2, <1>3, <2>2, <2>3
  <2>4. CASE k = m
    BY <1>1, <1>2, <1>3, <2>2, <2>4
  <2>5. CASE k > m
    <3>1. at(k) = k - 1 /\ k - 1 \in 1 .. n
      BY <1>1, <1>3, <2>2, <2>5
    <3>2. s[k - 1] = q[k - 1]
      BY <1>2, <3>1
    <3> QED BY <1>3, <2>5, <3>1, <3>2
  <2> QED BY <1>1, <1>3, <2>3, <2>4, <2>5
<1>8. sort(s) = [k \in 1 .. n + 1 |->
                    IF k < m THEN q[k] ELSE IF k = m THEN c ELSE q[k - 1]]
  <2>1. DOMAIN s = 1 .. n + 1
    BY <1>2
  <2>2. sort(s) = [k \in 1 .. n + 1 |-> s[at(k)]]
    BY <2>1, SMTT(30) DEF sort, before, rank
  <2> HIDE DEF at, s, n
  <2> QED BY <2>2, <1>7, Zenon
<1> QED BY <1>3, <1>8 DEF n, s

(* A non-empty set of places of a sequence has a greatest element.          *)
LEMMA GreatestPlace ==
    ASSUME NEW n \in Nat, NEW S \in SUBSET (1 .. n), S # {}
    PROVE  Max(S) \in S /\ \A j \in S : j <= Max(S)
<1> DEFINE T == {n - i : i \in S}
<1>1. T \in SUBSET Nat /\ T # {}
  <2>1. \A i \in S : n - i \in Nat
    OBVIOUS
  <2>2. PICK i \in S : TRUE
    OBVIOUS
  <2>3. n - i \in T
    BY <2>2
  <2> QED BY <2>1, <2>3
<1>2. PICK t \in T : \A k \in T : t <= k
  BY <1>1, LeastNat
<1>3. PICK i \in S : t = n - i
  OBVIOUS
<1>4. \A j \in S : i >= j
  <2> TAKE j \in S
  <2>1. n - i <= n - j
    BY <1>2, <1>3
  <2> QED BY <2>1
<1>5. \E x \in S : \A y \in S : x >= y
  BY <1>3, <1>4
<1> QED BY <1>5 DEF Max

(* Erasing a prefix leaves the suffix, in order.                            *)
LEMMA KeepSuffix ==
    ASSUME NEW q, NEW n \in Nat, NEW m \in 0 .. n
    PROVE  Keep(q, m + 1 .. n) = [k \in 1 .. n - m |-> q[m + k]]
<1> DEFINE I == m + 1 .. n
           before(i) == {j \in I : j < i}
           at(k) == CHOOSE i \in I : Cardinality(before(i)) = k - 1
<1>1. Cardinality(I) = n - m
  <2>1. PICK a \in Int : a = m + 1
    OBVIOUS
  <2>2. Cardinality(a .. n) = IF a > n THEN 0 ELSE n - a + 1
    BY FS_Interval
  <2> QED BY <2>1, <2>2
<1>2. ASSUME NEW i \in I
      PROVE  Cardinality(before(i)) = i - m - 1
  <2>1. before(i) = m + 1 .. i - 1
    OBVIOUS
  <2>2. Cardinality(m + 1 .. i - 1) = i - m - 1
    BY FS_Interval
  <2> HIDE DEF before
  <2> QED BY <2>1, <2>2
<1>3. ASSUME NEW k \in 1 .. n - m
      PROVE  at(k) = m + k
  <2> HIDE DEF before
  <2>1. m + k \in I /\ Cardinality(before(m + k)) = k - 1
    BY <1>2
  <2>2. \A i \in I : Cardinality(before(i)) = k - 1 => i = m + k
    BY <1>2
  <2> QED BY <2>1, <2>2
<1>4. Keep(q, I) = [k \in 1 .. Cardinality(I) |-> q[at(k)]]
  BY DEF Keep
<1> HIDE DEF at
<1>5. [k \in 1 .. n - m |-> q[at(k)]] = [k \in 1 .. n - m |-> q[m + k]]
  BY <1>3
<1> QED BY <1>1, <1>4, <1>5

-----------------------------------------------------------------------------
(* The operations preserve WorldInv.                                        *)

(* The integer bounds the proofs need, without the division of the limit.   *)
LEMMA Bounds ==
    /\ EntityIds \subseteq Nat
    /\ TickDuration \in Nat \ {0} /\ MicrosPerSecond \in Nat \ {0}
    /\ Int64Max \in Nat /\ UInt64Max \in Nat
    /\ 0 \in UInt64 /\ UInt64 \subseteq Nat
    /\ 0 \in Int64 /\ Int64 \subseteq Int
    /\ MaxAbsPosition \in Nat /\ MaxAbsPosition <= Int64Max
    /\ MicrosPerSecond - 1 \in Nat /\ MicrosPerSecond - 1 <= Int64Max
<1>1. Int64Max \in Nat /\ UInt64Max \in Nat /\ EntityIds \subseteq Nat
  BY WorldAssumption
<1>2. MaxAbsPosition \in 1 .. Int64Max /\ MicrosPerSecond \in Nat \ {0}
      /\ MicrosPerSecond <= Int64Max /\ TickDuration \in Nat \ {0}
  BY WorldAssumption
<1> QED BY <1>1, <1>2 DEF UInt64, Int64

(* An empty world satisfies the invariant.                                  *)
LEMMA NewWorldInv == WorldInv(NewWorld)
<1>1. IsWorld(NewWorld)
  BY Bounds DEF IsWorld, NewWorld, NoEntities, IsEntityMap
<1> QED BY <1>1, Bounds
        DEF WorldInv, NewWorld, NoEntities, SameKeys, ClockInv, MotionInv,
            OrderedQueue, QueueInv, SequenceInv, NewestInv

(* add_entity preserves the invariant.                                      *)
LEMMA AddEntityInv ==
    ASSUME NEW w, WorldInv(w), NEW e \in EntityIds,
           NEW p \in Vector, NEW v \in Vector
    PROVE  WorldInv(add_entity(w, e, p, v))
<1> DEFINE t == add_entity(w, e, p, v)
           D == DOMAIN w.entities
           new == [position |-> p, velocity |-> v, last_sequence |-> 0,
                   residual |-> [a \in Axis |-> 0]]
<1>1. CASE add_entity_result(w, e, p, v) # "added"
  BY <1>1 DEF add_entity
<1>2. CASE add_entity_result(w, e, p, v) = "added"
  <2>1. /\ e \notin D
        /\ position_is_valid(p)
        /\ velocity_is_valid(v)
    BY <1>2 DEF add_entity_result
  <2>2. /\ w = [tick_index |-> w.tick_index, elapsed |-> w.elapsed,
                entities |-> w.entities,
                highest_sequence |-> w.highest_sequence,
                latest_target_tick |-> w.latest_target_tick,
                pending |-> w.pending]
        /\ w.tick_index \in UInt64
        /\ w.elapsed \in Int64
        /\ w.pending \in Seq(VelocityCommand)
        /\ D \subseteq EntityIds
        /\ w.entities \in [D -> StoredEntity]
        /\ w.highest_sequence \in [D -> UInt64]
        /\ w.latest_target_tick \in [D -> UInt64]
    BY DEF WorldInv, IsWorld, IsEntityMap, SameKeys
  <2>3. t = [tick_index |-> w.tick_index, elapsed |-> w.elapsed,
             entities |-> Emplace(w.entities, e, new),
             highest_sequence |-> Emplace(w.highest_sequence, e, 0),
             latest_target_tick |->
                 Emplace(w.latest_target_tick, e, w.tick_index),
             pending |-> w.pending]
    BY <1>2, <2>2 DEF add_entity
  <2>4. new \in StoredEntity
    BY Bounds DEF StoredEntity, Vector
  <2> HIDE DEF t, new
  <2>5. /\ DOMAIN t.entities = D \cup {e}
        /\ DOMAIN t.highest_sequence = D \cup {e}
        /\ DOMAIN t.latest_target_tick = D \cup {e}
        /\ t.entities[e] = new
        /\ t.highest_sequence[e] = 0
        /\ t.latest_target_tick[e] = w.tick_index
        /\ t.pending = w.pending
        /\ t.tick_index = w.tick_index
        /\ t.elapsed = w.elapsed
        /\ \A f \in D : /\ t.entities[f] = w.entities[f]
                        /\ t.highest_sequence[f] = w.highest_sequence[f]
                        /\ t.latest_target_tick[f] = w.latest_target_tick[f]
    BY <2>1, <2>2, <2>3 DEF Emplace
  <2>6. IsWorld(t)
    <3>1. /\ t.entities \in [D \cup {e} -> StoredEntity]
          /\ t.highest_sequence \in [D \cup {e} -> UInt64]
          /\ t.latest_target_tick \in [D \cup {e} -> UInt64]
      BY <2>2, <2>3, <2>4, Bounds DEF Emplace
    <3> QED BY <2>2, <2>3, <2>5, <3>1 DEF IsWorld, IsEntityMap
  <2>7. SameKeys(t)
    BY <2>5 DEF SameKeys
  <2>8. ClockInv(t)
    BY <2>5 DEF ClockInv, WorldInv
  <2>9. MotionInv(t)
    <3>1. /\ new.position = p /\ new.velocity = v
          /\ \A a \in Axis : within_symmetric_limit(new.residual[a],
                                                    MicrosPerSecond - 1)
      BY Bounds DEF new, within_symmetric_limit
    <3> QED BY <2>1, <2>5, <3>1 DEF MotionInv, WorldInv
  <2>10. OrderedQueue(t.pending)
    BY <2>5 DEF WorldInv
  <2>11. QueueInv(t)
    BY <2>5 DEF QueueInv, CommandInv, WorldInv
  <2>12. SequenceInv(t)
    BY <2>5 DEF SequenceInv, WorldInv
  <2>13. NewestInv(t)
    BY <2>5 DEF NewestInv, WorldInv, new
  <2> QED BY <2>6, <2>7, <2>8, <2>9, <2>10, <2>11, <2>12, <2>13
          DEF WorldInv, t
<1> QED BY <1>1, <1>2

(* What an accepted queue_velocity does: the marks of the entity move, the  *)
(* queue takes the command in at one place m and keeps its order.           *)
LEMMA QueueVelocityShape ==
    ASSUME NEW w, WorldInv(w), NEW c \in VelocityCommand,
           queue_velocity_result(w, c) = "accepted"
    PROVE  /\ \A i \in DOMAIN w.pending : w.pending[i].entity_id = c.entity_id =>
                 /\ w.pending[i].sequence < c.sequence
                 /\ w.pending[i].target_tick <= c.target_tick
           /\ \E m \in 1 .. Len(w.pending) + 1 :
              /\ \A i \in 1 .. m - 1 : command_order(w.pending[i], c)
              /\ \A i \in m .. Len(w.pending) : command_order(c, w.pending[i])
              /\ queue_velocity(w, c) =
                   [tick_index |-> w.tick_index, elapsed |-> w.elapsed,
                    entities |-> w.entities,
                    highest_sequence |->
                        [w.highest_sequence EXCEPT ![c.entity_id] = c.sequence],
                    latest_target_tick |->
                        [w.latest_target_tick EXCEPT
                            ![c.entity_id] = c.target_tick],
                    pending |->
                        [k \in 1 .. Len(w.pending) + 1 |->
                            IF k < m THEN w.pending[k]
                            ELSE IF k = m THEN c ELSE w.pending[k - 1]]]
<1> DEFINE t == queue_velocity(w, c)
           D == DOMAIN w.entities
           q == w.pending
           n == Len(q)
<1>1. /\ ~(c.target_tick <= w.tick_index)
      /\ c.entity_id \in D
      /\ ~(c.sequence <= w.highest_sequence[c.entity_id])
      /\ ~(c.target_tick < w.latest_target_tick[c.entity_id])
      /\ velocity_is_valid(c.velocity)
  BY DEF queue_velocity_result
<1>2. /\ w = [tick_index |-> w.tick_index, elapsed |-> w.elapsed,
              entities |-> w.entities,
              highest_sequence |-> w.highest_sequence,
              latest_target_tick |-> w.latest_target_tick,
              pending |-> w.pending]
      /\ w.tick_index \in UInt64
      /\ w.elapsed \in Int64
      /\ q \in Seq(VelocityCommand)
      /\ D \subseteq EntityIds
      /\ w.entities \in [D -> StoredEntity]
      /\ w.highest_sequence \in [D -> UInt64]
      /\ w.latest_target_tick \in [D -> UInt64]
  BY DEF WorldInv, IsWorld, IsEntityMap, SameKeys
<1>3. t = [tick_index |-> w.tick_index, elapsed |-> w.elapsed,
           entities |-> w.entities,
           highest_sequence |->
               [w.highest_sequence EXCEPT ![c.entity_id] = c.sequence],
           latest_target_tick |->
               [w.latest_target_tick EXCEPT ![c.entity_id] = c.target_tick],
           pending |-> sort(Append(q, c))]
  BY <1>2 DEF queue_velocity
<1>4. /\ c.target_tick \in Nat /\ c.entity_id \in Nat /\ c.sequence \in Nat
      /\ c.target_tick \in UInt64 /\ c.sequence \in UInt64
  BY Bounds DEF VelocityCommand
<1>5. n \in Nat /\ DOMAIN q = 1 .. n /\ \A i \in 1 .. n : q[i] \in VelocityCommand
  BY <1>2
<1>6. \A i \in 1 .. n : q[i].target_tick \in Nat /\ q[i].sequence \in Nat
  BY <1>5, Bounds DEF VelocityCommand
<1>7. /\ \A f \in D : /\ w.highest_sequence[f] \in Nat
                      /\ w.latest_target_tick[f] \in Nat
                      /\ w.entities[f].last_sequence \in Nat
      /\ w.tick_index \in Nat
  BY <1>2, Bounds DEF StoredEntity
<1>8. \A i \in 1 .. n : CommandInv(w, q[i])
  BY <1>5 DEF WorldInv, QueueInv
<1>9. \A i \in 1 .. n : q[i].entity_id = c.entity_id =>
          q[i].sequence < c.sequence /\ q[i].target_tick <= c.target_tick
  <2> SUFFICES ASSUME NEW i \in 1 .. n, q[i].entity_id = c.entity_id
               PROVE  /\ q[i].sequence < c.sequence
                      /\ q[i].target_tick <= c.target_tick
    OBVIOUS
  <2>1. /\ q[i].sequence <= w.highest_sequence[c.entity_id]
        /\ q[i].target_tick <= w.latest_target_tick[c.entity_id]
    BY <1>8 DEF CommandInv
  <2> HIDE DEF q, n
  <2> QED BY <1>1, <1>4, <1>6, <1>7, <2>1
<1>10. \A i \in DOMAIN q : Key(q[i]) # Key(c)
  BY <1>4, <1>5, <1>6, <1>9 DEF Key
<1>11. PICK m \in 1 .. n + 1 :
          /\ \A i \in 1 .. m - 1 : command_order(q[i], c)
          /\ \A i \in m .. n : command_order(c, q[i])
          /\ sort(Append(q, c)) =
                [k \in 1 .. n + 1 |->
                    IF k < m THEN q[k] ELSE IF k = m THEN c ELSE q[k - 1]]
  <2>1. OrderedQueue(q)
    BY DEF WorldInv
  <2> QED BY <1>2, <1>10, <2>1, SortInserts
<1> HIDE DEF t
<1>12. t = [tick_index |-> w.tick_index, elapsed |-> w.elapsed,
            entities |-> w.entities,
            highest_sequence |->
                [w.highest_sequence EXCEPT ![c.entity_id] = c.sequence],
            latest_target_tick |->
                [w.latest_target_tick EXCEPT ![c.entity_id] = c.target_tick],
            pending |->
                [k \in 1 .. n + 1 |->
                    IF k < m THEN q[k] ELSE IF k = m THEN c ELSE q[k - 1]]]
  BY <1>3, <1>11
<1> QED BY <1>5, <1>9, <1>11, <1>12 DEF t

(* queue_velocity preserves the invariant: the new command has a sequence   *)
(* number above those of its entity in the queue and a target tick not      *)
(* below them, so its key is new and it keeps both orders.                  *)
LEMMA QueueVelocityInv ==
    ASSUME NEW w, WorldInv(w), NEW c \in VelocityCommand
    PROVE  WorldInv(queue_velocity(w, c))
<1> DEFINE t == queue_velocity(w, c)
           D == DOMAIN w.entities
           q == w.pending
           n == Len(q)
<1>1. CASE queue_velocity_result(w, c) # "accepted"
  BY <1>1 DEF queue_velocity
<1>2. CASE queue_velocity_result(w, c) = "accepted"
  <2>1. /\ ~(c.target_tick <= w.tick_index)
        /\ c.entity_id \in D
        /\ ~(c.sequence <= w.highest_sequence[c.entity_id])
        /\ ~(c.target_tick < w.latest_target_tick[c.entity_id])
        /\ velocity_is_valid(c.velocity)
    BY <1>2 DEF queue_velocity_result
  <2>2. /\ w = [tick_index |-> w.tick_index, elapsed |-> w.elapsed,
                entities |-> w.entities,
                highest_sequence |-> w.highest_sequence,
                latest_target_tick |-> w.latest_target_tick,
                pending |-> w.pending]
        /\ w.tick_index \in UInt64
        /\ w.elapsed \in Int64
        /\ q \in Seq(VelocityCommand)
        /\ D \subseteq EntityIds
        /\ w.entities \in [D -> StoredEntity]
        /\ w.highest_sequence \in [D -> UInt64]
        /\ w.latest_target_tick \in [D -> UInt64]
    BY DEF WorldInv, IsWorld, IsEntityMap, SameKeys
  <2>3. PICK m \in 1 .. n + 1 :
           /\ \A i \in 1 .. m - 1 : command_order(q[i], c)
           /\ \A i \in m .. n : command_order(c, q[i])
           /\ t = [tick_index |-> w.tick_index, elapsed |-> w.elapsed,
                   entities |-> w.entities,
                   highest_sequence |->
                       [w.highest_sequence EXCEPT ![c.entity_id] = c.sequence],
                   latest_target_tick |->
                       [w.latest_target_tick EXCEPT
                           ![c.entity_id] = c.target_tick],
                   pending |->
                       [k \in 1 .. n + 1 |->
                           IF k < m THEN q[k]
                           ELSE IF k = m THEN c ELSE q[k - 1]]]
    BY <1>2, QueueVelocityShape
  <2>4. /\ c.target_tick \in Nat /\ c.entity_id \in Nat /\ c.sequence \in Nat
        /\ c.target_tick \in UInt64 /\ c.sequence \in UInt64
    BY Bounds DEF VelocityCommand
  <2>5. n \in Nat /\ DOMAIN q = 1 .. n /\ \A i \in 1 .. n : q[i] \in VelocityCommand
    BY <2>2
  <2>6. \A i \in 1 .. n : q[i].target_tick \in Nat /\ q[i].sequence \in Nat
    BY <2>5, Bounds DEF VelocityCommand
  <2>7. /\ \A f \in D : /\ w.highest_sequence[f] \in Nat
                        /\ w.latest_target_tick[f] \in Nat
                        /\ w.entities[f].last_sequence \in Nat
        /\ w.tick_index \in Nat
    BY <2>2, Bounds DEF StoredEntity
  <2>8. \A i \in 1 .. n : CommandInv(w, q[i])
    BY <2>5 DEF WorldInv, QueueInv
  <2>9. \A i \in 1 .. n : q[i].entity_id = c.entity_id =>
            q[i].sequence < c.sequence /\ q[i].target_tick <= c.target_tick
    BY <1>2, <2>5, QueueVelocityShape
  <2> HIDE DEF t, n
  <2>12. /\ DOMAIN t.pending = 1 .. n + 1
         /\ \A k \in 1 .. n + 1 : t.pending[k] =
               IF k < m THEN q[k] ELSE IF k = m THEN c ELSE q[k - 1]
    BY <2>3
  <2>13. \A k \in 1 .. n + 1 :
            t.pending[k] = c \/ \E i \in 1 .. n : t.pending[k] = q[i]
    <3> TAKE k \in 1 .. n + 1
    <3>1. CASE k < m
      BY <2>5, <2>3, <2>12, <3>1
    <3>2. CASE k = m
      BY <2>12, <3>2
    <3>3. CASE k > m
      <4>1. k - 1 \in 1 .. n /\ t.pending[k] = q[k - 1]
        BY <2>5, <2>3, <2>12, <3>3
      <4> QED BY <4>1
    <3>4. k < m \/ k = m \/ k > m
      BY <2>5, m \in 1 .. n + 1, k \in 1 .. n + 1
    <3> QED BY <3>1, <3>2, <3>3, <3>4
  <2>14. /\ \E k \in 1 .. n + 1 : t.pending[k] = c
         /\ \A i \in 1 .. n : \E k \in 1 .. n + 1 : t.pending[k] = q[i]
    <3>1. t.pending[m] = c
      BY <2>5, <2>3, <2>12
    <3>2. ASSUME NEW i \in 1 .. n
          PROVE  \E k \in 1 .. n + 1 : t.pending[k] = q[i]
      <4>1. CASE i < m
        BY <2>5, <2>3, <2>12, <4>1
      <4>2. CASE i >= m
        <5>1. t.pending[i + 1] = q[i]
          BY <2>5, <2>3, <2>12, <4>2
        <5> QED BY <2>5, <5>1
      <4> QED BY <2>5, <2>3, <4>1, <4>2
    <3> QED BY <3>1, <3>2
  <2>15. /\ t.tick_index = w.tick_index /\ t.elapsed = w.elapsed
         /\ t.entities = w.entities
         /\ DOMAIN t.highest_sequence = D
         /\ DOMAIN t.latest_target_tick = D
         /\ t.highest_sequence[c.entity_id] = c.sequence
         /\ t.latest_target_tick[c.entity_id] = c.target_tick
         /\ \A f \in D \ {c.entity_id} :
               /\ t.highest_sequence[f] = w.highest_sequence[f]
               /\ t.latest_target_tick[f] = w.latest_target_tick[f]
    BY <2>1, <2>2, <2>3
  <2>16. IsWorld(t)
    <3>1. t.pending \in Seq(VelocityCommand)
      <4>1. t.pending \in [1 .. n + 1 -> VelocityCommand]
        BY <2>5, <2>3
      <4>2. n + 1 \in Nat
        BY <2>5
      <4> QED BY <4>1, <4>2
    <3>2. /\ t.highest_sequence \in [D -> UInt64]
          /\ t.latest_target_tick \in [D -> UInt64]
      BY <2>2, <2>3, <2>4
    <3> QED BY <2>2, <2>3, <2>15, <3>1, <3>2 DEF IsWorld, IsEntityMap
  <2>17. SameKeys(t) /\ ClockInv(t) /\ MotionInv(t)
    BY <2>15 DEF SameKeys, ClockInv, MotionInv, WorldInv
  <2>18. OrderedQueue(t.pending)
    <3> SUFFICES ASSUME NEW i \in 1 .. n + 1, NEW j \in 1 .. n + 1, i < j
                 PROVE  command_order(t.pending[i], t.pending[j])
      BY <2>12 DEF OrderedQueue
    <3>1. \A a, b \in 1 .. n : a < b => command_order(q[a], q[b])
      BY <2>5 DEF WorldInv, OrderedQueue
    <3>2. CASE j < m
      <4>1. i \in 1 .. n /\ j \in 1 .. n /\ i < m
        BY <2>5, <2>3, <3>2
      <4> QED BY <2>12, <3>1, <3>2, <4>1
    <3>3. CASE j = m
      <4>1. i \in 1 .. m - 1 /\ i < m
        BY <2>5, <2>3, <3>3
      <4> QED BY <2>3, <2>12, <3>3, <4>1
    <3>4. CASE j > m /\ i < m
      <4>1. i \in 1 .. n /\ j - 1 \in 1 .. n /\ i < j - 1 /\ ~(j < m) /\ j # m
        BY <2>5, <2>3, <3>4
      <4> QED BY <2>12, <3>1, <3>4, <4>1
    <3>5. CASE j > m /\ i = m
      <4>1. j - 1 \in m .. n /\ ~(j < m) /\ j # m /\ ~(i < m)
        BY <2>5, <2>3, <3>5
      <4> QED BY <2>3, <2>12, <3>5, <4>1
    <3>6. CASE j > m /\ i > m
      <4>1. /\ i - 1 \in 1 .. n /\ j - 1 \in 1 .. n /\ i - 1 < j - 1
            /\ ~(j < m) /\ j # m /\ ~(i < m) /\ i # m
        BY <2>5, <2>3, <3>6
      <4> QED BY <2>12, <3>1, <4>1
    <3> QED BY <2>5, <2>3, <3>2, <3>3, <3>4, <3>5, <3>6
  <2>19. QueueInv(t)
    <3>1. CommandInv(t, c)
      <4>1. w.entities[c.entity_id].last_sequence < c.sequence
        <5>1. w.entities[c.entity_id].last_sequence
                <= w.highest_sequence[c.entity_id]
          <6>1. \/ w.entities[c.entity_id].last_sequence
                     = w.highest_sequence[c.entity_id]
                \/ \E i \in 1 .. n :
                      /\ q[i].entity_id = c.entity_id
                      /\ q[i].sequence = w.highest_sequence[c.entity_id]
            BY <2>1, <2>5 DEF WorldInv, NewestInv
          <6>2. \A i \in 1 .. n :
                   w.entities[q[i].entity_id].last_sequence < q[i].sequence
            BY <2>8 DEF CommandInv
          <6> HIDE DEF q
          <6> QED BY <2>1, <2>7, <6>1, <6>2
        <5> QED BY <2>1, <2>4, <2>7, <5>1
      <4> QED BY <2>1, <2>4, <2>7, <2>15, <4>1 DEF CommandInv
    <3>2. ASSUME NEW i \in 1 .. n PROVE CommandInv(t, q[i])
      <4>1. CASE q[i].entity_id = c.entity_id
        BY <2>1, <2>4, <2>6, <2>7, <2>8, <2>9, <2>15, <4>1 DEF CommandInv
      <4>2. CASE q[i].entity_id # c.entity_id
        BY <2>8, <2>15, <4>2 DEF CommandInv
      <4> QED BY <4>1, <4>2
    <3> QED BY <2>12, <2>13, <3>1, <3>2 DEF QueueInv
  <2>20. SequenceInv(t)
    <3> DEFINE Ord(a, b) == a.entity_id = b.entity_id /\ a.sequence <= b.sequence
                               => a.target_tick <= b.target_tick
    <3>1. \A i, j \in 1 .. n : Ord(q[i], q[j])
      BY <2>5 DEF WorldInv, SequenceInv
    <3>2. \A i \in 1 .. n : Ord(q[i], c) /\ Ord(c, q[i])
      BY <2>4, <2>6, <2>9
    <3>3. Ord(c, c)
      BY <2>4
    <3> HIDE DEF Ord
    <3>4. \A i, j \in 1 .. n + 1 : Ord(t.pending[i], t.pending[j])
      BY <2>13, <3>1, <3>2, <3>3
    <3> QED BY <2>12, <3>4 DEF SequenceInv, Ord
  <2>21. NewestInv(t)
    <3> SUFFICES ASSUME NEW e \in D
                 PROVE  \/ t.entities[e].last_sequence = t.highest_sequence[e]
                        \/ \E i \in 1 .. n + 1 :
                              /\ t.pending[i].entity_id = e
                              /\ t.pending[i].sequence = t.highest_sequence[e]
      BY <2>12, <2>15 DEF NewestInv
    <3>1. CASE e = c.entity_id
      BY <2>14, <2>15, <3>1
    <3>2. CASE e # c.entity_id
      <4>1. \/ w.entities[e].last_sequence = w.highest_sequence[e]
            \/ \E i \in 1 .. n : /\ q[i].entity_id = e
                                 /\ q[i].sequence = w.highest_sequence[e]
        BY <2>5 DEF WorldInv, NewestInv
      <4> QED BY <2>14, <2>15, <3>2, <4>1
    <3> QED BY <3>1, <3>2
  <2> QED BY <2>16, <2>17, <2>18, <2>19, <2>20, <2>21 DEF WorldInv, t
<1> QED BY <1>1, <1>2

(* The commands of the next tick are a prefix of the queue; all others are  *)
(* of later ticks.  This is what the early break of the loop relies on.     *)
LEMMA DueSplit ==
    ASSUME NEW w, WorldInv(w)
    PROVE  \E m \in 0 .. Len(w.pending) :
              /\ \A i \in 1 .. m : w.pending[i].target_tick = w.tick_index + 1
              /\ \A i \in m + 1 .. Len(w.pending) :
                    w.pending[i].target_tick > w.tick_index + 1
<1> DEFINE q == w.pending
           n == Len(q)
           T == {i \in 1 .. n + 1 :
                    i = n + 1 \/ q[i].target_tick > w.tick_index + 1}
<1>1. /\ n \in Nat /\ DOMAIN q = 1 .. n
      /\ \A i \in 1 .. n : q[i] \in VelocityCommand
  BY DEF WorldInv, IsWorld
<1>2. w.tick_index \in Nat /\ \A i \in 1 .. n : q[i].target_tick \in Nat
  BY <1>1, Bounds DEF WorldInv, IsWorld, VelocityCommand
<1>3. \A i \in 1 .. n : w.tick_index < q[i].target_tick
  BY <1>1 DEF WorldInv, QueueInv, CommandInv
<1>4. \A i, j \in 1 .. n : i < j => q[i].target_tick <= q[j].target_tick
  <2> TAKE i, j \in 1 .. n
  <2> HAVE i < j
  <2>1. command_order(q[i], q[j])
    BY <1>1 DEF WorldInv, OrderedQueue
  <2> HIDE DEF q
  <2> QED BY <1>2, <2>1 DEF command_order
<1> HIDE DEF q, n
<1>5. PICK k \in T : \A i \in T : k <= i
  <2>1. n + 1 \in T
    BY <1>1
  <2>2. T \in SUBSET Nat
    BY <1>1
  <2> QED BY <2>1, <2>2, LeastNat
<1>6. k - 1 \in 0 .. n
  BY <1>1
<1>7. ASSUME NEW i \in 1 .. k - 1
      PROVE  q[i].target_tick = w.tick_index + 1
  <2>1. i \in 1 .. n /\ i \notin T
    BY <1>1, <1>5, <1>6
  <2>2. i # n + 1 /\ i \in 1 .. n + 1
    BY <1>1, <2>1
  <2>3. ~(q[i].target_tick > w.tick_index + 1)
    BY <2>1, <2>2
  <2> QED BY <1>2, <1>3, <2>1, <2>3
<1>8. ASSUME NEW i \in k .. n
      PROVE  q[i].target_tick > w.tick_index + 1
  <2>1. k \in 1 .. n /\ i \in 1 .. n
    BY <1>1, <1>5
  <2>2. q[k].target_tick > w.tick_index + 1
    BY <1>1, <1>5, <2>1
  <2>3. CASE i = k
    BY <2>2, <2>3
  <2>4. CASE i > k
    BY <1>2, <1>4, <2>1, <2>2, <2>4
  <2> QED BY <1>1, <2>1, <2>3, <2>4
<1>9. (k - 1) + 1 = k
  BY <1>6
<1> QED BY <1>6, <1>7, <1>8, <1>9 DEF q, n

(* The std::logic_error of advance is unreachable from a world that         *)
(* satisfies the invariant.                                                 *)
LEMMA LoopDoesNotThrow ==
    ASSUME NEW w, WorldInv(w)
    PROVE  ~LoopThrows(w)
<1>1. \A i \in DOMAIN w.pending : CommandInv(w, w.pending[i])
  BY DEF WorldInv, QueueInv
<1>2. \A i \in DOMAIN w.pending : /\ w.tick_index < w.pending[i].target_tick
                                  /\ w.pending[i].entity_id \in DOMAIN w.entities
  BY <1>1 DEF CommandInv
<1>3. /\ w.tick_index \in Nat
      /\ \A i \in DOMAIN w.pending : w.pending[i].target_tick \in Nat
  <2>1. w.tick_index \in UInt64 /\ w.pending \in Seq(VelocityCommand)
    BY DEF WorldInv, IsWorld
  <2>2. \A i \in DOMAIN w.pending : w.pending[i] \in VelocityCommand
    BY <2>1
  <2> QED BY <2>1, <2>2, Bounds DEF VelocityCommand
<1>4. \A i \in DOMAIN w.pending : ~(w.pending[i].target_tick < w.tick_index + 1)
  BY <1>2, <1>3
<1> QED BY <1>2, <1>4 DEF LoopThrows, Due

(* What an entity integrates with: its old state, or that state with the    *)
(* velocity and the sequence number of the last due command of its own.     *)
LEMMA CommandedFacts ==
    ASSUME NEW w, WorldInv(w), NEW e \in DOMAIN w.entities
    PROVE  LET s == Commanded(w, e) IN
           /\ s \in StoredEntity
           /\ s.position = w.entities[e].position
           /\ s.residual = w.entities[e].residual
           /\ velocity_is_valid(s.velocity)
           /\ \/ DueFor(w, e) = {} /\ s = w.entities[e]
              \/ \E i \in DueFor(w, e) :
                    /\ s.last_sequence = w.pending[i].sequence
                    /\ s.velocity = w.pending[i].velocity
                    /\ \A j \in DueFor(w, e) : j <= i
<1> DEFINE q == w.pending
<1>1. w.entities[e] \in StoredEntity /\ velocity_is_valid(w.entities[e].velocity)
  BY DEF WorldInv, IsWorld, IsEntityMap, MotionInv
<1>2. CASE DueFor(w, e) = {}
  BY <1>1, <1>2 DEF Commanded
<1>3. CASE DueFor(w, e) # {}
  <2>1. Len(q) \in Nat /\ DueFor(w, e) \in SUBSET (1 .. Len(q))
    BY DEF DueFor, Due, WorldInv, IsWorld
  <2>2. PICK i \in DueFor(w, e) : /\ i = Max(DueFor(w, e))
                                  /\ \A j \in DueFor(w, e) : j <= i
    BY <1>3, <2>1, GreatestPlace
  <2>3. Commanded(w, e) = [w.entities[e] EXCEPT !.velocity = q[i].velocity,
                                                !.last_sequence = q[i].sequence]
    BY <1>3, <2>2 DEF Commanded
  <2>4. /\ q[i] \in VelocityCommand
        /\ velocity_is_valid(q[i].velocity)
    <3>1. i \in DOMAIN q
      BY DEF DueFor, Due
    <3> QED BY <3>1 DEF WorldInv, IsWorld, QueueInv, CommandInv
  <2>5. q[i].velocity \in Vector /\ q[i].sequence \in UInt64
    BY <2>4 DEF VelocityCommand
  <2>6. /\ Commanded(w, e) \in StoredEntity
        /\ Commanded(w, e).position = w.entities[e].position
        /\ Commanded(w, e).residual = w.entities[e].residual
        /\ Commanded(w, e).velocity = q[i].velocity
        /\ Commanded(w, e).last_sequence = q[i].sequence
    BY <1>1, <2>3, <2>5 DEF StoredEntity
  <2> QED BY <2>2, <2>4, <2>6
<1> QED BY <1>2, <1>3

(* The integration of one entity that passes no limit keeps its type, its   *)
(* command and the bounds, and is exact.                                    *)
LEMMA IntegrateFacts ==
    ASSUME NEW s \in StoredEntity, \A a \in Axis : ~axis_overflows(s, a)
    PROVE  /\ integrate(s) \in StoredEntity
           /\ integrate(s).velocity = s.velocity
           /\ integrate(s).last_sequence = s.last_sequence
           /\ position_is_valid(integrate(s).position)
           /\ \A a \in Axis :
                 /\ within_symmetric_limit(integrate(s).residual[a],
                                           MicrosPerSecond - 1)
                 /\ integrate(s).position[a] * MicrosPerSecond
                      + integrate(s).residual[a]
                    = s.position[a] * MicrosPerSecond + s.residual[a]
                      + s.velocity[a] * TickDuration
<1> DEFINE P(a) == NextPosition(s, a)
           R(a) == TruncRem(ScaledDisplacement(s, a), MicrosPerSecond)
           Q(a) == TruncDiv(ScaledDisplacement(s, a), MicrosPerSecond)
<1>1. ASSUME NEW a \in Axis
      PROVE  s.position[a] \in Int /\ s.velocity[a] \in Int /\ s.residual[a] \in Int
  BY Bounds DEF StoredEntity, Vector
<1>2. ASSUME NEW a \in Axis
      PROVE  ScaledDisplacement(s, a) \in Int
  BY <1>1, Bounds DEF ScaledDisplacement
<1>3. ASSUME NEW a \in Axis
      PROVE  /\ Q(a) \in Int /\ R(a) \in Int
             /\ ScaledDisplacement(s, a) = MicrosPerSecond * Q(a) + R(a)
             /\ within_symmetric_limit(R(a), MicrosPerSecond - 1)
  BY <1>2, TruncSplit, Bounds
<1>4. ASSUME NEW a \in Axis
      PROVE  /\ P(a) = s.position[a] + Q(a)
             /\ P(a) \in Int64
             /\ within_symmetric_limit(P(a), MaxAbsPosition)
             /\ R(a) \in Int64
  <2>1. P(a) \in Int64 /\ within_symmetric_limit(P(a), MaxAbsPosition)
    BY DEF axis_overflows
  <2>2. P(a) = s.position[a] + Q(a)
    BY DEF NextPosition
  <2>3. R(a) \in Int64
    <3>1. R(a) \in Int /\ R(a) >= -(MicrosPerSecond - 1)
          /\ R(a) <= MicrosPerSecond - 1
      BY <1>3 DEF within_symmetric_limit
    <3> HIDE DEF R
    <3> QED BY <3>1, Bounds DEF Int64
  <2> QED BY <2>1, <2>2, <2>3
<1>5. integrate(s) = [s EXCEPT !.position = [a \in Axis |-> P(a)],
                               !.residual = [a \in Axis |-> R(a)]]
  BY DEF integrate
<1>6. ASSUME NEW a \in Axis
      PROVE  P(a) * MicrosPerSecond + R(a)
               = s.position[a] * MicrosPerSecond + s.residual[a]
                 + s.velocity[a] * TickDuration
  <2>1. PICK x \in Int, y \in Int, M \in Int, z \in Int :
           x = s.position[a] /\ y = Q(a) /\ M = MicrosPerSecond /\ z = R(a)
    BY <1>1, <1>3, Bounds
  <2>2. (x + y) * M + z = x * M + (M * y + z)
    OBVIOUS
  <2>3. M * y + z = s.velocity[a] * TickDuration + s.residual[a]
    BY <1>3, <2>1 DEF ScaledDisplacement
  <2>4. P(a) = x + y
    BY <1>4, <2>1
  <2>5. PICK p \in Int : p = s.velocity[a] * TickDuration
    BY <1>1, Bounds
  <2> HIDE DEF P, R, Q
  <2> QED BY <1>1, <2>1, <2>2, <2>3, <2>4, <2>5
<1> HIDE DEF P, R, Q
<1>7. /\ [a \in Axis |-> P(a)] \in Vector
      /\ [a \in Axis |-> R(a)] \in Vector
  BY <1>4 DEF Vector
<1>8. /\ integrate(s) \in StoredEntity
      /\ integrate(s).velocity = s.velocity
      /\ integrate(s).last_sequence = s.last_sequence
      /\ integrate(s).position = [a \in Axis |-> P(a)]
      /\ integrate(s).residual = [a \in Axis |-> R(a)]
  BY <1>5, <1>7 DEF StoredEntity
<1>9. \A a \in Axis : /\ integrate(s).position[a] = P(a)
                      /\ integrate(s).residual[a] = R(a)
  BY <1>8
<1>10. position_is_valid(integrate(s).position)
  BY <1>4, <1>9 DEF position_is_valid
<1> QED BY <1>3, <1>6, <1>8, <1>9, <1>10 DEF R

(* What a successful advance does: the first m commands of the queue are    *)
(* those of the tick, they take effect and leave it; the marks stay.        *)
LEMMA AdvanceShape ==
    ASSUME NEW w, WorldInv(w), advance_result(w) = "advanced"
    PROVE  \E m \in 0 .. Len(w.pending) :
              /\ \A i \in 1 .. m : w.pending[i].target_tick = w.tick_index + 1
              /\ \A i \in m + 1 .. Len(w.pending) :
                    w.pending[i].target_tick > w.tick_index + 1
              /\ \A e \in DOMAIN w.entities :
                    DueFor(w, e) = {i \in 1 .. m : w.pending[i].entity_id = e}
              /\ advance(w) =
                   [tick_index |-> w.tick_index + 1,
                    elapsed |-> w.elapsed + TickDuration,
                    entities |-> [e \in DOMAIN w.entities |->
                                     integrate(Commanded(w, e))],
                    highest_sequence |-> w.highest_sequence,
                    latest_target_tick |-> w.latest_target_tick,
                    pending |-> [k \in 1 .. Len(w.pending) - m |->
                                    w.pending[m + k]]]
<1> DEFINE t == advance(w)
           D == DOMAIN w.entities
           q == w.pending
           n == Len(q)
           u == w.tick_index + 1
           s(e) == Commanded(w, e)
<1>1. /\ ~clock_overflows(w)
      /\ \A e \in D, a \in Axis : ~axis_overflows(s(e), a)
  BY DEF advance_result
<1>2. /\ w = [tick_index |-> w.tick_index, elapsed |-> w.elapsed,
              entities |-> w.entities,
              highest_sequence |-> w.highest_sequence,
              latest_target_tick |-> w.latest_target_tick,
              pending |-> w.pending]
      /\ w.tick_index \in UInt64
      /\ w.elapsed \in Int64
      /\ q \in Seq(VelocityCommand)
      /\ D \subseteq EntityIds
      /\ w.entities \in [D -> StoredEntity]
      /\ w.highest_sequence \in [D -> UInt64]
      /\ w.latest_target_tick \in [D -> UInt64]
  BY DEF WorldInv, IsWorld, IsEntityMap, SameKeys
<1>3. n \in Nat /\ DOMAIN q = 1 .. n /\ \A i \in 1 .. n : q[i] \in VelocityCommand
  BY <1>2
<1>4. /\ w.tick_index \in Nat
      /\ \A i \in 1 .. n : q[i].target_tick \in Nat /\ q[i].sequence \in Nat
      /\ \A e \in D : /\ w.entities[e].last_sequence \in Nat
                      /\ w.highest_sequence[e] \in Nat
  <2>1. \A i \in 1 .. n : q[i].target_tick \in Nat /\ q[i].sequence \in Nat
    BY <1>3, Bounds DEF VelocityCommand
  <2> QED BY <1>2, <2>1, Bounds DEF StoredEntity
<1>5. PICK m \in 0 .. n : /\ \A i \in 1 .. m : q[i].target_tick = u
                          /\ \A i \in m + 1 .. n : q[i].target_tick > u
  BY DueSplit
<1>6. \A e \in D : DueFor(w, e) = {i \in 1 .. m : q[i].entity_id = e}
  <2>1. Due(w) = 1 .. m
    <3>1. ASSUME NEW i \in 1 .. m PROVE i \in Due(w)
      BY <1>3, <1>5 DEF Due
    <3>2. ASSUME NEW i \in Due(w) PROVE i \in 1 .. m
      <4>1. i \in 1 .. n /\ q[i].target_tick = u
        BY <1>3 DEF Due
      <4>2. \A j \in m + 1 .. n : j # i
        BY <1>3, <1>4, <1>5, <4>1
      <4> QED BY <1>3, <1>5, <4>1, <4>2
    <3> QED BY <3>1, <3>2
  <2> QED BY <2>1 DEF DueFor
<1>7. Keep(q, {i \in DOMAIN q : q[i].target_tick # u})
        = [k \in 1 .. n - m |-> q[m + k]]
  <2> DEFINE I == {i \in DOMAIN q : q[i].target_tick # u}
  <2>1. I = m + 1 .. n
    <3>1. ASSUME NEW i \in 1 .. n
          PROVE  q[i].target_tick # u <=> i \in m + 1 .. n
      BY <1>3, <1>4, <1>5
    <3> QED BY <1>3, <1>5, <3>1
  <2>2. Keep(q, m + 1 .. n) = [k \in 1 .. n - m |-> q[m + k]]
    BY ZenonT(40), <1>3, KeepSuffix
  <2> HIDE DEF I
  <2>3. Keep(q, I) = [k \in 1 .. n - m |-> q[m + k]]
    BY <2>1, <2>2
  <2> QED BY <2>3 DEF I
<1>8. t = [tick_index |-> u, elapsed |-> w.elapsed + TickDuration,
           entities |-> [e \in D |-> integrate(s(e))],
           highest_sequence |-> w.highest_sequence,
           latest_target_tick |-> w.latest_target_tick,
           pending |-> [k \in 1 .. n - m |-> q[m + k]]]
  <2>1. t = [w EXCEPT
               !.tick_index = u,
               !.elapsed = w.elapsed + TickDuration,
               !.entities = [e \in D |-> integrate(s(e))],
               !.pending = Keep(q, {i \in DOMAIN q : q[i].target_tick # u})]
    BY DEF advance
  <2> HIDE DEF t
  <2> QED BY <1>2, <1>7, <2>1
<1> QED BY <1>5, <1>6, <1>8

(* advance preserves the invariant.                                         *)
LEMMA AdvanceInv ==
    ASSUME NEW w, WorldInv(w)
    PROVE  WorldInv(advance(w))
<1> DEFINE t == advance(w)
           D == DOMAIN w.entities
           q == w.pending
           n == Len(q)
           u == w.tick_index + 1
           s(e) == Commanded(w, e)
<1>1. CASE advance_result(w) # "advanced"
  BY <1>1 DEF advance
<1>2. CASE advance_result(w) = "advanced"
  <2>1. /\ ~clock_overflows(w)
        /\ \A e \in D, a \in Axis : ~axis_overflows(s(e), a)
    BY <1>2 DEF advance_result
  <2>2. /\ w = [tick_index |-> w.tick_index, elapsed |-> w.elapsed,
                entities |-> w.entities,
                highest_sequence |-> w.highest_sequence,
                latest_target_tick |-> w.latest_target_tick,
                pending |-> w.pending]
        /\ w.tick_index \in UInt64
        /\ w.elapsed \in Int64
        /\ q \in Seq(VelocityCommand)
        /\ D \subseteq EntityIds
        /\ w.entities \in [D -> StoredEntity]
        /\ w.highest_sequence \in [D -> UInt64]
        /\ w.latest_target_tick \in [D -> UInt64]
    BY DEF WorldInv, IsWorld, IsEntityMap, SameKeys
  <2>3. n \in Nat /\ DOMAIN q = 1 .. n /\ \A i \in 1 .. n : q[i] \in VelocityCommand
    BY <2>2
  <2>4. /\ w.tick_index \in Nat
        /\ \A i \in 1 .. n : q[i].target_tick \in Nat /\ q[i].sequence \in Nat
        /\ \A e \in D : /\ w.entities[e].last_sequence \in Nat
                        /\ w.highest_sequence[e] \in Nat
    <3>1. \A i \in 1 .. n : q[i].target_tick \in Nat /\ q[i].sequence \in Nat
      BY <2>3, Bounds DEF VelocityCommand
    <3> QED BY <2>2, <3>1, Bounds DEF StoredEntity
  <2>5. PICK m \in 0 .. n :
           /\ \A i \in 1 .. m : q[i].target_tick = u
           /\ \A i \in m + 1 .. n : q[i].target_tick > u
           /\ \A e \in D : DueFor(w, e) = {i \in 1 .. m : q[i].entity_id = e}
           /\ t = [tick_index |-> u, elapsed |-> w.elapsed + TickDuration,
                   entities |-> [e \in D |-> integrate(s(e))],
                   highest_sequence |-> w.highest_sequence,
                   latest_target_tick |-> w.latest_target_tick,
                   pending |-> [k \in 1 .. n - m |-> q[m + k]]]
    BY <1>2, AdvanceShape
  <2> HIDE DEF t, n, q
  <2>9. /\ t.tick_index = u /\ t.elapsed = w.elapsed + TickDuration
        /\ DOMAIN t.entities = D
        /\ \A e \in D : t.entities[e] = integrate(s(e))
        /\ t.highest_sequence = w.highest_sequence
        /\ t.latest_target_tick = w.latest_target_tick
        /\ DOMAIN t.pending = 1 .. n - m
        /\ \A k \in 1 .. n - m : t.pending[k] = q[m + k]
    BY <2>5
  <2>10. \A k \in 1 .. n - m : m + k \in m + 1 .. n /\ m + k \in 1 .. n
    BY <2>3, <2>5
  <2>11. \A e \in D : /\ integrate(s(e)) \in StoredEntity
                      /\ integrate(s(e)).velocity = s(e).velocity
                      /\ integrate(s(e)).last_sequence = s(e).last_sequence
                      /\ position_is_valid(integrate(s(e)).position)
                      /\ \A a \in Axis :
                            within_symmetric_limit(integrate(s(e)).residual[a],
                                                   MicrosPerSecond - 1)
    <3> TAKE e \in D
    <3>1. s(e) \in StoredEntity
      BY CommandedFacts
    <3> QED BY <2>1, <3>1, IntegrateFacts
  <2>12. IsWorld(t)
    <3>1. u \in UInt64 /\ w.elapsed + TickDuration \in Int64
      <4>1. w.tick_index # UInt64Max /\ ~(w.elapsed > Int64Max - TickDuration)
        BY <2>1 DEF clock_overflows
      <4>2. w.tick_index \in UInt64 /\ w.elapsed \in Int64
        BY <2>2
      <4> HIDE DEF t, q, n, D, s
      <4>3. w.tick_index + 1 \in UInt64
        BY <4>1, <4>2, Bounds DEF UInt64
      <4>4. w.elapsed + TickDuration \in Int64
        BY <4>1, <4>2, Bounds DEF Int64
      <4> QED BY <4>3, <4>4
    <3>2. t.entities \in [D -> StoredEntity]
      BY <2>5, <2>11
    <3>3. t.pending \in Seq(VelocityCommand)
      <4>1. n - m \in Nat
        BY <2>3, <2>5
      <4>2. [k \in 1 .. n - m |-> q[m + k]] \in [1 .. n - m -> VelocityCommand]
        BY <2>3, <2>10
      <4> QED BY SMTT(30), <2>5, <4>1, <4>2
    <3> QED BY <2>2, <2>5, <2>9, <3>1, <3>2, <3>3 DEF IsWorld, IsEntityMap
  <2>13. SameKeys(t)
    BY <2>9 DEF SameKeys, WorldInv
  <2>14. ClockInv(t)
    <3>1. w.elapsed = w.tick_index * TickDuration
      BY DEF WorldInv, ClockInv
    <3>2. (w.tick_index + 1) * TickDuration
            = w.tick_index * TickDuration + TickDuration
      BY <2>4, Bounds
    <3> QED BY <2>9, <3>1, <3>2 DEF ClockInv
  <2>15. MotionInv(t)
    <3>1. \A e \in D : velocity_is_valid(s(e).velocity)
      BY CommandedFacts
    <3> QED BY <2>9, <2>11, <3>1 DEF MotionInv
  <2>16. OrderedQueue(t.pending)
    <3>1. \A i, j \in 1 .. n : i < j => command_order(q[i], q[j])
      BY <2>3 DEF WorldInv, OrderedQueue, q
    <3> SUFFICES ASSUME NEW i \in 1 .. n - m, NEW j \in 1 .. n - m, i < j
                 PROVE  command_order(t.pending[i], t.pending[j])
      BY <2>9 DEF OrderedQueue
    <3>2. m + i < m + j
      BY <2>3, <2>5
    <3> QED BY <2>9, <2>10, <3>1, <3>2
  <2>17. \A i \in 1 .. n : CommandInv(w, q[i])
    BY <2>3 DEF WorldInv, QueueInv, q
  <2>18. \A i, j \in 1 .. n :
            /\ q[i].entity_id = q[j].entity_id
            /\ q[i].sequence <= q[j].sequence
            => q[i].target_tick <= q[j].target_tick
    BY <2>3 DEF WorldInv, SequenceInv, q
  <2>19. ASSUME NEW e \in D
         PROVE  \/ /\ ~\E i \in 1 .. m : q[i].entity_id = e
                   /\ t.entities[e].last_sequence = w.entities[e].last_sequence
                \/ \E i \in 1 .. m :
                      /\ q[i].entity_id = e
                      /\ t.entities[e].last_sequence = q[i].sequence
                      /\ \A j \in 1 .. m : q[j].entity_id = e => j <= i
    <3>1. \/ DueFor(w, e) = {} /\ s(e) = w.entities[e]
          \/ \E i \in DueFor(w, e) :
                /\ s(e).last_sequence = q[i].sequence
                /\ \A j \in DueFor(w, e) : j <= i
      BY CommandedFacts DEF q
    <3>2. t.entities[e].last_sequence = s(e).last_sequence
      BY <2>9, <2>11
    <3> QED BY <2>5, <3>1, <3>2
  <2>20. QueueInv(t)
    <3> SUFFICES ASSUME NEW k \in 1 .. n - m
                 PROVE  CommandInv(t, q[m + k])
      BY <2>9 DEF QueueInv
    <3> DEFINE e == q[m + k].entity_id
    <3>1. m + k \in m + 1 .. n /\ m + k \in 1 .. n
      BY <2>10
    <3>2. /\ e \in D
          /\ velocity_is_valid(q[m + k].velocity)
          /\ w.entities[e].last_sequence < q[m + k].sequence
          /\ q[m + k].sequence <= w.highest_sequence[e]
          /\ q[m + k].target_tick <= w.latest_target_tick[e]
      BY <2>17, <3>1 DEF CommandInv
    <3>3. u < q[m + k].target_tick
      BY <2>4, <2>5, <3>1
    <3>4. t.entities[e].last_sequence < q[m + k].sequence
      <4>1. ASSUME NEW i \in 1 .. m, q[i].entity_id = e
            PROVE  q[i].sequence < q[m + k].sequence
        <5>1. i \in 1 .. n /\ q[i].target_tick = u
          BY <2>3, <2>5
        <5>2. ~(q[m + k].target_tick <= q[i].target_tick)
          BY <2>4, <3>1, <3>3, <5>1
        <5>3. ~(q[m + k].sequence <= q[i].sequence)
          BY <2>18, <3>1, <4>1, <5>1, <5>2
        <5> QED BY <2>4, <3>1, <5>1, <5>3
      <4> QED BY <2>19, <3>2, <4>1
    <3> QED BY <2>9, <3>2, <3>3, <3>4 DEF CommandInv
  <2>21. SequenceInv(t)
    BY <2>9, <2>10, <2>18 DEF SequenceInv
  <2>22. NewestInv(t)
    <3> SUFFICES ASSUME NEW e \in D
                 PROVE  \/ t.entities[e].last_sequence = w.highest_sequence[e]
                        \/ \E k \in 1 .. n - m :
                              /\ t.pending[k].entity_id = e
                              /\ t.pending[k].sequence = w.highest_sequence[e]
      BY <2>9 DEF NewestInv
    <3>1. \/ w.entities[e].last_sequence = w.highest_sequence[e]
          \/ \E i \in 1 .. n : /\ q[i].entity_id = e
                               /\ q[i].sequence = w.highest_sequence[e]
      BY <2>3 DEF WorldInv, NewestInv, q
    <3>2. \A i \in 1 .. n : q[i].entity_id = e =>
             /\ w.entities[e].last_sequence < q[i].sequence
             /\ q[i].sequence <= w.highest_sequence[e]
      BY <2>17 DEF CommandInv
    <3>3. CASE w.entities[e].last_sequence = w.highest_sequence[e]
      <4>1. ASSUME NEW i \in 1 .. m, q[i].entity_id = e
            PROVE  FALSE
        <5>1. i \in 1 .. n
          BY <2>3, <2>5
        <5> QED BY <2>4, <3>2, <3>3, <4>1, <5>1
      <4> QED BY <2>19, <3>3, <4>1
    <3>4. ASSUME NEW i \in 1 .. n, q[i].entity_id = e,
                 q[i].sequence = w.highest_sequence[e]
          PROVE  \/ t.entities[e].last_sequence = w.highest_sequence[e]
                 \/ \E k \in 1 .. n - m :
                       /\ t.pending[k].entity_id = e
                       /\ t.pending[k].sequence = w.highest_sequence[e]
      <4>1. CASE i > m
        <5>1. i - m \in 1 .. n - m /\ m + (i - m) = i
          BY <2>3, <2>5, <4>1
        <5>2. t.pending[i - m] = q[i]
          BY <2>9, <5>1
        <5> QED BY <3>4, <5>1, <5>2
      <4>2. CASE i <= m
        <5>1. i \in 1 .. m
          BY <2>3, <2>5, <4>2
        <5>2. PICK j \in 1 .. m :
                 /\ q[j].entity_id = e
                 /\ t.entities[e].last_sequence = q[j].sequence
                 /\ i <= j
          BY <2>19, <3>4, <5>1
        <5>3. CASE i = j
          BY <3>4, <5>2, <5>3
        <5>4. CASE i < j
          <6>1. j \in 1 .. n
            BY <2>3, <2>5
          <6>2. command_order(q[i], q[j])
            BY <2>3, <5>4, <6>1 DEF WorldInv, OrderedQueue, q
          <6>3. q[i].target_tick = q[j].target_tick
            BY <2>5, <5>1
          <6>4. q[i].sequence < q[j].sequence
            <7> HIDE DEF u
            <7>1. q[i].entity_id = q[j].entity_id /\ q[j].entity_id \in Nat
              BY <2>2, <3>4, <5>2, Bounds
            <7> QED BY <2>4, <6>1, <6>2, <6>3, <7>1 DEF command_order
          <6>5. q[j].sequence <= q[i].sequence
            BY <3>2, <3>4, <5>2, <6>1
          <6> QED BY <2>4, <6>1, <6>4, <6>5
        <5> QED BY <5>1, <5>2, <5>3, <5>4
      <4> QED BY <2>3, <2>5, <4>1, <4>2
    <3> QED BY <3>1, <3>3, <3>4
  <2> QED BY <2>12, <2>13, <2>14, <2>15, <2>16, <2>20, <2>21, <2>22
          DEF WorldInv, t
<1> QED BY <1>1, <1>2

-----------------------------------------------------------------------------
(* The same operations seen as a set of queued commands, without the places *)
(* of the vector: what the composed specifications reason with.             *)

(* An entity has no two queued commands with the same sequence number.      *)
LEMMA UniqueSequence ==
    ASSUME NEW w, WorldInv(w),
           NEW i \in DOMAIN w.pending, NEW j \in DOMAIN w.pending,
           w.pending[i].entity_id = w.pending[j].entity_id,
           w.pending[i].sequence = w.pending[j].sequence
    PROVE  i = j
<1> DEFINE q == w.pending
<1>1. /\ Len(q) \in Nat /\ DOMAIN q = 1 .. Len(q)
      /\ q[i] \in VelocityCommand /\ q[j] \in VelocityCommand
  BY DEF WorldInv, IsWorld
<1>2. /\ q[i].target_tick \in Nat /\ q[i].sequence \in Nat /\ q[i].entity_id \in Nat
      /\ q[j].target_tick \in Nat
  BY <1>1, Bounds DEF VelocityCommand
<1>3. q[i].target_tick <= q[j].target_tick /\ q[j].target_tick <= q[i].target_tick
  BY <1>2 DEF WorldInv, SequenceInv
<1>4. ~command_order(q[i], q[j]) /\ ~command_order(q[j], q[i])
  BY <1>2, <1>3 DEF command_order
<1>5. ~(i < j) /\ ~(j < i)
  BY <1>4 DEF WorldInv, OrderedQueue
<1> QED BY <1>1, <1>5

(* What the next tick makes of an entity: its newest command among those of *)
(* the tick, wherever it stands in the vector, or nothing.                  *)
LEMMA CommandedNewest ==
    ASSUME NEW w, WorldInv(w), NEW e \in DOMAIN w.entities
    PROVE  \/ /\ \A i \in DOMAIN w.pending :
                    ~(/\ w.pending[i].entity_id = e
                      /\ w.pending[i].target_tick = w.tick_index + 1)
              /\ Commanded(w, e) = w.entities[e]
           \/ \E i \in DOMAIN w.pending :
                 /\ w.pending[i].entity_id = e
                 /\ w.pending[i].target_tick = w.tick_index + 1
                 /\ Commanded(w, e).velocity = w.pending[i].velocity
                 /\ Commanded(w, e).last_sequence = w.pending[i].sequence
                 /\ \A j \in DOMAIN w.pending :
                       /\ w.pending[j].entity_id = e
                       /\ w.pending[j].target_tick = w.tick_index + 1
                       => w.pending[j].sequence <= w.pending[i].sequence
<1> DEFINE q == w.pending
           n == Len(q)
           u == w.tick_index + 1
<1>1. n \in Nat /\ DOMAIN q = 1 .. n /\ w.tick_index \in Nat
  BY Bounds DEF WorldInv, IsWorld
<1>2. \A i \in 1 .. n : /\ q[i].target_tick \in Nat /\ q[i].sequence \in Nat
                        /\ q[i].entity_id \in Nat
  <2>1. \A i \in 1 .. n : q[i] \in VelocityCommand
    BY <1>1 DEF WorldInv, IsWorld
  <2> QED BY <2>1, Bounds DEF VelocityCommand
<1>3. PICK m \in 0 .. n : /\ \A i \in 1 .. m : q[i].target_tick = u
                          /\ \A i \in m + 1 .. n : q[i].target_tick > u
  BY DueSplit
<1>4. Due(w) = {i \in 1 .. n : q[i].target_tick = u}
  <2>1. ASSUME NEW i \in 1 .. n, q[i].target_tick = u
        PROVE  \A j \in 1 .. i : q[j].target_tick = u
    <3>1. ~(i \in m + 1 .. n)
      BY <1>1, <1>2, <1>3, <2>1
    <3> QED BY <1>1, <1>3, <3>1
  <2> QED BY <1>1, <2>1 DEF Due
<1>5. DueFor(w, e) = {i \in 1 .. n : q[i].target_tick = u /\ q[i].entity_id = e}
  BY <1>4 DEF DueFor
<1>6. \/ DueFor(w, e) = {} /\ Commanded(w, e) = w.entities[e]
      \/ \E i \in DueFor(w, e) :
            /\ Commanded(w, e).last_sequence = q[i].sequence
            /\ Commanded(w, e).velocity = q[i].velocity
            /\ \A j \in DueFor(w, e) : j <= i
  BY CommandedFacts
<1> HIDE DEF q, n, u
<1>7. CASE DueFor(w, e) = {} /\ Commanded(w, e) = w.entities[e]
  BY <1>1, <1>5, <1>7 DEF q, u
<1>8. ASSUME NEW i \in DueFor(w, e),
             Commanded(w, e).last_sequence = q[i].sequence,
             Commanded(w, e).velocity = q[i].velocity,
             \A j \in DueFor(w, e) : j <= i
      PROVE  \A j \in 1 .. n : q[j].entity_id = e /\ q[j].target_tick = u
                               => q[j].sequence <= q[i].sequence
  <2> SUFFICES ASSUME NEW j \in 1 .. n, q[j].entity_id = e,
                      q[j].target_tick = u, j # i
               PROVE  q[j].sequence <= q[i].sequence
    BY <1>2, <1>5
  <2>1. i \in 1 .. n /\ q[i].entity_id = e /\ q[i].target_tick = u
    BY <1>5
  <2>2. j < i
    BY <1>1, <1>5, <1>8, <2>1
  <2>3. command_order(q[j], q[i])
    BY <1>1, <2>1, <2>2 DEF WorldInv, OrderedQueue, q
  <2> QED BY <1>2, <2>1, <2>3 DEF command_order
<1> QED BY <1>1, <1>5, <1>6, <1>7, <1>8 DEF q, u

(* An accepted command joins the queue and moves the marks of its entity;   *)
(* the others keep theirs.                                                  *)
LEMMA QueueVelocityMembers ==
    ASSUME NEW w, WorldInv(w), NEW c \in VelocityCommand,
           queue_velocity_result(w, c) = "accepted"
    PROVE  LET t == queue_velocity(w, c) IN
           /\ t.tick_index = w.tick_index
           /\ t.entities = w.entities
           /\ t.highest_sequence
                = [w.highest_sequence EXCEPT ![c.entity_id] = c.sequence]
           /\ t.latest_target_tick
                = [w.latest_target_tick EXCEPT ![c.entity_id] = c.target_tick]
           /\ Len(t.pending) = Len(w.pending) + 1
           /\ Queued(t) = Queued(w) \cup {c}
<1> DEFINE t == queue_velocity(w, c)
           q == w.pending
           n == Len(q)
<1>1. n \in Nat /\ DOMAIN q = 1 .. n
  BY DEF WorldInv, IsWorld
<1>2. PICK m \in 1 .. n + 1 :
         t = [tick_index |-> w.tick_index, elapsed |-> w.elapsed,
              entities |-> w.entities,
              highest_sequence |->
                  [w.highest_sequence EXCEPT ![c.entity_id] = c.sequence],
              latest_target_tick |->
                  [w.latest_target_tick EXCEPT ![c.entity_id] = c.target_tick],
              pending |->
                  [k \in 1 .. n + 1 |->
                      IF k < m THEN q[k] ELSE IF k = m THEN c ELSE q[k - 1]]]
  BY QueueVelocityShape
<1> HIDE DEF t, q, n
<1>3. /\ DOMAIN t.pending = 1 .. n + 1
      /\ \A k \in 1 .. n + 1 : t.pending[k] =
            IF k < m THEN q[k] ELSE IF k = m THEN c ELSE q[k - 1]
  BY <1>2
<1>4. ASSUME NEW k \in 1 .. n + 1
      PROVE  t.pending[k] \in {q[i] : i \in 1 .. n} \cup {c}
  <2>1. CASE k < m
    BY <1>1, <1>2, <1>3, <2>1
  <2>2. CASE k = m
    BY <1>3, <2>2
  <2>3. CASE k > m
    <3>1. k - 1 \in 1 .. n /\ t.pending[k] = q[k - 1]
      BY <1>1, <1>2, <1>3, <2>3
    <3> QED BY <3>1
  <2> QED BY <1>1, <1>2, <2>1, <2>2, <2>3
<1>5. ASSUME NEW i \in 1 .. n
      PROVE  q[i] \in {t.pending[k] : k \in 1 .. n + 1}
  <2>1. CASE i < m
    BY <1>1, <1>2, <1>3, <2>1
  <2>2. CASE i >= m
    <3>1. i + 1 \in 1 .. n + 1 /\ t.pending[i + 1] = q[i]
      BY <1>1, <1>2, <1>3, <2>2
    <3> QED BY <3>1
  <2> QED BY <1>1, <1>2, <2>1, <2>2
<1>6. c \in {t.pending[k] : k \in 1 .. n + 1}
  <2>1. t.pending[m] = c
    BY <1>1, <1>3
  <2> QED BY <2>1
<1>7. {t.pending[k] : k \in 1 .. n + 1} = {q[i] : i \in 1 .. n} \cup {c}
  BY <1>4, <1>5, <1>6
<1>8. t.pending = [k \in 1 .. n + 1 |->
                      IF k < m THEN q[k] ELSE IF k = m THEN c ELSE q[k - 1]]
  BY <1>2
<1>9. Len(t.pending) = n + 1
  <2>1. n + 1 \in Nat
    BY <1>1
  <2> QED BY <1>8, <2>1
<1>10. /\ t.tick_index = w.tick_index
       /\ t.entities = w.entities
       /\ t.highest_sequence
            = [w.highest_sequence EXCEPT ![c.entity_id] = c.sequence]
       /\ t.latest_target_tick
            = [w.latest_target_tick EXCEPT ![c.entity_id] = c.target_tick]
  BY <1>2
<1>11. {t.pending[k] : k \in DOMAIN t.pending}
         = {q[i] : i \in DOMAIN q} \cup {c}
  BY <1>1, <1>3, <1>7
<1> QED BY <1>9, <1>10, <1>11 DEF t, q, n, Queued

(* A tick keeps the commands of later ticks, the marks and the entities,    *)
(* which take the velocity and the number of their newest due command.      *)
LEMMA AdvanceMembers ==
    ASSUME NEW w, WorldInv(w), advance_result(w) = "advanced"
    PROVE  LET t == advance(w) IN
           /\ t.tick_index = w.tick_index + 1
           /\ DOMAIN t.entities = DOMAIN w.entities
           /\ \A e \in DOMAIN w.entities :
                 /\ t.entities[e].velocity = Commanded(w, e).velocity
                 /\ t.entities[e].last_sequence = Commanded(w, e).last_sequence
           /\ t.highest_sequence = w.highest_sequence
           /\ t.latest_target_tick = w.latest_target_tick
           /\ Queued(t) = {c \in Queued(w) : c.target_tick > w.tick_index + 1}
<1> DEFINE t == advance(w)
           D == DOMAIN w.entities
           q == w.pending
           n == Len(q)
           u == w.tick_index + 1
           s(e) == Commanded(w, e)
<1>1. n \in Nat /\ DOMAIN q = 1 .. n /\ w.tick_index \in Nat
  BY Bounds DEF WorldInv, IsWorld
<1>2. PICK m \in 0 .. n :
         /\ \A i \in 1 .. m : q[i].target_tick = u
         /\ \A i \in m + 1 .. n : q[i].target_tick > u
         /\ t = [tick_index |-> u, elapsed |-> w.elapsed + TickDuration,
                 entities |-> [e \in D |-> integrate(s(e))],
                 highest_sequence |-> w.highest_sequence,
                 latest_target_tick |-> w.latest_target_tick,
                 pending |-> [k \in 1 .. n - m |-> q[m + k]]]
  BY AdvanceShape
<1>3. ASSUME NEW e \in D
      PROVE  /\ integrate(s(e)).velocity = s(e).velocity
             /\ integrate(s(e)).last_sequence = s(e).last_sequence
  <2>1. s(e) \in StoredEntity
    BY CommandedFacts
  <2>2. \A a \in Axis : ~axis_overflows(s(e), a)
    BY DEF advance_result
  <2> QED BY <2>1, <2>2, IntegrateFacts
<1> HIDE DEF t, q, n, s, D
<1>4. /\ DOMAIN t.pending = 1 .. n - m
      /\ \A k \in 1 .. n - m : t.pending[k] = q[m + k]
  BY <1>2
<1>5. ASSUME NEW k \in 1 .. n - m
      PROVE  t.pending[k] \in {c \in {q[i] : i \in 1 .. n} : c.target_tick > u}
  <2>1. m + k \in m + 1 .. n /\ m + k \in 1 .. n
    BY <1>1, <1>2
  <2> QED BY <1>2, <1>4, <2>1
<1>6. ASSUME NEW i \in 1 .. n, q[i].target_tick > u
      PROVE  q[i] \in {t.pending[k] : k \in 1 .. n - m}
  <2>1. ~(i \in 1 .. m)
    BY <1>1, <1>2, <1>6
  <2>2. i - m \in 1 .. n - m /\ m + (i - m) = i
    BY <1>1, <1>2, <2>1
  <2> QED BY <1>4, <2>2
<1>7. {t.pending[k] : k \in 1 .. n - m}
        = {c \in {q[i] : i \in 1 .. n} : c.target_tick > u}
  BY <1>5, <1>6
<1>8. {t.pending[k] : k \in DOMAIN t.pending}
        = {c \in {q[i] : i \in DOMAIN q} : c.target_tick > u}
  BY <1>1, <1>4, <1>7
<1>9. /\ t.tick_index = u
      /\ DOMAIN t.entities = D
      /\ \A e \in D : t.entities[e] = integrate(s(e))
      /\ t.highest_sequence = w.highest_sequence
      /\ t.latest_target_tick = w.latest_target_tick
  BY <1>2
<1>10. \A e \in D : /\ t.entities[e].velocity = s(e).velocity
                    /\ t.entities[e].last_sequence = s(e).last_sequence
  BY <1>3, <1>9
<1> QED BY <1>8, <1>9, <1>10 DEF t, q, s, D, u, Queued
=============================================================================
