---------------------------- MODULE WorldProofs ----------------------------
(***************************************************************************)
(* The safety properties of World for every set of entities, every limit    *)
(* and every set of inputs, and its refinement of CommandSchedule: the one  *)
(* queue that all entities share, sorted at every insertion and compacted   *)
(* at every tick, is a first-in-first-out line for each of them.  All of it *)
(* follows from one inductive invariant, WorldInv, whose preservation by    *)
(* add_entity, queue_velocity and advance is proved in WorldLemmas.         *)
(***************************************************************************)
EXTENDS WorldSchedule, WorldLemmas

(* The inductive invariant and the type of result, as state predicates.     *)
Inv == WorldInv(world)
ResultOK == result \in ResultCodes

(* Every call of World keeps the invariant.                                 *)
LEMMA NextKeepsInv == Inv /\ [Next]_vars => Inv'
<1> SUFFICES ASSUME Inv, [Next]_vars
             PROVE  Inv'
  OBVIOUS
<1>1. ASSUME NEW e \in EntityIds, NEW p \in Positions, NEW v \in Velocities,
             AddEntity(e, p, v)
      PROVE  Inv'
  BY <1>1, AddEntityInv, InputAssumption DEF AddEntity, Inv
<1>2. ASSUME NEW c \in Commands, QueueVelocity(c)
      PROVE  Inv'
  <2>1. c \in VelocityCommand
    BY InputAssumption DEF Commands, VelocityCommand
  <2> QED BY <1>2, <2>1, QueueVelocityInv DEF QueueVelocity, Inv
<1>3. CASE Advance
  BY <1>3, AdvanceInv DEF Advance, Inv
<1>4. CASE UNCHANGED vars
  BY <1>4 DEF vars, Inv
<1> QED BY <1>1, <1>2, <1>3, <1>4 DEF Next

(* The inductive invariant holds in every reachable state.                  *)
LEMMA InvHolds == Spec => []Inv
<1>1. Init => Inv
  BY NewWorldInv DEF Init, Inv
<1> QED BY <1>1, NextKeepsInv, PTL DEF Spec

(* The variables keep the C++ types: no counter leaves uint64, no position, *)
(* velocity or residual leaves int64, and every call returns a code of its  *)
(* enumeration.                                                             *)
THEOREM WorldTypeOK == Spec => []TypeOK
<1>1. Init => ResultOK
  BY DEF Init, ResultOK, ResultCodes
<1>2. ResultOK /\ [Next]_vars => ResultOK'
  <2> SUFFICES ASSUME ResultOK, [Next]_vars
               PROVE  ResultOK'
    OBVIOUS
  <2>1. ASSUME NEW e \in EntityIds, NEW p \in Positions, NEW v \in Velocities,
               AddEntity(e, p, v)
        PROVE  ResultOK'
    BY <2>1 DEF AddEntity, add_entity_result, ResultOK, ResultCodes
  <2>2. ASSUME NEW c \in Commands, QueueVelocity(c)
        PROVE  ResultOK'
    BY <2>2 DEF QueueVelocity, queue_velocity_result, ResultOK, ResultCodes
  <2>3. CASE Advance
    BY <2>3 DEF Advance, advance_result, ResultOK, ResultCodes
  <2>4. CASE UNCHANGED vars
    BY <2>4 DEF vars, ResultOK
  <2> QED BY <2>1, <2>2, <2>3, <2>4 DEF Next
<1>3. Inv => IsWorld(world)
  BY DEF Inv, WorldInv
<1>4. Spec => []ResultOK
  BY <1>1, <1>2, PTL DEF Spec
<1> QED BY <1>3, <1>4, InvHolds, PTL DEF TypeOK, ResultOK

(* The queue is strictly sorted: no two commands are equivalent for         *)
(* std::sort, which is not stable.                                          *)
THEOREM WorldQueueOrdered == Spec => []QueueOrdered
<1>1. Inv => QueueOrdered
  BY DEF Inv, WorldInv, QueueOrdered
<1> QED BY <1>1, InvHolds, PTL

(* The queue, the executed commands and the high-water marks agree.         *)
THEOREM WorldMarksBoundQueue == Spec => []MarksBoundQueue
<1>1. Inv => MarksBoundQueue
  BY DEF Inv, WorldInv, MarksBoundQueue
<1> QED BY <1>1, InvHolds, PTL

(* No accepted command is lost.                                             *)
THEOREM WorldNewestCommandKept == Spec => []NewestCommandKept
<1>1. Inv => NewestCommandKept
  BY DEF Inv, WorldInv, NewestCommandKept
<1> QED BY <1>1, InvHolds, PTL

(* Positions, residuals and the clock stay within their limits.             *)
THEOREM WorldStateWithinLimits == Spec => []StateWithinLimits
<1>1. Inv => StateWithinLimits
  BY DEF Inv, WorldInv, StateWithinLimits
<1> QED BY <1>1, InvHolds, PTL

(* Whatever a host calls, and also after calls that were refused or threw   *)
(* half-way, the types, the sorted queue, the high-water marks, the executed*)
(* commands, the position limits and the clock fit each other               *)
(* (world.cpp:95-294).                                                      *)
THEOREM WorldConsistent == Spec => []Consistent
<1>1. /\ TypeOK
      /\ QueueOrdered
      /\ MarksBoundQueue
      /\ NewestCommandKept
      /\ StateWithinLimits
      => Consistent
  BY DEF Consistent
<1> QED BY <1>1, WorldTypeOK, WorldQueueOrdered, WorldMarksBoundQueue,
           WorldNewestCommandKept, WorldStateWithinLimits, PTL

(* The logic_error of advance ("pending command became stale") and the      *)
(* out_of_range of its map lookups are unreachable.                         *)
THEOREM WorldNoLogicError == Spec => []NoLogicError
<1>1. Inv => NoLogicError
  BY LoopDoesNotThrow DEF NoLogicError, Inv
<1> QED BY <1>1, InvHolds, PTL

(* The multiplication and the addition of integrate_axis never overflow     *)
(* int64: the velocity limit the constructor derives from the tick duration *)
(* leaves room for the residual.                                            *)
THEOREM WorldIntegrationInRange == Spec => []IntegrationInRange
<1>1. ASSUME Inv, NEW e \in DOMAIN world.entities, NEW a \in Axis
      PROVE  ScaledDisplacement(Commanded(world, e), a) \in Int64
  <2> DEFINE s == Commanded(world, e)
             v == s.velocity[a]
             r == s.residual[a]
  <2>1. s \in StoredEntity /\ s.residual = world.entities[e].residual
        /\ velocity_is_valid(s.velocity)
    BY <1>1, CommandedFacts DEF Inv
  <2>2. v \in Int /\ r \in Int
    BY <2>1, Bounds DEF StoredEntity, Vector
  <2>3. /\ v >= -MaxAbsVelocity /\ v <= MaxAbsVelocity
        /\ r >= -(MicrosPerSecond - 1) /\ r <= MicrosPerSecond - 1
    BY <1>1, <2>1 DEF velocity_is_valid, within_symmetric_limit, Inv, WorldInv,
                      MotionInv
  <2>4. MaxAbsVelocity * TickDuration <= Int64Max - (MicrosPerSecond - 1)
    <3>1. PICK T \in Nat \ {0}, X \in Nat, V \in Nat :
             /\ T = TickDuration /\ V = MaxAbsVelocity
             /\ X = Int64Max - (MicrosPerSecond - 1)
             /\ V <= X \div T
      BY WorldAssumption
    <3>2. (X \div T) \in Int /\ (X \div T) * T <= X
      OBVIOUS
    <3>3. V * T <= (X \div T) * T
      BY <3>1, <3>2
    <3>4. V * T \in Int /\ (X \div T) * T \in Int
      BY <3>2
    <3> QED BY <3>1, <3>2, <3>3, <3>4
  <2>5. /\ v * TickDuration <= MaxAbsVelocity * TickDuration
        /\ v * TickDuration >= -(MaxAbsVelocity * TickDuration)
        /\ v * TickDuration \in Int
        /\ MaxAbsVelocity * TickDuration \in Int
    <3>1. PICK V \in Nat, T \in Nat : V = MaxAbsVelocity /\ T = TickDuration
      BY WorldAssumption
    <3> HIDE DEF v
    <3>2. v * T <= V * T /\ (-V) * T <= v * T
      BY <2>2, <2>3, <3>1
    <3>3. (-V) * T = -(V * T) /\ v * T \in Int /\ V * T \in Int
      BY <2>2
    <3> QED BY <3>1, <3>2, <3>3
  <2>6. PICK z \in Int : z = v * TickDuration
    BY <2>5
  <2>7. PICK M \in Int : M = MaxAbsVelocity * TickDuration
    BY <2>5
  <2>8. ScaledDisplacement(s, a) = z + r
    BY <2>6 DEF ScaledDisplacement
  <2> HIDE DEF v, r, s
  <2>9. z + r >= -Int64Max /\ z + r <= Int64Max
    BY <2>2, <2>3, <2>4, <2>5, <2>6, <2>7, Bounds
  <2>10. z + r \in Int64
    BY <2>2, <2>9, Bounds DEF Int64
  <2> QED BY <2>8, <2>10 DEF s
<1>2. Inv => IntegrationInRange
  BY <1>1 DEF IntegrationInRange
<1> QED BY <1>2, InvHolds, PTL

(* A tick moves every entity by exactly velocity times tick duration: the   *)
(* residual carries what the truncating division drops.                     *)
THEOREM WorldExactMotion == Spec => ExactMotion
<1> DEFINE A == result' = "advanced" =>
                  \A e \in DOMAIN world.entities, a \in Axis : ExactStep(e, a)
<1>1. Inv /\ [Next]_vars => [A]_vars
  <2> SUFFICES ASSUME Inv, Next, result' = "advanced",
                      NEW e \in DOMAIN world.entities, NEW a \in Axis
               PROVE  ExactStep(e, a)
    BY DEF vars
  <2>1. Advance
    BY DEF Next, AddEntity, add_entity_result, QueueVelocity,
           queue_velocity_result
  <2>2. /\ advance_result(world) = "advanced"
        /\ world' = advance(world)
    BY <2>1 DEF Advance
  <2> DEFINE s == Commanded(world, e)
  <2>3. world'.entities[e] = integrate(s)
    BY <2>2 DEF advance, Inv, WorldInv, IsWorld
  <2>4. /\ s \in StoredEntity
        /\ s.position = world.entities[e].position
        /\ s.residual = world.entities[e].residual
    BY CommandedFacts DEF Inv
  <2>5. \A b \in Axis : ~axis_overflows(s, b)
    BY <2>2 DEF advance_result
  <2> HIDE DEF s
  <2> QED BY <2>3, <2>4, <2>5, IntegrateFacts DEF ExactStep
<1> QED BY <1>1, InvHolds, PTL DEF Spec, ExactMotion

(* The next tick makes the same of an entity whether or not a command is    *)
(* queued that is another entity's or of a later tick.                      *)
LEMMA QueueKeepsCommanded ==
    ASSUME NEW w, WorldInv(w), NEW c \in VelocityCommand,
           queue_velocity_result(w, c) = "accepted",
           NEW e \in DOMAIN w.entities,
           c.entity_id # e \/ c.target_tick # w.tick_index + 1
    PROVE  LET t == queue_velocity(w, c) IN
           /\ Commanded(t, e).velocity = Commanded(w, e).velocity
           /\ Commanded(t, e).position = Commanded(w, e).position
           /\ Commanded(t, e).residual = Commanded(w, e).residual
<1> DEFINE t == queue_velocity(w, c)
           u == w.tick_index + 1
           Mine(x, i) == /\ x.pending[i].entity_id = e
                         /\ x.pending[i].target_tick = u
<1>1. WorldInv(t)
  BY QueueVelocityInv
<1>2. /\ t.tick_index = w.tick_index /\ t.entities = w.entities
      /\ Queued(t) = Queued(w) \cup {c}
  BY QueueVelocityMembers
<1> HIDE DEF t
<1>3. /\ \A i \in DOMAIN w.pending : \E k \in DOMAIN t.pending :
            t.pending[k] = w.pending[i]
      /\ \A k \in DOMAIN t.pending : Mine(t, k) =>
            \E i \in DOMAIN w.pending : t.pending[k] = w.pending[i]
  BY <1>2 DEF Queued
<1>4. /\ Commanded(t, e).position = Commanded(w, e).position
      /\ Commanded(t, e).residual = Commanded(w, e).residual
  BY <1>1, <1>2, CommandedFacts
<1>5. \/ /\ \A i \in DOMAIN w.pending : ~Mine(w, i)
         /\ Commanded(w, e) = w.entities[e]
      \/ \E i \in DOMAIN w.pending :
            /\ Mine(w, i)
            /\ Commanded(w, e).velocity = w.pending[i].velocity
            /\ \A j \in DOMAIN w.pending :
                  Mine(w, j) => w.pending[j].sequence <= w.pending[i].sequence
  BY CommandedNewest
<1>6. \/ /\ \A i \in DOMAIN t.pending : ~Mine(t, i)
         /\ Commanded(t, e) = w.entities[e]
      \/ \E i \in DOMAIN t.pending :
            /\ Mine(t, i)
            /\ Commanded(t, e).velocity = t.pending[i].velocity
            /\ \A j \in DOMAIN t.pending :
                  Mine(t, j) => t.pending[j].sequence <= t.pending[i].sequence
  BY <1>1, <1>2, CommandedNewest
<1>7. CASE \A i \in DOMAIN w.pending : ~Mine(w, i)
  BY <1>3, <1>4, <1>5, <1>6, <1>7 DEF t
<1>8. CASE ~\A i \in DOMAIN w.pending : ~Mine(w, i)
  <2>1. PICK i \in DOMAIN w.pending :
           /\ Mine(w, i)
           /\ Commanded(w, e).velocity = w.pending[i].velocity
           /\ \A j \in DOMAIN w.pending :
                 Mine(w, j) => w.pending[j].sequence <= w.pending[i].sequence
    BY <1>5, <1>8
  <2>2. PICK k \in DOMAIN t.pending : t.pending[k] = w.pending[i]
    BY <1>3
  <2>3. PICK l \in DOMAIN t.pending :
           /\ Mine(t, l)
           /\ Commanded(t, e).velocity = t.pending[l].velocity
           /\ \A j \in DOMAIN t.pending :
                 Mine(t, j) => t.pending[j].sequence <= t.pending[l].sequence
    BY <1>6, <2>1, <2>2
  <2>4. PICK j \in DOMAIN w.pending : t.pending[l] = w.pending[j]
    BY <1>3, <2>3
  <2>5. /\ t.pending[l].sequence <= t.pending[k].sequence
        /\ t.pending[k].sequence <= t.pending[l].sequence
    BY <2>1, <2>2, <2>3, <2>4
  <2>6. t.pending[l].sequence \in Nat /\ t.pending[k].sequence \in Nat
    <3>1. t.pending[l] \in VelocityCommand /\ t.pending[k] \in VelocityCommand
      BY <1>1 DEF WorldInv, IsWorld
    <3> QED BY <3>1, Bounds DEF VelocityCommand
  <2>7. l = k
    <3>1. t.pending[l].sequence = t.pending[k].sequence
      BY <2>5, <2>6
    <3>2. t.pending[l].entity_id = t.pending[k].entity_id
      BY <2>1, <2>2, <2>3
    <3> QED BY <1>1, <3>1, <3>2, UniqueSequence
  <2> QED BY <1>4, <2>1, <2>2, <2>3, <2>7 DEF t
<1> QED BY <1>7, <1>8

(* Once an entity is on its way over the position limit and its next        *)
(* command is for a later tick, no call of the host ever starts the clock   *)
(* again: advance throws, and queue_velocity refuses, as a regression, the  *)
(* only commands that could turn the entity in time (world.cpp:189-294).    *)
THEOREM WorldWedgeIsPermanent == Spec => WedgeIsPermanent
<1> DEFINE A == Wedged(world) =>
                  Wedged(world') /\ world'.tick_index = world.tick_index
<1>1. Inv /\ [Next]_vars => [A]_vars
  <2> SUFFICES ASSUME Inv, Next, Wedged(world)
               PROVE  Wedged(world') /\ world'.tick_index = world.tick_index
    BY DEF vars
  <2>1. PICK e \in DOMAIN world.entities, a \in Axis :
           /\ axis_overflows(Commanded(world, e), a)
           /\ world.latest_target_tick[e] > world.tick_index + 1
    BY DEF Wedged
  <2>2. ASSUME NEW f \in EntityIds, NEW p \in Positions, NEW v \in Velocities,
               AddEntity(f, p, v)
        PROVE  Wedged(world') /\ world'.tick_index = world.tick_index
    <3>1. CASE add_entity_result(world, f, p, v) # "added"
      BY <2>2, <3>1 DEF AddEntity, add_entity
    <3>2. CASE add_entity_result(world, f, p, v) = "added"
      <4>1. f # e
        BY <3>2 DEF add_entity_result
      <4>2. /\ DOMAIN world.highest_sequence = DOMAIN world.entities
            /\ DOMAIN world.latest_target_tick = DOMAIN world.entities
            /\ world = [tick_index |-> world.tick_index,
                        elapsed |-> world.elapsed,
                        entities |-> world.entities,
                        highest_sequence |-> world.highest_sequence,
                        latest_target_tick |-> world.latest_target_tick,
                        pending |-> world.pending]
        BY DEF Inv, WorldInv, IsWorld, SameKeys
      <4>3. /\ world'.tick_index = world.tick_index
            /\ world'.pending = world.pending
            /\ e \in DOMAIN world'.entities
            /\ world'.entities[e] = world.entities[e]
            /\ world'.latest_target_tick[e] = world.latest_target_tick[e]
        BY <2>2, <3>2, <4>1, <4>2 DEF AddEntity, add_entity, Emplace
      <4>4. Commanded(world', e) = Commanded(world, e)
        BY <4>3 DEF Commanded, DueFor, Due
      <4> QED BY <2>1, <4>3, <4>4 DEF Wedged
    <3> QED BY <3>1, <3>2
  <2>3. ASSUME NEW c \in Commands, QueueVelocity(c)
        PROVE  Wedged(world') /\ world'.tick_index = world.tick_index
    <3>1. CASE queue_velocity_result(world, c) # "accepted"
      BY <2>3, <3>1 DEF QueueVelocity, queue_velocity
    <3>2. CASE queue_velocity_result(world, c) = "accepted"
      <4>1. c \in VelocityCommand
        BY InputAssumption DEF Commands, VelocityCommand
      <4>2. /\ world.tick_index \in Nat
            /\ world.latest_target_tick[e] \in Nat
            /\ e \in DOMAIN world.latest_target_tick
            /\ c.target_tick \in Nat
        BY <4>1, Bounds
           DEF Inv, WorldInv, IsWorld, IsEntityMap, SameKeys, VelocityCommand
      <4>3. c.entity_id = e => ~(c.target_tick < world.latest_target_tick[e])
        BY <3>2 DEF queue_velocity_result
      <4>4. c.entity_id # e \/ c.target_tick # world.tick_index + 1
        BY <2>1, <4>2, <4>3
      <4>5. /\ world'.tick_index = world.tick_index
            /\ world'.entities = world.entities
            /\ world'.latest_target_tick = [world.latest_target_tick EXCEPT
                                              ![c.entity_id] = c.target_tick]
        <5>1. WorldInv(world) /\ world' = queue_velocity(world, c)
          BY <2>3 DEF QueueVelocity, Inv
        <5> QED BY <3>2, <4>1, <5>1, QueueVelocityMembers
      <4>6. world'.latest_target_tick[e] > world'.tick_index + 1
        BY <2>1, <4>2, <4>3, <4>5
      <4>7. /\ Commanded(world', e).velocity = Commanded(world, e).velocity
            /\ Commanded(world', e).position = Commanded(world, e).position
            /\ Commanded(world', e).residual = Commanded(world, e).residual
        BY <2>3, <3>2, <4>1, <4>4, QueueKeepsCommanded DEF QueueVelocity, Inv
      <4>8. axis_overflows(Commanded(world', e), a)
        BY <2>1, <4>7
           DEF axis_overflows, NextPosition, ScaledDisplacement
      <4> QED BY <4>5, <4>6, <4>8 DEF Wedged
    <3> QED BY <3>1, <3>2
  <2>4. CASE Advance
    <3>1. advance_result(world) # "advanced"
      BY <2>1 DEF advance_result
    <3> QED BY <2>4, <3>1 DEF Advance, advance
  <2> QED BY <2>2, <2>3, <2>4 DEF Next
<1> QED BY <1>1, InvHolds, PTL DEF Spec, WedgeIsPermanent

-----------------------------------------------------------------------------
(* What Keep leaves of a sequence.  The rank of a place among the places I  *)
(* that stay is the number of places of I before it.                        *)

Before(I, i) == {j \in I : j < i}

Rank(I, i) == Cardinality(Before(I, i))

(* Ranks follow the order of the places and leave no number out.            *)
LEMMA RankFacts ==
    ASSUME NEW n \in Nat, NEW I \in SUBSET (1 .. n)
    PROVE  /\ IsFiniteSet(I) /\ Cardinality(I) \in Nat
           /\ \A i \in I : Rank(I, i) \in 0 .. Cardinality(I) - 1
           /\ \A i, j \in I : i < j => Rank(I, i) < Rank(I, j)
           /\ \A k \in 1 .. Cardinality(I) : \E i \in I : Rank(I, i) = k - 1
<1>0. \A i \in I : i \in Nat
    OBVIOUS
<1>1. IsFiniteSet(I) /\ Cardinality(I) \in Nat
  <2>1. IsFiniteSet(1 .. n)
      BY FS_Interval
  <2>2. IsFiniteSet(I)
      BY <2>1, FS_Subset
  <2> QED BY <2>2, FS_CardinalityType
<1>2. \A i : IsFiniteSet(Before(I, i)) /\ Rank(I, i) \in Nat
  <2> TAKE i
  <2>1. Before(I, i) \in SUBSET I
      BY DEF Before
  <2>2. IsFiniteSet(Before(I, i))
      BY <1>1, <2>1, FS_Subset
  <2> QED BY <2>2, FS_CardinalityType DEF Rank
<1>3. \A i \in I : /\ IsFiniteSet(Before(I, i) \cup {i})
                   /\ Cardinality(Before(I, i) \cup {i}) = Rank(I, i) + 1
  <2> TAKE i \in I
  <2>1. i \notin Before(I, i)
      BY DEF Before
  <2> QED BY <1>2, <2>1, FS_AddElement DEF Rank
<1>4. \A i \in I : Rank(I, i) \in 0 .. Cardinality(I) - 1
  <2> TAKE i \in I
  <2>1. Before(I, i) \cup {i} \in SUBSET I
      BY DEF Before
  <2>2. Cardinality(Before(I, i) \cup {i}) <= Cardinality(I)
      BY <1>1, <2>1, FS_Subset
  <2> QED BY <1>1, <1>2, <1>3, <2>2
<1>5. \A i, j \in I : i < j => Rank(I, i) < Rank(I, j)
  <2> TAKE i, j \in I
  <2> HAVE i < j
  <2>1. Before(I, i) \cup {i} \in SUBSET Before(I, j)
    <3>1. \A l \in I : l < i => l < j
        BY <1>0
    <3> QED BY <3>1 DEF Before
  <2>2. Cardinality(Before(I, i) \cup {i}) <= Rank(I, j)
      BY <1>2, <2>1, FS_Subset DEF Rank
  <2> QED BY <1>2, <1>3, <2>2
<1>6. \A k \in 1 .. Cardinality(I) : \E i \in I : Rank(I, i) = k - 1
  <2> DEFINE T == {k \in 1 .. Cardinality(I) : \A i \in I : Rank(I, i) # k - 1}
  <2> SUFFICES ASSUME T # {} PROVE FALSE
      OBVIOUS
  <2>1. T \in SUBSET Nat
      BY <1>1
  <2>2. PICK k \in T : \A l \in T : k <= l
      BY <2>1, LeastNat
  <2>3. k \in Nat /\ k >= 1 /\ k <= Cardinality(I) /\ \A i \in I : Rank(I, i) # k - 1
      BY <1>1
  <2>4. CASE k = 1
    <3>1. I # {}
        BY <1>1, <2>3, <2>4, FS_EmptySet
    <3>2. I \in SUBSET Nat
        OBVIOUS
    <3>3. PICK i \in I : \A j \in I : i <= j
        BY <3>1, <3>2, LeastNat
    <3>4. Before(I, i) = {}
      <4>1. \A j \in I : ~(j < i)
          BY <1>0, <3>3
      <4> QED BY <4>1 DEF Before
    <3>5. Rank(I, i) = k - 1
        BY <2>4, <3>4, FS_EmptySet DEF Rank
    <3> QED BY <2>3, <3>5
  <2>5. CASE k # 1
    <3>1. k - 1 \in 1 .. Cardinality(I) /\ k - 1 \notin T
        BY <1>1, <2>2, <2>3, <2>5
    <3>2. PICK i \in I : Rank(I, i) = (k - 1) - 1
        BY <3>1
    <3> DEFINE U == {j \in I : i < j}
    <3>3. Cardinality(Before(I, i) \cup {i}) = k - 1
        BY <1>3, <2>3, <3>2
    <3>4. U # {}
      <4> SUFFICES ASSUME U = {} PROVE FALSE
          OBVIOUS
      <4>1. I = Before(I, i) \cup {i}
        <5>1. \A j \in I : ~(i < j)
            OBVIOUS
        <5>2. \A j \in I : j < i \/ j = i
            BY <1>0, <5>1
        <5> QED BY <5>2 DEF Before
      <4> QED BY <2>3, <3>3, <4>1
    <3>5. U \in SUBSET Nat
        BY <1>0
    <3>6. PICK j \in U : \A l \in U : j <= l
        BY <3>4, <3>5, LeastNat
    <3>7. j \in I /\ i < j /\ i \in Nat /\ j \in Nat
        BY <1>0
    <3>8. Before(I, j) = Before(I, i) \cup {i}
      <4>1. \A l \in I : l \in Nat /\ (i < l => j <= l)
          BY <1>0, <3>6
      <4> HIDE DEF U
      <4>2. \A l \in I : l < j <=> l < i \/ l = i
          BY <3>7, <4>1
      <4> QED BY <3>7, <4>2 DEF Before
    <3> QED BY <2>3, <3>3, <3>7, <3>8 DEF Rank
  <2> QED BY <2>4, <2>5
<1> QED BY <1>1, <1>4, <1>5, <1>6

(* Keep puts the element of rank k - 1 at place k.                          *)
LEMMA KeepFacts ==
    ASSUME NEW n \in Nat, NEW I \in SUBSET (1 .. n), NEW q
    PROVE  /\ DOMAIN Keep(q, I) = 1 .. Cardinality(I)
           /\ Keep(q, I) = [k \in 1 .. Cardinality(I) |-> Keep(q, I)[k]]
           /\ \A i \in I : /\ Rank(I, i) + 1 \in 1 .. Cardinality(I)
                           /\ Keep(q, I)[Rank(I, i) + 1] = q[i]
<1>1. /\ Cardinality(I) \in Nat
      /\ \A i \in I : Rank(I, i) \in 0 .. Cardinality(I) - 1
      /\ \A i, j \in I : i < j => Rank(I, i) < Rank(I, j)
    BY RankFacts
<1> DEFINE at(k) == CHOOSE i \in I : Rank(I, i) = k - 1
<1>2. Keep(q, I) = [k \in 1 .. Cardinality(I) |-> q[at(k)]]
    BY DEF Keep, Rank, Before
<1>3. ASSUME NEW i \in I
      PROVE  /\ Rank(I, i) + 1 \in 1 .. Cardinality(I)
             /\ Keep(q, I)[Rank(I, i) + 1] = q[i]
  <2>1. Rank(I, i) + 1 \in 1 .. Cardinality(I) /\ Rank(I, i) + 1 - 1 = Rank(I, i)
      BY <1>1
  <2>2. \A j \in I : Rank(I, j) = Rank(I, i) => j = i
    <3> TAKE j \in I
    <3>1. i \in Nat /\ j \in Nat
        OBVIOUS
    <3>2. i < j \/ j < i \/ i = j
        BY <3>1
    <3> QED BY <1>1, <3>2
  <2>3. \A j \in I : Rank(I, j) = (Rank(I, i) + 1) - 1 <=> j = i
    <3>1. (Rank(I, i) + 1) - 1 = Rank(I, i)
        BY <1>1
    <3> QED BY <2>2, <3>1, Zenon
  <2>4. at(Rank(I, i) + 1) = i
    <3> DEFINE v == (Rank(I, i) + 1) - 1
    <3>1. \A j \in I : Rank(I, j) = v <=> j = i
        BY <2>3
    <3> HIDE DEF v
    <3>2. (CHOOSE j \in I : Rank(I, j) = v) = i
        BY <3>1, Zenon
    <3> USE DEF v
    <3> QED BY <3>2, Zenon
  <2> HIDE DEF at
  <2> QED BY <1>2, <2>1, <2>4
<1> QED BY <1>2, <1>3

(* The same, asked from the place in the result.                            *)
Kept(q, I) ==
    \A k \in Nat, i \in I : Rank(I, i) + 1 = k => Keep(q, I)[k] = q[i]

(* KeepFacts in that form.                                                  *)
LEMMA KeepAt ==
    ASSUME NEW n \in Nat, NEW I \in SUBSET (1 .. n), NEW q
    PROVE  Kept(q, I)
<1>1. \A j \in I : /\ Rank(I, j) + 1 \in 1 .. Cardinality(I)
                   /\ Keep(q, I)[Rank(I, j) + 1] = q[j]
    BY ZenonT(40), KeepFacts
<1> QED BY <1>1, Zenon DEF Kept

(* Two ways to keep the same elements in the same order: f takes the places *)
(* I of q to the places J of r.                                             *)
SameOrder(f, q, I, r, J) ==
    /\ f \in [I -> J]
    /\ \A j \in J : \E i \in I : f[i] = j
    /\ \A i, j \in I : i < j => f[i] < f[j]
    /\ \A i \in I : r[f[i]] = q[i]

(* Then what is kept is the same.                                           *)
LEMMA KeepSame ==
    ASSUME NEW n \in Nat, NEW I \in SUBSET (1 .. n), NEW q,
           NEW p \in Nat, NEW J \in SUBSET (1 .. p), NEW r,
           NEW f, SameOrder(f, q, I, r, J)
    PROVE  Keep(r, J) = Keep(q, I)
<1> USE DEF SameOrder
<1>0. (\A i \in I : i \in Nat) /\ (\A j \in J : j \in Nat)
    OBVIOUS
<1>1. \A i, j \in I : f[i] < f[j] <=> i < j
  <2> TAKE i, j \in I
  <2>1. i \in Nat /\ j \in Nat /\ f[i] \in Nat /\ f[j] \in Nat
      BY <1>0
  <2>2. i < j \/ i = j \/ j < i
      BY <2>1
  <2>3. i < j => f[i] < f[j]
      OBVIOUS
  <2>4. j < i => f[j] < f[i]
      OBVIOUS
  <2> QED BY <2>1, <2>2, <2>3, <2>4
<1>2. \A i, j \in I : i # j => f[i] # f[j]
  <2> TAKE i, j \in I
  <2>1. i \in Nat /\ j \in Nat /\ f[i] \in Nat /\ f[j] \in Nat
      BY <1>0
  <2> QED BY <1>1, <2>1
<1>3. ASSUME NEW A \in SUBSET I
      PROVE  Cardinality({f[x] : x \in A}) = Cardinality(A)
  <2> DEFINE B == {f[x] : x \in A}
             g == [x \in A |-> f[x]]
  <2>1. IsFiniteSet(A)
      BY RankFacts, FS_Subset
  <2>2. g \in Bijection(A, B)
      BY <1>2 DEF Bijection, Injection, Surjection, IsInjective
  <2>3. ExistsBijection(A, B)
      BY <2>2 DEF ExistsBijection
  <2> QED BY <2>1, <2>3, FS_Bijection
<1>4. Cardinality(J) = Cardinality(I)
  <2>1. J = {f[x] : x \in I}
      OBVIOUS
  <2> QED BY <1>3, <2>1
<1>5. \A i \in I : Rank(J, f[i]) = Rank(I, i)
  <2> TAKE i \in I
  <2>1. Before(J, f[i]) = {f[x] : x \in Before(I, i)}
    <3>1. ASSUME NEW j \in Before(J, f[i])
          PROVE  j \in {f[x] : x \in Before(I, i)}
      <4>1. j \in J /\ j < f[i]
          BY DEF Before
      <4>2. PICK x \in I : f[x] = j
          BY <4>1
      <4>3. x < i
          BY <1>1, <4>1, <4>2
      <4> QED BY <4>2, <4>3 DEF Before
    <3>2. ASSUME NEW x \in Before(I, i)
          PROVE  f[x] \in Before(J, f[i])
      <4>1. x \in I /\ x < i
          BY DEF Before
      <4>2. f[x] < f[i] /\ f[x] \in J
          BY <1>1, <4>1
      <4> QED BY <4>2 DEF Before
    <3> QED BY <3>1, <3>2
  <2>2. Before(I, i) \in SUBSET I
      BY DEF Before
  <2> QED BY <1>3, <2>1, <2>2 DEF Rank
<1>6. \A k \in 1 .. Cardinality(I) : Keep(r, J)[k] = Keep(q, I)[k]
  <2> TAKE k \in 1 .. Cardinality(I)
  <2>1. Cardinality(I) \in Nat /\ \E i \in I : Rank(I, i) = k - 1
      BY RankFacts
  <2>2. PICK i \in I : Rank(I, i) = k - 1
      BY <2>1
  <2>3. Rank(I, i) + 1 = k /\ Rank(J, f[i]) + 1 = k
      BY <1>5, <2>1, <2>2
  <2>4. Keep(q, I)[k] = q[i]
    <3>1. Kept(q, I)
        BY KeepAt
    <3> QED BY <2>1, <2>3, <3>1 DEF Kept
  <2>5. Keep(r, J)[k] = r[f[i]]
    <3>1. f[i] \in J
        OBVIOUS
    <3>2. Kept(r, J)
        BY KeepAt
    <3>3. k \in Nat /\ Rank(J, f[i]) + 1 = k
        BY <2>1, <2>3
    <3> QED BY <3>1, <3>2, <3>3, Zenon DEF Kept
  <2> QED BY <2>4, <2>5
<1>7. /\ Keep(q, I) = [k \in 1 .. Cardinality(I) |-> Keep(q, I)[k]]
      /\ Keep(r, J) = [k \in 1 .. Cardinality(J) |-> Keep(r, J)[k]]
    BY KeepFacts
<1> QED BY <1>4, <1>6, <1>7

(* A last place more is one element more.                                   *)
OneMore(r, q, I, m) ==
    /\ Cardinality(I \cup {m}) = Cardinality(I) + 1
    /\ \A k \in 1 .. Cardinality(I) : Keep(r, I \cup {m})[k] = Keep(q, I)[k]
    /\ Keep(r, I \cup {m})[Cardinality(I) + 1] = r[m]

(* It comes last in what is kept.                                           *)
LEMMA KeepLast ==
    ASSUME NEW n \in Nat, NEW I \in SUBSET (1 .. n), NEW q,
           NEW m \in 1 .. n, NEW r,
           \A i \in I : i < m /\ r[i] = q[i]
    PROVE  OneMore(r, q, I, m)
<1> DEFINE J == I \cup {m}
<1>0. (\A i \in I : i \in Nat) /\ m \in Nat /\ J \in SUBSET (1 .. n) /\ m \notin I
    OBVIOUS
<1>1. Cardinality(I) \in Nat /\ IsFiniteSet(I)
    BY RankFacts
<1>2. Cardinality(J) = Cardinality(I) + 1
    BY <1>0, <1>1, FS_AddElement
<1>3. Rank(J, m) = Cardinality(I)
  <2>1. Before(J, m) = I
    <3>1. ~(m < m) /\ \A i \in I : i < m
        BY <1>0
    <3> QED BY <3>1 DEF Before
  <2> QED BY <2>1 DEF Rank
<1>4. \A i \in I : Rank(J, i) = Rank(I, i)
  <2> TAKE i \in I
  <2>1. ~(m < i)
      BY <1>0
  <2>2. Before(J, i) = Before(I, i)
      BY <2>1 DEF Before
  <2> QED BY <2>2 DEF Rank
<1>5. Keep(r, J)[Cardinality(I) + 1] = r[m]
  <2>1. m \in J
      OBVIOUS
  <2> HIDE DEF J
  <2>2. Kept(r, J)
      BY <1>0, KeepAt
  <2> QED BY <1>1, <1>3, <2>1, <2>2 DEF Kept
<1>6. \A k \in 1 .. Cardinality(I) : Keep(r, J)[k] = Keep(q, I)[k]
  <2> TAKE k \in 1 .. Cardinality(I)
  <2>1. PICK i \in I : Rank(I, i) = k - 1
      BY RankFacts
  <2>2. Rank(I, i) + 1 = k /\ Rank(J, i) + 1 = k /\ i \in J
      BY <1>1, <1>4, <2>1
  <2>3. Keep(q, I)[k] = q[i]
    <3>1. Kept(q, I)
        BY KeepAt
    <3> QED BY <1>1, <2>2, <3>1 DEF Kept
  <2> HIDE DEF J
  <2>4. Keep(r, J)[k] = r[i]
    <3>1. Kept(r, J)
        BY <1>0, KeepAt
    <3> QED BY <1>1, <2>2, <3>1 DEF Kept
  <2> QED BY <2>3, <2>4
<1> QED BY <1>2, <1>5, <1>6 DEF OneMore

(* What is left when the first m of the n places of a sequence are cut off. *)
Front(I, m) == Cardinality({i \in I : i <= m})

Rest(I, n, m) == {k \in 1 .. n - m : m + k \in I}

CutOff(r, q, I, n, m) ==
    LET J == Rest(I, n, m)
        t == Front(I, m)
    IN  /\ t \in Nat /\ Cardinality(J) \in Nat
        /\ Cardinality(I) = t + Cardinality(J)
        /\ \A k \in 1 .. Cardinality(J) : Keep(r, J)[k] = Keep(q, I)[t + k]
        /\ \A i \in I : i <= m => Rank(I, i) + 1 <= t
        /\ \A i \in I : i > m => Rank(I, i) + 1 > t

(* Dropping the first m places drops the front of what is kept.             *)
LEMMA KeepRest ==
    ASSUME NEW n \in Nat, NEW I \in SUBSET (1 .. n), NEW q, NEW m \in 0 .. n, NEW r,
           \A k \in 1 .. n - m : r[k] = q[m + k]
    PROVE  CutOff(r, q, I, n, m)
<1> DEFINE J == {k \in 1 .. n - m : m + k \in I}
           F == {i \in I : i <= m}
           t == Cardinality(F)
           up(A) == {m + x : x \in A}
<1>0. /\ \A i \in I : i \in Nat
      /\ m \in Nat /\ n - m \in Nat /\ J \in SUBSET (1 .. n - m)
      /\ \A j \in J : j \in Nat
      /\ F \in SUBSET I
    OBVIOUS
<1>1. /\ IsFiniteSet(I) /\ Cardinality(I) \in Nat
      /\ IsFiniteSet(F) /\ t \in Nat
  <2>1. IsFiniteSet(I) /\ Cardinality(I) \in Nat
      BY RankFacts
  <2>2. IsFiniteSet(F)
      BY <1>0, <2>1, FS_Subset
  <2> QED BY <2>1, <2>2, FS_CardinalityType
<1>2. IsFiniteSet(J) /\ Cardinality(J) \in Nat
  <2> HIDE DEF J
  <2> QED BY <1>0, RankFacts
<1>3. ASSUME NEW A \in SUBSET J
      PROVE  /\ IsFiniteSet(up(A)) /\ IsFiniteSet(A)
             /\ Cardinality(up(A)) = Cardinality(A)
             /\ Cardinality(F \cup up(A)) = t + Cardinality(A)
  <2> DEFINE g == [x \in A |-> m + x]
  <2>1. IsFiniteSet(A)
      BY <1>2, FS_Subset
  <2>2. \A x \in A : x \in Nat /\ x >= 1
      BY <1>0
  <2>3. \A x, y \in A : m + x = m + y => x = y
      BY <1>0, <2>2
  <2>4. g \in Bijection(A, up(A))
      BY <2>3 DEF Bijection, Injection, Surjection, IsInjective
  <2>5. ExistsBijection(A, up(A))
      BY <2>4 DEF ExistsBijection
  <2>6. IsFiniteSet(up(A)) /\ Cardinality(up(A)) = Cardinality(A)
      BY <2>1, <2>5, FS_Bijection
  <2>7. F \cap up(A) = {}
    <3> SUFFICES ASSUME NEW x \in A, m + x \in F PROVE FALSE
        OBVIOUS
    <3> QED BY <1>0, <2>2
  <2> HIDE DEF F, up
  <2>8. Cardinality(F \cup up(A)) = t + Cardinality(up(A)) - Cardinality(F \cap up(A))
      BY <1>1, <2>6, FS_Union
  <2>9. Cardinality(F \cap up(A)) = 0 /\ Cardinality(A) \in Nat
      BY <2>1, <2>7, FS_EmptySet, FS_CardinalityType
  <2> QED BY <1>1, <2>1, <2>6, <2>8, <2>9
<1>4. Cardinality(I) = t + Cardinality(J)
  <2>1. I = F \cup up(J)
    <3>1. \A i \in I : i <= m \/ (i - m \in J /\ i = m + (i - m))
        BY <1>0
    <3> QED BY <3>1
  <2> QED BY <1>3, <2>1
<1>5. ASSUME NEW j \in J
      PROVE  m + j \in I /\ Rank(I, m + j) = t + Rank(J, j)
  <2>1. Before(J, j) \in SUBSET J
      BY DEF Before
  <2>2. Before(I, m + j) = F \cup up(Before(J, j))
    <3>1. j \in Nat /\ j >= 1
        BY <1>0
    <3>2. \A i \in I : i < m + j => i <= m \/ (i - m \in Before(J, j) /\ i = m + (i - m))
        BY <1>0, <3>1 DEF Before
    <3>3. \A x \in Before(J, j) : m + x \in I /\ m + x < m + j
        BY <1>0, <3>1 DEF Before
    <3>4. \A i \in I : i <= m => i < m + j
        BY <1>0, <3>1
    <3> QED BY <3>2, <3>3, <3>4 DEF Before
  <2> QED BY <1>3, <2>1, <2>2 DEF Rank
<1>6. ASSUME NEW k \in 1 .. Cardinality(J)
      PROVE  Keep(r, J)[k] = Keep(q, I)[t + k]
  <2>1. PICK j \in J : Rank(J, j) = k - 1
    <3> HIDE DEF J
    <3> QED BY <1>0, RankFacts
  <2>2. Rank(J, j) + 1 = k /\ Rank(I, m + j) + 1 = t + k /\ m + j \in I
      BY <1>1, <1>2, <1>5, <2>1
  <2>3. r[j] = q[m + j]
      BY <1>0
  <2>4. Keep(q, I)[t + k] = q[m + j]
    <3> HIDE DEF t
    <3>1. Kept(q, I)
        BY KeepAt
    <3>2. t + k \in Nat
        BY <1>1, <1>2
    <3> QED BY <2>2, <3>1, <3>2 DEF Kept
  <2>5. Keep(r, J)[k] = r[j]
    <3> HIDE DEF J
    <3>1. Kept(r, J)
        BY <1>0, KeepAt
    <3> QED BY <1>2, <2>2, <3>1 DEF Kept
  <2> QED BY <2>3, <2>4, <2>5
<1>7. ASSUME NEW i \in I, i <= m
      PROVE  Rank(I, i) + 1 <= t
  <2>1. Before(I, i) \cup {i} \in SUBSET F
    <3>1. \A l \in I : l < i => l <= m
        BY <1>0, <1>7
    <3> QED BY <1>7, <3>1 DEF Before
  <2>2. i \notin Before(I, i) /\ Before(I, i) \in SUBSET I
      BY <1>0 DEF Before
  <2>3. IsFiniteSet(Before(I, i))
      BY <1>1, <2>2, FS_Subset
  <2>4. Cardinality(Before(I, i) \cup {i}) = Rank(I, i) + 1
      BY <2>2, <2>3, FS_AddElement DEF Rank
  <2> QED BY <1>1, <2>1, <2>4, FS_Subset
<1>8. ASSUME NEW i \in I, i > m
      PROVE  Rank(I, i) + 1 > t
  <2>1. i - m \in J /\ m + (i - m) = i
      BY <1>0, <1>8
  <2>2. Rank(I, i) = t + Rank(J, i - m)
      BY <1>5, <2>1
  <2>3. Rank(J, i - m) \in Nat
    <3> HIDE DEF J
    <3>1. Rank(J, i - m) \in 0 .. Cardinality(J) - 1
        BY <1>0, <2>1, RankFacts
    <3> QED BY <1>2, <3>1
  <2> QED BY <1>1, <2>2, <2>3
<1> QED BY <1>1, <1>2, <1>4, <1>6, <1>7, <1>8 DEF CutOff, Front, Rest

-----------------------------------------------------------------------------
(* The line of an entity, place by place: rank k - 1 among the entity's own *)
(* commands is place k of its line.                                         *)
LEMMA LineFacts ==
    ASSUME NEW w, IsWorld(w), NEW e
    PROVE  LET q == w.pending
               P == Places(w, e)
           IN  /\ Len(q) \in Nat /\ P \in SUBSET (1 .. Len(q))
               /\ IsFiniteSet(P) /\ Cardinality(P) \in Nat
               /\ DOMAIN Line(w, e) = 1 .. Cardinality(P)
               /\ Line(w, e) = [k \in 1 .. Cardinality(P) |-> Entry(Keep(q, P)[k])]
               /\ \A k \in 1 .. Cardinality(P) :
                     \E i \in P : /\ Rank(P, i) = k - 1
                                  /\ Keep(q, P)[k] = q[i]
                                  /\ Line(w, e)[k] = Entry(q[i])
<1> DEFINE q == w.pending
           P == Places(w, e)
<1>1. Len(q) \in Nat /\ DOMAIN q = 1 .. Len(q)
    BY DEF IsWorld
<1>2. P \in SUBSET (1 .. Len(q))
    BY <1>1 DEF Places
<1> HIDE DEF P
<1>3. IsFiniteSet(P) /\ Cardinality(P) \in Nat
    BY <1>1, <1>2, RankFacts
<1>4. DOMAIN Keep(q, P) = 1 .. Cardinality(P)
    BY DEF Keep
<1>5. Line(w, e) = [k \in 1 .. Cardinality(P) |-> Entry(Keep(q, P)[k])]
    BY <1>4 DEF Line, P
<1>6. DOMAIN Line(w, e) = 1 .. Cardinality(P)
    BY <1>5
<1>7. ASSUME NEW k \in 1 .. Cardinality(P)
      PROVE  \E i \in P : /\ Rank(P, i) = k - 1
                          /\ Keep(q, P)[k] = q[i]
                          /\ Line(w, e)[k] = Entry(q[i])
  <2>1. PICK i \in P : Rank(P, i) = k - 1
      BY <1>1, <1>2, RankFacts
  <2>2. k \in Nat /\ Rank(P, i) + 1 = k
      BY <1>3, <2>1
  <2>3. Kept(q, P)
      BY <1>1, <1>2, KeepAt
  <2>4. Keep(q, P)[k] = q[i]
      BY <2>2, <2>3, Zenon DEF Kept
  <2>5. Line(w, e)[k] = Entry(Keep(q, P)[k])
      BY <1>5
  <2> QED BY <2>1, <2>4, <2>5
<1> QED BY <1>1, <1>2, <1>3, <1>5, <1>6, <1>7 DEF P

(* A line is a sequence of scheduled commands, so that its length, Append   *)
(* and SubSeq are what they should be.                                      *)
LEMMA LineType ==
    ASSUME NEW w, IsWorld(w), NEW e
    PROVE  /\ Line(w, e) \in Seq([tick : UInt64, number : UInt64, motion : Vector])
           /\ Len(Line(w, e)) = Cardinality(Places(w, e))
<1> DEFINE P == Places(w, e)
           R == [tick : UInt64, number : UInt64, motion : Vector]
<1>1. /\ P \in SUBSET (1 .. Len(w.pending)) /\ Cardinality(P) \in Nat
      /\ Line(w, e) = [k \in 1 .. Cardinality(P) |-> Entry(Keep(w.pending, P)[k])]
      /\ \A k \in 1 .. Cardinality(P) :
            \E i \in P : Keep(w.pending, P)[k] = w.pending[i]
    BY LineFacts
<1>2. \A i \in 1 .. Len(w.pending) : w.pending[i] \in VelocityCommand
    BY DEF IsWorld
<1> HIDE DEF P
<1>3. \A k \in 1 .. Cardinality(P) : Keep(w.pending, P)[k] \in VelocityCommand
    BY <1>1, <1>2
<1>4. \A c \in VelocityCommand : Entry(c) \in R
    BY DEF Entry, VelocityCommand
<1> HIDE DEF R
<1>5. Line(w, e) \in [1 .. Cardinality(P) -> R]
    BY <1>1, <1>3, <1>4
<1>6. Line(w, e) \in Seq(R)
    BY SMTT(30), <1>1, <1>5
<1>7. Len(Line(w, e)) = Cardinality(P)
    BY <1>1, <1>5, <1>6
<1> QED BY <1>6, <1>7 DEF P, R

(* An entity that does not exist yet has no line to lose.                   *)
LEMMA LineOfNewcomer ==
    ASSUME NEW w, WorldInv(w), NEW e, e \notin DOMAIN w.entities
    PROVE  Line(w, e) = <<>>
<1>1. \A i \in DOMAIN w.pending : w.pending[i].entity_id \in DOMAIN w.entities
    BY DEF WorldInv, QueueInv, CommandInv
<1>2. Places(w, e) = {}
    BY <1>1 DEF Places
<1>3. IsWorld(w)
    BY DEF WorldInv
<1>4. Len(Line(w, e)) = 0
    BY <1>2, <1>3, LineType, FS_EmptySet
<1> DEFINE R == [tick : UInt64, number : UInt64, motion : Vector]
<1>5. Line(w, e) \in Seq(R)
    BY <1>3, LineType
<1> HIDE DEF R
<1> QED BY <1>4, <1>5

(* The line of an entity is a matter of the queue alone.                    *)
LEMMA LineOfQueue ==
    ASSUME NEW w, NEW t, t.pending = w.pending, NEW e
    PROVE  Line(t, e) = Line(w, e)
<1>1. Places(t, e) = Places(w, e)
    BY DEF Places
<1> QED BY <1>1 DEF Line

(* r is q with c put in at place m.                                         *)
Inserted(r, q, c, m) ==
    r = [i \in 1 .. Len(q) + 1 |->
            IF i < m THEN q[i] ELSE IF i = m THEN c ELSE q[i - 1]]

(* An accepted command is put in before the first one that it precedes.     *)
LEMMA QueueInserted ==
    ASSUME NEW w, WorldInv(w), NEW c \in VelocityCommand,
           queue_velocity_result(w, c) = "accepted"
    PROVE  \E m \in 1 .. Len(w.pending) + 1 :
              /\ \A i \in m .. Len(w.pending) : command_order(c, w.pending[i])
              /\ Inserted(queue_velocity(w, c).pending, w.pending, c, m)
<1> DEFINE t == queue_velocity(w, c)
           q == w.pending
           n == Len(q)
<1>1. PICK m \in 1 .. n + 1 :
         /\ \A i \in m .. n : command_order(c, q[i])
         /\ t = [tick_index |-> w.tick_index, elapsed |-> w.elapsed,
                 entities |-> w.entities,
                 highest_sequence |->
                     [w.highest_sequence EXCEPT ![c.entity_id] = c.sequence],
                 latest_target_tick |->
                     [w.latest_target_tick EXCEPT ![c.entity_id] = c.target_tick],
                 pending |->
                     [k \in 1 .. n + 1 |->
                         IF k < m THEN q[k] ELSE IF k = m THEN c ELSE q[k - 1]]]
    BY QueueVelocityShape
<1> HIDE DEF t, q, n
<1>2. t.pending = [k \in 1 .. n + 1 |->
                      IF k < m THEN q[k] ELSE IF k = m THEN c ELSE q[k - 1]]
    BY <1>1
<1>3. Inserted(t.pending, q, c, m)
    BY <1>2 DEF Inserted, n
<1> QED BY <1>1, <1>3 DEF t, q, n

(* An accepted command goes to the end of its entity's line, although it    *)
(* may stand anywhere in the queue.                                         *)
LEMMA LineJoined ==
    ASSUME NEW w, WorldInv(w), NEW c \in VelocityCommand,
           queue_velocity_result(w, c) = "accepted"
    PROVE  Line(queue_velocity(w, c), c.entity_id)
             = Append(Line(w, c.entity_id), Entry(c))
<1> DEFINE t == queue_velocity(w, c)
           e == c.entity_id
           q == w.pending
           n == Len(q)
           I == Places(w, e)
<1>1. PICK m \in 1 .. n + 1 :
         /\ \A i \in m .. n : command_order(c, q[i])
         /\ Inserted(t.pending, q, c, m)
    BY QueueInserted
<1>2. \A i \in 1 .. n : q[i].entity_id = e =>
         q[i].sequence < c.sequence /\ q[i].target_tick <= c.target_tick
  <2>1. DOMAIN q = 1 .. n
      BY DEF WorldInv, IsWorld
  <2> QED BY <2>1, QueueVelocityShape
<1>3. IsWorld(w) /\ IsWorld(t) /\ n \in Nat /\ DOMAIN q = 1 .. n
    BY QueueVelocityInv DEF WorldInv, IsWorld
<1>4. \A i \in 1 .. n : q[i] \in VelocityCommand
    BY <1>3 DEF IsWorld
<1>5. \A i \in I : i \in 1 .. n /\ i < m
  <2> TAKE i \in I
  <2>1. i \in 1 .. n /\ q[i].entity_id = e
      BY <1>3 DEF Places
  <2>2. /\ q[i].target_tick \in Nat /\ q[i].sequence \in Nat /\ e \in Nat
        /\ c.target_tick \in Nat /\ c.sequence \in Nat
      BY <1>4, <2>1, Bounds DEF VelocityCommand
  <2>3. ~command_order(c, q[i])
      BY SMTT(30), <1>2, <2>1, <2>2 DEF command_order
  <2>4. ~(i \in m .. n)
      BY <1>1, <2>3
  <2> QED BY <1>3, <2>1, <2>4
<1> DEFINE r == t.pending
<1>6. Places(t, e) = I \cup {m}
  <2>1. DOMAIN r = 1 .. n + 1 /\ r[m] = c
      BY <1>1, <1>3 DEF Inserted
  <2>2. \A i \in 1 .. n + 1 : i < m => r[i] = q[i] /\ i \in 1 .. n
      BY <1>1, <1>3 DEF Inserted
  <2>3. \A i \in 1 .. n + 1 : i > m => r[i] = q[i - 1] /\ i - 1 \in m .. n
      BY <1>1, <1>3 DEF Inserted
  <2>4. \A i \in m .. n : i \notin I
    <3>1. \A i \in m .. n : ~(i < m)
        BY <1>3
    <3> QED BY <1>5, <3>1
  <2>5. \A i \in m .. n : q[i].entity_id # e
    <3>1. m .. n \in SUBSET (1 .. n)
        BY <1>3
    <3> QED BY <1>3, <2>4, <3>1 DEF Places
  <2> HIDE DEF r
  <2>6. ASSUME NEW i \in 1 .. n + 1
        PROVE  r[i].entity_id = e <=> i \in I \cup {m}
    <3>1. CASE i < m
      <4>1. i # m /\ i \in DOMAIN q
          BY <1>3, <2>2, <3>1
      <4> QED BY <2>2, <3>1, <4>1 DEF Places
    <3>2. CASE i = m
        BY <2>1, <3>2
    <3>3. CASE i > m
      <4>1. r[i].entity_id # e /\ i # m /\ ~(i < m)
          BY SMTT(30), <1>3, <2>3, <2>5, <3>3
      <4> QED BY <1>5, <4>1
    <3> QED BY <1>3, <3>1, <3>2, <3>3
  <2>7. I \cup {m} \in SUBSET (1 .. n + 1)
      BY <1>3, <1>5
  <2> QED BY <2>1, <2>6, <2>7 DEF Places, r
<1>7. OneMore(r, q, I, m)
  <2>1. PICK p \in Nat : p = n + 1
      BY <1>3
  <2>0. I \in SUBSET (1 .. p) /\ m \in 1 .. p
      BY <1>3, <1>5, <2>1
  <2>2. \A i \in I : i < m /\ r[i] = q[i]
      BY <1>1, <1>3, <1>5 DEF Inserted
  <2> HIDE DEF I, r, n, q
  <2> QED BY <2>0, <2>2, KeepLast
<1>8. r[m] = c
    BY <1>1, <1>3 DEF Inserted
<1> DEFINE L == Line(w, e)
           M == Line(t, e)
           N == Cardinality(I)
           R == [tick : UInt64, number : UInt64, motion : Vector]
<1>9. /\ N \in Nat /\ L \in Seq(R) /\ Len(L) = N
      /\ L = [k \in 1 .. N |-> Entry(Keep(q, I)[k])]
  <2>1. N \in Nat /\ L = [k \in 1 .. N |-> Entry(Keep(q, I)[k])]
      BY <1>3, LineFacts
  <2>2. L \in Seq(R) /\ Len(L) = N
      BY <1>3, LineType
  <2> QED BY <2>1, <2>2
<1>10. /\ M = [k \in 1 .. N + 1 |-> Entry(Keep(r, I \cup {m})[k])]
  <2>1. M = [k \in 1 .. Cardinality(Places(t, e)) |-> Entry(Keep(t.pending, Places(t, e))[k])]
      BY SMTT(30), <1>3, LineFacts
  <2> QED BY <1>6, <1>7, <2>1 DEF OneMore
<1> HIDE DEF L, M, N, R, I, r, t
<1>11. \A k \in 1 .. N : M[k] = L[k]
  <2> TAKE k \in 1 .. N
  <2>1. Keep(r, I \cup {m})[k] = Keep(q, I)[k]
      BY <1>7 DEF N, OneMore
  <2>2. k \in 1 .. N + 1
      BY <1>9
  <2>3. M[k] = Entry(Keep(r, I \cup {m})[k])
      BY <1>10, <2>2
  <2>4. L[k] = Entry(Keep(q, I)[k])
      BY <1>9
  <2> QED BY <2>1, <2>3, <2>4
<1>12. M[N + 1] = Entry(c)
    BY <1>7, <1>8, <1>9, <1>10 DEF N, OneMore
<1>13. M = Append(L, Entry(c))
  <2>1. DOMAIN M = 1 .. N + 1 /\ M = [k \in 1 .. N + 1 |-> M[k]]
      BY <1>10
  <2>2. Append(L, Entry(c)) = [k \in 1 .. N + 1 |-> IF k = N + 1 THEN Entry(c) ELSE L[k]]
    <3> DEFINE x == Entry(c)
    <3> HIDE DEF x
    <3> QED BY <1>9
  <2>3. \A k \in 1 .. N + 1 : M[k] = IF k = N + 1 THEN Entry(c) ELSE L[k]
      BY <1>9, <1>11, <1>12
  <2> QED BY <2>1, <2>2, <2>3
<1> QED BY <1>13 DEF L, M, t

(* ... and the lines of the other entities stay as they are.                *)
LEMMA LineUntouched ==
    ASSUME NEW w, WorldInv(w), NEW c \in VelocityCommand,
           queue_velocity_result(w, c) = "accepted",
           NEW e, e # c.entity_id
    PROVE  Line(queue_velocity(w, c), e) = Line(w, e)
<1> DEFINE t == queue_velocity(w, c)
           q == w.pending
           r == t.pending
           n == Len(q)
           I == Places(w, e)
           J == Places(t, e)
<1>1. PICK m \in 1 .. n + 1 : Inserted(r, q, c, m)
    BY QueueInserted
<1>2. IsWorld(w) /\ IsWorld(t) /\ n \in Nat /\ DOMAIN q = 1 .. n
    BY QueueVelocityInv DEF WorldInv, IsWorld
<1> HIDE DEF t, q, r
<1>3. /\ DOMAIN r = 1 .. n + 1 /\ r[m] = c
      /\ \A i \in 1 .. n : i < m => r[i] = q[i]
      /\ \A i \in 1 .. n : ~(i < m) => r[i + 1] = q[i]
      /\ \A j \in 1 .. n + 1 : j > m => j - 1 \in 1 .. n /\ ~(j - 1 < m)
      /\ \A j \in 1 .. n + 1 : j < m => j \in 1 .. n
    BY <1>1, <1>2 DEF Inserted
<1>4. \A i : i \in I <=> i \in 1 .. n /\ q[i].entity_id = e
    BY <1>2 DEF Places, q
<1>5. \A j : j \in J <=> j \in 1 .. n + 1 /\ r[j].entity_id = e
    BY <1>3 DEF Places, r
<1> DEFINE f == [i \in I |-> IF i < m THEN i ELSE i + 1]
<1> HIDE DEF I, J, n
<1>6. \A i \in I : i \in Nat /\ i \in 1 .. n /\ i \in 1 .. n + 1 /\ i + 1 \in 1 .. n + 1
    BY <1>2, <1>4
<1>7. \A i \in I : f[i] \in J /\ r[f[i]] = q[i]
  <2> TAKE i \in I
  <2>1. CASE i < m
    <3>1. f[i] = i /\ r[i] = q[i]
        BY <1>3, <1>6, <2>1
    <3> QED BY <1>4, <1>5, <1>6, <3>1
  <2>2. CASE ~(i < m)
    <3>1. f[i] = i + 1 /\ r[i + 1] = q[i]
        BY <1>3, <1>6, <2>2
    <3> QED BY <1>4, <1>5, <1>6, <3>1
  <2> QED BY <2>1, <2>2
<1>8. f \in [I -> J]
    BY <1>7
<1>9. \A j \in J : \E i \in I : f[i] = j
  <2> TAKE j \in J
  <2>1. j \in 1 .. n + 1 /\ r[j].entity_id = e
      BY <1>5
  <2>2. j # m
      BY <1>3, <2>1
  <2>3. CASE j < m
    <3>1. j \in I
        BY <1>3, <1>4, <2>1, <2>3
    <3>2. f[j] = j
        BY <2>3, <3>1
    <3> QED BY <3>1, <3>2
  <2>4. CASE j > m
    <3>1. j - 1 \in 1 .. n /\ ~(j - 1 < m) /\ (j - 1) + 1 = j
        BY <1>2, <1>3, <2>1, <2>4
    <3>2. r[j] = q[j - 1]
        BY <1>3, <3>1
    <3>3. j - 1 \in I
        BY <1>4, <2>1, <3>1, <3>2
    <3>4. f[j - 1] = j
        BY <3>1, <3>3
    <3> QED BY <3>3, <3>4
  <2> QED BY <1>2, <2>1, <2>2, <2>3, <2>4
<1>10. \A i, j \in I : i < j => f[i] < f[j]
  <2> TAKE i, j \in I
  <2> HAVE i < j
  <2>1. i \in Nat /\ j \in Nat /\ m \in Nat
      BY <1>2, <1>6
  <2>2. f[i] = (IF i < m THEN i ELSE i + 1) /\ f[j] = (IF j < m THEN j ELSE j + 1)
      OBVIOUS
  <2> HIDE DEF f
  <2> QED BY <2>1, <2>2
<1>11. I \in SUBSET (1 .. n) /\ J \in SUBSET (1 .. n + 1)
    BY <1>4, <1>5
<1> HIDE DEF f
<1>12. Keep(r, J) = Keep(q, I)
  <2>1. PICK p \in Nat : p = n + 1
      BY <1>2
  <2>2. J \in SUBSET (1 .. p)
      BY <1>11, <2>1
  <2>3. SameOrder(f, q, I, r, J)
      BY <1>7, <1>8, <1>9, <1>10 DEF SameOrder
  <2> QED BY <1>2, <1>11, <2>2, <2>3, KeepSame
<1> QED BY <1>12 DEF Line, I, J, r, q, t

(* What a tick leaves in force for an entity that it moves from w to t.     *)
AdvanceEntity(w, t, e) ==
    \/ /\ DueFor(w, e) = {}
       /\ t.entities[e].last_sequence = w.entities[e].last_sequence
       /\ t.entities[e].velocity = w.entities[e].velocity
    \/ \E i \in DueFor(w, e) : /\ t.entities[e].last_sequence = w.pending[i].sequence
                               /\ t.entities[e].velocity = w.pending[i].velocity
                               /\ \A j \in DueFor(w, e) : j <= i

(* advance applies the due commands of an entity in order, so the last one  *)
(* is in force.                                                             *)
LEMMA AdvanceForce ==
    ASSUME NEW w, WorldInv(w), advance_result(w) = "advanced",
           NEW e \in DOMAIN w.entities
    PROVE  AdvanceEntity(w, advance(w), e)
<1>1. /\ advance(w).entities[e].velocity = Commanded(w, e).velocity
      /\ advance(w).entities[e].last_sequence = Commanded(w, e).last_sequence
    BY AdvanceMembers
<1>2. \/ DueFor(w, e) = {} /\ Commanded(w, e) = w.entities[e]
      \/ \E i \in DueFor(w, e) :
            /\ Commanded(w, e).last_sequence = w.pending[i].sequence
            /\ Commanded(w, e).velocity = w.pending[i].velocity
            /\ \A j \in DueFor(w, e) : j <= i
    BY CommandedFacts
<1> QED BY <1>1, <1>2 DEF AdvanceEntity

(* A tick takes the commands of the tick from the front of the line of an   *)
(* entity, and the last one it takes is in force afterwards.                *)
LEMMA LineTaken ==
    ASSUME NEW w, WorldInv(w), advance_result(w) = "advanced",
           NEW e \in DOMAIN w.entities
    PROVE  LET L == Line(w, e) IN
           \E T \in 0 .. Len(L) :
              /\ \A k \in 1 .. T : L[k].tick = w.tick_index + 1
              /\ \A k \in T + 1 .. Len(L) : L[k].tick > w.tick_index + 1
              /\ Line(advance(w), e) = SubSeq(L, T + 1, Len(L))
              /\ InForce(advance(w), e) =
                    IF T = 0 THEN InForce(w, e)
                    ELSE [number |-> L[T].number, motion |-> L[T].motion]
<1> DEFINE t == advance(w)
           q == w.pending
           r == t.pending
           n == Len(q)
           u == w.tick_index + 1
           I == Places(w, e)
           J == Places(t, e)
           L == Line(w, e)
           M == Line(t, e)
<1>1. PICK m \in 0 .. n :
         /\ \A i \in 1 .. m : q[i].target_tick = u
         /\ \A i \in m + 1 .. n : q[i].target_tick > u
         /\ DueFor(w, e) = {i \in 1 .. m : q[i].entity_id = e}
         /\ t = [tick_index |-> u, elapsed |-> w.elapsed + TickDuration,
                 entities |-> [x \in DOMAIN w.entities |-> integrate(Commanded(w, x))],
                 highest_sequence |-> w.highest_sequence,
                 latest_target_tick |-> w.latest_target_tick,
                 pending |-> [k \in 1 .. n - m |-> q[m + k]]]
    BY AdvanceShape
<1>2. IsWorld(w) /\ IsWorld(t) /\ n \in Nat /\ DOMAIN q = 1 .. n
    BY AdvanceInv DEF WorldInv, IsWorld
<1>3. r = [k \in 1 .. n - m |-> q[m + k]]
    BY <1>1
<1>4. I \in SUBSET (1 .. n) /\ \A i \in 1 .. n : i \in I <=> q[i].entity_id = e
    BY <1>2 DEF Places
<1>5. J = Rest(I, n, m)
  <2>1. J = {k \in 1 .. n - m : r[k].entity_id = e}
      BY <1>3 DEF Places
  <2>2. \A k \in 1 .. n - m : r[k] = q[m + k] /\ m + k \in 1 .. n
      BY <1>2, <1>3
  <2>3. \A k \in 1 .. n - m : r[k].entity_id = e <=> m + k \in I
      BY <1>4, <2>2
  <2> HIDE DEF I, J, r, n
  <2> QED BY <2>1, <2>3 DEF Rest
<1>6. CutOff(r, q, I, n, m)
  <2>1. \A k \in 1 .. n - m : r[k] = q[m + k]
      BY <1>3
  <2> HIDE DEF r, q, I, n
  <2> QED BY <1>2, <1>4, <2>1, KeepRest
<1> DEFINE T == Front(I, m)
           N == Cardinality(I)
           R == [tick : UInt64, number : UInt64, motion : Vector]
<1>7. /\ T \in Nat /\ Cardinality(J) \in Nat /\ N = T + Cardinality(J)
      /\ \A k \in 1 .. Cardinality(J) : Keep(r, J)[k] = Keep(q, I)[T + k]
      /\ \A i \in I : i <= m => Rank(I, i) + 1 <= T
      /\ \A i \in I : i > m => Rank(I, i) + 1 > T
    BY <1>5, <1>6, Zenon DEF CutOff
<1>8. /\ N \in Nat /\ L = [k \in 1 .. N |-> Entry(Keep(q, I)[k])]
      /\ \A k \in 1 .. N : \E i \in I : /\ Rank(I, i) = k - 1
                                        /\ L[k] = Entry(q[i])
    BY <1>2, LineFacts
<1>9. M = [k \in 1 .. Cardinality(J) |-> Entry(Keep(r, J)[k])]
    BY <1>2, LineFacts
<1>10. L \in Seq(R) /\ Len(L) = N
    BY <1>2, LineType
<1>11. w.tick_index \in Nat /\ \A i \in 1 .. n : q[i] \in VelocityCommand
    BY Bounds DEF WorldInv, IsWorld
<1>12. AdvanceEntity(w, t, e)
    BY AdvanceForce
<1> HIDE DEF t, q, r, n, u, I, J, L, M, T, N, R
<1>13. ASSUME NEW k \in 1 .. N
       PROVE  /\ k <= T => L[k].tick = u
              /\ k > T => L[k].tick > u
  <2>1. PICK i \in I : Rank(I, i) = k - 1 /\ L[k] = Entry(q[i])
      BY <1>8
  <2>2. L[k].tick = q[i].target_tick
      BY <2>1 DEF Entry
  <2>3. Rank(I, i) + 1 = k /\ i \in 1 .. n /\ i \in Nat
      BY <1>2, <1>4, <1>8, <2>1
  <2>4. CASE i <= m
    <3>1. q[i].target_tick = u /\ ~(k > T)
        BY <1>1, <1>7, <1>8, <2>3, <2>4
    <3> QED BY <2>2, <3>1
  <2>5. CASE i > m
    <3>1. i \in m + 1 .. n
        BY <1>2, <2>3, <2>5
    <3>2. q[i].target_tick > u /\ ~(k <= T)
        BY <1>1, <1>7, <1>8, <2>3, <2>5, <3>1
    <3> QED BY <2>2, <3>2
  <2> QED BY <1>2, <2>3, <2>4, <2>5
<1>14. M = SubSeq(L, T + 1, Len(L))
  <2>1. SubSeq(L, T + 1, N) = [k \in 1 .. Cardinality(J) |-> L[T + k]]
    <3>1. SubSeq(L, T + 1, N) = [k \in 1 .. (N - (T + 1)) + 1 |-> L[(k + (T + 1)) - 1]]
        BY <1>7, <1>8, <1>10
    <3>2. 1 .. (N - (T + 1)) + 1 = 1 .. Cardinality(J)
        BY <1>7
    <3>3. \A k \in 1 .. Cardinality(J) : (k + (T + 1)) - 1 = T + k
        BY <1>7
    <3> QED BY <3>1, <3>2, <3>3
  <2>2. ASSUME NEW k \in 1 .. Cardinality(J)
        PROVE  Entry(Keep(r, J)[k]) = L[T + k]
    <3>1. T + k \in 1 .. N
        BY <1>7
    <3>2. L[T + k] = Entry(Keep(q, I)[T + k])
        BY <1>8, <3>1
    <3> QED BY <1>7, <3>2
  <2> QED BY <1>9, <1>10, <2>1, <2>2
<1>15. InForce(t, e) = IF T = 0 THEN InForce(w, e)
                       ELSE [number |-> L[T].number, motion |-> L[T].motion]
  <2>1. CASE T = 0
    <3>1. DueFor(w, e) = {}
      <4> SUFFICES ASSUME NEW i \in DueFor(w, e) PROVE FALSE
          OBVIOUS
      <4>1. i \in 1 .. m /\ i \in I /\ i <= m
          BY <1>1, <1>2, <1>4
      <4>2. Rank(I, i) + 1 <= T /\ Rank(I, i) \in Nat
        <5>1. Rank(I, i) \in 0 .. Cardinality(I) - 1
            BY <1>2, <1>4, <4>1, RankFacts
        <5> QED BY <1>7, <1>8, <4>1, <5>1 DEF N
      <4> QED BY <2>1, <4>2
    <3> QED BY <1>12, <2>1, <3>1 DEF AdvanceEntity, InForce
  <2>2. CASE T # 0
    <3>1. T \in 1 .. N
        BY <1>7, <2>2
    <3>2. PICK j \in I : Rank(I, j) = T - 1 /\ L[T] = Entry(q[j])
        BY <1>8, <3>1
    <3>3. j \in Nat /\ j \in 1 .. n /\ Rank(I, j) + 1 = T
        BY <1>2, <1>4, <1>7, <3>2
    <3>4. j <= m
        BY <1>2, <1>7, <3>2, <3>3
    <3>5. j \in DueFor(w, e)
        BY <1>1, <1>2, <1>4, <3>3, <3>4
    <3>6. PICK i \in DueFor(w, e) : /\ t.entities[e].last_sequence = q[i].sequence
                                    /\ t.entities[e].velocity = q[i].velocity
                                    /\ \A x \in DueFor(w, e) : x <= i
        BY <1>12, <3>5 DEF AdvanceEntity, q
    <3>7. i \in I /\ i <= m /\ i \in Nat /\ j <= i
        BY <1>1, <1>2, <1>4, <3>5, <3>6
    <3>8. i = j
      <4> SUFFICES ASSUME j < i PROVE FALSE
          BY <3>3, <3>7
      <4>1. Rank(I, j) < Rank(I, i) /\ Rank(I, i) \in 0 .. N - 1
          BY <1>2, <1>4, <3>7, RankFacts DEF N
      <4>2. Rank(I, i) + 1 <= T
          BY <1>7, <3>7
      <4> QED BY <1>7, <1>8, <3>2, <4>1, <4>2
    <3>9. L[T].number = q[i].sequence /\ L[T].motion = q[i].velocity
        BY <3>2, <3>8 DEF Entry
    <3> QED BY <2>2, <3>6, <3>9 DEF InForce
  <2> QED BY <2>1, <2>2
<1>16. T \in 0 .. Len(L)
    BY <1>7, <1>10
<1>17. /\ \A k \in 1 .. T : L[k].tick = u
       /\ \A k \in T + 1 .. Len(L) : L[k].tick > u
    BY <1>7, <1>10, <1>13
<1> QED BY <1>14, <1>15, <1>16, <1>17 DEF L, M, t, u

-----------------------------------------------------------------------------
(* The refinement.                                                          *)

(* The number of commands of tick u at the front of a line, as the abstract *)
(* specification asks for it, is the one at which the tick changes.         *)
LEMMA FrontIsUnique ==
    ASSUME NEW L, Len(L) \in Nat, NEW T \in 0 .. Len(L), NEW u,
           \A k \in 1 .. T : L[k].tick = u,
           \A k \in T + 1 .. Len(L) : L[k].tick # u
    PROVE  (CHOOSE n \in 0 .. Len(L) :
               /\ \A i \in 1 .. n : L[i].tick = u
               /\ n < Len(L) => L[n + 1].tick # u) = T
<1> DEFINE P(n) == /\ \A i \in 1 .. n : L[i].tick = u
                   /\ n < Len(L) => L[n + 1].tick # u
<1>1. P(T)
    OBVIOUS
<1>2. ASSUME NEW n \in 0 .. Len(L), P(n)
      PROVE  n = T
  <2>1. CASE n < T
    <3>1. n + 1 \in 1 .. T /\ n < Len(L)
        BY <2>1
    <3> QED BY <1>2, <3>1
  <2>2. CASE n > T
    <3>1. T + 1 \in 1 .. n /\ T + 1 \in T + 1 .. Len(L)
        BY <2>2
    <3> QED BY <1>2, <3>1
  <2> QED BY <2>1, <2>2
<1> HIDE DEF P
<1>3. (CHOOSE n \in 0 .. Len(L) : P(n)) = T
    BY <1>1, <1>2
<1> QED BY <1>3 DEF P

(* A new entity opens an empty line.                                        *)
LEMMA AddEntityEnters ==
    ASSUME WorldInv(world), NEW e \in EntityIds, NEW p \in Positions,
           NEW v \in Velocities, AddEntity(e, p, v),
           add_entity_result(world, e, p, v) = "added"
    PROVE  Schedule!Enter(e, v)
<1> DEFINE D == DOMAIN world.entities
           s == [position |-> p, velocity |-> v, last_sequence |-> 0,
                 residual |-> [a \in Axis |-> 0]]
<1>1. e \notin D
    BY DEF add_entity_result
<1>2. /\ world'.pending = world.pending
      /\ world'.tick_index = world.tick_index
      /\ world'.entities = [f \in D \cup {e} |-> IF f = e THEN s ELSE world.entities[f]]
  <2>1. world' = [world EXCEPT
            !.entities = Emplace(@, e, s),
            !.highest_sequence = Emplace(@, e, 0),
            !.latest_target_tick = Emplace(@, e, world.tick_index)]
      BY DEF AddEntity, add_entity
  <2>2. world = [tick_index |-> world.tick_index, elapsed |-> world.elapsed,
                 entities |-> world.entities,
                 highest_sequence |-> world.highest_sequence,
                 latest_target_tick |-> world.latest_target_tick,
                 pending |-> world.pending]
      BY DEF WorldInv, IsWorld
  <2>3. world'.entities = Emplace(world.entities, e, s)
      BY <2>1, <2>2
  <2> HIDE DEF s
  <2>4. world'.pending = world.pending /\ world'.tick_index = world.tick_index
      BY <2>1, <2>2
  <2> QED BY <2>3, <2>4 DEF Emplace
<1>3. \A f : Line(world', f) = Line(world, f)
    BY <1>2, LineOfQueue
<1>4. Line(world, e) = <<>>
    BY <1>1, LineOfNewcomer
<1>5. DOMAIN world'.entities = D \cup {e}
    BY <1>2
<1>6. /\ InForce(world', e) = [number |-> 0, motion |-> v]
      /\ \A f \in D : InForce(world', f) = InForce(world, f)
    BY <1>1, <1>2 DEF InForce
<1>7. [f \in D \cup {e} |-> Line(world', f)]
        = [f \in D \cup {e} |-> IF f = e THEN <<>> ELSE [x \in D |-> Line(world, x)][f]]
    BY <1>3, <1>4
<1>8. [f \in D \cup {e} |-> InForce(world', f)]
        = [f \in D \cup {e} |-> IF f = e THEN [number |-> 0, motion |-> v]
                                ELSE [x \in D |-> InForce(world, x)][f]]
    BY <1>6
<1> QED BY <1>1, <1>2, <1>5, <1>7, <1>8 DEF Schedule!Enter

(* An accepted command joins the end of its entity's line.                  *)
LEMMA QueueVelocityJoins ==
    ASSUME WorldInv(world), NEW c \in Commands, QueueVelocity(c),
           queue_velocity_result(world, c) = "accepted"
    PROVE  Entry(c) \in Schedule!Scheduled /\ Schedule!Join(c.entity_id, Entry(c))
<1> DEFINE D == DOMAIN world.entities
           e == c.entity_id
           L == Line(world, e)
<1>1. c \in VelocityCommand
    BY InputAssumption DEF Commands, VelocityCommand
<1>2. world' = queue_velocity(world, c)
    BY DEF QueueVelocity
<1>3. world'.tick_index = world.tick_index /\ world'.entities = world.entities
    BY <1>1, <1>2, QueueVelocityMembers
<1>4. /\ e \in D
      /\ ~(c.target_tick <= world.tick_index)
      /\ ~(c.sequence <= world.highest_sequence[e])
    BY DEF queue_velocity_result
<1>5. /\ c.target_tick \in Nat /\ c.sequence \in Nat /\ world.tick_index \in Nat
      /\ world.highest_sequence[e] \in Nat
      /\ world.entities[e].last_sequence \in Nat
  <2>1. /\ world.tick_index \in UInt64 /\ IsEntityMap(world.entities, StoredEntity)
        /\ IsEntityMap(world.highest_sequence, UInt64)
        /\ DOMAIN world.highest_sequence = D
      BY DEF WorldInv, IsWorld, SameKeys
  <2>2. world.highest_sequence[e] \in UInt64 /\ world.entities[e] \in StoredEntity
      BY <1>4, <2>1 DEF IsEntityMap
  <2> QED BY <1>1, <2>1, <2>2, Bounds DEF VelocityCommand, StoredEntity
<1>6. world.entities[e].last_sequence <= world.highest_sequence[e]
  <2>1. CASE world.entities[e].last_sequence = world.highest_sequence[e]
      BY <1>5, <2>1
  <2>2. CASE \E i \in DOMAIN world.pending :
                /\ world.pending[i].entity_id = e
                /\ world.pending[i].sequence = world.highest_sequence[e]
    <3>1. PICK i \in DOMAIN world.pending :
                /\ world.pending[i].entity_id = e
                /\ world.pending[i].sequence = world.highest_sequence[e]
        BY <2>2
    <3>2. CommandInv(world, world.pending[i])
        BY DEF WorldInv, QueueInv
    <3> QED BY <1>5, <3>1, <3>2 DEF CommandInv
  <2> QED BY <1>4, <2>1, <2>2 DEF WorldInv, NewestInv
<1>7. c.target_tick > world.tick_index /\ c.sequence > world.entities[e].last_sequence
    BY <1>4, <1>5, <1>6
<1>8. \A k \in DOMAIN L : L[k].number < c.sequence /\ L[k].tick <= c.target_tick
  <2> TAKE k \in DOMAIN L
  <2>1. IsWorld(world)
      BY DEF WorldInv
  <2>2. PICK i \in Places(world, e) : L[k] = Entry(world.pending[i])
      BY <2>1, LineFacts
  <2>3. i \in DOMAIN world.pending /\ world.pending[i].entity_id = e
      BY DEF Places
  <2>4. /\ world.pending[i].sequence < c.sequence
        /\ world.pending[i].target_tick <= c.target_tick
      BY <1>1, <2>3, QueueVelocityShape
  <2> QED BY <2>2, <2>4 DEF Entry
<1>9. Line(world', e) = Append(L, Entry(c))
    BY <1>1, <1>2, LineJoined
<1>10. \A f : f # e => Line(world', f) = Line(world, f)
    BY <1>1, <1>2, LineUntouched
<1>11. \A f : InForce(world', f) = InForce(world, f)
    BY <1>3 DEF InForce
<1>12. /\ Entry(c).tick = c.target_tick /\ Entry(c).number = c.sequence
       /\ InForce(world, e).number = world.entities[e].last_sequence
    BY DEF Entry, InForce
<1>13. [f \in D |-> Line(world', f)]
         = [[f \in D |-> Line(world, f)] EXCEPT ![e] = Append(@, Entry(c))]
    BY <1>4, <1>9, <1>10
<1>14. [f \in D |-> InForce(world', f)] = [f \in D |-> InForce(world, f)]
    BY <1>11
<1>15. Entry(c) \in Schedule!Scheduled
    BY DEF Entry, Commands, Schedule!Scheduled
<1> QED BY <1>3, <1>4, <1>7, <1>8, <1>12, <1>13, <1>14, <1>15 DEF Schedule!Join

(* A successful advance passes a tick on every line at once.                *)
LEMMA AdvancePasses ==
    ASSUME WorldInv(world), Advance, advance_result(world) = "advanced"
    PROVE  Schedule!PassTick
<1> DEFINE D == DOMAIN world.entities
           u == world.tick_index + 1
           Tk(e) == Schedule!Taken(e, u)
<1>1. world' = advance(world)
    BY DEF Advance
<1>2. world'.tick_index = u /\ DOMAIN world'.entities = D
    BY <1>1, AdvanceMembers
<1>3. ASSUME NEW e \in D
      PROVE  LET L == Line(world, e) IN
             /\ Line(world', e) = SubSeq(L, Tk(e) + 1, Len(L))
             /\ InForce(world', e) =
                   IF Tk(e) = 0 THEN InForce(world, e)
                   ELSE [number |-> L[Tk(e)].number, motion |-> L[Tk(e)].motion]
  <2> DEFINE L == Line(world, e)
  <2>1. PICK T \in 0 .. Len(L) :
           /\ \A k \in 1 .. T : L[k].tick = u
           /\ \A k \in T + 1 .. Len(L) : L[k].tick > u
           /\ Line(world', e) = SubSeq(L, T + 1, Len(L))
           /\ InForce(world', e) =
                 IF T = 0 THEN InForce(world, e)
                 ELSE [number |-> L[T].number, motion |-> L[T].motion]
      BY <1>1, LineTaken
  <2>2. Len(L) \in Nat /\ u \in Nat
  <3>1. IsWorld(world)
      BY DEF WorldInv
  <3> DEFINE R == [tick : UInt64, number : UInt64, motion : Vector]
  <3>2. L \in Seq(R)
      BY <3>1, LineType
  <3> HIDE DEF R, L
  <3>3. Len(L) \in Nat
      BY <3>2
  <3> QED BY <3>1, <3>3, Bounds DEF IsWorld
  <2> HIDE DEF L, u
  <2>3. \A k \in T + 1 .. Len(L) : L[k].tick # u
      BY <2>1, <2>2
  <2>4. (CHOOSE n \in 0 .. Len(L) :
           /\ \A i \in 1 .. n : L[i].tick = u
           /\ n < Len(L) => L[n + 1].tick # u) = T
      BY <2>1, <2>2, <2>3, FrontIsUnique
  <2>5. Tk(e) = CHOOSE n \in 0 .. Len(L) :
                   /\ \A i \in 1 .. n : L[i].tick = u
                   /\ n < Len(L) => L[n + 1].tick # u
      BY DEF Schedule!Taken, L
  <2>6. Tk(e) = T
      BY <2>4, <2>5
  <2> QED BY <2>1, <2>6 DEF L
<1> HIDE DEF Tk
<1>4. [e \in D |-> Line(world', e)]
        = [e \in D |-> SubSeq([x \in D |-> Line(world, x)][e], Tk(e) + 1,
                              Len([x \in D |-> Line(world, x)][e]))]
    BY <1>3
<1>5. [e \in D |-> InForce(world', e)]
        = [e \in D |->
             IF Tk(e) = 0 THEN [x \in D |-> InForce(world, x)][e]
             ELSE LET c == [x \in D |-> Line(world, x)][e][Tk(e)]
                  IN  [number |-> c.number, motion |-> c.motion]]
    BY <1>3
<1> QED BY <1>2, <1>4, <1>5 DEF Schedule!PassTick, Tk

(* A call that is refused or throws changes nothing that the schedule sees. *)
LEMMA StepRefines ==
    WorldInv(world) /\ [Next]_vars => [Schedule!Next]_(Schedule!scheduleVars)
<1> SUFFICES ASSUME WorldInv(world), [Next]_vars
             PROVE  [Schedule!Next]_(Schedule!scheduleVars)
    OBVIOUS
<1>1. ASSUME world' = world
      PROVE  UNCHANGED Schedule!scheduleVars
    BY <1>1 DEF Schedule!scheduleVars
<1>2. ASSUME NEW e \in EntityIds, NEW p \in Positions, NEW v \in Velocities,
             AddEntity(e, p, v)
      PROVE  [Schedule!Next]_(Schedule!scheduleVars)
  <2>1. CASE add_entity_result(world, e, p, v) = "added"
      BY <1>2, <2>1, AddEntityEnters DEF Schedule!Next
  <2>2. CASE add_entity_result(world, e, p, v) # "added"
      BY <1>1, <1>2, <2>2 DEF AddEntity, add_entity
  <2> QED BY <2>1, <2>2
<1>3. ASSUME NEW c \in Commands, QueueVelocity(c)
      PROVE  [Schedule!Next]_(Schedule!scheduleVars)
  <2>1. CASE queue_velocity_result(world, c) = "accepted"
    <3>1. Entry(c) \in Schedule!Scheduled /\ Schedule!Join(c.entity_id, Entry(c))
        BY <1>3, <2>1, QueueVelocityJoins
    <3>2. c.entity_id \in EntityIds
        BY DEF Commands
    <3> QED BY <3>1, <3>2 DEF Schedule!Next
  <2>2. CASE queue_velocity_result(world, c) # "accepted"
      BY <1>1, <1>3, <2>2 DEF QueueVelocity, queue_velocity
  <2> QED BY <2>1, <2>2
<1>4. ASSUME Advance
      PROVE  [Schedule!Next]_(Schedule!scheduleVars)
  <2>1. CASE advance_result(world) = "advanced"
      BY <1>4, <2>1, AdvancePasses DEF Schedule!Next
  <2>2. CASE advance_result(world) # "advanced"
      BY <1>1, <1>4, <2>2 DEF Advance, advance
  <2> QED BY <2>1, <2>2
<1>5. CASE UNCHANGED vars
    BY <1>1, <1>5 DEF vars
<1> QED BY <1>2, <1>3, <1>4, <1>5 DEF Next

(* The World of world.cpp:95-294, whose entities share one sorted vector of *)
(* pending commands, implements a first-in-first-out line per entity:       *)
(* whatever the host calls, a command is taken in the order of its entity's *)
(* sequence numbers, at exactly its tick, once, and never overtaken or      *)
(* dropped because of commands of other entities.                           *)
THEOREM WorldImplementsSchedule == Spec => ImplementsSchedule
<1>1. Init => Schedule!Init
  <2> SUFFICES ASSUME Init PROVE Schedule!Init
      OBVIOUS
  <2>1. world.tick_index = 0 /\ DOMAIN world.entities = {}
      BY DEF Init, NewWorld, NoEntities
  <2> QED BY <2>1 DEF Schedule!Init
<1>2. Inv /\ [Next]_vars => [Schedule!Next]_(Schedule!scheduleVars)
    BY StepRefines DEF Inv
<1> QED BY <1>1, <1>2, InvHolds, PTL DEF Spec, ImplementsSchedule, Schedule!Spec

=============================================================================
