----------------------------- MODULE WorldModel -----------------------------
(***************************************************************************)
(* The authoritative simulation world (cpp/src/simulation/world.cpp) as a   *)
(* value and three operations on it.  A world is a record; queue_velocity,  *)
(* add_entity and advance map a world to the result code of the call and    *)
(* the world after it, so that the pipeline and the replay, which work on   *)
(* copies of a world, share one definition with the World specification.    *)
(***************************************************************************)
EXTENDS Integers, Sequences, FiniteSets, FiniteSetsExt

CONSTANTS
    EntityIds,        \* entity identifiers (EntityId rejects zero)
    TickDuration,     \* length of a tick, in microseconds
    MicrosPerSecond,  \* 1'000'000 in the code
    MaxAbsPosition,   \* WorldLimits::max_abs_position
    MaxAbsVelocity,   \* WorldLimits::max_abs_velocity
    Int64Max,         \* largest value of std::int64_t
    UInt64Max         \* largest value of std::uint64_t

(* The checks of the World and FixedStepClock constructors: a world whose   *)
(* parameters fail them does not exist.                                     *)
ASSUME WorldAssumption ==
    /\ EntityIds \subseteq Nat \ {0}
    /\ TickDuration \in Nat \ {0}
    /\ MicrosPerSecond \in Nat \ {0}
    /\ Int64Max \in Nat
    /\ MicrosPerSecond <= Int64Max
    /\ UInt64Max = 2 * Int64Max + 1
    /\ MaxAbsPosition \in 1 .. Int64Max
    /\ MaxAbsVelocity \in Nat \ {0}
    /\ MaxAbsVelocity <= (Int64Max - (MicrosPerSecond - 1)) \div TickDuration

Int64 == -(Int64Max + 1) .. Int64Max
UInt64 == 0 .. UInt64Max
Axis == {"x", "y"}
Vector == [Axis -> Int64]

VelocityCommand ==
    [target_tick : UInt64, entity_id : EntityIds, sequence : UInt64,
     velocity : Vector]

StoredEntity ==
    [position : Vector, velocity : Vector, last_sequence : UInt64,
     residual : Vector]

(* A std::map from the entities that exist to T.                            *)
IsEntityMap(f, T) == DOMAIN f \subseteq EntityIds /\ f \in [DOMAIN f -> T]

IsWorld(w) ==
    /\ w = [tick_index |-> w.tick_index, elapsed |-> w.elapsed,
            entities |-> w.entities,
            highest_sequence |-> w.highest_sequence,
            latest_target_tick |-> w.latest_target_tick,
            pending |-> w.pending]
    /\ w.tick_index \in UInt64
    /\ w.elapsed \in Int64
    /\ IsEntityMap(w.entities, StoredEntity)
    /\ IsEntityMap(w.highest_sequence, UInt64)
    /\ IsEntityMap(w.latest_target_tick, UInt64)
    /\ w.pending \in Seq(VelocityCommand)

NoEntities == [e \in {} |-> 0]

NewWorld ==
    [tick_index |-> 0, elapsed |-> 0, entities |-> NoEntities,
     highest_sequence |-> NoEntities, latest_target_tick |-> NoEntities,
     pending |-> <<>>]

-----------------------------------------------------------------------------
(* Small helpers of world.cpp.                                              *)

within_symmetric_limit(v, limit) == v >= -limit /\ v <= limit

position_is_valid(p) ==
    \A a \in Axis : within_symmetric_limit(p[a], MaxAbsPosition)

velocity_is_valid(v) ==
    \A a \in Axis : within_symmetric_limit(v[a], MaxAbsVelocity)

(* C++ integer division and remainder round towards zero.                   *)
TruncDiv(n, d) == IF n >= 0 THEN n \div d ELSE -((-n) \div d)
TruncRem(n, d) == n - d * TruncDiv(n, d)

(* The order std::sort is given for the pending commands.                   *)
command_order(l, r) ==
    \/ l.target_tick < r.target_tick
    \/ l.target_tick = r.target_tick /\ l.entity_id < r.entity_id
    \/ /\ l.target_tick = r.target_tick
       /\ l.entity_id = r.entity_id
       /\ l.sequence < r.sequence

(* std::sort by command_order: the element that k - 1 others precede goes    *)
(* to place k.  (Which of two equivalent elements comes first is never      *)
(* asked: the queue holds no two commands with the same key, QueueOrdered.) *)
Precedes(s, i, j) ==
    \/ command_order(s[i], s[j])
    \/ ~command_order(s[j], s[i]) /\ i < j

sort_not_called(s) == s  \* mutant: push_back alone

sort(s) ==
    [k \in DOMAIN s |->
        s[CHOOSE i \in DOMAIN s :
            Cardinality({j \in DOMAIN s : Precedes(s, j, i)}) = k - 1]]

(* std::remove_if and erase: what is left of s, in order, when only the     *)
(* elements at the places I stay.                                           *)
erase_all(s, I) == <<>>   \* mutant: clear() instead of erase

Keep(s, I) ==
    [k \in 1 .. Cardinality(I) |->
        s[CHOOSE i \in I : Cardinality({j \in I : j < i}) = k - 1]]

(* f with key k mapped to v: std::map::emplace of a new key.                *)
Emplace(f, k, v) == [e \in DOMAIN f \cup {k} |-> IF e = k THEN v ELSE f[e]]

-----------------------------------------------------------------------------
(* add_entity: the entity starts without a command and without residual.    *)

add_entity_result(w, e, p, v) ==
    IF e \in DOMAIN w.entities THEN "duplicate_id"
    ELSE IF ~position_is_valid(p) THEN "position_out_of_range"
    ELSE IF ~velocity_is_valid(v) THEN "velocity_out_of_range"
    ELSE "added"

add_entity(w, e, p, v) ==
    IF add_entity_result(w, e, p, v) # "added"
    THEN w
    ELSE [w EXCEPT
            !.entities = Emplace(@, e,
                [position |-> p, velocity |-> v, last_sequence |-> 0,
                 residual |-> [a \in Axis |-> 0]]),
            !.highest_sequence = Emplace(@, e, 0),
            !.latest_target_tick = Emplace(@, e, w.tick_index)]

-----------------------------------------------------------------------------
(* queue_velocity: five checks in the order of the code, then the two per-  *)
(* entity high-water marks move and the command is sorted into the queue.   *)

(* Mutants: one of the checks is missing or off by one.                     *)
queue_accepts_current_tick(w, c) ==
    IF c.target_tick < w.tick_index THEN "stale_tick"
    ELSE IF c.entity_id \notin DOMAIN w.entities THEN "unknown_entity"
    ELSE IF c.sequence <= w.highest_sequence[c.entity_id]
         THEN "sequence_not_increasing"
    ELSE "accepted"

queue_without_sequence_check(w, c) ==
    IF c.target_tick <= w.tick_index THEN "stale_tick"
    ELSE IF c.entity_id \notin DOMAIN w.entities THEN "unknown_entity"
    ELSE "accepted"

queue_without_regression_check(w, c) ==
    IF c.target_tick <= w.tick_index THEN "stale_tick"
    ELSE IF c.entity_id \notin DOMAIN w.entities THEN "unknown_entity"
    ELSE IF c.sequence <= w.highest_sequence[c.entity_id]
         THEN "sequence_not_increasing"
    ELSE IF ~velocity_is_valid(c.velocity) THEN "velocity_out_of_range"
    ELSE "accepted"

queue_without_velocity_check(w, c) ==
    IF c.target_tick <= w.tick_index THEN "stale_tick"
    ELSE IF c.entity_id \notin DOMAIN w.entities THEN "unknown_entity"
    ELSE IF c.sequence <= w.highest_sequence[c.entity_id]
         THEN "sequence_not_increasing"
    ELSE IF c.target_tick < w.latest_target_tick[c.entity_id]
         THEN "target_tick_regression"
    ELSE "accepted"

queue_velocity_result(w, c) ==
    IF c.target_tick <= w.tick_index THEN "stale_tick"
    ELSE IF c.entity_id \notin DOMAIN w.entities THEN "unknown_entity"
    ELSE IF c.sequence <= w.highest_sequence[c.entity_id]
         THEN "sequence_not_increasing"
    ELSE IF c.target_tick < w.latest_target_tick[c.entity_id]
         THEN "target_tick_regression"
    ELSE IF ~velocity_is_valid(c.velocity) THEN "velocity_out_of_range"
    ELSE "accepted"

queue_velocity(w, c) ==
    IF queue_velocity_result(w, c) # "accepted"
    THEN w
    ELSE [w EXCEPT
            !.highest_sequence[c.entity_id] = c.sequence,
            !.latest_target_tick[c.entity_id] = c.target_tick,
            !.pending = sort(Append(@, c))]

-----------------------------------------------------------------------------
(* advance.  The loop over the pending commands walks the queue from the    *)
(* front and breaks at the first command of a later tick: Due is what it    *)
(* applies, the last command of an entity winning.                          *)

clock_overflows(w) ==
    \/ w.tick_index = UInt64Max
    \/ w.elapsed > Int64Max - TickDuration

Due(w) ==
    {i \in DOMAIN w.pending :
        \A j \in 1 .. i : w.pending[j].target_tick = w.tick_index + 1}

(* The loop reaches a command of the past, or of an entity that is missing  *)
(* (std::map::at throws out_of_range, which is a logic_error).              *)
LoopThrows(w) ==
    \/ \E i \in DOMAIN w.pending :
          /\ w.pending[i].target_tick < w.tick_index + 1
          /\ \A j \in 1 .. i - 1 : w.pending[j].target_tick = w.tick_index + 1
    \/ \E i \in Due(w) : w.pending[i].entity_id \notin DOMAIN w.entities

DueFor(w, e) == {i \in Due(w) : w.pending[i].entity_id = e}

Commanded(w, e) ==
    IF DueFor(w, e) = {}
    THEN w.entities[e]
    ELSE LET c == w.pending[Max(DueFor(w, e))]
         IN  [w.entities[e] EXCEPT !.velocity = c.velocity,
                                   !.last_sequence = c.sequence]

ScaledDisplacement(s, a) == s.velocity[a] * TickDuration + s.residual[a]

NextPosition(s, a) ==
    s.position[a] + TruncDiv(ScaledDisplacement(s, a), MicrosPerSecond)

(* integrate_axis throws when checked_add overflows or the limit is passed. *)
axis_overflows(s, a) ==
    \/ NextPosition(s, a) \notin Int64
    \/ ~within_symmetric_limit(NextPosition(s, a), MaxAbsPosition)

(* Mutant: the remainder is dropped at every tick.                          *)
integrate_drops_residual(s) ==
    [s EXCEPT !.position = [a \in Axis |-> NextPosition(s, a)],
              !.residual = [a \in Axis |-> 0]]

integrate(s) ==
    [s EXCEPT
        !.position = [a \in Axis |-> NextPosition(s, a)],
        !.residual = [a \in Axis |->
                        TruncRem(ScaledDisplacement(s, a), MicrosPerSecond)]]

advance_result(w) ==
    IF clock_overflows(w) THEN "overflow_error"
    ELSE IF LoopThrows(w) THEN "logic_error"
    ELSE IF \E e \in DOMAIN w.entities, a \in Axis :
                axis_overflows(Commanded(w, e), a) THEN "overflow_error"
    ELSE "advanced"

(* Everything is computed on copies and committed at the end: a throw       *)
(* leaves the world as it was.                                              *)
advance(w) ==
    IF advance_result(w) # "advanced"
    THEN w
    ELSE [w EXCEPT
            !.tick_index = @ + 1,
            !.elapsed = @ + TickDuration,
            !.entities = [e \in DOMAIN @ |-> integrate(Commanded(w, e))],
            !.pending = Keep(@, {i \in DOMAIN @ :
                                    @[i].target_tick # w.tick_index + 1})]

=============================================================================
