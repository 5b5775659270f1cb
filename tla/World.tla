------------------------------- MODULE World -------------------------------
(***************************************************************************)
(* One simulation world and the host that drives it: any sequence of        *)
(* add_entity, queue_velocity and advance calls.  `result' is what the last *)
(* call returned or threw.                                                  *)
(***************************************************************************)
EXTENDS WorldInvariant

CONSTANTS
    Positions,    \* positions a host may create an entity at
    Velocities,   \* velocities a host may ask for
    TargetTicks,  \* target ticks a command may carry
    SequenceNumbers \* sequence numbers a command may carry

ASSUME InputAssumption ==
    /\ Positions \subseteq Vector
    /\ Velocities \subseteq Vector
    /\ TargetTicks \subseteq UInt64
    /\ SequenceNumbers \subseteq UInt64

VARIABLES
    world,   \* the World object
    result   \* code of the last call

vars == <<world, result>>

Commands ==
    [target_tick : TargetTicks, entity_id : EntityIds,
     sequence : SequenceNumbers, velocity : Velocities]

ResultCodes ==
    {"none", "added", "duplicate_id", "position_out_of_range",
     "velocity_out_of_range", "accepted", "stale_tick", "unknown_entity",
     "sequence_not_increasing", "target_tick_regression",
     "advanced", "overflow_error", "logic_error"}

Init ==
    /\ world = NewWorld
    /\ result = "none"

AddEntity(e, p, v) ==
    /\ result' = add_entity_result(world, e, p, v)
    /\ world' = add_entity(world, e, p, v)

QueueVelocity(c) ==
    /\ result' = queue_velocity_result(world, c)
    /\ world' = queue_velocity(world, c)

Advance ==
    /\ result' = advance_result(world)
    /\ world' = advance(world)

Next ==
    \/ \E e \in EntityIds, p \in Positions, v \in Velocities :
          AddEntity(e, p, v)
    \/ \E c \in Commands : QueueVelocity(c)
    \/ Advance

Spec == Init /\ [][Next]_vars

(* The host keeps calling advance: the one thing a simulation loop owes.    *)
FairSpec == Spec /\ WF_vars(Advance)

-----------------------------------------------------------------------------
(* Invariants.                                                              *)

(* Every variable has its C++ type: indices are uint64, positions,          *)
(* velocities and residuals are int64, the maps are keyed by entities.      *)
TypeOK ==
    /\ IsWorld(world)
    /\ result \in ResultCodes

(* pending_commands_ is strictly sorted by command_order, so no two queued  *)
(* commands are equivalent for the unstable std::sort and the execution     *)
(* order does not depend on the order of insertion.                         *)
QueueOrdered == OrderedQueue(world.pending)

(* The std::logic_error of advance ("pending command became stale") and     *)
(* the std::out_of_range of its map lookups are unreachable.                *)
NoLogicError == ~LoopThrows(world)

(* The queued commands of an entity, the last one applied and the           *)
(* high-water marks agree: what is queued is newer than what was applied,   *)
(* not newer than the marks, and of two queued commands the one with the    *)
(* greater sequence number never executes first.                            *)
MarksBoundQueue == QueueInv(world) /\ SequenceInv(world)

(* No accepted command is lost: the newest sequence number accepted for an  *)
(* entity is either still queued or the one the entity last executed.       *)
NewestCommandKept == NewestInv(world)

(* No tick carries an entity past the position limit or leaves more than a  *)
(* millimetre of motion in its residual, the clock has advanced by whole    *)
(* ticks, and the three maps keyed by entity never fall apart.              *)
StateWithinLimits == MotionInv(world) /\ ClockInv(world) /\ SameKeys(world)

(* Whatever a host calls and in whatever order, also after calls that were  *)
(* refused or threw half-way: queue, marks, maps, positions and clock fit   *)
(* each other (world.cpp:95-294).  Each part relies on the others.          *)
Consistent ==
    /\ TypeOK
    /\ QueueOrdered
    /\ MarksBoundQueue
    /\ NewestCommandKept
    /\ StateWithinLimits

(* The multiplication and addition of integrate_axis stay inside int64 for  *)
(* the velocities the next tick will use: the bound the constructor derives *)
(* from the tick duration is enough, residual included.                     *)
IntegrationInRange ==
    \A e \in DOMAIN world.entities, a \in Axis :
        ScaledDisplacement(Commanded(world, e), a) \in Int64

-----------------------------------------------------------------------------
(* Action properties.                                                       *)

(* A tick moves every entity by exactly velocity * tick_duration: what the  *)
(* truncating division drops is carried in the residual, so that no         *)
(* distance is lost or invented over any number of ticks, in either         *)
(* direction.                                                               *)
ExactStep(e, a) ==
    LET s == world.entities[e]
        t == world'.entities[e]
    IN  /\ t.position[a] * MicrosPerSecond + t.residual[a]
             = s.position[a] * MicrosPerSecond + s.residual[a]
               + t.velocity[a] * TickDuration
        /\ within_symmetric_limit(t.residual[a], MicrosPerSecond - 1)

ExactMotion ==
    [][result' = "advanced" =>
         \A e \in DOMAIN world.entities, a \in Axis : ExactStep(e, a)]_vars

(* An entity that the next tick would carry over the position limit, and    *)
(* that already has a command queued for a later tick, stops the clock for  *)
(* good: target_tick_regression refuses every command that could turn it.   *)
Wedged(w) ==
    \E e \in DOMAIN w.entities, a \in Axis :
        /\ axis_overflows(Commanded(w, e), a)
        /\ w.latest_target_tick[e] > w.tick_index + 1

WedgeIsPermanent ==
    [][Wedged(world) =>
         Wedged(world') /\ world'.tick_index = world.tick_index]_vars

-----------------------------------------------------------------------------
(* Liveness.                                                                *)

(* The entities with an accepted command that has not been executed.        *)
Waiting ==
    {e \in DOMAIN world.entities :
        world.highest_sequence[e] # world.entities[e].last_sequence}

(* The newest command accepted for the entity is in the queue.              *)
NewestQueued(e) ==
    \E i \in DOMAIN world.pending :
        /\ world.pending[i].entity_id = e
        /\ world.pending[i].sequence = world.highest_sequence[e]

(* While the host keeps calling advance, every accepted command is executed *)
(* by its entity, or advance comes to fail, and then the command is still   *)
(* in the queue: the clock cannot pass a command and leave it behind        *)
(* (world.cpp:224-294).  New commands are finitely many here, since         *)
(* sequence numbers rise.                                                   *)
AcceptedIsExecuted ==
    Waiting # {} ~>
        \/ Waiting = {}
        \/ /\ advance_result(world) # "advanced"
           /\ \A e \in Waiting : NewestQueued(e)
=============================================================================
