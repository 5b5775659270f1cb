--------------------------- MODULE WorldSchedule ---------------------------
(***************************************************************************)
(* The world as an implementation of CommandSchedule: the line of an entity *)
(* is what the shared, sorted queue holds for it, in the queue's order.     *)
(***************************************************************************)
EXTENDS World

Places(w, e) == {i \in DOMAIN w.pending : w.pending[i].entity_id = e}

Entry(c) ==
    [tick |-> c.target_tick, number |-> c.sequence, motion |-> c.velocity]

Line(w, e) ==
    LET mine == Keep(w.pending, Places(w, e))
    IN  [k \in DOMAIN mine |-> Entry(mine[k])]

InForce(w, e) ==
    [number |-> w.entities[e].last_sequence, motion |-> w.entities[e].velocity]

Schedule == INSTANCE CommandSchedule WITH
    Entities <- EntityIds,
    Ticks <- TargetTicks,
    Numbers <- SequenceNumbers,
    Motions <- Velocities,
    now <- world.tick_index,
    line <- [e \in DOMAIN world.entities |-> Line(world, e)],
    inForce <- [e \in DOMAIN world.entities |-> InForce(world, e)]

(* Seen per entity, the shared sorted vector of queue_velocity and advance  *)
(* (world.cpp:169-217, 224-294) behaves as one first-in-first-out line per  *)
(* entity.                                                                  *)
ImplementsSchedule == Schedule!Spec
=============================================================================
