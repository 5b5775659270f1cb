--------------------------- MODULE WorldInvariant ---------------------------
(***************************************************************************)
(* What holds of every world that add_entity, queue_velocity and advance    *)
(* can produce, as predicates on a world value.  WorldInv is inductive: it  *)
(* is the invariant the proofs of World and CommandPipeline rest on.        *)
(***************************************************************************)
EXTENDS WorldModel

(* The commands of the queue, without their places.                         *)
Queued(w) == {w.pending[k] : k \in DOMAIN w.pending}

(* The vector is strictly sorted by command_order.                          *)
OrderedQueue(q) ==
    \A i, j \in DOMAIN q : i < j => command_order(q[i], q[j])

(* The three maps have the same keys, so that no at() of the code throws.   *)
SameKeys(w) ==
    /\ DOMAIN w.highest_sequence = DOMAIN w.entities
    /\ DOMAIN w.latest_target_tick = DOMAIN w.entities

ClockInv(w) == w.elapsed = w.tick_index * TickDuration

(* An entity is inside the limits, its residual less than a millimetre.     *)
MotionInv(w) ==
    \A e \in DOMAIN w.entities :
        /\ position_is_valid(w.entities[e].position)
        /\ velocity_is_valid(w.entities[e].velocity)
        /\ \A a \in Axis : within_symmetric_limit(w.entities[e].residual[a],
                                                  MicrosPerSecond - 1)

(* A queued command belongs to an entity, is newer than what the entity     *)
(* last executed, lies in the future and below the high-water marks.        *)
CommandInv(w, c) ==
    /\ c.entity_id \in DOMAIN w.entities
    /\ velocity_is_valid(c.velocity)
    /\ w.entities[c.entity_id].last_sequence < c.sequence
    /\ c.sequence <= w.highest_sequence[c.entity_id]
    /\ w.tick_index < c.target_tick
    /\ c.target_tick <= w.latest_target_tick[c.entity_id]

QueueInv(w) == \A i \in DOMAIN w.pending : CommandInv(w, w.pending[i])

(* Of two queued commands of an entity, the one with the greater sequence   *)
(* number never executes first, and no two have the same number.            *)
SequenceInv(w) ==
    \A i, j \in DOMAIN w.pending :
        /\ w.pending[i].entity_id = w.pending[j].entity_id
        /\ w.pending[i].sequence <= w.pending[j].sequence
        => w.pending[i].target_tick <= w.pending[j].target_tick

(* The newest accepted command of an entity is queued or was executed.      *)
NewestInv(w) ==
    \A e \in DOMAIN w.entities :
        \/ w.entities[e].last_sequence = w.highest_sequence[e]
        \/ \E i \in DOMAIN w.pending :
              /\ w.pending[i].entity_id = e
              /\ w.pending[i].sequence = w.highest_sequence[e]

WorldInv(w) ==
    /\ IsWorld(w)
    /\ SameKeys(w)
    /\ ClockInv(w)
    /\ MotionInv(w)
    /\ OrderedQueue(w.pending)
    /\ QueueInv(w)
    /\ SequenceInv(w)
    /\ NewestInv(w)
=============================================================================
