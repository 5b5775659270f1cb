---------------------------- MODULE CanonicalState ----------------------------
(***************************************************************************)
(* encode_world_state as bytes.  Everything the world may do later depends  *)
(* on the fields listed here; the fingerprint of the evidence and of the    *)
(* replay sees the world only through them.                                 *)
(***************************************************************************)
EXTENDS World, SequencesExt

CONSTANTS ByteBase, U16Width, U32Width, U64Width, DigestWidth

C == INSTANCE EvidenceCodec

ASSUME CanonicalAssumption == UInt64Max = C!U64Max /\ Int64Max = C!I64Max

magic == <<84, 76, 87, 83>>
canonical_state_schema_version == 1

StatePrefix ==
    C!Bytes(magic)
      \o C!append_uint(canonical_state_schema_version, U16Width)
      \o C!append_uint(0, U16Width)

ClockLayout ==
    << C!U64("tick_index"), C!I64("elapsed"), C!I64("tick_duration"),
       C!I64("max_abs_position"), C!I64("max_abs_velocity") >>

EntityLayout ==
    << C!U64("id"), C!I64("position_x"), C!I64("position_y"),
       C!I64("velocity_x"), C!I64("velocity_y"), C!U64("last_sequence"),
       C!I64("residual_x"), C!I64("residual_y"),
       C!U64("highest_sequence"), C!U64("latest_target_tick") >>

CommandLayout ==
    << C!U64("target_tick"), C!U64("entity_id"), C!U64("sequence"),
       C!I64("velocity_x"), C!I64("velocity_y") >>

ClockPlaces == C!Places(ClockLayout)
EntityPlaces == C!Places(EntityLayout)
CommandPlaces == C!Places(CommandLayout)

(* A collection: how many there are, then each of them.                     *)
Collection(layout, items) ==
    FoldLeft(LAMBDA cells, r : cells \o C!Encode(layout, r),
             C!append_uint(Len(items), U64Width), items)

(* Mutant: the sequence that was executed last stands in for the mark.      *)
mark_executed(w, e) == w.entities[e].last_sequence

sequence_mark(w, e) == w.highest_sequence[e]

entity_fields(w, e) ==
    LET s == w.entities[e]
    IN  [id |-> e,
         position_x |-> s.position["x"], position_y |-> s.position["y"],
         velocity_x |-> s.velocity["x"], velocity_y |-> s.velocity["y"],
         last_sequence |-> s.last_sequence,
         residual_x |-> s.residual["x"], residual_y |-> s.residual["y"],
         highest_sequence |-> sequence_mark(w, e),
         latest_target_tick |-> w.latest_target_tick[e]]

command_fields(c) ==
    [target_tick |-> c.target_tick, entity_id |-> c.entity_id,
     sequence |-> c.sequence,
     velocity_x |-> c.velocity["x"], velocity_y |-> c.velocity["y"]]

(* std::map iterates in the order of the identifiers.                       *)
encode_world_state(w) ==
    LET ids == SetToSortSeq(DOMAIN w.entities, <)
    IN  StatePrefix
          \o C!Encode(ClockLayout,
               [tick_index |-> w.tick_index, elapsed |-> w.elapsed,
                tick_duration |-> TickDuration,
                max_abs_position |-> MaxAbsPosition,
                max_abs_velocity |-> MaxAbsVelocity])
          \o Collection(EntityLayout,
                        [i \in DOMAIN ids |-> entity_fields(w, ids[i])])
          \o Collection(CommandLayout,
                        [i \in DOMAIN w.pending |-> command_fields(w.pending[i])])

-----------------------------------------------------------------------------
(* A reader of canonical bytes.  The code has none: replay compares         *)
(* fingerprints of the bytes and takes for granted that there could be one. *)

Number(cells, at) == C!read_uint(SubSeq(cells, at + 1, at + U64Width))

(* The items of a collection that begins after the first `at' cells.        *)
Items(places, size, cells, at) ==
    LET first(i) == at + U64Width + (i - 1) * size + 1
    IN  [i \in 1 .. Number(cells, at) |->
            C!Decode(places, SubSeq(cells, first(i), first(i) + size - 1))]

EntitySize == C!SizeOf(EntityLayout)
CommandSize == C!SizeOf(CommandLayout)
EntitiesAt == Len(StatePrefix) + C!SizeOf(ClockLayout)

Vec(r, x, y) == [a \in Axis |-> IF a = "x" THEN r[x] ELSE r[y]]

WorldIn(cells) ==
    LET clock == C!Decode(ClockPlaces,
                          SubSeq(cells, Len(StatePrefix) + 1, EntitiesAt))
        entities == Items(EntityPlaces, EntitySize, cells, EntitiesAt)
        commandsAt == EntitiesAt + U64Width + Len(entities) * EntitySize
        commands == Items(CommandPlaces, CommandSize, cells, commandsAt)
        ids == {entities[i].id : i \in DOMAIN entities}
        item(e) == entities[CHOOSE i \in DOMAIN entities : entities[i].id = e]
    IN  [tick_index |-> clock.tick_index, elapsed |-> clock.elapsed,
         entities |-> [e \in ids |->
            [position |-> Vec(item(e), "position_x", "position_y"),
             velocity |-> Vec(item(e), "velocity_x", "velocity_y"),
             last_sequence |-> item(e).last_sequence,
             residual |-> Vec(item(e), "residual_x", "residual_y")]],
         highest_sequence |-> [e \in ids |-> item(e).highest_sequence],
         latest_target_tick |-> [e \in ids |-> item(e).latest_target_tick],
         pending |-> [i \in DOMAIN commands |->
            [target_tick |-> commands[i].target_tick,
             entity_id |-> commands[i].entity_id,
             sequence |-> commands[i].sequence,
             velocity |-> Vec(commands[i], "velocity_x", "velocity_y")]]]

(* The canonical bytes determine the world, hidden state included: the      *)
(* residuals, the high-water marks and the queue.  Two worlds with the same *)
(* bytes therefore behave the same for ever, which the comparison of        *)
(* fingerprints in replay takes for granted (canonical_state.cpp:64-119).   *)
BytesDetermineWorld == WorldIn(encode_world_state(world)) = world
=============================================================================
