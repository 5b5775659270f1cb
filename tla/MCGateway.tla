------------------------------ MODULE MCGateway ------------------------------
(***************************************************************************)
(* The gateway and the pipeline for TLC: two session objects with the same  *)
(* identity (a client that reconnected), or those of two clients, share the *)
(* entities, and frames of both clients arrive with every kind of damage.   *)
(***************************************************************************)
EXTENDS Gateway, TLC

CONSTANTS original, reconnected, other  \* session objects

V(x, y) == [a \in Axis |-> IF a = "x" THEN x ELSE y]

MCIdentity ==
    [s \in Sessions |-> IF s = other
                        THEN [client_id |-> 2, session_id |-> 2]
                        ELSE [client_id |-> 1, session_id |-> 1]]

Env(id, n, t, e, v) ==
    [schema_version |-> "v1", type |-> "set_velocity",
     client_id |-> id, session_id |-> id, sequence |-> n,
     target_tick |-> t, entity_id |-> e, velocity |-> v]

(* The two objects of the reconnected client are interchangeable.           *)
SessionSymmetry == Permutations({original, reconnected})

MCPositions == {V(0, 0)}
MCVelocities == {V(0, 0)}

(* Well-formed envelopes for the two objects of the reconnected client: they *)
(* compete for entity 1, and can repeat a number on another entity.         *)
Reconnecting ==
    {Env(1, 1, 2, 1, V(1, 0)), Env(1, 2, 1, 1, V(0, 0)),
     Env(1, 2, 2, 1, V(-1, 1)), Env(1, 2, 2, 2, V(-1, 0))}

(* One envelope for each check of the validator, and one the world refuses  *)
(* because its own velocity limit is lower than that of the policy.         *)
Malformed ==
    LET ok == Env(1, 1, 1, 1, V(1, 0))
    IN  {[ok EXCEPT !.schema_version = "other"], [ok EXCEPT !.type = "other"],
         [ok EXCEPT !.client_id = 0], [ok EXCEPT !.session_id = 0],
         [ok EXCEPT !.session_id = 2], [ok EXCEPT !.sequence = 0],
         [ok EXCEPT !.target_tick = 3], [ok EXCEPT !.velocity = V(0, 3)],
         [ok EXCEPT !.velocity = V(2, 0)]}

Mixed == Malformed \cup {Env(1, 1, 1, 1, V(1, 0)), Env(2, 2, 2, 1, V(-1, 1))}

(* Negative velocities, the ends of int64, and two bytes in a number.       *)
OnWire ==
    {Env(1, 2, 2, 1, V(-1, 1)),
     Env(2, 258, 2, 1, V(-1, -1)), Env(1, 3, 1, 1, V(-32768, 32767)),
     [Env(1, 65535, 1, 1, V(1, 0)) EXCEPT !.type = "other"]}

MCEnvelopes == Reconnecting \cup Mixed \cup OnWire

MCWorkloads ==
    {[sessions |-> {original, reconnected}, entities |-> {1, 2},
      envelopes |-> Reconnecting, damaged |-> {}, records |-> 3],
     [sessions |-> {original, other}, entities |-> {1, 2},
      envelopes |-> Mixed, damaged |-> {}, records |-> 2],
     [sessions |-> {original, other}, entities |-> {1},
      envelopes |-> OnWire, damaged |-> OnWire, records |-> 2]}

Shortened(frame, n) == SubSeq(frame, 1, n)

EntityIdCells ==
    LET start == C!frame_header_size + 2 * U16Width + 4 * U64Width
    IN  start + 1 .. start + U64Width

(* Cut inside the header, at its end, and inside the payload; followed by   *)
(* the next frame; any byte of the header changed; without an entity; and   *)
(* with a payload of another size in a header that fits it.                 *)
MCDamaged(frame) ==
    {Shortened(frame, n) :
        n \in {0, C!frame_header_size - 1, C!frame_header_size, Len(frame) - 1}}
      \cup {frame \o frame, Append(frame, <<0>>)}
      \cup {[frame EXCEPT ![i] = <<(@[1] + 1) % ByteBase>>] :
                i \in 1 .. C!frame_header_size}
      \cup {[i \in DOMAIN frame |-> IF i \in EntityIdCells THEN <<0>>
                                    ELSE frame[i]]}
      \cup {C!Framed(Shortened(frame, C!frame_header_size))}
=============================================================================
