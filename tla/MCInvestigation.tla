--------------------------- MODULE MCInvestigation ---------------------------
(***************************************************************************)
(* Investigation for TLC: one session and two entities, one of which runs   *)
(* into the position limit, so that some ticks of the live run fail; the    *)
(* commands are accepted, refused by the session, refused by the world or   *)
(* addressed to another identity.                                           *)
(***************************************************************************)
EXTENDS Investigation

V(x, y) == [a \in Axis |-> IF a = "x" THEN x ELSE y]

MCIdentity == [s \in Sessions |-> [client_id |-> 5, session_id |-> 1]]

MCPopulation ==
    [e \in {1, 2} |-> [position |-> V(2 * (e - 1), 0), velocity |-> V(0, 0)]]

MCInitialWorld ==
    FoldLeft(LAMBDA w, e : add_entity(w, e, MCPopulation[e].position,
                                            MCPopulation[e].velocity),
             NewWorld, <<1, 2>>)

Env(client, n, t, e, v) ==
    [schema_version |-> "v1", type |-> "set_velocity",
     client_id |-> client, session_id |-> 1, sequence |-> n,
     target_tick |-> t, entity_id |-> e, velocity |-> v]

MCEnvelopes ==
    {Env(5, 1, 1, 1, V(1, 0)), Env(5, 2, 2, 2, V(2, 0)),
     Env(5, 2, 3, 1, V(-1, 2)), Env(5, 3, 4, 1, V(0, 0)),
     Env(5, 3, 2, 3, V(0, 0)), Env(2, 1, 3, 1, V(0, 0))}

NoVectors == {}

MCFilters ==
    LET all == Store!NoFilter
        ticks == 0 .. 4
    IN  UNION {
          {all},
          {[all EXCEPT !.client_id = {c}] : c \in {2, 5}},
          {[all EXCEPT !.rejection_code = {code}, !.session_id = {1}] :
              code \in {"none", "identity_mismatch", "unknown_entity"}},
          {[all EXCEPT !.queue_outcome = {o}, !.after_ordinal = {0}] :
              o \in {"accepted", "not_attempted"}},
          {[all EXCEPT !.minimum_observed_tick = {low},
                       !.maximum_observed_tick = {high}] :
              low \in ticks, high \in ticks}}
=============================================================================
