---------------------------- MODULE CommandModel ----------------------------
(***************************************************************************)
(* The authoritative command path as operations on values: the validator,   *)
(* the session with its replay protection, the evidence log with its hash   *)
(* chain, and AuthoritativeCommandPipeline::submit, which composes them     *)
(* with a world.                                                            *)
(***************************************************************************)
EXTENDS WorldModel

CONSTANTS
    MaximumFutureTicks,  \* CommandValidationPolicy::maximum_future_ticks
    MaxCommandVelocity,  \* CommandValidationPolicy::max_abs_velocity
    MaxRecords           \* records_.max_size() of the evidence log

(* The checks of the CommandValidator constructor.                          *)
ASSUME PolicyAssumption ==
    /\ MaximumFutureTicks \in UInt64 \ {0}
    /\ MaxCommandVelocity \in Int64
    /\ MaxCommandVelocity > 0
    /\ MaxRecords \in UInt64

(* Client and session identifiers are uint64; zero is not valid.            *)
CommandSession ==
    [client_id : UInt64 \ {0}, session_id : UInt64 \ {0},
     highest_accepted_sequence : UInt64]

(* Of the schema version and the type only the supported value matters.     *)
CommandEnvelope ==
    [schema_version : {"v1", "other"}, type : {"set_velocity", "other"},
     client_id : UInt64, session_id : UInt64, sequence : UInt64,
     target_tick : UInt64, entity_id : EntityIds, velocity : Vector]

-----------------------------------------------------------------------------
(* CommandValidator::validate, first failing check first.                   *)

command_velocity_x_only(v) ==  \* mutant: the y axis is forgotten
    within_symmetric_limit(v["x"], MaxCommandVelocity)

command_velocity_is_valid(v) ==
    \A a \in Axis : within_symmetric_limit(v[a], MaxCommandVelocity)

validate(cmd, s, tick) ==
    IF cmd.schema_version # "v1" THEN "unsupported_schema_version"
    ELSE IF cmd.type # "set_velocity" THEN "unsupported_command_type"
    ELSE IF cmd.client_id = 0 THEN "invalid_client_id"
    ELSE IF cmd.session_id = 0 THEN "invalid_session_id"
    ELSE IF cmd.client_id # s.client_id THEN "client_identity_mismatch"
    ELSE IF cmd.session_id # s.session_id THEN "session_identity_mismatch"
    ELSE IF cmd.sequence = 0 THEN "sequence_zero"
    ELSE IF cmd.target_tick <= tick THEN "stale_target_tick"
    ELSE IF cmd.target_tick - tick > MaximumFutureTicks
         THEN "target_tick_too_far_future"
    ELSE IF ~command_velocity_is_valid(cmd.velocity)
         THEN "velocity_out_of_range"
    ELSE "none"

(* CommandSession::evaluate: validation, then the session's own replay      *)
(* check.  It does not change the session.                                  *)
evaluate(cmd, s, tick) ==
    IF validate(cmd, s, tick) # "none" THEN validate(cmd, s, tick)
    ELSE IF cmd.sequence = s.highest_accepted_sequence
         THEN "duplicate_sequence"
    ELSE IF cmd.sequence < s.highest_accepted_sequence
         THEN "sequence_regression"
    ELSE "none"

translate(cmd) ==
    [target_tick |-> cmd.target_tick, entity_id |-> cmd.entity_id,
     sequence |-> cmd.sequence, velocity |-> cmd.velocity]

commit_accepted_sequence(s, n) ==
    [s EXCEPT !.highest_accepted_sequence = n]

QueueRejection ==
    [accepted |-> "none", stale_tick |-> "stale_target_tick",
     unknown_entity |-> "unknown_entity",
     sequence_not_increasing |-> "entity_sequence_not_increasing",
     target_tick_regression |-> "target_tick_regression",
     velocity_out_of_range |-> "velocity_out_of_range"]

command_rejection_from_queue_result(q) == QueueRejection[q]

-----------------------------------------------------------------------------
(* Evidence.  SHA-256 and FNV-1a are modelled as free of collisions: a      *)
(* digest is a term that holds what was hashed.                             *)

encode_world_state(w) ==
    <<w.tick_index, w.elapsed, TickDuration, MaxAbsPosition, MaxAbsVelocity,
      [e \in DOMAIN w.entities |->
          <<w.entities[e], w.highest_sequence[e], w.latest_target_tick[e]>>],
      w.pending>>

fingerprint_world_state(w) == [fnv1a |-> encode_world_state(w)]

InitialDigest == [sha256 |-> <<>>]

digest_command_evidence(r) == [sha256 |-> <<r>>]

EmptyLog == [records |-> <<>>, head_digest |-> InitialDigest]

(* CommandEvidenceLog::prepare_append throws length_error.                  *)
log_is_full(log) == Len(log.records) = MaxRecords

(* CommandEvidenceLog::append.                                              *)
append(log, entry) ==
    LET record == [ordinal |-> Len(log.records),
                   previous_record_digest |-> log.head_digest,
                   entry |-> entry]
    IN  [records |-> Append(log.records, record),
         head_digest |-> digest_command_evidence(record)]

verify_command_evidence_chain(records, expected_head) ==
    LET previous(i) == IF i = 0 THEN InitialDigest
                       ELSE digest_command_evidence(records[i])
    IN  /\ \A i \in DOMAIN records :
              /\ records[i].ordinal = i - 1
              /\ records[i].previous_record_digest = previous(i - 1)
        /\ previous(Len(records)) = expected_head

(* What decode_command_evidence demands of the fields of a record.          *)
validate_record_invariants(r) ==
    LET en == r.entry
        accepted == en.rejection_code = "none"
    IN  /\ accepted <=> en.queue_outcome = "accepted"
        /\ en.queue_outcome # "not_attempted" =>
              en.rejection_code
                = command_rejection_from_queue_result(en.queue_outcome)
        /\ accepted =>
              /\ en.session_sequence_after = en.envelope.sequence
              /\ en.session_sequence_after > en.session_sequence_before
              /\ en.pending_commands_before # UInt64Max
              /\ en.pending_commands_after = en.pending_commands_before + 1
        /\ ~accepted =>
              /\ en.session_sequence_after = en.session_sequence_before
              /\ en.pending_commands_after = en.pending_commands_before

-----------------------------------------------------------------------------
(* AuthoritativeCommandPipeline::submit.  The result holds the session, the *)
(* world and the log after the call and the code it returns; prepare_append *)
(* throws length_error before anything is touched.                          *)

submit(s, w, log, cmd) ==
    LET admission == evaluate(cmd, s, w.tick_index)
        queued == queue_velocity_result(w, translate(cmd))
        outcome == IF admission # "none" THEN "not_attempted" ELSE queued
        code == IF admission # "none" THEN admission
                ELSE command_rejection_from_queue_result(queued)
        w2 == IF admission # "none" THEN w
              ELSE queue_velocity(w, translate(cmd))
        s2 == IF code = "none" THEN commit_accepted_sequence(s, cmd.sequence)
              ELSE s
        entry == [world_fingerprint_before |-> fingerprint_world_state(w),
                  observed_tick |-> w.tick_index,
                  envelope |-> cmd,
                  session_sequence_before |-> s.highest_accepted_sequence,
                  session_sequence_after |-> s2.highest_accepted_sequence,
                  pending_commands_before |-> Len(w.pending),
                  pending_commands_after |-> Len(w2.pending),
                  rejection_code |-> code,
                  queue_outcome |-> outcome]
    IN  IF log_is_full(log)
        THEN [session |-> s, world |-> w, log |-> log, code |-> "length_error"]
        ELSE [session |-> s2, world |-> w2, log |-> append(log, entry),
              code |-> code]
=============================================================================
