----------------------------- MODULE BundleModel -----------------------------
(***************************************************************************)
(* export_investigation_bundle_json as a function of what its statements    *)
(* read, and the two validators that read a bundle: that of the Python      *)
(* tools and that of the Unity viewer.  The JSON text is left out; numbers  *)
(* keep the range the exporter and the readers check.                       *)
(***************************************************************************)
EXTENDS InvestigationModel

CONSTANTS
    ZeroDigest,  \* security::Sha256Digest{}
    JsonIntMax   \* std::numeric_limits<int>::max(), _MAX_JSON_INTEGER

ASSUME BundleAssumption == JsonIntMax \in Nat

-----------------------------------------------------------------------------
(* The exporter.                                                            *)

record_was_accepted(r) ==
    /\ r.entry.rejection_code = "none"
    /\ r.entry.queue_outcome = "accepted"

rejection_name(r) ==
    IF r.entry.rejection_code # "none" THEN r.entry.rejection_code
    ELSE IF r.entry.queue_outcome # "accepted" THEN r.entry.queue_outcome
    ELSE "none"

json_integer(n) == n <= JsonIntMax

initial_head(evidence) ==
    IF evidence = <<>> THEN ZeroDigest
    ELSE Head(evidence).record.previous_record_digest

(* SessionProjection of every identity: the values of its first and of its  *)
(* last record.                                                             *)
projections(evidence) ==
    [k \in {SessionKey(evidence[i].record) : i \in DOMAIN evidence} |->
        LET mine == SelectSeq(evidence, LAMBDA e : SessionKey(e.record) = k)
        IN  [first_target_tick |-> Head(mine).record.entry.envelope.target_tick,
             last_target_tick |-> Last(mine).record.entry.envelope.target_tick,
             last_committed_sequence |->
                 Last(mine).record.entry.session_sequence_after]]

accepted_count(evidence) ==
    Len(SelectSeq(evidence, LAMBDA e : record_was_accepted(e.record)))

rejected_count(evidence) == Len(evidence) - accepted_count(evidence)

(* load_all_evidence's check of the pages it appends.                       *)
ordinals_increase(evidence) ==
    \A i \in 2 .. Len(evidence) :
        evidence[i - 1].record.ordinal < evidence[i].record.ordinal

(* The loop over the records: the first one that fails a check decides.     *)
evidence_error(evidence) ==
    LET expected(i) == IF i = 1 THEN initial_head(evidence)
                       ELSE evidence[i - 1].record_digest
        linked(i) == evidence[i].record.previous_record_digest = expected(i)
        bad == {i \in DOMAIN evidence :
                   ~json_integer(evidence[i].record.ordinal) \/ ~linked(i)}
    IN  IF bad = {} THEN "none"
        ELSE LET i == CHOOSE i \in bad : \A j \in bad : i <= j
             IN  IF ~json_integer(evidence[i].record.ordinal)
                 THEN "json_integer_out_of_range"
                 ELSE "evidence_chain_mismatch"

heads_unchecked(archive, evidence) == TRUE  \* mutant

heads_match(archive, evidence) ==
    /\ archive.declared_head = IF evidence = <<>> THEN initial_head(evidence)
                               ELSE Last(evidence).record_digest
    /\ archive.trusted_head = archive.declared_head

Sum(s, value(_)) == FoldLeft(LAMBDA total, x : total + value(x), 0, s)

sessions_error(evidence, sessions) ==
    LET known(i) == <<sessions[i].client_id, sessions[i].session_id>>
                      \in DOMAIN projections(evidence)
        in_range(i) == /\ json_integer(sessions[i].accepted_count)
                       /\ json_integer(sessions[i].rejected_count)
        bad == {i \in DOMAIN sessions : ~known(i) \/ ~in_range(i)}
    IN  IF Len(sessions) # Cardinality(DOMAIN projections(evidence))
        THEN "session_summary_mismatch"
        ELSE IF bad # {}
        THEN LET i == CHOOSE i \in bad : \A j \in bad : i <= j
             IN  IF ~known(i) THEN "session_summary_mismatch"
                 ELSE "json_integer_out_of_range"
        ELSE IF \/ Sum(sessions, LAMBDA s : s.accepted_count)
                     # accepted_count(evidence)
                \/ Sum(sessions, LAMBDA s : s.rejected_count)
                     # rejected_count(evidence)
        THEN "session_summary_mismatch"
        ELSE IF \/ ~json_integer(accepted_count(evidence))
                \/ ~json_integer(rejected_count(evidence))
        THEN "json_integer_out_of_range"
        ELSE "none"

(* The checks made before the session summaries are read.                   *)
records_error(archive, evidence) ==
    IF Len(evidence) # archive.record_count THEN "evidence_count_mismatch"
    ELSE IF evidence_error(evidence) # "none" THEN evidence_error(evidence)
    ELSE IF ~heads_match(archive, evidence) THEN "evidence_chain_mismatch"
    ELSE "none"

export_error(archive, evidence, sessions) ==
    IF records_error(archive, evidence) # "none"
    THEN records_error(archive, evidence)
    ELSE sessions_error(evidence, sessions)

bundle_session(s, projection) ==
    [client_id |-> s.client_id, session_id |-> s.session_id,
     last_committed_sequence |-> projection.last_committed_sequence,
     first_target_tick |-> projection.first_target_tick,
     last_target_tick |-> projection.last_target_tick,
     accepted_commands |-> s.accepted_count,
     rejected_commands |-> s.rejected_count]

bundle_evidence(e) ==
    LET envelope == e.record.entry.envelope
    IN  [ordinal |-> e.record.ordinal,
         client_id |-> envelope.client_id, session_id |-> envelope.session_id,
         session_sequence |-> envelope.sequence,
         target_tick |-> envelope.target_tick,
         outcome |-> IF record_was_accepted(e.record) THEN "accepted"
                     ELSE "rejected",
         rejection_code |-> rejection_name(e.record),
         previous_digest |-> e.record.previous_record_digest,
         record_digest |-> e.record_digest]

export_bundle(archive, replay, evidence, sessions) ==
    [archive_digest |-> archive.archive_digest,
     initial_head |-> initial_head(evidence),
     trusted_head |-> archive.trusted_head,
     sessions |-> [i \in DOMAIN sessions |->
        bundle_session(sessions[i],
            projections(evidence)[<<sessions[i].client_id,
                                    sessions[i].session_id>>])],
     evidence |-> [i \in DOMAIN evidence |-> bundle_evidence(evidence[i])],
     replay |-> [verified |-> replay.code = "verified",
                 final_tick |-> replay.final_tick,
                 accepted_commands |-> accepted_count(evidence),
                 rejected_commands |-> rejected_count(evidence)]]

-----------------------------------------------------------------------------
(* What both validators ask of a bundle.                                    *)

Key(x) == <<x.client_id, x.session_id>>

Outcomes(evidence, outcome) ==
    SelectSeq(evidence, LAMBDA e : e.outcome = outcome)

chain_is_continuous(b) ==
    LET expected(i) == IF i = 0 THEN b.initial_head
                       ELSE b.evidence[i].record_digest
    IN  /\ \A i \in DOMAIN b.evidence :
              b.evidence[i].previous_digest = expected(i - 1)
        /\ b.trusted_head = expected(Len(b.evidence))

replay_counts_match(b) ==
    /\ b.replay.accepted_commands = Len(Outcomes(b.evidence, "accepted"))
    /\ b.replay.rejected_commands = Len(Outcomes(b.evidence, "rejected"))

structure_is_valid(b) ==
    /\ \A i, j \in DOMAIN b.sessions :
          i # j => Key(b.sessions[i]) # Key(b.sessions[j])
    /\ \A i \in DOMAIN b.evidence :
          /\ b.evidence[i].ordinal = i - 1
          /\ b.evidence[i].outcome \in {"accepted", "rejected"}
          /\ \E j \in DOMAIN b.sessions :
                Key(b.evidence[i]) = Key(b.sessions[j])
    /\ chain_is_continuous(b)
    /\ replay_counts_match(b)

(* InvestigationBundleValidator.Validate of the viewer finds nothing.       *)
unity_accepts(b) == structure_is_valid(b)

(* What _validate_consistency of the Python tools asks on top of it; it     *)
(* raises at the first rule that fails, so a bundle is accepted if and only *)
(* if none does.                                                            *)

python_digests_unique(b) ==
    \A i, j \in DOMAIN b.evidence :
        i # j => b.evidence[i].record_digest # b.evidence[j].record_digest

python_codes_consistent(b) ==
    \A i \in DOMAIN b.evidence :
        b.evidence[i].outcome = "accepted"
          <=> b.evidence[i].rejection_code = "none"

python_final_tick(b) ==
    \A i \in DOMAIN b.evidence :
        b.evidence[i].target_tick <= b.replay.final_tick

EvidenceOf(b, s) ==
    {b.evidence[i] : i \in {j \in DOMAIN b.evidence :
                               Key(b.evidence[j]) = Key(s)}}

python_session_counts(b) ==
    \A i \in DOMAIN b.sessions :
        LET mine == SelectSeq(b.evidence, LAMBDA e : Key(e) = Key(b.sessions[i]))
        IN  /\ b.sessions[i].accepted_commands = Len(Outcomes(mine, "accepted"))
            /\ b.sessions[i].rejected_commands = Len(Outcomes(mine, "rejected"))

python_committed_sequence(b) ==
    \A i \in DOMAIN b.sessions :
        b.sessions[i].last_committed_sequence
          = Max({0} \cup {e.session_sequence : e \in
                    {e \in EvidenceOf(b, b.sessions[i]) : e.outcome = "accepted"}})

python_target_ticks(b) ==
    \A i \in DOMAIN b.sessions :
        LET ticks == {e.target_tick : e \in EvidenceOf(b, b.sessions[i])}
        IN  ticks # {} =>
              /\ b.sessions[i].first_target_tick = Min(ticks)
              /\ b.sessions[i].last_target_tick = Max(ticks)
=============================================================================
