--------------------------- MODULE EvidenceReplay ---------------------------
(***************************************************************************)
(* CommandEvidenceReplayer::replay (command_evidence_replay.cpp) as an      *)
(* operator, and the question what it establishes about a log: the log is   *)
(* one that CommandPipeline wrote for a single session, whose world nothing *)
(* but the submissions and the ticks changed: the case the interface of the *)
(* replayer, one session and one world, is made for.                        *)
(***************************************************************************)
EXTENDS CommandPipeline, SequencesExt

CONSTANTS
    Session,       \* the session object the investigator trusts
    InitialWorld,  \* the world the investigator trusts it started in
    Budgets        \* values of maximum_tick_advances that are tried

ASSUME ReplayAssumption ==
    /\ Session \in Sessions
    /\ IsWorld(InitialWorld)
    /\ Budgets \subseteq UInt64

-----------------------------------------------------------------------------
(* The loop of n advances; it stops at the first one that throws.           *)
AdvanceTimes(w, n) ==
    LET after[k \in Nat] ==
            IF k = 0 THEN [ok |-> TRUE, world |-> w]
            ELSE IF ~after[k - 1].ok THEN after[k - 1]
            ELSE [ok |-> advance_result(after[k - 1].world) = "advanced",
                  world |-> advance(after[k - 1].world)]
    IN  after[n]

tick_regressed(en, w) == en.observed_tick < w.tick_index

budget_off_by_one(required, budget, performed) ==
    required >= budget - performed
budget_exceeded(required, budget, performed) ==
    required > budget - performed

record_count_only(l, n, record) == Len(l.records) # n
record_differs(l, n, record) ==
    Len(l.records) # n \/ Last(l.records) # record

(* The body of the loop over the records, on the state of the replay so     *)
(* far; once the code is not "verified" the replay has returned.            *)
ReplayRecord(st, record, budget) ==
    LET en == record.entry
        required == en.observed_tick - st.world.tick_index
        moved == AdvanceTimes(st.world, required)
        st2 == [st EXCEPT !.world = moved.world,
                          !.performed_tick_advances = @ + required]
        resubmitted == submit(st2.session, st2.world, st2.log, en.envelope)
        st3 == [st2 EXCEPT !.session = resubmitted.session,
                           !.world = resubmitted.world,
                           !.log = resubmitted.log]
    IN  IF st.code # "verified" THEN st
        ELSE IF tick_regressed(en, st.world)
             THEN [st EXCEPT !.code = "observed_tick_regression"]
        ELSE IF budget_exceeded(required, budget,
                                st.performed_tick_advances)
             THEN [st EXCEPT !.code = "tick_advance_limit_exceeded"]
        ELSE IF ~moved.ok
             THEN [st EXCEPT !.code = "simulation_advance_failed",
                             !.world = moved.world]
        ELSE IF st.session.highest_accepted_sequence
                  # en.session_sequence_before
             THEN [st2 EXCEPT !.code = "session_state_mismatch"]
        ELSE IF Len(st2.world.pending) # en.pending_commands_before
             THEN [st2 EXCEPT !.code = "pending_command_count_mismatch"]
        ELSE IF fingerprint_world_state(st2.world)
                  # en.world_fingerprint_before
             THEN [st2 EXCEPT !.code = "world_state_mismatch"]
        ELSE IF record_differs(st3.log, st.processed_records + 1, record)
             THEN [st3 EXCEPT !.code = "submission_record_mismatch"]
        ELSE [st3 EXCEPT !.processed_records = @ + 1]

ReplayStart(session, w) ==
    [code |-> "verified", processed_records |-> 0, performed_tick_advances |-> 0,
     session |-> session, world |-> w, log |-> EmptyLog]

(* The state of the replay after each of the records.                       *)
Replaying(start, records, budget) ==
    LET after[k \in Nat] ==
            IF k = 0 THEN start ELSE ReplayRecord(after[k - 1], records[k], budget)
    IN  after

replay(session, w, records, trusted_head, budget) ==
    LET start == ReplayStart(session, w)
    IN  IF ~verify_command_evidence_chain(records, trusted_head)
        THEN [start EXCEPT !.code = "chain_verification_failed"]
        ELSE Replaying(start, records, budget)[Len(records)]

-----------------------------------------------------------------------------
(* The live run whose log is replayed.                                      *)

LiveInit ==
    /\ world = InitialWorld
    /\ sessions = [s \in Sessions |-> NewSession(s)]
    /\ log = EmptyLog
    /\ author = <<>>

LiveNext ==
    \/ \E cmd \in Envelopes : Submit(Session, cmd)
    \/ Advance

LiveSpec == LiveInit /\ [][LiveNext]_vars

Replayed(l, budget) ==
    replay(NewSession(Session), InitialWorld, l.records, l.head_digest, budget)

(* A tampered log whose chain was rebuilt over the altered entries.         *)
Rechaining(entries) ==
    LET after[k \in Nat] ==
            IF k = 0 THEN EmptyLog ELSE append(after[k - 1], entries[k])
    IN  after

Rechained(entries) == Rechaining(entries)[Len(entries)]

Entries == [i \in DOMAIN Records |-> Records[i].entry]

(* Other values for what the pipeline, not the client, put in an entry.     *)
Forgeries(en) ==
    (UNION {
      {[en EXCEPT !.observed_tick = t] : t \in 0 .. world.tick_index + 1},
      {[en EXCEPT !.session_sequence_before = n] : n \in 0 .. 2},
      {[en EXCEPT !.session_sequence_after = n] : n \in 0 .. 2},
      {[en EXCEPT !.pending_commands_before = n] : n \in 0 .. 2},
      {[en EXCEPT !.pending_commands_after = n] : n \in 0 .. 2},
      {[en EXCEPT !.rejection_code = QueueRejection[q], !.queue_outcome = q] :
          q \in DOMAIN QueueRejection},
      {[en EXCEPT !.rejection_code = "duplicate_sequence",
                  !.queue_outcome = "not_attempted"],
       [en EXCEPT !.world_fingerprint_before =
                      fingerprint_world_state(world)]}
    }) \ {en}

-----------------------------------------------------------------------------
(* Properties.                                                              *)

(* The replay r spent its budget, or rebuilt the run.                       *)
Reproduces(r, needed, budget) ==
    /\ r.performed_tick_advances <= budget
    /\ IF needed > budget THEN r.code = "tick_advance_limit_exceeded"
       ELSE /\ r.code = "verified"
            /\ r.processed_records = Len(Records)
            /\ r.session = sessions[Session]
            /\ r.log = log
            /\ AdvanceTimes(r.world, world.tick_index - r.world.tick_index)
                 = [ok |-> TRUE, world |-> world]

(* Replaying the log of the live run from the trusted initial state, with   *)
(* any budget of ticks: if the last observed tick is further away than the  *)
(* budget it is refused, after no more ticks than that; otherwise it        *)
(* verifies and rebuilds the live session, evidence and, after the ticks    *)
(* since the last submission, the live world.  Ticks that failed, and       *)
(* submissions that were refused, leave no trace that could mislead it.     *)
ReplayReproduces ==
    LET needed == IF Records = <<>> THEN 0
                  ELSE Last(Records).entry.observed_tick - InitialWorld.tick_index
    IN  \A budget \in Budgets \cup {UInt64Max} :
          Reproduces(Replayed(log, budget), needed, budget)

StoppedAt(r, i) == r.code # "verified" /\ r.processed_records = i - 1

(* A forged outcome in any one record is found even when the hash chain     *)
(* and the head were recomputed over it, and at that record: everything     *)
(* before it is still processed.                                            *)
ForgeryDetected ==
    \A i \in DOMAIN Records : \A en \in Forgeries(Entry(i)) :
        StoppedAt(Replayed(Rechained([Entries EXCEPT ![i] = en]), UInt64Max), i)
=============================================================================
