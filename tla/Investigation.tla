---------------------------- MODULE Investigation ----------------------------
(***************************************************************************)
(* From the live run to the analyst: the evidence of the pipeline is        *)
(* imported, replayed and exported, and the bundle is read by the Unity     *)
(* viewer and the Python tools.  Every state of the live run is a log that  *)
(* may be investigated; the store's statements are InvestigationModel's.    *)
(***************************************************************************)
EXTENDS EvidenceReplay

CONSTANTS
    ByteBase, U64Width, QueryLimit, JsonIntMax,
    PageSizes,   \* limits that queries are made with
    Filters      \* fields of EvidenceQuery that are set

Store == INSTANCE BundleModel WITH
    digest <- digest_command_evidence,
    archive_digest <- LAMBDA archive : archive.head_digest,
    ZeroDigest <- InitialDigest

(* The database after the archive of the log was imported.                  *)
Database ==
    Store!import_all(Store!EmptyDatabase, 1,
        [archive |-> log, trusted_head |-> log.head_digest, source |-> "live"])

(* What record_replay_result stores of the replay of the log.               *)
ResultOf(r) ==
    [code |-> r.code, final_tick |-> r.world.tick_index]

ReplayResult == ResultOf(Replayed(log, UInt64Max))

(* A caller that asks for page after page, as load_all_evidence does.       *)
AllPages(db, query, limit) ==
    LET after(got) == IF got = <<>> THEN query.after_ordinal
                      ELSE {Last(got).record.ordinal}
        loaded[n \in 0 .. Len(Records)] ==
            IF n = 0 THEN <<>>
            ELSE loaded[n - 1] \o
                   Store!query_evidence(db, 1,
                       [query EXCEPT !.after_ordinal = after(loaded[n - 1])],
                       limit)
    IN  loaded[Len(Records)]

Export(archive, result, evidence, summaries) ==
    [error |-> Store!export_error(archive, evidence, summaries),
     bundle |-> Store!export_bundle(archive, result, evidence, summaries)]

ExportOf(db) ==
    Export(db.archives[1], ReplayResult, AllPages(db, Store!NoFilter, QueryLimit),
           Store!list_sessions(db, 1))

Exported == ExportOf(Database)

-----------------------------------------------------------------------------
(* Properties.                                                              *)

(* The summary of a session spans its records: the ordinals and ticks are   *)
(* the least and the greatest of them, although the import only keeps those *)
(* of the first and of the last record it meets.                            *)
SummariesExact ==
    \A s \in Range(Store!list_sessions(Database, 1)) :
        LET mine == {r \in Range(Records) :
                        Store!SessionKey(r) = <<s.client_id, s.session_id>>}
            ordinals == {r.ordinal : r \in mine}
            ticks == {r.entry.observed_tick : r \in mine}
        IN  /\ s.first_ordinal = Min(ordinals)
            /\ s.last_ordinal = Max(ordinals)
            /\ s.first_observed_tick = Min(ticks)
            /\ s.last_observed_tick = Max(ticks)
            /\ s.accepted_count + s.rejected_count = Cardinality(mine)

(* Whatever the clients sent, the log of an honest run exports without an   *)
(* error and with exact summaries, the Unity viewer accepts the bundle, and *)
(* of the Python tools' consistency rules those on digests, outcomes and    *)
(* counts hold.                                                             *)
Accepted(bundle) ==
    /\ Store!unity_accepts(bundle)
    /\ Store!python_digests_unique(bundle)
    /\ Store!python_codes_consistent(bundle)
    /\ Store!python_session_counts(bundle)
    /\ bundle.replay.verified

BundleAccepted ==
    /\ SummariesExact
    /\ \E export \in {Exported} :
          export.error = "none" /\ Accepted(export.bundle)

(* Filters compared as unsigned integers.                                   *)
Matches(q, r) ==
    /\ \A c \in q.client_id : r.entry.envelope.client_id = c
    /\ \A s \in q.session_id : r.entry.envelope.session_id = s
    /\ \A c \in q.rejection_code : r.entry.rejection_code = c
    /\ \A o \in q.queue_outcome : r.entry.queue_outcome = o
    /\ \A t \in q.minimum_observed_tick : t <= r.entry.observed_tick
    /\ \A t \in q.maximum_observed_tick : r.entry.observed_tick <= t
    /\ \A n \in q.after_ordinal : n < r.ordinal

(* A query answered in pages of any size returns exactly the records that   *)
(* match its filters, in the order of the log and each with its digest,     *)
(* although SQLite compares numbers as blobs.                               *)
QueryExact ==
    LET db == Database
        stored(r) == [record_digest |-> digest_command_evidence(r), record |-> r]
    IN  \A q \in Filters, limit \in PageSizes :
          Store!query_is_valid(q, limit) =>
            LET matching == SelectSeq(Records, LAMBDA r : Matches(q, r))
            IN  AllPages(db, q, limit)
                  = [i \in DOMAIN matching |-> stored(matching[i])]

(* What the Python tools ask of the bundle on top of it: that the replay     *)
(* ends at or after every target tick, that a session's first and last      *)
(* target tick are the least and the greatest of its records, and that its  *)
(* last committed sequence is the greatest accepted for it.  The code does  *)
(* not promise any of the three.                                            *)
PythonAcceptsBundle ==
    \E bundle \in {Exported.bundle} :
        /\ Store!python_final_tick(bundle)
        /\ Store!python_target_ticks(bundle)
        /\ Store!python_committed_sequence(bundle)
=============================================================================
