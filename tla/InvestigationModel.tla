------------------------- MODULE InvestigationModel -------------------------
(***************************************************************************)
(* The investigation database as a value, and the SQL statements of         *)
(* InvestigationStore as operators on it.  A table with a rowid is a        *)
(* sequence (no statement deletes, so the next rowid is the next index),    *)
(* the others are sets of rows.  Only the columns some statement reads back *)
(* are kept; the decoded record stands for its 160 canonical bytes.         *)
(***************************************************************************)
EXTENDS Integers, Sequences, FiniteSets, SequencesExt

CONSTANTS
    ByteBase,    \* values of a byte
    U64Width,    \* bytes of an encoded uint64
    QueryLimit,  \* greatest limit of a query
    digest(_),         \* digest_command_evidence
    archive_digest(_)  \* SHA-256 of an encoded archive

ASSUME InvestigationAssumption ==
    /\ ByteBase \in Nat /\ ByteBase > 1
    /\ U64Width \in Nat \ {0}
    /\ QueryLimit \in Nat \ {0}

investigation_schema_version == 1

-----------------------------------------------------------------------------
(* Unsigned integers are stored as blobs, which SQLite compares bytewise.   *)

Digit(n, i) == (n \div ByteBase ^ i) % ByteBase

encode_u64_little(n) == [i \in 1 .. U64Width |-> Digit(n, i - 1)]  \* mutant

encode_u64(n) == [i \in 1 .. U64Width |-> Digit(n, U64Width - i)]

decode_u64(b) == FoldLeft(LAMBDA value, byte : value * ByteBase + byte, 0, b)

BlobLess(a, b) ==
    \E i \in DOMAIN a : a[i] < b[i] /\ \A j \in 1 .. i - 1 : a[j] = b[j]

AtMost(a, b) == ~BlobLess(b, a)

(* ORDER BY: the elements of S in the order less.                           *)
OrderBy(S, less(_, _)) ==
    [i \in 1 .. Cardinality(S) |->
        CHOOSE x \in S : Cardinality({y \in S : less(y, x)}) = i - 1]

First(s, n) == SubSeq(s, 1, IF Len(s) < n THEN Len(s) ELSE n)

-----------------------------------------------------------------------------
(* Tables.                                                                  *)

EmptyDatabase ==
    [version |-> 0, tables |-> FALSE, archives |-> <<>>, evidence |-> {},
     sessions |-> {}, replay_results |-> {}]

SessionKey(r) == <<r.entry.envelope.client_id, r.entry.envelope.session_id>>

archive_row(archive, trusted_head, source) ==
    [archive_digest |-> archive_digest(archive), trusted_head |-> trusted_head,
     declared_head |-> archive.head_digest,
     record_count |-> Len(archive.records), source |-> source]

evidence_row(id, r) ==
    [archive_id |-> id, ordinal |-> encode_u64(r.ordinal),
     record_digest |-> digest(r),
     client_id |-> encode_u64(r.entry.envelope.client_id),
     session_id |-> encode_u64(r.entry.envelope.session_id),
     observed_tick |-> encode_u64(r.entry.observed_tick),
     rejection_code |-> r.entry.rejection_code,
     queue_outcome |-> r.entry.queue_outcome,
     encoded_record |-> r]

(* SessionAggregate of every identity, of the records of an archive.        *)
Aggregate(first, last, accepted, rejected) ==
    [first_ordinal |-> first.ordinal, last_ordinal |-> last.ordinal,
     first_observed_tick |-> first.entry.observed_tick,
     last_observed_tick |-> last.entry.observed_tick,
     accepted_count |-> accepted, rejected_count |-> rejected]

OfSession(records, k) == SelectSeq(records, LAMBDA r : SessionKey(r) = k)

CountCode(records, code) ==
    Len(SelectSeq(records, LAMBDA r : r.entry.rejection_code = code))

aggregate_keeps_first(mine) ==  \* mutant: the last values are not updated
    Aggregate(Head(mine), Head(mine), CountCode(mine, "none"),
              Len(mine) - CountCode(mine, "none"))

aggregate(mine) ==
    Aggregate(Head(mine), Last(mine), CountCode(mine, "none"),
              Len(mine) - CountCode(mine, "none"))

session_aggregates(records) ==
    [k \in {SessionKey(records[i]) : i \in DOMAIN records} |->
        aggregate(OfSession(records, k))]

session_row(id, k, a) ==
    [archive_id |-> id,
     client_id |-> encode_u64(k[1]), session_id |-> encode_u64(k[2]),
     first_ordinal |-> encode_u64(a.first_ordinal),
     last_ordinal |-> encode_u64(a.last_ordinal),
     first_observed_tick |-> encode_u64(a.first_observed_tick),
     last_observed_tick |-> encode_u64(a.last_observed_tick),
     accepted_count |-> a.accepted_count, rejected_count |-> a.rejected_count]

-----------------------------------------------------------------------------
(* Statements that write.                                                   *)

Stored(db, archive) ==
    {i \in DOMAIN db.archives :
        db.archives[i].archive_digest = archive_digest(archive)}

(* INSERT OR IGNORE; sqlite3_changes is 1 if and only if a row was added.   *)
insert_always(db, archive, trusted_head, source) ==  \* mutant: no OR IGNORE
    [db EXCEPT !.archives = Append(@, archive_row(archive, trusted_head, source))]

insert_archive(db, archive, trusted_head, source) ==
    IF Stored(db, archive) # {} THEN db
    ELSE [db EXCEPT !.archives =
             Append(@, archive_row(archive, trusted_head, source))]

insert_record(db, id, r) ==
    [db EXCEPT !.evidence = @ \cup {evidence_row(id, r)}]

insert_session(db, id, k, a) ==
    [db EXCEPT !.sessions = @ \cup {session_row(id, k, a)}]

(* The rows of an archive with its identifier, and all statements of one    *)
(* import, in a database that does not have it.                             *)
evidence_rows(id, records) == {evidence_row(id, r) : r \in Range(records)}

session_rows(id, records) ==
    LET ag == session_aggregates(records)
    IN  {session_row(id, k, ag[k]) : k \in DOMAIN ag}

import_all(db, id, arg) ==
    [insert_archive(db, arg.archive, arg.trusted_head, arg.source) EXCEPT
        !.evidence = @ \cup evidence_rows(id, arg.archive.records),
        !.sessions = @ \cup session_rows(id, arg.archive.records)]

(* INSERT ... ON CONFLICT(archive_id) DO UPDATE                             *)
upsert_replay_result(db, id, result) ==
    [db EXCEPT !.replay_results =
        {row \in @ : row.archive_id # id}
            \cup {[archive_id |-> id, result |-> result]}]

-----------------------------------------------------------------------------
(* Statements that read.  An optional argument is a set of at most one      *)
(* element.                                                                 *)

limit_is_valid(limit) == limit \in 1 .. QueryLimit

list_archives(db, limit, before) ==
    LET ids == {i \in DOMAIN db.archives : \A b \in before : i < b}
    IN  First(OrderBy(ids, LAMBDA i, j : i > j), limit)

NoFilter ==
    [client_id |-> {}, session_id |-> {}, rejection_code |-> {},
     queue_outcome |-> {}, minimum_observed_tick |-> {},
     maximum_observed_tick |-> {}, after_ordinal |-> {}]

query_is_valid(q, limit) ==
    /\ limit_is_valid(limit)
    /\ \A low \in q.minimum_observed_tick, high \in q.maximum_observed_tick :
          low <= high

(* The records of one page, each decoded from its stored bytes; the digest  *)
(* is recomputed and a mismatch ends the query with an error.               *)
query_evidence(db, id, q, limit) ==
    LET matches(row) ==
            /\ row.archive_id = id
            /\ \A c \in q.client_id : row.client_id = encode_u64(c)
            /\ \A s \in q.session_id : row.session_id = encode_u64(s)
            /\ \A c \in q.rejection_code : row.rejection_code = c
            /\ \A o \in q.queue_outcome : row.queue_outcome = o
            /\ \A t \in q.minimum_observed_tick :
                  AtMost(encode_u64(t), row.observed_tick)
            /\ \A t \in q.maximum_observed_tick :
                  AtMost(row.observed_tick, encode_u64(t))
            /\ \A n \in q.after_ordinal : BlobLess(encode_u64(n), row.ordinal)
        rows == {row \in db.evidence : matches(row)}
        page == First(OrderBy(rows, LAMBDA a, b : BlobLess(a.ordinal, b.ordinal)),
                      limit)
    IN  [i \in DOMAIN page |-> [record_digest |-> page[i].record_digest,
                                record |-> page[i].encoded_record]]

page_is_intact(page) ==
    \A i \in DOMAIN page : digest(page[i].record) = page[i].record_digest

list_sessions(db, id) ==
    LET rows == {row \in db.sessions : row.archive_id = id}
        less(a, b) == \/ BlobLess(a.client_id, b.client_id)
                      \/ /\ a.client_id = b.client_id
                         /\ BlobLess(a.session_id, b.session_id)
        sorted == OrderBy(rows, less)
    IN  [i \in DOMAIN sorted |->
            [client_id |-> decode_u64(sorted[i].client_id),
             session_id |-> decode_u64(sorted[i].session_id),
             first_ordinal |-> decode_u64(sorted[i].first_ordinal),
             last_ordinal |-> decode_u64(sorted[i].last_ordinal),
             first_observed_tick |-> decode_u64(sorted[i].first_observed_tick),
             last_observed_tick |-> decode_u64(sorted[i].last_observed_tick),
             accepted_count |-> sorted[i].accepted_count,
             rejected_count |-> sorted[i].rejected_count]]

replay_result(db, id) ==
    {row.result : row \in {r \in db.replay_results : r.archive_id = id}}

=============================================================================
