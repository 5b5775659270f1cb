-------------------------- MODULE MCEvidenceArchive --------------------------
(* Logs of which one is a prefix of the other, and logs of one record with   *)
(* fields at the ends of their types.  Integers have two bytes, so that     *)
(* their order shows, and a byte sixteen values, so that the size of an     *)
(* archive can overflow a uint64.                                           *)
EXTENDS EvidenceArchive, TLC

Entry(sequence) ==
    [world_fingerprint_before |-> sequence, observed_tick |-> 0,
     schema_version |-> 1, type |-> 1, client_id |-> 1, session_id |-> 1,
     sequence |-> sequence, target_tick |-> 1, entity_id |-> 1,
     velocity_x |-> -1, velocity_y |-> 1,
     session_sequence_before |-> sequence - 1,
     session_sequence_after |-> sequence,
     pending_commands_before |-> sequence - 1,
     pending_commands_after |-> sequence,
     rejection_code |-> 0, queue_outcome |-> 1]

LogOf(entries) ==
    FoldLeft(LAMBDA log, e :
                LET r == [ordinal |-> Len(log.records),
                          previous_record_digest |-> log.head_digest] @@ e
                IN  [records |-> Append(log.records, r),
                     head_digest |-> digest_command_evidence(r)],
             [records |-> <<>>, head_digest |-> InitialDigest], entries)

One == LogOf(<<Entry(1)>>)
Two == LogOf(<<Entry(1), Entry(2)>>)

(* A command the session refused.                                           *)
Refused ==
    [Entry(2) EXCEPT !.session_sequence_after = 1,
                     !.pending_commands_after = 1,
                     !.rejection_code = 12, !.queue_outcome = 0]

(* The ends of a field's type; the two codes take all their values and one  *)
(* beyond.                                                                  *)
Boundary(field) ==
    CASE field.name = "rejection_code" -> 0 .. 17
      [] field.name = "queue_outcome" -> 0 .. 7 \cup {U16Max - 1, U16Max}
      [] field.kind = "i64" -> {-I64Max - 1, -I64Max, -ByteBase, 0, I64Max}
      [] OTHER -> {0, 1, ByteBase - 1, ByteBase, ByteBase ^ field.width - 2,
                   ByteBase ^ field.width - 1}

EditedFields == SelectSeq(RecordLayout,
    LAMBDA f : f.name \notin {"ordinal", "previous_record_digest"})

(* Fields that a rule for records relates.                                  *)
Related ==
    {{"session_sequence_before", "session_sequence_after", "sequence"},
     {"pending_commands_before", "pending_commands_after"},
     {"rejection_code", "queue_outcome"}}

Edited(entries, fields) ==
    UNION {{[e EXCEPT ![f.name] = v] : e \in entries, v \in Boundary(f)} :
              f \in fields}

(* Entries with one field at a boundary, or two that are related.           *)
BoundaryEntries ==
    LET fields == Range(EditedFields)
        those(names) == {f \in fields : f.name \in names}
        origins == {Entry(2), Refused}
    IN  Edited(origins, fields)
          \cup UNION {Edited(Edited(origins, those(names)), those(names)) :
                        names \in Related}

MCLogs ==
    <<"one">> :> One @@ <<"two">> :> Two
      @@ <<"broken">> :> [Two EXCEPT !.head_digest = One.head_digest]
      @@ [name \in {<<"edited", e>> : e \in BoundaryEntries} |->
             LogOf(<<name[2]>>)]

MCTrustedHeads == {One.head_digest, Two.head_digest}
HeaderSize == command_evidence_archive_header_size
RecordSize == command_evidence_encoded_size

(* Inside the header and inside the first record.                           *)
MCCutPoints == {HeaderSize - 1, HeaderSize + RecordSize \div 2}

(* A record count at which the size of the archive wraps to that of two,    *)
(* and the byte that makes it of the count of two.                          *)
WrappingCount ==
    CHOOSE n \in 3 .. U64Max : archive_size(n) = archive_size(2)

WrappingByte == append_uint(WrappingCount, U64Width)[1][1]

(* Two writers and a reader; a writer, a reader and an operator; and a      *)
(* writer of logs with a record at the boundaries or a wrong head.          *)
MCWorkloads ==
    [overlap |->
        [calls |-> "w1" :> 1 @@ "w2" :> 1 @@ "r1" :> 1,
         logs |-> "w1" :> {<<"two">>} @@ "w2" :> {<<"one">>},
         edits |-> {}, faults |-> 1],
     edited |->
        [calls |-> "w1" :> 1 @@ "w2" :> 0 @@ "r1" :> 1,
         logs |-> "w1" :> {<<"two">>} @@ "w2" :> {},
         edits |-> {0, WrappingByte}, faults |-> 1],
     boundary |->
        [calls |-> "w1" :> 1 @@ "w2" :> 0 @@ "r1" :> 0,
         logs |-> "w1" :> {n \in DOMAIN MCLogs : n[1] \in {"edited", "broken"}}
                   @@ "w2" :> {},
         edits |-> {}, faults |-> 0]]
=============================================================================
