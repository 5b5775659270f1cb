---------------------------- MODULE EvidenceCodec ----------------------------
(***************************************************************************)
(* The byte formats: command envelopes, evidence records and archives.      *)
(*                                                                         *)
(* A cell stands for a byte.  Cells are sequences so that two of them can   *)
(* always be compared: <<n>> is the byte n, and a cell of a SHA-256 digest  *)
(* is a longer sequence that holds all that was hashed, so that digests do  *)
(* not collide.  A format is a layout, the sequence of its fields; a        *)
(* structure is the function from field names to values, with the nesting   *)
(* of the source flattened.                                                 *)
(***************************************************************************)
EXTENDS Integers, Sequences, SequencesExt

CONSTANTS
    ByteBase,                       \* values of a byte
    U16Width, U32Width, U64Width,   \* bytes of the integers
    DigestWidth                     \* bytes of a digest

ASSUME CodecAssumption ==
    /\ ByteBase \in Nat /\ ByteBase > 1
    /\ {U16Width, U32Width, U64Width, DigestWidth} \subseteq Nat \ {0}
    /\ ByteBase ^ U16Width > 17  \* the codes below are distinct

U16Max == ByteBase ^ U16Width - 1
U64Max == ByteBase ^ U64Width - 1
I64Max == ByteBase ^ U64Width \div 2 - 1

Bytes(s) == [i \in DOMAIN s |-> <<s[i]>>]

Zeros(n) == [i \in 1 .. n |-> <<0>>]

-----------------------------------------------------------------------------
(* Integers and digests.                                                    *)

append_uint(n, width) ==
    [i \in 1 .. width |-> <<(n \div ByteBase ^ (width - i)) % ByteBase>>]

read_uint(cells) == FoldLeft(LAMBDA n, c : n * ByteBase + c[1], 0, cells)

(* bit_cast between int64 and uint64: two's complement.                     *)
append_i64(n) == append_uint(n % ByteBase ^ U64Width, U64Width)

read_i64(cells) ==
    LET n == read_uint(cells)
    IN  IF n > I64Max THEN n - ByteBase ^ U64Width ELSE n

sha256(cells) == [i \in 1 .. DigestWidth |-> Append(cells, <<i>>)]

InitialDigest == Zeros(DigestWidth)

-----------------------------------------------------------------------------
(* Layouts.                                                                 *)

U16(name) == [name |-> name, kind |-> "uint", width |-> U16Width]
U32(name) == [name |-> name, kind |-> "uint", width |-> U32Width]
U64(name) == [name |-> name, kind |-> "uint", width |-> U64Width]
I64(name) == [name |-> name, kind |-> "i64", width |-> U64Width]
Digest(name) == [name |-> name, kind |-> "digest", width |-> DigestWidth]

Append1(field, v) ==
    CASE field.kind = "uint" -> append_uint(v, field.width)
      [] field.kind = "i64" -> append_i64(v)
      [] field.kind = "digest" -> v

Read1(field, cells) ==
    CASE field.kind = "uint" -> read_uint(cells)
      [] field.kind = "i64" -> read_i64(cells)
      [] field.kind = "digest" -> cells

SizeOf(layout) == FoldLeft(LAMBDA n, f : n + f.width, 0, layout)

(* The cells of every field of a layout.                                    *)
Places(layout) ==
    LET offset(i) == SizeOf(SubSeq(layout, 1, i - 1))
        index(name) == CHOOSE i \in DOMAIN layout : layout[i].name = name
    IN  [name \in {layout[i].name : i \in DOMAIN layout} |->
            LET i == index(name)
            IN  [field |-> layout[i], first |-> offset(i) + 1,
                 last |-> offset(i) + layout[i].width]]

Encode(layout, r) ==
    FoldLeft(LAMBDA cells, f : cells \o Append1(f, r[f.name]), <<>>, layout)

Decode(places, cells) ==
    [name \in DOMAIN places |->
        LET place == places[name]
        IN  Read1(place.field, SubSeq(cells, place.first, place.last))]

-----------------------------------------------------------------------------
(* Command envelopes and frames.                                            *)

EnvelopeLayout ==
    << U16("schema_version"), U16("type"), U64("client_id"), U64("session_id"),
       U64("sequence"), U64("target_tick"), U64("entity_id"),
       I64("velocity_x"), I64("velocity_y") >>

EnvelopePlaces == Places(EnvelopeLayout)

encode_command_envelope(envelope) == Encode(EnvelopeLayout, envelope)

decode_command_envelope(payload) ==
    IF Len(payload) # SizeOf(EnvelopeLayout)
    THEN [error |-> "payload_size_mismatch"]
    ELSE LET envelope == Decode(EnvelopePlaces, payload)
         IN  IF envelope.entity_id = 0 THEN [error |-> "invalid_entity_id"]
             ELSE [error |-> "none", envelope |-> envelope]

-----------------------------------------------------------------------------
(* Evidence records.                                                        *)

CommandRejectionCode ==
    [none |-> 0, stale_target_tick |-> 8, velocity_out_of_range |-> 10,
     unknown_entity |-> 13, entity_sequence_not_increasing |-> 14,
     target_tick_regression |-> 15, simulation_rejection_unknown |-> 16]

CommandQueueOutcome ==
    [not_attempted |-> 0, accepted |-> 1, stale_tick |-> 2,
     unknown_entity |-> 3, sequence_not_increasing |-> 4,
     target_tick_regression |-> 5, velocity_out_of_range |-> 6,
     unknown |-> U16Max]

is_known_rejection_code(code) == code \in 0 .. 16

is_known_queue_outcome(outcome) == outcome \in 0 .. 6 \cup {U16Max}

any_rejection_code(outcome) == {}  \* mutant: the codes are not compared

expected_rejection_code(outcome) ==
    LET R == CommandRejectionCode
        Q == CommandQueueOutcome
    IN  CASE outcome = Q.not_attempted -> {}
          [] outcome = Q.accepted -> {R.none}
          [] outcome = Q.stale_tick -> {R.stale_target_tick}
          [] outcome = Q.unknown_entity -> {R.unknown_entity}
          [] outcome = Q.sequence_not_increasing ->
               {R.entity_sequence_not_increasing}
          [] outcome = Q.target_tick_regression -> {R.target_tick_regression}
          [] outcome = Q.velocity_out_of_range -> {R.velocity_out_of_range}
          [] outcome = Q.unknown -> {R.simulation_rejection_unknown}

record_error(r) ==
    LET accepted == r.rejection_code = CommandRejectionCode.none
        outcome_holds ==
            /\ accepted <=> r.queue_outcome = CommandQueueOutcome.accepted
            /\ \A code \in expected_rejection_code(r.queue_outcome) :
                  code = r.rejection_code
        transition_holds ==
            IF accepted
            THEN /\ r.session_sequence_after = r.sequence
                 /\ r.session_sequence_after > r.session_sequence_before
                 /\ r.pending_commands_before # U64Max
                 /\ r.pending_commands_after = r.pending_commands_before + 1
            ELSE /\ r.session_sequence_after = r.session_sequence_before
                 /\ r.pending_commands_after = r.pending_commands_before
    IN  IF ~outcome_holds THEN "inconsistent_outcome"
        ELSE IF ~transition_holds THEN "inconsistent_state_transition"
        ELSE "none"

record_magic == <<84, 76, 67, 69>>
command_evidence_schema_version == 2

RecordPrefix ==
    Bytes(record_magic)
      \o append_uint(command_evidence_schema_version, U16Width)
      \o append_uint(0, U16Width)

RecordLayout ==
    << U64("ordinal"), Digest("previous_record_digest"),
       U64("world_fingerprint_before"), U64("observed_tick") >>
      \o EnvelopeLayout
      \o << U64("session_sequence_before"), U64("session_sequence_after"),
            U64("pending_commands_before"), U64("pending_commands_after"),
            U16("rejection_code"), U16("queue_outcome") >>

RecordPlaces == Places(RecordLayout)

command_evidence_encoded_size == Len(RecordPrefix) + SizeOf(RecordLayout)

encode_command_evidence(r) == RecordPrefix \o Encode(RecordLayout, r)

(* Which part of a prefix is wrong first; parts lists the cells of each     *)
(* part and the error it is refused with.                                   *)
prefix_error(cells, expected, parts) ==
    LET bad == {i \in DOMAIN parts : \E j \in parts[i].cells :
                   cells[j] # expected[j]}
    IN  IF bad = {} THEN "none"
        ELSE parts[CHOOSE i \in bad : \A j \in bad : i <= j].error

record_prefix_error(cells) ==
    prefix_error(cells, RecordPrefix,
      << [cells |-> 1 .. 4, error |-> "invalid_magic"],
         [cells |-> 5 .. 4 + U16Width, error |-> "unsupported_schema_version"],
         [cells |-> 5 + U16Width .. 4 + 2 * U16Width,
          error |-> "nonzero_reserved_field"] >>)

decode_command_evidence(cells) ==
    LET n == Len(RecordPrefix)
    IN  IF Len(cells) # command_evidence_encoded_size
        THEN [error |-> "invalid_size"]
        ELSE IF record_prefix_error(cells) # "none"
        THEN [error |-> record_prefix_error(cells)]
        ELSE LET r == Decode(RecordPlaces, SubSeq(cells, n + 1, Len(cells)))
             IN  IF ~is_known_rejection_code(r.rejection_code)
                 THEN [error |-> "unknown_rejection_code"]
                 ELSE IF ~is_known_queue_outcome(r.queue_outcome)
                 THEN [error |-> "unknown_queue_outcome"]
                 ELSE IF r.entity_id = 0 THEN [error |-> "invalid_entity_id"]
                 ELSE IF record_error(r) # "none"
                 THEN [error |-> record_error(r)]
                 ELSE [error |-> "none", record |-> r]

digest_command_evidence(r) == sha256(encode_command_evidence(r))

chain_unlinked(records, expected_head) ==  \* mutant: only the head is compared
    IF records = <<>> THEN expected_head = InitialDigest
    ELSE digest_command_evidence(Last(records)) = expected_head

verify_command_evidence_chain(records, expected_head) ==
    LET previous(i) == IF i = 0 THEN InitialDigest
                       ELSE digest_command_evidence(records[i])
    IN  /\ \A i \in DOMAIN records :
              /\ records[i].ordinal = i - 1
              /\ records[i].previous_record_digest = previous(i - 1)
        /\ previous(Len(records)) = expected_head

-----------------------------------------------------------------------------
(* Archives.                                                                *)

archive_magic == <<84, 76, 67, 65>>
command_evidence_archive_schema_version == 1

ArchivePrefix ==
    Bytes(archive_magic)
      \o append_uint(command_evidence_archive_schema_version, U16Width)
      \o append_uint(command_evidence_schema_version, U16Width)
      \o append_uint(command_evidence_encoded_size, U32Width)
      \o append_uint(0, U32Width)

ArchiveLayout == << U64("record_count"), Digest("head_digest") >>

ArchivePlaces == Places(ArchiveLayout)

command_evidence_archive_header_size ==
    Len(ArchivePrefix) + SizeOf(ArchiveLayout)

(* checked_archive_size; size_t is as wide as uint64 and would wrap.        *)
count_never_overflows(count) == FALSE  \* mutant

count_overflows(count) ==
    count > (U64Max - command_evidence_archive_header_size)
              \div command_evidence_encoded_size

archive_size(count) ==
    (command_evidence_archive_header_size
       + count * command_evidence_encoded_size) % (U64Max + 1)

encode_command_evidence_archive(records, head_digest) ==
    IF ~verify_command_evidence_chain(records, head_digest)
    THEN [error |-> "chain_verification_failed"]
    ELSE IF count_overflows(Len(records))
    THEN [error |-> "record_count_overflow"]
    ELSE [error |-> "none",
          cells |-> FoldLeft(LAMBDA cells, r : cells \o encode_command_evidence(r),
                             ArchivePrefix
                               \o Encode(ArchiveLayout,
                                         [record_count |-> Len(records),
                                          head_digest |-> head_digest]),
                             records)]

archive_prefix_error(cells) ==
    LET a == 4 + U16Width
        b == a + U16Width
        c == b + U32Width
    IN  prefix_error(cells, ArchivePrefix,
          << [cells |-> 1 .. 4, error |-> "invalid_magic"],
             [cells |-> 5 .. a, error |-> "unsupported_archive_schema"],
             [cells |-> a + 1 .. b, error |-> "unsupported_record_schema"],
             [cells |-> b + 1 .. c, error |-> "invalid_record_size"],
             [cells |-> c + 1 .. c + U32Width,
              error |-> "nonzero_reserved_field"] >>)

(* The record of a given index, or the end of the buffer.                   *)
decode_record(cells, i) ==
    LET end == command_evidence_archive_header_size
                 + i * command_evidence_encoded_size
    IN  IF end > Len(cells) THEN [error |-> "out_of_bounds"]
        ELSE decode_command_evidence(
                 SubSeq(cells, end - command_evidence_encoded_size + 1, end))

head_is_trusted(declared, trusted) == declared = trusted

decode_command_evidence_archive(cells, trusted_head) ==
    IF Len(cells) < command_evidence_archive_header_size
    THEN [error |-> "truncated_header"]
    ELSE IF archive_prefix_error(cells) # "none"
    THEN [error |-> archive_prefix_error(cells)]
    ELSE
      LET header == Decode(ArchivePlaces,
                      SubSeq(cells, Len(ArchivePrefix) + 1,
                             command_evidence_archive_header_size))
          count == header.record_count
          decoded == [i \in 1 .. count |-> decode_record(cells, i)]
          bad == {i \in 1 .. count : decoded[i].error # "none"}
          records == [i \in 1 .. count |-> decoded[i].record]
      IN  IF count_overflows(count) THEN [error |-> "record_count_overflow"]
          ELSE IF Len(cells) < archive_size(count)
          THEN [error |-> "truncated_records"]
          ELSE IF Len(cells) > archive_size(count)
          THEN [error |-> "trailing_data"]
          ELSE IF bad # {}
          THEN [error |-> decoded[CHOOSE i \in bad : \A j \in bad : i <= j].error]
          ELSE IF ~verify_command_evidence_chain(records, header.head_digest)
          THEN [error |-> "chain_verification_failed"]
          ELSE IF ~head_is_trusted(header.head_digest, trusted_head)
          THEN [error |-> "trusted_head_mismatch"]
          ELSE [error |-> "none",
                archive |-> [records |-> records,
                             head_digest |-> header.head_digest]]
=============================================================================
