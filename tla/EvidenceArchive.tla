--------------------------- MODULE EvidenceArchive ---------------------------
(***************************************************************************)
(* One archive file that is written by write_command_evidence_archive and   *)
(* read by read_command_evidence_archive while others use it too.  A write  *)
(* truncates the file in place and fills it in pieces; nothing locks it, so *)
(* writers may overlap, a writer may die or fail half way, a reader may see *)
(* a file that is being written, and an operator may edit it.               *)
(***************************************************************************)
EXTENDS EvidenceCodec, Sha256

CONSTANTS
    Writers, Readers,
    Logs,          \* name |-> an evidence log
    TrustedHeads,  \* heads that readers ask for
    CutPoints,     \* bound: where a partial write or read may stop
    Workloads,     \* bounds: the calls of each process, the logs given to
                   \* each writer, the bytes an operator may write, and the
                   \* number of failures, crashes and edits
    None

ASSUME ArchiveAssumption ==
    /\ Writers \cap Readers = {}
    /\ \A name \in DOMAIN Workloads :
          LET load == Workloads[name]
          IN  /\ load.calls \in [Writers \cup Readers -> Nat]
              /\ load.logs \in [Writers -> SUBSET DOMAIN Logs]
              /\ load.edits \subseteq 0 .. ByteBase - 1
              /\ load.faults \in Nat
    /\ CutPoints \subseteq Nat

VARIABLES
    workload,  \* the name of the workload that this behaviour stays within
    file,      \* the cells of the file, or None if it does not exist
    writer,    \* writer |-> the call it is in
    reader,    \* reader |-> the call it is in
    answers,   \* writer or reader |-> what its calls ended with
    faults,    \* faults so far
    sole       \* history: the writer whose write nothing has disturbed

vars == <<workload, file, writer, reader, answers, faults, sole>>

IdleWriter == [pc |-> "idle", log |-> None, offset |-> 0]
IdleReader == [pc |-> "idle", head |-> None, size |-> 0, buffer |-> <<>>]

Init ==
    /\ workload \in DOMAIN Workloads
    /\ file = None
    /\ writer = [w \in Writers |-> IdleWriter]
    /\ reader = [r \in Readers |-> IdleReader]
    /\ answers = [a \in Writers \cup Readers |-> <<>>]
    /\ faults = 0
    /\ sole = None

Load == Workloads[workload]

Calls(a) == Len(answers[a]) < Load.calls[a]

MayFail == faults < Load.faults

Answered(a, arg, result) ==
    answers' = [answers EXCEPT ![a] = Append(@, [arg |-> arg, result |-> result])]

-----------------------------------------------------------------------------
(* write_command_evidence_archive.                                          *)

Encoded(log) == encode_command_evidence_archive(log.records, log.head_digest)

Encodings == [name \in DOMAIN Logs |-> Encoded(Logs[name])]

WriteArchive(w, log) ==
    /\ writer[w].pc = "idle" /\ Calls(w)
    /\ IF Encodings[log].error # "none"
       THEN Answered(w, log, Encodings[log]) /\ UNCHANGED writer
       ELSE /\ writer' = [writer EXCEPT ![w] =
                            [pc |-> "open", log |-> log, offset |-> 0]]
            /\ UNCHANGED answers
    /\ UNCHANGED <<workload, file, reader, faults, sole>>

Writing(w) == writer[w].pc \in {"write", "close"}

(* std::ios::trunc: whatever was there is gone.                             *)
OpenTruncated(w) ==
    /\ writer[w].pc = "open"
    /\ file' = <<>>
    /\ writer' = [writer EXCEPT ![w].pc = "write"]
    /\ sole' = IF \E v \in Writers : Writing(v) THEN None ELSE w
    /\ UNCHANGED <<workload, reader, answers, faults>>

(* Cells put into a file at an offset; a gap before it reads as zeros.      *)
WrittenAt(f, offset, cells) ==
    LET end == offset + Len(cells)
        old(i) == IF i <= Len(f) THEN f[i] ELSE <<0>>
    IN  [i \in 1 .. IF Len(f) > end THEN Len(f) ELSE end |->
            IF i \in offset + 1 .. end THEN cells[i - offset] ELSE old(i)]

Stops(offset, end) == {n \in CutPoints : offset < n /\ n < end} \cup {end}

WriteSome(w) ==
    LET cells == Encodings[writer[w].log].cells
        offset == writer[w].offset
    IN  /\ writer[w].pc = "write"
        /\ \E n \in Stops(offset, Len(cells)) :
              /\ file' = WrittenAt(file, offset, SubSeq(cells, offset + 1, n))
              /\ writer' = [writer EXCEPT ![w].offset = n,
                              ![w].pc = IF n = Len(cells) THEN "close" ELSE "write"]
        /\ UNCHANGED <<workload, reader, answers, faults, sole>>

FinishWrite(w, result) ==
    /\ Answered(w, writer[w].log, result)
    /\ writer' = [writer EXCEPT ![w] = IdleWriter]

write_failed == [error |-> "io_error"]

CloseWritten(w) ==
    /\ writer[w].pc = "close"
    /\ FinishWrite(w, [error |-> "none"])
    /\ UNCHANGED <<workload, file, reader, faults, sole>>

(* The file cannot be opened, written, flushed or closed.                   *)
WriteFails(w) ==
    /\ MayFail
    /\ writer[w].pc # "idle"
    /\ FinishWrite(w, write_failed)
    /\ faults' = faults + 1
    /\ UNCHANGED <<workload, file, reader, sole>>

CrashWriter(w) ==
    /\ MayFail
    /\ writer[w].pc # "idle"
    /\ FinishWrite(w, [error |-> "crashed"])
    /\ faults' = faults + 1
    /\ UNCHANGED <<workload, file, reader, sole>>

EditFile ==
    /\ MayFail
    /\ file # None
    /\ \E i \in DOMAIN file, b \in Load.edits :
          /\ file' = [file EXCEPT ![i] = <<b>>]
          /\ file' # file
    /\ faults' = faults + 1
    /\ sole' = None
    /\ UNCHANGED <<workload, writer, reader, answers>>

-----------------------------------------------------------------------------
(* read_command_evidence_archive: the size is taken first, then as many     *)
(* bytes are read.                                                          *)

FinishRead(r, head, result) ==
    /\ Answered(r, head, result)
    /\ reader' = [reader EXCEPT ![r] = IdleReader]

ReadArchive(r, head) ==
    /\ reader[r].pc = "idle" /\ Calls(r)
    /\ IF file = None
       THEN FinishRead(r, head, [error |-> "io_error"])
       ELSE /\ reader' = [reader EXCEPT ![r] =
                            [pc |-> "read", head |-> head, size |-> Len(file),
                             buffer |-> <<>>]]
            /\ UNCHANGED answers
    /\ UNCHANGED <<workload, file, writer, faults, sole>>

readable(f, size) == IF Len(f) < size THEN Len(f) ELSE size

ReadSome(r) ==
    LET got == Len(reader[r].buffer)
        available == readable(file, reader[r].size)
    IN  /\ reader[r].pc = "read" /\ got < reader[r].size
        /\ IF available <= got
           THEN FinishRead(r, reader[r].head, [error |-> "io_error"])
           ELSE /\ \E n \in Stops(got, available) :
                      reader' = [reader EXCEPT ![r].buffer =
                                   @ \o SubSeq(file, got + 1, n)]
                /\ UNCHANGED answers
        /\ UNCHANGED <<workload, file, writer, faults, sole>>

DecodeRead(r) ==
    /\ reader[r].pc = "read" /\ Len(reader[r].buffer) = reader[r].size
    /\ FinishRead(r, reader[r].head,
                  decode_command_evidence_archive(reader[r].buffer,
                                                  reader[r].head))
    /\ UNCHANGED <<workload, file, writer, faults, sole>>

ReadFails(r) ==
    /\ MayFail
    /\ reader[r].pc = "read"
    /\ FinishRead(r, reader[r].head, [error |-> "io_error"])
    /\ faults' = faults + 1
    /\ UNCHANGED <<workload, file, writer, sole>>

-----------------------------------------------------------------------------
Progress(a) ==
    \/ /\ a \in Writers
       /\ OpenTruncated(a) \/ WriteSome(a) \/ CloseWritten(a)
    \/ /\ a \in Readers
       /\ ReadSome(a) \/ DecodeRead(a)

Next ==
    \/ \E w \in Writers :
          \/ \E log \in Load.logs[w] : WriteArchive(w, log)
          \/ WriteFails(w) \/ CrashWriter(w)
    \/ \E r \in Readers :
          \/ \E head \in TrustedHeads : ReadArchive(r, head)
          \/ ReadFails(r)
    \/ \E a \in Writers \cup Readers : Progress(a)
    \/ EditFile

Spec == Init /\ [][Next]_vars

-----------------------------------------------------------------------------
(* Properties.                                                              *)

Reads == UNION {Range(answers[r]) : r \in Readers}

(* docs/architecture.md names "partial evidence writes that appear valid"   *)
(* among the failures to avoid.  Whatever a reader saw, a file being        *)
(* written, cut short by a crash, mixed by two writers or edited, what      *)
(* read_command_evidence_archive returns is the log of the head it trusts,  *)
(* whole.                                                                   *)
ReadIsAuthentic ==
    \A a \in Reads : a.result.error = "none" =>
        /\ a.result.archive.head_digest = a.arg
        /\ \E w \in Writers : \E log \in Load.logs[w] : a.result.archive = Logs[log]

(* An archive has one encoding: a file that is accepted is, cell by cell,   *)
(* what encode_command_evidence_archive makes of its contents.  The store   *)
(* relies on it when it takes the digest of the bytes for the identity of   *)
(* the archive.  And the decoder never reads past the end of its input,     *)
(* whatever record count the header declares.                               *)
AcceptedFileIsCanonical ==
    file # None =>
        \A head \in TrustedHeads :
            LET d == decode_command_evidence_archive(file, head)
            IN  /\ d.error # "out_of_bounds"
                /\ d.error = "none" => Encoded(d.archive).cells = file

(* The record as an outcome of the pipeline, stated by the outcomes there   *)
(* are: accepted, refused by the queue for a reason of its own, or refused  *)
(* before the queue.                                                        *)
Possible(r) ==
    LET Q == CommandQueueOutcome
        R == CommandRejectionCode
        queued == {<<Q.stale_tick, R.stale_target_tick>>,
                   <<Q.unknown_entity, R.unknown_entity>>,
                   <<Q.sequence_not_increasing, R.entity_sequence_not_increasing>>,
                   <<Q.target_tick_regression, R.target_tick_regression>>,
                   <<Q.velocity_out_of_range, R.velocity_out_of_range>>,
                   <<Q.unknown, R.simulation_rejection_unknown>>}
        refused == queued \cup ({Q.not_attempted} \X (1 .. 16))
    IN  /\ r.entity_id # 0
        /\ \/ /\ <<r.queue_outcome, r.rejection_code>> = <<Q.accepted, R.none>>
              /\ r.session_sequence_after = r.sequence
              /\ r.session_sequence_before < r.sequence
              /\ r.pending_commands_before + 1 = r.pending_commands_after
           \/ /\ <<r.queue_outcome, r.rejection_code>> \in refused
              /\ r.session_sequence_after = r.session_sequence_before
              /\ r.pending_commands_after = r.pending_commands_before

(* What the last write left, if it reported success and no other write or   *)
(* edit has disturbed the file since it was opened.                         *)
LeftBy(log) == decode_command_evidence_archive(file, Logs[log].head_digest)

Undisturbed ==
    /\ sole # None /\ writer[sole].pc = "idle"
    /\ Last(answers[sole]).result.error = "none"

Given == Last(answers[sole]).arg

PossibleLog(log) == \A r \in Range(Logs[log].records) : Possible(r)

(* A write that reported success, and that no other write or edit has       *)
(* disturbed since it opened the file, reads back as the log it was given,  *)
(* if the pipeline can have made it.  A record that the pipeline cannot     *)
(* produce is refused when it is read: at the ends of the integer types and *)
(* with each pair of codes, although its chain verifies and its archive was *)
(* written without complaint (command_evidence.cpp:558-648).                *)
UndisturbedWriteReadsBack ==
    Undisturbed =>
        IF PossibleLog(Given)
        THEN LeftBy(Given) = [error |-> "none", archive |-> Logs[Given]]
        ELSE LeftBy(Given).error # "none"

(* The identity of an archive is the digest of its file.  The blocks that   *)
(* sha256 processes are those of the standard's padding of the whole file,  *)
(* wherever a write was cut relative to the block boundaries                *)
(* (sha256.cpp:284-397).                                                    *)
DigestsStandardBlocks ==
    file # None => FlattenSeq(sha256_blocks(file)) = StandardPadding(file)
=============================================================================
