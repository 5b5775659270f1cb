-------------------------- MODULE StoreRefinement --------------------------
(***************************************************************************)
(* InvestigationStore implements InvestigationLedger when every caller has  *)
(* a store of its own.  An import and a replay result take effect when they *)
(* are committed; an export takes effect when it reads the replay result,   *)
(* for nothing else it reads can change, or, if the identifier is beyond    *)
(* the first page of archives, with that page.                              *)
(***************************************************************************)
EXTENDS InvestigationStore

AnswerWith(c, outcome) ==
    [op |-> frame[c].op, arg |-> frame[c].arg, outcome |-> outcome]

(* Outcomes of a call that had no effect: refused before it reached the     *)
(* database, or not carried out by SQLite.                                  *)
NoEffect ==
    {[code |-> code] : code \in {"invalid_argument", "invalid_archive_id",
                                 "archive_verification_failed"}}
      \cup [code : {"sqlite_failure", "open_failed", "migration_failed"},
            cause : {"fault", "timeout", "locked", "newer"}]

OpenOutcomes == {[code |-> "ok"], [code |-> "crashed"]} \cup NoEffect

TookEffect(c) == frame[c].op # "open" /\ frame[c].local \notin NoEffect

(* The cursor has passed the identifier.                                    *)
OutOfRange(c) ==
    \E b \in frame[c].local.before : frame[c].arg.archive_id > b

AnswerOf(c) ==
    CASE frame[c].pc = "done" /\ TookEffect(c) ->
           AnswerWith(c, frame[c].local)
      [] At(c, "export", "find") /\ OutOfRange(c) ->
           AnswerWith(c, [code |-> "archive_not_found"])
      [] frame[c].op = "export" /\ frame[c].pc \in {"evidence", "sessions"} ->
           AnswerWith(c, [code |-> "ok",
                        bundle |-> Bundles[frame[c].local.archive.archive_digest,
                                           frame[c].local.replay]])
      [] OTHER -> None

StoreIsShared == \E c, d \in Callers : c # d /\ ConnectionOf[c] = ConnectionOf[d]

RecordedIds == {row.archive_id : row \in file.replay_results}

Ledger == INSTANCE InvestigationLedger WITH
    Preloads <- {[i \in DOMAIN Workloads[w].preloaded |->
                    archive_digest(Workloads[w].preloaded[i].archive)] :
                   w \in DOMAIN Workloads},
    Arguments <- [op \in {"import", "record", "export"} |-> AllArguments(op)],
    Failures <- NoEffect,
    Unopened <- None,
    Imported <- LAMBDA arg : archive_digest(arg.archive),
    Bundle <- LAMBDA archive, result : Bundles[archive, result],
    archives <- [i \in DOMAIN file.archives |->
                    file.archives[i].archive_digest],
    verdicts <- [i \in RecordedIds |->
                    CHOOSE r \in replay_result(file, i) : TRUE],
    answer <- [c \in Callers |-> AnswerOf(c)]

(* Every call behaves as if it took effect at one moment of its duration,   *)
(* or had no effect and said so: imports are whole and idempotent, also     *)
(* when retried after a crash that lost the answer; exactly one import of   *)
(* an archive reports inserted; a replay result that was acknowledged is    *)
(* the archive's until a later one replaces it; an export reports an        *)
(* archive that was there when the call began, and its replay result at a   *)
(* moment of the call, while other callers write between its reads.         *)
ImplementsLedger ==
    Ledger!LedgerInit /\ [][StoreIsShared \/ Ledger!LedgerNext]_(Ledger!ledgerVars)
=============================================================================
