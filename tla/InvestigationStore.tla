------------------------- MODULE InvestigationStore -------------------------
(***************************************************************************)
(* InvestigationStore and export_investigation_bundle_json over one         *)
(* database file that several callers use at once, statement by statement.  *)
(*                                                                         *)
(* A store object owns one SQLite connection.  Callers that share a store   *)
(* are threads of one process; callers with stores of their own may be in   *)
(* different processes.  SQLite itself is external: a connection in a       *)
(* transaction works on a copy of the file that COMMIT installs, and the    *)
(* locks are those of its default (rollback journal) mode, with the busy    *)
(* timeout the constructor asks for.                                        *)
(***************************************************************************)
EXTENDS BundleModel

CONSTANTS
    Callers, Connections,
    Workloads,         \* name |-> who calls what, on which stores and file
    MaxFaults,         \* bound: failing statements and crashes
    None

(* A workload's connections, arguments and calls are by caller; its         *)
(* preloaded archives are import arguments, in a current database only.     *)
ASSUME StoreAssumption ==
    /\ MaxFaults \in Nat
    /\ \A w \in DOMAIN Workloads :
          LET load == Workloads[w]
          IN  /\ load.connections \in [Callers -> Connections]
              /\ load.page_size \in 1 .. QueryLimit
              /\ load.calls \in [Callers -> Nat]
              /\ load.versions \subseteq 0 .. investigation_schema_version + 1

VARIABLES
    workload,   \* the name of the workload, chosen once
    file,       \* the committed database
    work,       \* connection |-> its transaction's copy, or NoCopy
    pending,    \* connection |-> COMMIT is waiting for readers to finish
    open,       \* connection |-> the store is constructed
    frame,      \* caller |-> the call it is in
    returned,   \* caller |-> what its calls returned
    faults      \* faults so far

vars == <<workload, file, work, pending, open, frame, returned, faults>>

Load == Workloads[workload]

ConnectionOf == Load.connections  \* caller |-> connection of its store
Arguments == Load.arguments       \* caller |-> op |-> arguments it calls it with
Preloaded == Load.preloaded
PageSize == Load.page_size        \* rows of a page of the exporter
MaxCalls == Load.calls            \* bound: caller |-> number of its calls

-----------------------------------------------------------------------------
(* The file when a caller first opens it.                                   *)

(* No transaction; every database has columns.                              *)
NoCopy == <<>>

Database(version) ==
    LET loads == IF version = 1 THEN Preloaded ELSE <<>>
        records(i) == loads[i].archive.records
    IN  [EmptyDatabase EXCEPT
            !.version = version,
            !.tables = version > 0,
            !.archives = [i \in DOMAIN loads |->
                archive_row(loads[i].archive, loads[i].trusted_head,
                            loads[i].source)],
            !.evidence = UNION {evidence_rows(i, records(i)) : i \in DOMAIN loads},
            !.sessions = UNION {session_rows(i, records(i)) : i \in DOMAIN loads}]

Idle == [op |-> "idle", arg |-> None, pc |-> "idle", reading |-> FALSE,
         local |-> None]

Init ==
    /\ workload \in DOMAIN Workloads
    /\ \E v \in Load.versions :
          /\ file = Database(v)
          /\ open = [k \in Connections |-> v = 1]
    /\ work = [k \in Connections |-> NoCopy]
    /\ pending = [k \in Connections |-> FALSE]
    /\ frame = [c \in Callers |-> Idle]
    /\ returned = [c \in Callers |-> <<>>]
    /\ faults = 0

-----------------------------------------------------------------------------
(* SQLite.  A transaction holds the one RESERVED lock from BEGIN IMMEDIATE  *)
(* on; an unfinished SELECT holds a SHARED lock; COMMIT needs all others to *)
(* have let go, and while it waits no connection may begin to read.         *)

View(k) == IF work[k] = NoCopy THEN file ELSE work[k]

Statements(k) == {c \in Callers : ConnectionOf[c] = k /\ frame[c].reading}

Others(k) == Connections \ {k}

WriterElsewhere(k) == \E j \in Others(k) : work[j] # NoCopy

ReadersElsewhere(k) == \E j \in Others(k) : Statements(j) # {}

CanRead(k) ==
    \/ work[k] # NoCopy \/ Statements(k) # {}
    \/ \A j \in Others(k) : ~pending[j]

At(c, op, pc) == frame[c].op = op /\ frame[c].pc = pc

InTransaction(c) ==
    frame[c].pc \in {"ledger", "schema", "version", "archive", "rows",
                     "upsert", "commit"}

Goto(c, pc, local) ==
    frame' = [frame EXCEPT ![c].pc = pc, ![c].local = local]

(* The call has its outcome; leaving it finalizes its statements.           *)
Finish(c, outcome) ==
    frame' = [frame EXCEPT ![c].pc = "done", ![c].reading = FALSE,
                           ![c].local = outcome]

(* migrate turns every error into migration_failed.                         *)
failure(c, cause) ==
    [code |-> IF frame[c].op # "open" THEN "sqlite_failure"
              ELSE IF frame[c].pc = "configure" THEN "open_failed"
              ELSE "migration_failed",
     cause |-> cause]

(* ~Transaction rolls back what was not committed.                          *)
Rollback(k) ==
    /\ work' = [work EXCEPT ![k] = NoCopy]
    /\ pending' = [pending EXCEPT ![k] = FALSE]

Write(c, db) ==
    /\ work' = [work EXCEPT ![ConnectionOf[c]] = db]
    /\ UNCHANGED <<file, pending, open, returned, faults>>

(* Transaction's constructor.  It throws, and its destructor then does not  *)
(* run, when another thread of the store is in a transaction.  The busy     *)
(* handler waits for another connection's transaction only if this          *)
(* connection has no unfinished statement.                                  *)
nested_begin_rolls_back(c) ==  \* mutant
    /\ frame[c].pc = "begin"
    /\ work[ConnectionOf[c]] # NoCopy
    /\ Rollback(ConnectionOf[c])
    /\ Finish(c, failure(c, "nested"))

nested_begin(c) ==
    /\ frame[c].pc = "begin"
    /\ work[ConnectionOf[c]] # NoCopy
    /\ Finish(c, failure(c, "nested"))
    /\ UNCHANGED <<work, pending>>

BeginFails(c) ==
    LET k == ConnectionOf[c]
    IN  /\ \/ nested_begin(c)
           \/ /\ frame[c].pc = "begin"
              /\ work[k] = NoCopy /\ WriterElsewhere(k) /\ Statements(k) # {}
              /\ Finish(c, failure(c, "locked"))
              /\ UNCHANGED <<work, pending>>
        /\ UNCHANGED <<file, open, returned, faults>>

Begin(c) ==
    LET k == ConnectionOf[c]
    IN  /\ frame[c].pc = "begin"
        /\ work[k] = NoCopy /\ ~WriterElsewhere(k)
        /\ Write(c, file)
        /\ Goto(c, CASE frame[c].op = "open" -> "ledger"
                     [] frame[c].op = "import" -> "archive"
                     [] frame[c].op = "record" -> "upsert",
                frame[c].local)

commit_outcome(c) ==
    CASE frame[c].op = "open" -> [code |-> "ok"]
      [] frame[c].op = "record" -> [code |-> "ok"]
      [] frame[c].op = "import" ->
           [code |-> "ok", archive_id |-> frame[c].local.archive_id,
            inserted |-> frame[c].local.inserted]

committed(k) == work[k]

Commit(c) ==
    LET k == ConnectionOf[c]
    IN  /\ frame[c].pc = "commit"
        /\ ~ReadersElsewhere(k)
        /\ file' = committed(k)
        /\ Rollback(k)
        /\ open' = [open EXCEPT ![k] = TRUE]
        /\ Finish(c, commit_outcome(c))
        /\ UNCHANGED <<returned, faults>>

CommitWaits(c) ==
    LET k == ConnectionOf[c]
    IN  /\ frame[c].pc = "commit"
        /\ ReadersElsewhere(k) /\ ~pending[k]
        /\ pending' = [pending EXCEPT ![k] = TRUE]
        /\ UNCHANGED <<file, work, open, frame, returned, faults>>

(* sqlite3_busy_timeout(5000) runs out.                                     *)
BusyTimeout(c) ==
    LET k == ConnectionOf[c]
    IN  /\ \/ /\ frame[c].pc = "begin"
              /\ work[k] = NoCopy /\ WriterElsewhere(k) /\ Statements(k) = {}
              /\ UNCHANGED <<work, pending>>
           \/ /\ frame[c].pc = "commit" /\ pending[k] /\ ReadersElsewhere(k)
              /\ Rollback(k)
           \/ /\ frame[c].pc \in {"locate", "find", "replay", "evidence",
                                  "sessions"}
              /\ ~frame[c].reading /\ ~CanRead(k)
              /\ UNCHANGED <<work, pending>>
        /\ Finish(c, failure(c, "timeout"))
        /\ UNCHANGED <<file, open, returned, faults>>

(* A statement fails: disk full, I/O error, out of memory.                  *)
StatementFails(c) ==
    /\ faults < MaxFaults
    /\ frame[c].pc \notin {"idle", "done"}
    /\ IF InTransaction(c) THEN Rollback(ConnectionOf[c])
       ELSE UNCHANGED <<work, pending>>
    /\ Finish(c, failure(c, "fault"))
    /\ faults' = faults + 1
    /\ UNCHANGED <<file, open, returned>>

(* A process dies: what its connection had not committed is gone.           *)
Crash(k) ==
    LET users == {c \in Callers : ConnectionOf[c] = k /\ frame[c] # Idle}
    IN  /\ faults < MaxFaults
        /\ users # {}
        /\ Rollback(k)
        /\ open' = [open EXCEPT ![k] = FALSE]
        /\ returned' = [c \in Callers |->
             IF c \notin users THEN returned[c]
             ELSE Append(returned[c], [op |-> frame[c].op, arg |-> frame[c].arg,
                                       outcome |-> [code |-> "crashed"]])]
        /\ frame' = [c \in Callers |-> IF c \in users THEN Idle ELSE frame[c]]
        /\ faults' = faults + 1
        /\ UNCHANGED file

-----------------------------------------------------------------------------
(* Calls.                                                                   *)

Invoke(c, op, arg, pc, local) ==
    /\ frame[c] = Idle
    /\ Len(returned[c]) < MaxCalls[c]
    /\ frame' = [frame EXCEPT ![c] =
          [op |-> op, arg |-> arg, pc |-> pc, reading |-> FALSE,
           local |-> local]]
    /\ UNCHANGED <<file, work, pending, open, returned, faults>>

Return(c) ==
    /\ frame[c].pc = "done"
    /\ returned' = [returned EXCEPT ![c] =
          Append(@, [op |-> frame[c].op, arg |-> frame[c].arg,
                     outcome |-> frame[c].local])]
    /\ frame' = [frame EXCEPT ![c] = Idle]
    /\ UNCHANGED <<file, work, pending, open, faults>>

(* The constructor; a store is shared only once it is constructed.          *)
Open(c) ==
    LET k == ConnectionOf[c]
    IN  /\ ~open[k]
        /\ \A d \in Callers : ConnectionOf[d] = k => frame[d] = Idle
        /\ Invoke(c, "open", None, "configure", None)

Configure(c) ==
    /\ At(c, "open", "configure")
    /\ Goto(c, "begin", None)
    /\ UNCHANGED <<file, work, pending, open, returned, faults>>

(* migrate: read the version; apply and record the schema if there is none. *)
migration_unconditional(version) == "schema"  \* mutant
migration_step(version) ==
    IF version > investigation_schema_version THEN "refuse"
    ELSE IF version = 0 THEN "schema"
    ELSE "commit"

ReadVersion(c) ==
    LET step == migration_step(work[ConnectionOf[c]].version)
    IN  /\ At(c, "open", "ledger")
        /\ IF step = "refuse"
           THEN Rollback(ConnectionOf[c]) /\ Finish(c, failure(c, "newer"))
           ELSE Goto(c, step, None) /\ UNCHANGED <<work, pending>>
        /\ UNCHANGED <<file, open, returned, faults>>

ApplySchema(c) ==
    LET k == ConnectionOf[c]
    IN  /\ At(c, "open", "schema")
        /\ IF work[k].tables
           THEN Rollback(k) /\ Finish(c, failure(c, "table exists"))
           ELSE /\ work' = [work EXCEPT ![k].tables = TRUE]
                /\ Goto(c, "version", None)
                /\ UNCHANGED pending
        /\ UNCHANGED <<file, open, returned, faults>>

RecordVersion(c) ==
    LET k == ConnectionOf[c]
    IN  /\ At(c, "open", "version")
        /\ Write(c, [work[k] EXCEPT !.version = investigation_schema_version])
        /\ Goto(c, "commit", None)

(* import_archive.  The archive decoder is EvidenceArchive's; here it       *)
(* accepts the archives whose head is the trusted one.                      *)
import_error(arg) ==
    IF arg.archive = None \/ arg.source = "" THEN "invalid_argument"
    ELSE IF arg.archive.head_digest # arg.trusted_head
    THEN "archive_verification_failed"
    ELSE "none"

ImportArchive(c, arg) ==
    /\ open[ConnectionOf[c]]
    /\ Invoke(c, "import", arg,
              IF import_error(arg) = "none" THEN "begin" ELSE "done",
              IF import_error(arg) = "none" THEN None
              ELSE [code |-> import_error(arg)])

(* The rows that follow the archive's: its records, then its sessions.      *)
row_count(arg) ==
    Len(arg.archive.records)
      + Cardinality(DOMAIN session_aggregates(arg.archive.records))

stored_conflicts(row, archive) ==
    \/ row.record_count # Len(archive.records)
    \/ row.declared_head # archive.head_digest

archive_id_of(db, archive) == CHOOSE i \in Stored(db, archive) : TRUE

InsertArchive(c) ==
    LET k == ConnectionOf[c]
        arg == frame[c].arg
        db == insert_archive(work[k], arg.archive, arg.trusted_head, arg.source)
        inserted == db # work[k]
        id == archive_id_of(db, arg.archive)
        local == [archive_id |-> id, inserted |-> inserted, n |-> 0]
    IN  /\ At(c, "import", "archive")
        /\ IF ~inserted /\ stored_conflicts(db.archives[id], arg.archive)
           THEN Rollback(k) /\ Finish(c, failure(c, "conflict"))
           ELSE /\ work' = [work EXCEPT ![k] = db]
                /\ Goto(c, IF inserted /\ row_count(arg) > 0 THEN "rows"
                           ELSE "commit", local)
                /\ UNCHANGED pending
        /\ UNCHANGED <<file, open, returned, faults>>

InsertRow(c) ==
    LET k == ConnectionOf[c]
        arg == frame[c].arg
        rs == arg.archive.records
        ag == session_aggregates(rs)
        local == [frame[c].local EXCEPT !.n = @ + 1]
        key == SetToSeq(DOMAIN ag)[local.n - Len(rs)]
    IN  /\ At(c, "import", "rows")
        /\ Write(c, IF local.n <= Len(rs)
                    THEN insert_record(work[k], local.archive_id, rs[local.n])
                    ELSE insert_session(work[k], local.archive_id, key, ag[key]))
        /\ Goto(c, IF local.n = row_count(arg) THEN "commit" ELSE "rows", local)

(* record_replay_result.  The statement that located the archive is still   *)
(* unfinished when the transaction begins.                                  *)
RecordReplayResult(c, arg) ==
    /\ open[ConnectionOf[c]]
    /\ Invoke(c, "record", arg,
              IF arg.archive_id > 0 THEN "locate" ELSE "done",
              IF arg.archive_id > 0 THEN None
              ELSE [code |-> "invalid_argument"])

LocateArchive(c) ==
    LET k == ConnectionOf[c]
    IN  /\ At(c, "record", "locate")
        /\ CanRead(k)
        /\ IF frame[c].arg.archive_id \in DOMAIN View(k).archives
           THEN frame' = [frame EXCEPT ![c].pc = "begin", ![c].reading = TRUE]
           ELSE Finish(c, [code |-> "archive_not_found"])
        /\ UNCHANGED <<file, work, pending, open, returned, faults>>

(* REFERENCES evidence_archives, with PRAGMA foreign_keys = ON.             *)
foreign_key_holds(db, id) == id \in DOMAIN db.archives

UpsertReplayResult(c) ==
    LET k == ConnectionOf[c]
        arg == frame[c].arg
    IN  /\ At(c, "record", "upsert")
        /\ IF foreign_key_holds(work[k], arg.archive_id)
           THEN /\ work' = [work EXCEPT ![k] =
                      upsert_replay_result(@, arg.archive_id, arg.result)]
                /\ Goto(c, "commit", None)
                /\ UNCHANGED pending
           ELSE Rollback(k) /\ Finish(c, failure(c, "foreign key"))
        /\ UNCHANGED <<file, open, returned, faults>>

-----------------------------------------------------------------------------
(* export_investigation_bundle_json: four kinds of SELECT, each its own     *)
(* read transaction unless another thread of the store is in one.           *)

Export(c, arg) ==
    /\ open[ConnectionOf[c]]
    /\ Invoke(c, "export", arg,
              IF arg.archive_id > 0 THEN "find" ELSE "done",
              IF arg.archive_id > 0
              THEN [before |-> {}, archive |-> None, replay |-> None,
                    evidence |-> <<>>]
              ELSE [code |-> "invalid_archive_id"])

StepRow(c) ==
    /\ frame[c].pc \in {"find", "replay", "evidence", "sessions"}
    /\ ~frame[c].reading
    /\ CanRead(ConnectionOf[c])
    /\ frame' = [frame EXCEPT ![c].reading = TRUE]
    /\ UNCHANGED <<file, work, pending, open, returned, faults>>

(* The statement is finalized and the call goes on.                         *)
Continue(c, pc, local) ==
    frame' = [frame EXCEPT ![c].pc = pc, ![c].reading = FALSE,
                           ![c].local = local]

cursor_kept(page, before) == before  \* mutant: the cursor does not move
next_cursor(page, before) == {Last(page)}

FindArchive(c) ==
    LET local == frame[c].local
        id == frame[c].arg.archive_id
        db == View(ConnectionOf[c])
        page == list_archives(db, PageSize, local.before)
    IN  /\ At(c, "export", "find") /\ frame[c].reading
        /\ IF Contains(page, id)
           THEN Continue(c, "replay",
                         [local EXCEPT !.archive = db.archives[id]])
           ELSE IF page = <<>> THEN Finish(c, [code |-> "archive_not_found"])
           ELSE Continue(c, "find",
                    [local EXCEPT !.before = next_cursor(page, local.before)])
        /\ UNCHANGED <<file, work, pending, open, returned, faults>>

ReadReplayResult(c) ==
    LET results == replay_result(View(ConnectionOf[c]), frame[c].arg.archive_id)
    IN  /\ At(c, "export", "replay") /\ frame[c].reading
        /\ IF results = {} THEN Finish(c, [code |-> "replay_result_missing"])
           ELSE Continue(c, "evidence",
                         [frame[c].local EXCEPT !.replay =
                             CHOOSE r \in results : TRUE])
        /\ UNCHANGED <<file, work, pending, open, returned, faults>>

page_is_last(page) == Len(page) < PageSize

LoadEvidence(c) ==
    LET local == frame[c].local
        after == IF local.evidence = <<>> THEN {}
                 ELSE {Last(local.evidence).record.ordinal}
        page == query_evidence(View(ConnectionOf[c]), frame[c].arg.archive_id,
                               [NoFilter EXCEPT !.after_ordinal = after],
                               PageSize)
        evidence == local.evidence \o page
        next == [local EXCEPT !.evidence = evidence]
    IN  /\ At(c, "export", "evidence") /\ frame[c].reading
        /\ IF ~page_is_intact(page) THEN Finish(c, failure(c, "digest"))
           ELSE IF ~ordinals_increase(evidence)
           THEN Finish(c, [code |-> "evidence_chain_mismatch"])
           ELSE IF ~page_is_last(page) THEN Continue(c, "evidence", next)
           ELSE IF records_error(local.archive, evidence) # "none"
           THEN Finish(c, [code |-> records_error(local.archive, evidence)])
           ELSE Continue(c, "sessions", next)
        /\ UNCHANGED <<file, work, pending, open, returned, faults>>

ReadSessions(c) ==
    LET local == frame[c].local
        sessions == list_sessions(View(ConnectionOf[c]), frame[c].arg.archive_id)
        error == sessions_error(local.evidence, sessions)
    IN  /\ At(c, "export", "sessions") /\ frame[c].reading
        /\ Finish(c, IF error # "none" THEN [code |-> error]
                     ELSE [code |-> "ok",
                           bundle |-> export_bundle(local.archive, local.replay,
                                                    local.evidence, sessions)])
        /\ UNCHANGED <<file, work, pending, open, returned, faults>>

-----------------------------------------------------------------------------
(* Specification.                                                           *)

Call(c) ==
    \/ Open(c)
    \/ \E arg \in Arguments[c]["import"] : ImportArchive(c, arg)
    \/ \E arg \in Arguments[c]["record"] : RecordReplayResult(c, arg)
    \/ \E arg \in Arguments[c]["export"] : Export(c, arg)

(* What a caller's thread does while it is in a call.                       *)
Progress(c) ==
    \/ Configure(c) \/ Begin(c) \/ BeginFails(c) \/ Commit(c) \/ CommitWaits(c)
    \/ ReadVersion(c) \/ ApplySchema(c) \/ RecordVersion(c)
    \/ InsertArchive(c) \/ InsertRow(c)
    \/ LocateArchive(c) \/ UpsertReplayResult(c)
    \/ StepRow(c) \/ FindArchive(c) \/ ReadReplayResult(c)
    \/ LoadEvidence(c) \/ ReadSessions(c)
    \/ BusyTimeout(c) \/ Return(c)

Next ==
    /\ \/ \E c \in Callers : Call(c) \/ Progress(c) \/ StatementFails(c)
       \/ \E k \in Connections : Crash(k)
    /\ UNCHANGED workload

Spec == Init /\ [][Next]_vars

(* Threads are scheduled and a busy timeout runs out; nothing has to be     *)
(* called and nothing has to fail.                                          *)
FairSpec == Spec /\ \A c \in Callers : WF_vars(Progress(c) /\ UNCHANGED workload)

-----------------------------------------------------------------------------
(* Properties.                                                              *)

Answers == UNION {Range(returned[c]) : c \in Callers}

Ok(answer, op) == answer.op = op /\ answer.outcome.code = "ok"

(* What an export of a whole archive says.                                  *)
BundleOf(archive, result) ==
    LET arg == [archive |-> archive, trusted_head |-> archive.head_digest,
                source |-> "any"]
        db == import_all(EmptyDatabase, 1, arg)
        evidence == [i \in DOMAIN archive.records |->
                       [record_digest |-> digest(archive.records[i]),
                        record |-> archive.records[i]]]
    IN  export_bundle(db.archives[1], result, evidence, list_sessions(db, 1))

AllArguments(op) ==
    UNION {Workloads[w].arguments[c][op] : w \in DOMAIN Workloads, c \in Callers}

AllPreloaded == UNION {Range(Workloads[w].preloaded) : w \in DOMAIN Workloads}

ImportArguments ==
    {arg \in AllArguments("import") : import_error(arg) = "none"} \cup AllPreloaded

Archives == {arg.archive : arg \in ImportArguments}

(* The digest of an archive names it, and a file holds no archive twice.    *)
ASSUME ArchiveAssumption ==
    /\ \A a, b \in Archives : archive_digest(a) = archive_digest(b) => a = b
    /\ \A a \in Archives : a.records \in Seq(Range(a.records))
    /\ \A w \in DOMAIN Workloads :
          LET loads == Workloads[w].preloaded
          IN  /\ loads \in Seq(Range(loads))
              /\ \A i, j \in DOMAIN loads :
                    archive_digest(loads[i].archive)
                      = archive_digest(loads[j].archive) => i = j

Results == {arg.result : arg \in AllArguments("record")}

Contents ==
    [d \in {archive_digest(a) : a \in Archives} |->
        CHOOSE a \in Archives : archive_digest(a) = d]

Bundles ==
    [x \in (DOMAIN Contents) \X Results |-> BundleOf(Contents[x[1]], x[2])]

Content(db, i) == Contents[db.archives[i].archive_digest]

(* Types of the database, the connections and the calls; a committed        *)
(* version goes with committed tables.                                      *)
TypeOK ==
    /\ workload \in DOMAIN Workloads
    /\ file.version \in 0 .. investigation_schema_version + 1
    /\ file.tables = (file.version > 0)
    /\ DOMAIN file = DOMAIN EmptyDatabase
    /\ \A k \in Connections :
          work[k] # NoCopy => DOMAIN work[k] = DOMAIN EmptyDatabase
    /\ pending \in [Connections -> BOOLEAN]
    /\ open \in [Connections -> BOOLEAN]
    /\ DOMAIN frame = Callers
    /\ \A c \in Callers :
          /\ frame[c].op \in {"idle", "open", "import", "record", "export"}
          /\ frame[c].reading \in BOOLEAN
          /\ Len(returned[c]) <= MaxCalls[c]
    /\ faults \in 0 .. MaxFaults

(* The database holds each archive once, with all of its records and the    *)
(* session summaries they add up to, and no row of any other.               *)
Whole(db) ==
    /\ \A i, j \in DOMAIN db.archives :
          db.archives[i].archive_digest = db.archives[j].archive_digest => i = j
    /\ db.evidence = UNION {evidence_rows(i, Content(db, i).records) :
                               i \in DOMAIN db.archives}
    /\ db.sessions = UNION {session_rows(i, Content(db, i).records) :
                               i \in DOMAIN db.archives}

(* Whatever fails, times out or crashes in the middle of an import, the     *)
(* committed file is whole.                                                 *)
ImportsWhole == Whole(file)

(* A transaction has exactly one owner, a thread inside its statements:     *)
(* however a call ends it leaves neither a transaction nor a lock behind.   *)
NothingLeftBehind ==
    \A k \in Connections :
        LET owners == {c \in Callers : ConnectionOf[c] = k /\ InTransaction(c)}
        IN  /\ Cardinality(owners) = IF work[k] = NoCopy THEN 0 ELSE 1
            /\ pending[k] => work[k] # NoCopy
            /\ \A c \in Callers : frame[c].reading =>
                  frame[c].pc \notin {"idle", "done"}

(* A replay result belongs to an archive of the file, also when the archive *)
(* that record_replay_result located was rolled back before its upsert.     *)
ReplayedArchiveExists ==
    \A row \in file.replay_results : row.archive_id \in DOMAIN file.archives

(* Nothing that fails, times out or crashes between two statements leaves   *)
(* a part of a call behind: in the file, in a connection or as a lock, and  *)
(* no thread ends the transaction of another one on the same store.         *)
StoreSound ==
    /\ TypeOK
    /\ ImportsWhole
    /\ ReplayedArchiveExists
    /\ NothingLeftBehind

(* An import that succeeded was of an archive with the trusted head, and    *)
(* its identifier names that archive from then on.                          *)
ImportHolds(a) ==
    Ok(a, "import") =>
        /\ a.outcome.archive_id \in DOMAIN file.archives
        /\ Content(file, a.outcome.archive_id) = a.arg.archive
        /\ a.arg.archive.head_digest = a.arg.trusted_head

(* A replay result that was recorded is there, or a later one.              *)
RecordHolds(a) ==
    Ok(a, "record") => replay_result(file, a.arg.archive_id) # {}

Newer == file.version > investigation_schema_version

(* A store opens unless SQLite fails, the lock is not had in time, or the   *)
(* file is of a newer schema: two processes that open a new file together   *)
(* both get it, whoever applies the schema.                                 *)
OpenHolds(a) ==
    a.op = "open" =>
        \/ a.outcome.code = "crashed"
        \/ a.outcome.code = "ok" /\ ~Newer
        \/ a.outcome.code \notin {"ok", "crashed"}
           /\ \/ a.outcome.cause \in {"fault", "timeout"}
              \/ a.outcome.cause = "newer" /\ Newer

(* What a caller was told stays true of the committed file.  A file of a    *)
(* newer schema is not opened, and stays as it was.                         *)
AnswersHold ==
    /\ \A a \in Answers : ImportHolds(a) /\ RecordHolds(a) /\ OpenHolds(a)
    /\ Newer => file = Database(file.version)

(* A bundle is that of an archive of the file, complete and in order, even  *)
(* if threads share the store and the archive row was read inside an import *)
(* that was then rolled back.                                               *)
BundlesGenuine ==
    \A a \in Answers : Ok(a, "export") =>
        /\ a.arg.archive_id \in DOMAIN file.archives
        /\ \E r \in Results :
              a.outcome.bundle =
                Bundles[file.archives[a.arg.archive_id].archive_digest, r]

(* Every call returns.                                                      *)
EveryCallReturns ==
    \A c \in Callers : frame[c].pc # "idle" ~> frame[c].pc = "idle"
=============================================================================
