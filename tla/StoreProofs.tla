---------------------------- MODULE StoreProofs ----------------------------
(***************************************************************************)
(* The safety properties of InvestigationStore for any number of callers,   *)
(* connections and failures and any workload: the committed file is sound   *)
(* and what callers were told stays true.  They follow from one inductive   *)
(* invariant, StoreInv, which says what the one transaction in progress has *)
(* done at each of its statements.                                          *)
(***************************************************************************)
EXTENDS InvestigationStore, FiniteSetTheorems, TLAPS

-----------------------------------------------------------------------------
(* The inductive invariant.                                                 *)

ValidImports == {arg \in AllArguments("import") : import_error(arg) = "none"}

Rows == {archive_row(x.archive, x.trusted_head, x.source) : x \in ImportArguments}

DatabaseShape(db) ==
    /\ DOMAIN db = DOMAIN EmptyDatabase
    /\ db.archives \in Seq(Rows)

(* What COMMIT may install.                                                 *)
Sound(db) ==
    /\ DatabaseShape(db)
    /\ Whole(db)
    /\ \A row \in db.replay_results : row.archive_id \in DOMAIN db.archives

(* new has the archives of old, with their identifiers, and a replay result *)
(* for each archive old has one for.                                        *)
Extends(old, new) ==
    /\ \A i \in DOMAIN old.archives :
          i \in DOMAIN new.archives /\ new.archives[i] = old.archives[i]
    /\ \A row \in old.replay_results : \E r \in new.replay_results :
          r.archive_id = row.archive_id

(* The steps each call goes through.                                        *)
FrameShape(f) ==
    /\ DOMAIN f = DOMAIN Idle
    /\ f.reading \in BOOLEAN
    /\ f.pc \in {"idle", "done"} => ~f.reading
    /\ \/ f = Idle
       \/ /\ f.op = "open" /\ ~f.reading
          /\ f.pc \in {"configure", "begin", "ledger", "schema", "version",
                       "commit", "done"}
       \/ /\ f.op = "import"
          /\ f.pc \in {"begin", "archive", "rows", "commit", "done"}
          /\ f.pc # "done" => f.arg \in ValidImports
       \/ f.op = "record" /\ f.pc \in {"locate", "begin", "upsert", "commit", "done"}
       \/ f.op = "export" /\ f.pc \in {"find", "replay", "evidence", "sessions", "done"}

Shape ==
    /\ workload \in DOMAIN Workloads
    /\ work \in [Connections -> Range(work)]
    /\ pending \in [Connections -> BOOLEAN]
    /\ open \in [Connections -> BOOLEAN]
    /\ faults \in 0 .. MaxFaults
    /\ DOMAIN frame = Callers
    /\ \A c \in Callers : FrameShape(frame[c])

Counted ==
    /\ DOMAIN returned = Callers
    /\ \A c \in Callers :
          /\ returned[c] \in Seq(Range(returned[c]))
          /\ Len(returned[c]) <= MaxCalls[c]
          /\ frame[c] # Idle => Len(returned[c]) < MaxCalls[c]

(* The one transaction, if there is one, is that of a thread inside it.     *)
Owners ==
    /\ \A c \in Callers : InTransaction(c) => work[ConnectionOf[c]] # NoCopy
    /\ \A c, d \in Callers : InTransaction(c) /\ InTransaction(d) => c = d
    /\ \A k \in Connections : work[k] # NoCopy =>
          \E c \in Callers : ConnectionOf[c] = k /\ InTransaction(c)
    /\ \A k \in Connections : pending[k] => work[k] # NoCopy

(* A store is not used before it is constructed.                            *)
Alone ==
    \A c \in Callers : frame[c].op = "open" =>
        /\ frame[c].pc # "done" => ~open[ConnectionOf[c]]
        /\ ~open[ConnectionOf[c]] =>
              \A d \in Callers : ConnectionOf[d] = ConnectionOf[c] /\ d # c
                                   => frame[d] = Idle

(* A store that is constructed, and so every other call, is of the current  *)
(* schema.                                                                  *)
Versions ==
    /\ file.version \in 0 .. investigation_schema_version + 1
    /\ file.tables = (file.version > 0)
    /\ \A k \in Connections : open[k] => file.version = 1
    /\ \A c \in Callers : frame[c].op \notin {"idle", "open"} => file.version = 1
    /\ Newer => file = Database(file.version)

SameButRows(db) ==
    /\ db.version = file.version /\ db.tables = file.tables
    /\ db.replay_results = file.replay_results

(* What an import of x has inserted after its first n rows: some of the     *)
(* rows of an archive that the file does not have.                          *)
Inserting(x, id, n, db) ==
    LET rs == x.archive.records
        ag == session_aggregates(rs)
        keys == SetToSeq(DOMAIN ag)
    IN  /\ SameButRows(db)
        /\ Stored(file, x.archive) = {}
        /\ id = Len(file.archives) + 1
        /\ db.archives = Append(file.archives,
                            archive_row(x.archive, x.trusted_head, x.source))
        /\ db.evidence = file.evidence \cup
              {evidence_row(id, rs[i]) : i \in {j \in DOMAIN rs : j <= n}}
        /\ db.sessions = file.sessions \cup
              {session_row(id, keys[i], ag[keys[i]]) :
                  i \in {j \in DOMAIN keys : Len(rs) + j <= n}}

InsertingRows(f, db) ==
    /\ f.local = [archive_id |-> f.local.archive_id,
                  inserted |-> f.local.inserted, n |-> f.local.n]
    /\ f.local.n \in Nat /\ f.local.n < row_count(f.arg)
    /\ Inserting(f.arg, f.local.archive_id, f.local.n, db)

(* What COMMIT will install, and what the caller will be told of it.        *)
Committing(f, db) ==
    /\ Sound(db) /\ Extends(file, db)
    /\ file.version \in 0 .. 1 /\ db.version = 1 /\ db.tables = TRUE
    /\ f.op = "import" =>
          /\ f.local.archive_id \in DOMAIN db.archives
          /\ Content(db, f.local.archive_id) = f.arg.archive
    /\ f.op = "record" =>
          \E row \in db.replay_results : row.archive_id = f.arg.archive_id

(* The work copy db at each statement of the transaction of frame f.        *)
Progressed(f, db) ==
    /\ DatabaseShape(db)
    /\ f.pc \in {"ledger", "schema", "archive", "upsert"} => db = file
    /\ f.pc \in {"schema", "version"} => file.version = 0
    /\ f.pc = "version" => db = [file EXCEPT !.tables = TRUE]
    /\ f.pc = "rows" => InsertingRows(f, db)
    /\ f.pc = "commit" => Committing(f, db)

Transactions ==
    \A c \in Callers : InTransaction(c) =>
        Progressed(frame[c], work[ConnectionOf[c]])

Holds(a) == ImportHolds(a) /\ RecordHolds(a) /\ OpenHolds(a)

AnswerIn(f) == [op |-> f.op, arg |-> f.arg, outcome |-> f.local]

Told ==
    /\ \A c \in Callers : frame[c].pc = "done" => Holds(AnswerIn(frame[c]))
    /\ \A c \in Callers : \A a \in Range(returned[c]) : Holds(a)

StoreInv ==
    /\ Shape
    /\ Counted
    /\ Owners
    /\ Alone
    /\ Versions
    /\ Sound(file)
    /\ Transactions
    /\ Told

-----------------------------------------------------------------------------
(* Sequences of answers, databases and enumerations.                        *)

(* An answer is added to those a caller has.                                *)
LEMMA AppendAnswer ==
    ASSUME NEW s, s \in Seq(Range(s)), NEW e
    PROVE  /\ Append(s, e) \in Seq(Range(Append(s, e)))
           /\ Range(Append(s, e)) = Range(s) \cup {e}
           /\ Len(Append(s, e)) = Len(s) + 1 /\ Len(s) \in Nat
<1> DEFINE t == Append(s, e)
<1>1. s \in Seq(Range(s) \cup {e})
    OBVIOUS
<1>2. /\ t \in Seq(Range(s) \cup {e}) /\ Len(t) = Len(s) + 1 /\ Len(s) \in Nat
      /\ \A i \in 1 .. Len(s) : t[i] = s[i]
      /\ t[Len(s) + 1] = e
    BY <1>1
<1>3. DOMAIN t = 1 .. Len(s) + 1 /\ DOMAIN s = 1 .. Len(s)
    BY <1>1, <1>2
<1> HIDE DEF t
<1>4. Range(t) \subseteq Range(s) \cup {e}
    BY <1>2, <1>3 DEF Range
<1>5. Range(s) \cup {e} \subseteq Range(t)
  <2>1. e \in Range(t)
      BY <1>2, <1>3 DEF Range
  <2>2. ASSUME NEW i \in DOMAIN s
        PROVE  s[i] \in Range(t)
    <3>1. i \in DOMAIN t /\ t[i] = s[i]
        BY <1>2, <1>3
    <3> QED BY <3>1 DEF Range
  <2> QED BY <2>1, <2>2 DEF Range
<1>6. Range(t) = Range(s) \cup {e}
    BY <1>4, <1>5
<1>7. t \in Seq(Range(t))
    BY <1>2, <1>6
<1> QED BY <1>2, <1>6, <1>7 DEF t

(* A database is not the mark of a connection without a transaction.        *)
LEMMA DatabaseIsACopy ==
    ASSUME NEW db, DatabaseShape(db)
    PROVE  db # NoCopy
<1>1. "version" \in DOMAIN db
    BY DEF DatabaseShape, EmptyDatabase
<1>2. "version" \notin DOMAIN NoCopy
    BY DEF NoCopy
<1> QED BY <1>1, <1>2

(* SetToSeq enumerates a finite set.                                        *)
LEMMA SetToSeqEnumerates ==
    ASSUME NEW S, IsFiniteSet(S)
    PROVE  /\ Cardinality(S) \in Nat
           /\ DOMAIN SetToSeq(S) = 1 .. Cardinality(S)
           /\ Range(SetToSeq(S)) = S
<1> DEFINE n == Cardinality(S)
           f == SetToSeq(S)
<1>1. n \in Nat
    BY FS_CardinalityType
<1>2. PICK g \in Bijection(1 .. n, S) : TRUE
    BY <1>1, FS_CardinalityType DEF ExistsBijection
<1>3. f \in [1 .. n -> S] /\ IsInjective(f)
    BY <1>2 DEF SetToSeq, Bijection, Injection
<1>4. f \in Injection(1 .. n, S)
    BY <1>3 DEF Injection
<1>5. IsFiniteSet(1 .. n) /\ Cardinality(1 .. n) = n
    BY <1>1, FS_Interval
<1>6. f \in Surjection(1 .. n, S)
    BY <1>4, <1>5, FS_Injection
<1>7. Range(f) = S
    BY <1>3, <1>6 DEF Surjection, Range
<1> QED BY <1>1, <1>3, <1>7

(* The keys of an archive are finitely many.                                *)
LEMMA AggregatesFinite ==
    ASSUME NEW rs, rs \in Seq(Range(rs))
    PROVE  IsFiniteSet(DOMAIN session_aggregates(rs))
<1> DEFINE n == Len(rs)
           f == [i \in 1 .. n |-> SessionKey(rs[i])]
           K == {SessionKey(rs[i]) : i \in 1 .. n}
<1>1. n \in Nat /\ DOMAIN rs = 1 .. n
    OBVIOUS
<1>2. f \in Surjection(1 .. n, K)
    BY DEF Surjection
<1>3. IsFiniteSet(1 .. n)
    BY <1>1, FS_Interval
<1>4. IsFiniteSet(K)
    BY <1>2, <1>3, FS_Surjection
<1> QED BY <1>1, <1>4 DEF session_aggregates

-----------------------------------------------------------------------------
(* The contents of a database.                                              *)

(* The digest of an archive row stands for its archive.                     *)
LEMMA ContentOf ==
    ASSUME NEW db, NEW i, NEW a \in Archives,
           db.archives[i].archive_digest = archive_digest(a)
    PROVE  Content(db, i) = a
<1> DEFINE d == archive_digest(a)
<1>1. \A b \in Archives : archive_digest(b) = d => b = a
    BY ArchiveAssumption
<1>2. (CHOOSE b \in Archives : archive_digest(b) = d) = a
    BY <1>1, Zenon
<1>3. d \in {archive_digest(b) : b \in Archives}
    OBVIOUS
<1>4. Contents[d] = CHOOSE b \in Archives : archive_digest(b) = d
    BY <1>3 DEF Contents
<1> QED BY <1>2, <1>4 DEF Content

(* Every row of a database is that of an archive.                           *)
LEMMA RowIsAnArchive ==
    ASSUME NEW row \in Rows
    PROVE  \E x \in ImportArguments :
              /\ row = archive_row(x.archive, x.trusted_head, x.source)
              /\ x.archive \in Archives
              /\ row.archive_digest = archive_digest(x.archive)
<1>1. PICK x \in ImportArguments :
          row = archive_row(x.archive, x.trusted_head, x.source)
    BY DEF Rows
<1>2. x.archive \in Archives
    BY DEF Archives
<1> QED BY <1>1, <1>2 DEF archive_row

(* Two databases with the same row agree on its archive.                    *)
LEMMA SameContent ==
    ASSUME NEW db, NEW old, NEW i, db.archives[i] = old.archives[i]
    PROVE  Content(db, i) = Content(old, i)
  BY DEF Content

(* The rows a whole database has, by archive.                               *)
EvidenceOfArchive(db, i) == evidence_rows(i, Content(db, i).records)
SessionsOfArchive(db, i) == session_rows(i, Content(db, i).records)

WholeRows(db) ==
    /\ \A e : e \in db.evidence <=>
          \E i \in DOMAIN db.archives : e \in EvidenceOfArchive(db, i)
    /\ \A e : e \in db.sessions <=>
          \E i \in DOMAIN db.archives : e \in SessionsOfArchive(db, i)

DistinctArchives(db) ==
    \A i, j \in DOMAIN db.archives :
        db.archives[i].archive_digest = db.archives[j].archive_digest => i = j

(* A whole database, row by row.                                            *)
LEMMA WholeMeans ==
    ASSUME NEW db
    PROVE  Whole(db) <=> /\ DistinctArchives(db) /\ WholeRows(db)
<1> DEFINE E == UNION {evidence_rows(i, Content(db, i).records) :
                         i \in DOMAIN db.archives}
           S == UNION {session_rows(i, Content(db, i).records) :
                         i \in DOMAIN db.archives}
<1>1. \A e : e \in E <=> \E i \in DOMAIN db.archives : e \in EvidenceOfArchive(db, i)
    BY Zenon DEF EvidenceOfArchive
<1>2. \A e : e \in S <=> \E i \in DOMAIN db.archives : e \in SessionsOfArchive(db, i)
    BY Zenon DEF SessionsOfArchive
<1>3. Whole(db) <=> DistinctArchives(db) /\ db.evidence = E /\ db.sessions = S
    BY DEF Whole, DistinctArchives
<1> HIDE DEF E, S
<1>4. db.evidence = E <=> \A e : e \in db.evidence <=> e \in E
    OBVIOUS
<1>5. db.sessions = S <=> \A e : e \in db.sessions <=> e \in S
    OBVIOUS
<1> QED BY <1>1, <1>2, <1>3, <1>4, <1>5 DEF WholeRows

(* With all of its rows, the archive that was added makes a whole database  *)
(* of a whole database that did not have it.                                *)
LEMMA ImportIsWhole ==
    ASSUME NEW old, DatabaseShape(old), Whole(old),
           NEW x \in ImportArguments, Stored(old, x.archive) = {},
           NEW db,
           db.archives = Append(old.archives,
                            archive_row(x.archive, x.trusted_head, x.source)),
           db.evidence = old.evidence
              \cup evidence_rows(Len(old.archives) + 1, x.archive.records),
           db.sessions = old.sessions
              \cup session_rows(Len(old.archives) + 1, x.archive.records)
    PROVE  /\ Whole(db)
           /\ db.archives \in Seq(Rows)
           /\ Len(old.archives) + 1 \in DOMAIN db.archives
           /\ Content(db, Len(old.archives) + 1) = x.archive
           /\ \A i \in DOMAIN old.archives :
                 i \in DOMAIN db.archives /\ db.archives[i] = old.archives[i]
<1> DEFINE n == Len(old.archives)
           row == archive_row(x.archive, x.trusted_head, x.source)
<1>1. row \in Rows
    BY DEF Rows
<1>2. /\ old.archives \in Seq(Rows) /\ n \in Nat
      /\ DOMAIN old.archives = 1 .. n
    BY DEF DatabaseShape
<1> HIDE DEF row
<1>3. /\ db.archives \in Seq(Rows)
      /\ DOMAIN db.archives = 1 .. n + 1
      /\ \A i \in 1 .. n : db.archives[i] = old.archives[i]
      /\ db.archives[n + 1] = row
    BY <1>1, <1>2 DEF row
<1>4. \A i \in 1 .. n : Content(db, i) = Content(old, i)
    BY <1>3, SameContent
<1>5. row.archive_digest = archive_digest(x.archive) /\ x.archive \in Archives
    BY DEF row, archive_row, Archives
<1>6. Content(db, n + 1) = x.archive
    BY <1>3, <1>5, ContentOf
<1>7. DistinctArchives(db)
  <2>1. \A i \in 1 .. n : old.archives[i].archive_digest # row.archive_digest
      BY <1>2, <1>5 DEF Stored
  <2>2. DistinctArchives(old)
      BY WholeMeans
  <2> QED BY <1>2, <1>3, <2>1, <2>2 DEF DistinctArchives
<1>8. WholeRows(db)
  <2>1. WholeRows(old)
      BY WholeMeans
  <2>2. \A i \in 1 .. n : /\ EvidenceOfArchive(db, i) = EvidenceOfArchive(old, i)
                          /\ SessionsOfArchive(db, i) = SessionsOfArchive(old, i)
      BY <1>4 DEF EvidenceOfArchive, SessionsOfArchive
  <2>3. /\ EvidenceOfArchive(db, n + 1) = evidence_rows(n + 1, x.archive.records)
        /\ SessionsOfArchive(db, n + 1) = session_rows(n + 1, x.archive.records)
      BY <1>6 DEF EvidenceOfArchive, SessionsOfArchive
  <2>4. \A i : i \in DOMAIN db.archives <=> i \in DOMAIN old.archives \/ i = n + 1
      BY <1>2, <1>3
  <2>5. /\ \A e : e \in db.evidence
              <=> e \in old.evidence \/ e \in EvidenceOfArchive(db, n + 1)
        /\ \A e : e \in db.sessions
              <=> e \in old.sessions \/ e \in SessionsOfArchive(db, n + 1)
      BY <2>3
  <2>6. \A i \in DOMAIN old.archives :
            /\ EvidenceOfArchive(db, i) = EvidenceOfArchive(old, i)
            /\ SessionsOfArchive(db, i) = SessionsOfArchive(old, i)
      BY <1>2, <2>2
  <2> QED BY <2>1, <2>4, <2>5, <2>6, Zenon DEF WholeRows
<1> QED BY <1>2, <1>3, <1>6, <1>7, <1>8, WholeMeans

-----------------------------------------------------------------------------
(* What each statement changes of a database.                               *)

Columns == {"version", "tables", "archives", "evidence", "sessions",
            "replay_results"}

Rest(old, new, column) ==
    /\ DOMAIN new = DOMAIN EmptyDatabase
    /\ column # "version" => new.version = old.version
    /\ column # "tables" => new.tables = old.tables
    /\ column # "archives" => new.archives = old.archives
    /\ column # "evidence" => new.evidence = old.evidence
    /\ column # "sessions" => new.sessions = old.sessions
    /\ column # "replay_results" => new.replay_results = old.replay_results

(* A statement writes one column.                                           *)
LEMMA StatementChanges ==
    ASSUME NEW db, DOMAIN db = DOMAIN EmptyDatabase, NEW v
    PROVE  /\ LET new == [db EXCEPT !.version = v]
              IN  Rest(db, new, "version") /\ new.version = v
           /\ LET new == [db EXCEPT !.tables = v]
              IN  Rest(db, new, "tables") /\ new.tables = v
           /\ LET new == [db EXCEPT !.archives = v]
              IN  Rest(db, new, "archives") /\ new.archives = v
           /\ LET new == [db EXCEPT !.evidence = v]
              IN  Rest(db, new, "evidence") /\ new.evidence = v
           /\ LET new == [db EXCEPT !.sessions = v]
              IN  Rest(db, new, "sessions") /\ new.sessions = v
           /\ LET new == [db EXCEPT !.replay_results = v]
              IN  Rest(db, new, "replay_results") /\ new.replay_results = v
<1>1. DOMAIN db = Columns
    BY DEF Columns, EmptyDatabase
<1> QED BY <1>1 DEF Rest, Columns

(* The file a store is first opened with.                                   *)
LEMMA FirstFile ==
    ASSUME workload \in DOMAIN Workloads, NEW v \in 0 .. 2
    PROVE  /\ Sound(Database(v))
           /\ Database(v).version = v
           /\ Database(v).tables = (v > 0)
<1> DEFINE loads == IF v = 1 THEN Preloaded ELSE <<>>
           row(i) == archive_row(loads[i].archive, loads[i].trusted_head,
                                 loads[i].source)
           db == Database(v)
           E == UNION {evidence_rows(i, loads[i].archive.records) :
                         i \in DOMAIN loads}
           S == UNION {session_rows(i, loads[i].archive.records) :
                         i \in DOMAIN loads}
<1>1. /\ DOMAIN db = DOMAIN EmptyDatabase
      /\ db.version = v /\ db.tables = (v > 0)
      /\ db.archives = [i \in DOMAIN loads |-> row(i)]
      /\ db.evidence = E /\ db.sessions = S
      /\ db.replay_results = {}
  BY DEF Database, EmptyDatabase
<1>2. loads \in Seq(Range(loads))
  <2>1. CASE v = 1
      BY <2>1, ArchiveAssumption DEF Preloaded, Load
  <2>2. CASE v # 1
      BY <2>2
  <2> QED BY <2>1, <2>2
<1>3. \A i \in DOMAIN loads : loads[i] \in ImportArguments
  <2>1. CASE v = 1
    <3>1. Range(Preloaded) \subseteq AllPreloaded
        BY DEF AllPreloaded, Preloaded, Load
    <3> QED BY <2>1, <3>1 DEF ImportArguments, Range
  <2>2. CASE v # 1
      BY <2>2
  <2> QED BY <2>1, <2>2
<1>4. \A i, j \in DOMAIN loads :
          archive_digest(loads[i].archive) = archive_digest(loads[j].archive)
            => i = j
  <2>1. CASE v = 1
      BY <2>1, ArchiveAssumption DEF Preloaded, Load
  <2>2. CASE v # 1
      BY <2>2
  <2> QED BY <2>1, <2>2
<1> HIDE DEF loads, db
<1>5. \A i \in DOMAIN loads :
          /\ row(i) \in Rows
          /\ row(i).archive_digest = archive_digest(loads[i].archive)
          /\ loads[i].archive \in Archives
    BY <1>3 DEF Rows, archive_row, Archives
<1>6. /\ db.archives \in Seq(Rows) /\ DOMAIN db.archives = DOMAIN loads
      /\ \A i \in DOMAIN loads : db.archives[i] = row(i)
    BY <1>1, <1>2, <1>5
<1> HIDE DEF row
<1>7. \A i \in DOMAIN loads : Content(db, i) = loads[i].archive
    BY <1>5, <1>6, ContentOf
<1>8. DistinctArchives(db)
    BY <1>4, <1>5, <1>6 DEF DistinctArchives
<1>9. WholeRows(db)
  <2>1. \A i \in DOMAIN loads :
          /\ EvidenceOfArchive(db, i) = evidence_rows(i, loads[i].archive.records)
          /\ SessionsOfArchive(db, i) = session_rows(i, loads[i].archive.records)
      BY <1>7 DEF EvidenceOfArchive, SessionsOfArchive
  <2>2. \A e : e \in E <=> \E i \in DOMAIN loads : e \in EvidenceOfArchive(db, i)
      BY <2>1, Zenon
  <2>3. \A e : e \in S <=> \E i \in DOMAIN loads : e \in SessionsOfArchive(db, i)
      BY <2>1, Zenon
  <2> HIDE DEF E, S
  <2> QED BY <1>1, <1>6, <2>2, <2>3 DEF WholeRows
<1>10. Whole(db)
    BY <1>8, <1>9, WholeMeans
<1>11. Sound(db)
    BY <1>1, <1>6, <1>10 DEF Sound, DatabaseShape
<1> QED BY <1>1, <1>11 DEF db

-----------------------------------------------------------------------------
(* The rows of an import, one statement each.                               *)

(* The database after the statement that inserts row n of x.                *)
WithRow(x, id, n, db) ==
    LET rs == x.archive.records
        ag == session_aggregates(rs)
        key == SetToSeq(DOMAIN ag)[n - Len(rs)]
    IN  IF n <= Len(rs) THEN insert_record(db, id, rs[n])
        ELSE insert_session(db, id, key, ag[key])

(* The records and the keys of an archive are finite sequences.             *)
LEMMA ImportRows ==
    ASSUME NEW x \in ImportArguments
    PROVE  LET rs == x.archive.records
               keys == SetToSeq(DOMAIN session_aggregates(rs))
           IN  /\ Len(rs) \in Nat /\ DOMAIN rs = 1 .. Len(rs)
               /\ row_count(x) \in Nat /\ row_count(x) >= Len(rs)
               /\ DOMAIN keys = 1 .. row_count(x) - Len(rs)
               /\ Range(keys) = DOMAIN session_aggregates(rs)
<1> DEFINE rs == x.archive.records
           K == DOMAIN session_aggregates(rs)
<1>1. rs \in Seq(Range(rs))
    BY ArchiveAssumption DEF Archives
<1>2. IsFiniteSet(K)
    BY <1>1, AggregatesFinite
<1>3. /\ Cardinality(K) \in Nat
      /\ DOMAIN SetToSeq(K) = 1 .. Cardinality(K)
      /\ Range(SetToSeq(K)) = K
    BY <1>2, SetToSeqEnumerates
<1>4. row_count(x) = Len(rs) + Cardinality(K)
    BY DEF row_count
<1> HIDE DEF K
<1>5. Len(rs) \in Nat /\ DOMAIN rs = 1 .. Len(rs)
    BY <1>1
<1>6. row_count(x) \in Nat /\ row_count(x) >= Len(rs)
    BY <1>3, <1>4, <1>5
<1>7. 1 .. row_count(x) - Len(rs) = 1 .. Cardinality(K)
    BY <1>3, <1>4, <1>5
<1> QED BY <1>3, <1>5, <1>6, <1>7 DEF K

(* INSERT INTO evidence_archives of an archive that is new to the file.     *)
LEMMA ImportStarts ==
    ASSUME NEW x \in ImportArguments, DatabaseShape(file),
           Stored(file, x.archive) = {}
    PROVE  LET db == insert_archive(file, x.archive, x.trusted_head, x.source)
           IN  /\ DatabaseShape(db) /\ db # file
               /\ Inserting(x, Len(file.archives) + 1, 0, db)
               /\ archive_id_of(db, x.archive) = Len(file.archives) + 1
<1> DEFINE row == archive_row(x.archive, x.trusted_head, x.source)
           archives == Append(file.archives, row)
           db == [file EXCEPT !.archives = archives]
           rs == x.archive.records
           keys == SetToSeq(DOMAIN session_aggregates(rs))
<1>1. insert_archive(file, x.archive, x.trusted_head, x.source) = db
    BY DEF insert_archive
<1>2. Rest(file, db, "archives") /\ db.archives = archives
    BY StatementChanges DEF DatabaseShape
<1>3. row \in Rows /\ row.archive_digest = archive_digest(x.archive)
    BY DEF Rows, archive_row
<1> HIDE DEF row
<1>4. /\ archives \in Seq(Rows) /\ Len(file.archives) \in Nat
      /\ DOMAIN archives = 1 .. Len(file.archives) + 1
      /\ DOMAIN file.archives = 1 .. Len(file.archives)
      /\ \A i \in DOMAIN file.archives : archives[i] = file.archives[i]
      /\ archives[Len(file.archives) + 1] = row
    BY <1>3 DEF DatabaseShape
<1> HIDE DEF archives, db
<1>5. DatabaseShape(db)
    BY <1>2, <1>4 DEF DatabaseShape, Rest
<1>6. db # file
  <2>1. DOMAIN archives # DOMAIN file.archives
      BY <1>4
  <2> QED BY <1>2, <2>1
<1>7. Stored(db, x.archive) = {Len(file.archives) + 1}
  <2>1. \A i \in DOMAIN file.archives :
            archives[i].archive_digest # archive_digest(x.archive)
      BY <1>4 DEF Stored
  <2>2. \A i \in DOMAIN archives :
            archives[i].archive_digest = archive_digest(x.archive)
              <=> i = Len(file.archives) + 1
      BY <1>3, <1>4, <2>1
  <2>3. Len(file.archives) + 1 \in DOMAIN archives
      BY <1>4
  <2> QED BY <1>2, <2>2, <2>3 DEF Stored
<1>8. archive_id_of(db, x.archive) = Len(file.archives) + 1
    BY <1>7 DEF archive_id_of
<1>9. {j \in DOMAIN rs : j <= 0} = {} /\ {j \in DOMAIN keys : Len(rs) + j <= 0} = {}
    BY ImportRows
<1>10. Inserting(x, Len(file.archives) + 1, 0, db)
  <2>1. db.evidence = file.evidence /\ db.sessions = file.sessions
      BY <1>2 DEF Rest
  <2>2. SameButRows(db)
      BY <1>2 DEF Rest, SameButRows
  <2>3. db.archives = Append(file.archives,
                             archive_row(x.archive, x.trusted_head, x.source))
      BY <1>2 DEF archives, row
  <2> QED BY <1>9, <2>1, <2>2, <2>3 DEF Inserting
<1> QED BY <1>1, <1>5, <1>6, <1>8, <1>10

(* INSERT INTO evidence_records or evidence_sessions.                       *)
LEMMA ImportContinues ==
    ASSUME NEW x \in ImportArguments, NEW id, NEW n \in Nat, NEW db,
           DatabaseShape(db), Inserting(x, id, n, db), n < row_count(x)
    PROVE  /\ DatabaseShape(WithRow(x, id, n + 1, db))
           /\ Inserting(x, id, n + 1, WithRow(x, id, n + 1, db))
<1> DEFINE rs == x.archive.records
           ag == session_aggregates(rs)
           keys == SetToSeq(DOMAIN ag)
           new == WithRow(x, id, n + 1, db)
           Done(m) == {j \in DOMAIN rs : j <= m}
           DoneKeys(m) == {j \in DOMAIN keys : Len(rs) + j <= m}
<1>1. /\ Len(rs) \in Nat /\ DOMAIN rs = 1 .. Len(rs)
      /\ row_count(x) \in Nat
      /\ DOMAIN keys = 1 .. row_count(x) - Len(rs)
    BY ImportRows
<1>2. DOMAIN db = DOMAIN EmptyDatabase
    BY DEF DatabaseShape
<1>3. CASE n + 1 <= Len(rs)
  <2> DEFINE rows == db.evidence \cup {evidence_row(id, rs[n + 1])}
  <2>1. new = [db EXCEPT !.evidence = rows]
      BY <1>3, Zenon DEF WithRow, insert_record
  <2>2. Rest(db, new, "evidence") /\ new.evidence = rows
    <3> HIDE DEF rows, new
    <3> QED BY <1>2, <2>1, StatementChanges
  <2>3. Done(n + 1) = Done(n) \cup {n + 1}
      BY <1>1, <1>3
  <2>4. DoneKeys(n + 1) = DoneKeys(n)
      BY <1>1, <1>3
  <2>5. {evidence_row(id, rs[i]) : i \in Done(n + 1)}
          = {evidence_row(id, rs[i]) : i \in Done(n)} \cup {evidence_row(id, rs[n + 1])}
    <3> HIDE DEF Done, rs
    <3> QED BY <2>3, Zenon
  <2> HIDE DEF new
  <2>6. /\ new.evidence = file.evidence \cup {evidence_row(id, rs[i]) : i \in Done(n + 1)}
        /\ new.sessions = file.sessions
              \cup {session_row(id, keys[i], ag[keys[i]]) : i \in DoneKeys(n + 1)}
    <3>1. db.evidence = file.evidence \cup {evidence_row(id, rs[i]) : i \in Done(n)}
        BY DEF Inserting
    <3>2. db.sessions = file.sessions
              \cup {session_row(id, keys[i], ag[keys[i]]) : i \in DoneKeys(n)}
        BY DEF Inserting
    <3> HIDE DEF Done, DoneKeys, rs, keys, ag
    <3>3. new.evidence = file.evidence \cup {evidence_row(id, rs[i]) : i \in Done(n + 1)}
        BY <2>2, <2>5, <3>1
    <3> QED BY <2>2, <2>4, <3>2, <3>3 DEF Rest
  <2>7. /\ DatabaseShape(new) /\ SameButRows(new)
        /\ new.archives = db.archives
    <3> HIDE DEF rows
    <3>1. SameButRows(db)
        BY DEF Inserting
    <3> QED BY <2>2, <3>1 DEF Rest, DatabaseShape, SameButRows
  <2>8. Inserting(x, id, n + 1, new)
      BY <2>6, <2>7 DEF Inserting
  <2> QED BY <2>7, <2>8 DEF new
<1>4. CASE ~(n + 1 <= Len(rs))
  <2> DEFINE key == keys[n + 1 - Len(rs)]
             rows == db.sessions \cup {session_row(id, key, ag[key])}
  <2>1. new = [db EXCEPT !.sessions = rows]
    <3>1. WithRow(x, id, n + 1, db) = insert_session(db, id, key, ag[key])
        BY <1>4 DEF WithRow
    <3> QED BY <3>1 DEF insert_session
  <2>2. Rest(db, new, "sessions") /\ new.sessions = rows
    <3> HIDE DEF rows, new
    <3> QED BY <1>2, <2>1, StatementChanges
  <2>3. Done(n + 1) = Done(n)
      BY <1>1, <1>4
  <2>4. DoneKeys(n + 1) = DoneKeys(n) \cup {n + 1 - Len(rs)}
    <3>1. n + 1 - Len(rs) \in DOMAIN keys
      <4> HIDE DEF keys, rs
      <4> QED BY <1>1, <1>4
    <3>2. \A j \in DOMAIN keys : Len(rs) + j <= n + 1
                                  <=> Len(rs) + j <= n \/ j = n + 1 - Len(rs)
      <4> HIDE DEF keys, rs
      <4> QED BY <1>1, <1>4
    <3> HIDE DEF keys, rs
    <3> QED BY <3>1, <3>2
  <2>5. {session_row(id, keys[i], ag[keys[i]]) : i \in DoneKeys(n + 1)}
          = {session_row(id, keys[i], ag[keys[i]]) : i \in DoneKeys(n)}
              \cup {session_row(id, key, ag[key])}
    <3> HIDE DEF DoneKeys, rs, keys, ag
    <3> QED BY <2>4, Zenon
  <2> HIDE DEF new
  <2>6. /\ new.evidence = file.evidence \cup {evidence_row(id, rs[i]) : i \in Done(n + 1)}
        /\ new.sessions = file.sessions
              \cup {session_row(id, keys[i], ag[keys[i]]) : i \in DoneKeys(n + 1)}
    <3>1. db.evidence = file.evidence \cup {evidence_row(id, rs[i]) : i \in Done(n)}
        BY DEF Inserting
    <3>2. db.sessions = file.sessions
              \cup {session_row(id, keys[i], ag[keys[i]]) : i \in DoneKeys(n)}
        BY DEF Inserting
    <3> HIDE DEF Done, DoneKeys, rs, keys, ag, key
    <3>3. new.sessions = file.sessions
              \cup {session_row(id, keys[i], ag[keys[i]]) : i \in DoneKeys(n + 1)}
        BY <2>2, <2>5, <3>2
    <3> QED BY <2>2, <2>3, <3>1, <3>3 DEF Rest
  <2>7. /\ DatabaseShape(new) /\ SameButRows(new)
        /\ new.archives = db.archives
    <3> HIDE DEF rows
    <3>1. SameButRows(db)
        BY DEF Inserting
    <3> QED BY <2>2, <3>1 DEF Rest, DatabaseShape, SameButRows
  <2>8. Inserting(x, id, n + 1, new)
      BY <2>6, <2>7 DEF Inserting
  <2> QED BY <2>7, <2>8 DEF new
<1> QED BY <1>3, <1>4

(* When all rows are inserted the database is whole again.                  *)
LEMMA ImportEnds ==
    ASSUME NEW x \in ImportArguments, NEW id, NEW db,
           DatabaseShape(db), Inserting(x, id, row_count(x), db), Sound(file)
    PROVE  /\ Sound(db) /\ Extends(file, db)
           /\ db.version = file.version /\ db.tables = file.tables
           /\ id \in DOMAIN db.archives /\ Content(db, id) = x.archive
<1> DEFINE rs == x.archive.records
           ag == session_aggregates(rs)
           keys == SetToSeq(DOMAIN ag)
<1>1. /\ Len(rs) \in Nat /\ DOMAIN rs = 1 .. Len(rs)
      /\ row_count(x) \in Nat /\ row_count(x) >= Len(rs)
      /\ DOMAIN keys = 1 .. row_count(x) - Len(rs)
      /\ Range(keys) = DOMAIN ag
    BY ImportRows
<1>2. {j \in DOMAIN rs : j <= row_count(x)} = DOMAIN rs
  <2> HIDE DEF rs, ag, keys
  <2> QED BY <1>1
<1>3. {j \in DOMAIN keys : Len(rs) + j <= row_count(x)} = DOMAIN keys
  <2> HIDE DEF rs, ag, keys
  <2> QED BY <1>1
<1>4. {evidence_row(id, rs[i]) : i \in DOMAIN rs} = evidence_rows(id, rs)
    BY Zenon DEF evidence_rows, Range
<1>5. {session_row(id, keys[i], ag[keys[i]]) : i \in DOMAIN keys}
        = session_rows(id, rs)
  <2>1. session_rows(id, rs) = {session_row(id, k, ag[k]) : k \in Range(keys)}
      BY <1>1 DEF session_rows
  <2> HIDE DEF keys, ag
  <2> QED BY <2>1, Zenon DEF Range
<1>6. /\ id = Len(file.archives) + 1
      /\ SameButRows(db)
      /\ Stored(file, x.archive) = {}
      /\ db.archives = Append(file.archives,
                          archive_row(x.archive, x.trusted_head, x.source))
      /\ db.evidence = file.evidence \cup evidence_rows(id, rs)
      /\ db.sessions = file.sessions \cup session_rows(id, rs)
    BY <1>2, <1>3, <1>4, <1>5 DEF Inserting
<1> HIDE DEF rs
<1>7. /\ Whole(db)
      /\ id \in DOMAIN db.archives /\ Content(db, id) = x.archive
      /\ \A i \in DOMAIN file.archives :
            i \in DOMAIN db.archives /\ db.archives[i] = file.archives[i]
    BY <1>6, ImportIsWhole DEF Sound, rs
<1>8. db.replay_results = file.replay_results
    BY <1>6 DEF SameButRows
<1> QED BY <1>6, <1>7, <1>8 DEF Sound, Extends, SameButRows

-----------------------------------------------------------------------------
(* What a step does to the frames of the callers.                           *)

OthersKept(c) ==
    /\ DOMAIN frame' = Callers
    /\ \A d \in Callers : d # c => frame'[d] = frame[d]

Moved(c, pc, reading, local) ==
    /\ OthersKept(c)
    /\ DOMAIN frame'[c] = DOMAIN Idle
    /\ frame'[c].op = frame[c].op /\ frame'[c].arg = frame[c].arg
    /\ frame'[c].pc = pc /\ frame'[c].reading = reading
    /\ frame'[c].local = local

(* The next statement of a call keeps what it has read.                     *)
LEMMA GotoMoves ==
    ASSUME Shape, NEW c \in Callers, NEW pc, NEW local, Goto(c, pc, local)
    PROVE  Moved(c, pc, frame[c].reading, local)
<1>1. DOMAIN frame = Callers /\ DOMAIN frame[c] = DOMAIN Idle
    BY DEF Shape, FrameShape
<1> QED BY <1>1 DEF Goto, Moved, OthersKept, Idle

(* A call that has its outcome has no unfinished statement.                 *)
LEMMA FinishMoves ==
    ASSUME Shape, NEW c \in Callers, NEW outcome, Finish(c, outcome)
    PROVE  Moved(c, "done", FALSE, outcome)
<1>1. DOMAIN frame = Callers /\ DOMAIN frame[c] = DOMAIN Idle
    BY DEF Shape, FrameShape
<1> QED BY <1>1 DEF Finish, Moved, OthersKept, Idle

(* Neither has one that goes on to its next query.                          *)
LEMMA ContinueMoves ==
    ASSUME Shape, NEW c \in Callers, NEW pc, NEW local, Continue(c, pc, local)
    PROVE  Moved(c, pc, FALSE, local)
<1>1. DOMAIN frame = Callers /\ DOMAIN frame[c] = DOMAIN Idle
    BY DEF Shape, FrameShape
<1> QED BY <1>1 DEF Continue, Moved, OthersKept, Idle

(* The kinds of steps.                                                      *)

TransactionPcs ==
    {"ledger", "schema", "version", "archive", "rows", "upsert", "commit"}

SameCall(c) ==
    /\ OthersKept(c)
    /\ FrameShape(frame'[c])
    /\ frame'[c].op = frame[c].op /\ frame[c] # Idle /\ frame'[c] # Idle

(* The first step of a call.                                                *)
Invoked(c) ==
    /\ frame[c] = Idle /\ Len(returned[c]) < MaxCalls[c]
    /\ OthersKept(c)
    /\ FrameShape(frame'[c]) /\ frame'[c] # Idle
    /\ frame'[c].pc \notin TransactionPcs
    /\ IF frame'[c].op = "open"
       THEN /\ ~open[ConnectionOf[c]] /\ frame'[c].pc # "done"
            /\ \A d \in Callers : ConnectionOf[d] = ConnectionOf[c]
                                    => frame[d] = Idle
       ELSE open[ConnectionOf[c]]
    /\ frame'[c].pc = "done" => Holds(AnswerIn(frame'[c]))
    /\ UNCHANGED <<file, work, pending, open, returned, faults>>

(* A step of a call outside transactions.                                   *)
Local(c) ==
    /\ SameCall(c)
    /\ frame[c].pc \notin TransactionPcs \cup {"done"}
    /\ frame'[c].pc \notin TransactionPcs
    /\ frame'[c].pc = "done" => Holds(AnswerIn(frame'[c]))
    /\ UNCHANGED <<file, work, pending, open, returned>>
    /\ faults' \in 0 .. MaxFaults

(* The end of a transaction that is not committed.                          *)
RolledBack(c) ==
    /\ SameCall(c)
    /\ frame[c].pc \in TransactionPcs
    /\ frame'[c].pc = "done" /\ Holds(AnswerIn(frame'[c]))
    /\ Rollback(ConnectionOf[c])
    /\ UNCHANGED <<file, open, returned>>
    /\ faults' \in 0 .. MaxFaults

(* A statement of a transaction, the first one included.                    *)
Wrote(c) ==
    /\ SameCall(c)
    /\ frame'[c].pc \in TransactionPcs
    /\ \/ frame[c].pc \in TransactionPcs
       \/ /\ frame[c].pc = "begin"
          /\ \A k \in Connections : work[k] = NoCopy
    /\ \E db : /\ work' = [work EXCEPT ![ConnectionOf[c]] = db]
               /\ Progressed(frame'[c], db)
    /\ UNCHANGED <<file, pending, open, returned, faults>>

Committed(c) ==
    /\ SameCall(c)
    /\ frame[c].pc = "commit" /\ frame'[c].pc = "done"
    /\ frame'[c].arg = frame[c].arg /\ frame'[c].local = commit_outcome(c)
    /\ file' = work[ConnectionOf[c]]
    /\ Rollback(ConnectionOf[c])
    /\ open' = [open EXCEPT ![ConnectionOf[c]] = TRUE]
    /\ UNCHANGED <<returned, faults>>

Waits(c) ==
    /\ frame[c].pc = "commit"
    /\ pending' = [pending EXCEPT ![ConnectionOf[c]] = TRUE]
    /\ UNCHANGED <<file, work, open, frame, returned, faults>>

Left(c) ==
    /\ frame[c].pc = "done" /\ frame'[c] = Idle
    /\ OthersKept(c)
    /\ returned' = [returned EXCEPT ![c] = Append(@, AnswerIn(frame[c]))]
    /\ UNCHANGED <<file, work, pending, open, faults>>

CallerStep(c) ==
    \/ Invoked(c) \/ Local(c) \/ RolledBack(c) \/ Wrote(c) \/ Committed(c)
    \/ Waits(c) \/ Left(c)

(* What follows for a step from the names of its caller and connection.     *)
LEMMA Connected ==
    ASSUME workload \in DOMAIN Workloads
    PROVE  /\ \A c \in Callers : ConnectionOf[c] \in Connections
           /\ \A c \in Callers : MaxCalls[c] \in Nat
  BY StoreAssumption DEF ConnectionOf, MaxCalls, Load

-----------------------------------------------------------------------------
(* Every step is of one of these kinds.                                     *)

(* An answer other than success promises nothing, except that of a          *)
(* constructor, which gives a reason.                                       *)
LEMMA FailureHolds ==
    ASSUME NEW op, NEW arg, NEW outcome, outcome.code # "ok",
           op = "open" => /\ outcome.code # "crashed"
                          /\ \/ outcome.cause \in {"fault", "timeout"}
                             \/ outcome.cause = "newer" /\ Newer
    PROVE  Holds([op |-> op, arg |-> arg, outcome |-> outcome])
  BY DEF Holds, ImportHolds, RecordHolds, OpenHolds, Ok

(* An error of SQLite promises nothing.                                     *)
LEMMA SqliteFailureHolds ==
    ASSUME NEW c, NEW cause, 
           frame[c].op = "open" => \/ cause \in {"fault", "timeout"}
                                   \/ cause = "newer" /\ Newer
    PROVE  Holds([op |-> frame[c].op, arg |-> frame[c].arg,
                  outcome |-> failure(c, cause)])
<1>1. /\ failure(c, cause).code \in {"sqlite_failure", "open_failed", "migration_failed"}
      /\ failure(c, cause).cause = cause
    BY DEF failure
<1> QED BY <1>1, FailureHolds

(* The frame of a call that has its outcome.                                *)
LEMMA FinishShape ==
    ASSUME Shape, NEW c \in Callers, frame[c] # Idle, NEW outcome,
           Finish(c, outcome)
    PROVE  /\ SameCall(c) /\ frame'[c].pc = "done"
           /\ AnswerIn(frame'[c]) = [op |-> frame[c].op, arg |-> frame[c].arg,
                                     outcome |-> outcome]
<1>1. Moved(c, "done", FALSE, outcome)
    BY FinishMoves
<1>2. FrameShape(frame[c])
    BY DEF Shape
<1>3. FrameShape(frame'[c])
    BY <1>1, <1>2 DEF Moved, FrameShape
<1>4. frame'[c] # Idle
    BY <1>1 DEF Moved, Idle
<1> QED BY <1>1, <1>3, <1>4 DEF Moved, SameCall, AnswerIn

(* A call that ends outside a transaction.                                  *)
LEMMA FinishedLocally ==
    ASSUME Shape, NEW c \in Callers, NEW outcome,
           frame[c].pc \notin TransactionPcs \cup {"idle", "done"},
           Finish(c, outcome),
           Holds([op |-> frame[c].op, arg |-> frame[c].arg, outcome |-> outcome]),
           UNCHANGED <<file, work, pending, open, returned>>,
           faults' \in 0 .. MaxFaults
    PROVE  Local(c)
<1>1. frame[c] # Idle
    BY DEF Idle
<1>2. SameCall(c) /\ frame'[c].pc = "done" /\ Holds(AnswerIn(frame'[c]))
    BY <1>1, FinishShape
<1> QED BY <1>2 DEF Local, TransactionPcs

(* A call whose transaction is rolled back.                                 *)
LEMMA FinishedRolledBack ==
    ASSUME Shape, NEW c \in Callers, NEW outcome,
           frame[c].pc \in TransactionPcs,
           Finish(c, outcome),
           Holds([op |-> frame[c].op, arg |-> frame[c].arg, outcome |-> outcome]),
           Rollback(ConnectionOf[c]),
           UNCHANGED <<file, open, returned>>,
           faults' \in 0 .. MaxFaults
    PROVE  RolledBack(c)
<1>1. frame[c] # Idle
    BY DEF Idle, TransactionPcs
<1>2. SameCall(c) /\ frame'[c].pc = "done" /\ Holds(AnswerIn(frame'[c]))
    BY <1>1, FinishShape
<1> QED BY <1>2 DEF RolledBack

(* Calls.                                                                   *)
LEMMA CallIsInvoked ==
    ASSUME StoreInv, NEW c \in Callers, Call(c)
    PROVE  Invoked(c)
<1> USE DEF StoreInv
<1>1. ASSUME NEW op, NEW arg, NEW pc, NEW local, Invoke(c, op, arg, pc, local)
      PROVE  /\ frame[c] = Idle /\ Len(returned[c]) < MaxCalls[c]
             /\ OthersKept(c)
             /\ DOMAIN frame'[c] = DOMAIN Idle
             /\ frame'[c].op = op /\ frame'[c].pc = pc /\ frame'[c].arg = arg
             /\ frame'[c].local = local /\ ~frame'[c].reading
             /\ frame'[c].reading \in BOOLEAN
             /\ UNCHANGED <<file, work, pending, open, returned, faults>>
    BY <1>1 DEF Invoke, OthersKept, Shape, Idle
<1>2. CASE Open(c)
  <2>1. Invoke(c, "open", None, "configure", None)
      BY <1>2 DEF Open
  <2>2. FrameShape(frame'[c]) /\ frame'[c] # Idle
      BY <1>1, <2>1 DEF FrameShape, Idle
  <2> QED BY <1>1, <1>2, <2>1, <2>2 DEF Open, Invoked, TransactionPcs
<1>3. ASSUME NEW arg \in Arguments[c]["import"], ImportArchive(c, arg)
      PROVE  Invoked(c)
  <2> DEFINE e == import_error(arg)
             pc == IF e = "none" THEN "begin" ELSE "done"
             local == IF e = "none" THEN None ELSE [code |-> e]
  <2>1. Invoke(c, "import", arg, pc, local) /\ open[ConnectionOf[c]]
      BY <1>3 DEF ImportArchive
  <2>2. e # "none" => e \in {"invalid_argument", "archive_verification_failed"}
      BY DEF import_error
  <2>3. arg \in AllArguments("import")
      BY DEF AllArguments, Arguments, Load, Shape
  <2>4. e = "none" => arg \in ValidImports
      BY <2>3 DEF ValidImports
  <2> HIDE DEF e
  <2>5. FrameShape(frame'[c]) /\ frame'[c] # Idle
      BY <1>1, <2>1, <2>4 DEF FrameShape, Idle
  <2>6. frame'[c].pc = "done" => Holds(AnswerIn(frame'[c]))
    <3> SUFFICES ASSUME frame'[c].pc = "done"
                 PROVE  Holds(AnswerIn(frame'[c]))
        OBVIOUS
    <3>1. frame'[c].local = [code |-> e] /\ e # "ok" /\ frame'[c].op = "import"
        BY <1>1, <2>1, <2>2
    <3> QED BY <3>1, FailureHolds DEF AnswerIn
  <2> QED BY <1>1, <2>1, <2>5, <2>6 DEF Invoked, TransactionPcs
<1>4. ASSUME NEW arg, RecordReplayResult(c, arg)
      PROVE  Invoked(c)
  <2> DEFINE pc == IF arg.archive_id > 0 THEN "locate" ELSE "done"
             local == IF arg.archive_id > 0 THEN None
                      ELSE [code |-> "invalid_argument"]
  <2>1. Invoke(c, "record", arg, pc, local) /\ open[ConnectionOf[c]]
      BY <1>4 DEF RecordReplayResult
  <2>2. FrameShape(frame'[c]) /\ frame'[c] # Idle
      BY <1>1, <2>1 DEF FrameShape, Idle
  <2>3. frame'[c].pc = "done" => Holds(AnswerIn(frame'[c]))
    <3> SUFFICES ASSUME frame'[c].pc = "done"
                 PROVE  Holds(AnswerIn(frame'[c]))
        OBVIOUS
    <3>1. frame'[c].local = [code |-> "invalid_argument"] /\ frame'[c].op = "record"
        BY <1>1, <2>1
    <3> QED BY <3>1, FailureHolds DEF AnswerIn
  <2> QED BY <1>1, <2>1, <2>2, <2>3 DEF Invoked, TransactionPcs
<1>5. ASSUME NEW arg, Export(c, arg)
      PROVE  Invoked(c)
  <2> DEFINE pc == IF arg.archive_id > 0 THEN "find" ELSE "done"
             local == IF arg.archive_id > 0
                      THEN [before |-> {}, archive |-> None, replay |-> None,
                            evidence |-> <<>>]
                      ELSE [code |-> "invalid_archive_id"]
  <2>1. Invoke(c, "export", arg, pc, local) /\ open[ConnectionOf[c]]
      BY <1>5 DEF Export
  <2>2. FrameShape(frame'[c]) /\ frame'[c] # Idle
      BY <1>1, <2>1 DEF FrameShape, Idle
  <2>3. frame'[c].pc = "done" => Holds(AnswerIn(frame'[c]))
    <3> SUFFICES ASSUME frame'[c].pc = "done"
                 PROVE  Holds(AnswerIn(frame'[c]))
        OBVIOUS
    <3>1. frame'[c].local = [code |-> "invalid_archive_id"] /\ frame'[c].op = "export"
        BY <1>1, <2>1
    <3> QED BY <3>1, FailureHolds DEF AnswerIn
  <2> QED BY <1>1, <2>1, <2>2, <2>3 DEF Invoked, TransactionPcs
<1> QED BY <1>2, <1>3, <1>4, <1>5 DEF Call

(* The bundle of an export is not one of these answers.                     *)
LEMMA ExportHolds ==
    ASSUME NEW arg, NEW outcome
    PROVE  Holds([op |-> "export", arg |-> arg, outcome |-> outcome])
  BY DEF Holds, ImportHolds, RecordHolds, OpenHolds, Ok

(* A constructor runs alone on its connection.                              *)
LEMMA OpenIsAlone ==
    ASSUME StoreInv, NEW c \in Callers, frame[c].op = "open",
           frame[c].pc # "done"
    PROVE  /\ \A d \in Callers : ConnectionOf[d] = ConnectionOf[c] /\ d # c
                                   => frame[d] = Idle
           /\ Statements(ConnectionOf[c]) = {}
           /\ frame[c].pc \notin TransactionPcs => work[ConnectionOf[c]] = NoCopy
<1>1. \A d \in Callers : ConnectionOf[d] = ConnectionOf[c] /\ d # c
                           => frame[d] = Idle
    BY DEF StoreInv, Alone
<1>2. ~frame[c].reading
    BY DEF StoreInv, Shape, FrameShape, Idle
<1>3. Statements(ConnectionOf[c]) = {}
    BY <1>1, <1>2 DEF Statements, Idle
<1>4. ASSUME work[ConnectionOf[c]] # NoCopy
      PROVE  frame[c].pc \in TransactionPcs
  <2>1. ConnectionOf[c] \in Connections
      BY Connected DEF StoreInv, Shape
  <2>2. PICK d \in Callers : ConnectionOf[d] = ConnectionOf[c] /\ InTransaction(d)
      BY <1>4, <2>1 DEF StoreInv, Owners
  <2> QED BY <1>1, <2>2 DEF InTransaction, TransactionPcs, Idle
<1> QED BY <1>1, <1>3, <1>4

(* A call goes on within its statements.                                    *)
LEMMA MovedLocally ==
    ASSUME StoreInv, NEW c \in Callers, NEW pc, NEW reading \in BOOLEAN, NEW local,
           Moved(c, pc, reading, local),
           <<frame[c].op, frame[c].pc, pc>> \in
              {<<"open", "configure", "begin">>, <<"record", "locate", "begin">>}
                \cup ({"export"} \X {"find", "replay", "evidence", "sessions"}
                                 \X {"find", "replay", "evidence", "sessions"}),
           frame[c].op = "open" => ~reading,
           UNCHANGED <<file, work, pending, open, returned, faults>>
    PROVE  Local(c)
<1>1. FrameShape(frame[c]) /\ faults \in 0 .. MaxFaults
    BY DEF StoreInv, Shape
<1>2. FrameShape(frame'[c])
    BY <1>1 DEF Moved, FrameShape, Idle
<1>3. frame[c] # Idle /\ frame'[c] # Idle
    BY DEF Moved, Idle
<1> QED BY <1>1, <1>2, <1>3 DEF Local, SameCall, Moved, TransactionPcs

(* Queries, and the pragmas of the constructor.                             *)
LEMMA ReadingIsLocal ==
    ASSUME StoreInv, NEW c \in Callers,
           \/ Configure(c) \/ LocateArchive(c) \/ StepRow(c) \/ FindArchive(c)
           \/ ReadReplayResult(c) \/ LoadEvidence(c) \/ ReadSessions(c)
    PROVE  Local(c)
<1>1. /\ Shape /\ FrameShape(frame[c]) /\ faults \in 0 .. MaxFaults
      /\ DOMAIN frame = Callers
    BY DEF StoreInv, Shape
<1>2. ASSUME NEW outcome, Finish(c, outcome), frame[c].op = "export",
             frame[c].pc \in {"find", "replay", "evidence", "sessions"},
             UNCHANGED <<file, work, pending, open, returned, faults>>
      PROVE  Local(c)
  <2>1. Holds([op |-> frame[c].op, arg |-> frame[c].arg, outcome |-> outcome])
      BY <1>2, ExportHolds
  <2> QED BY <1>1, <1>2, <2>1, FinishedLocally DEF TransactionPcs
<1>3. ASSUME NEW pc, NEW local, Continue(c, pc, local), frame[c].op = "export",
             frame[c].pc \in {"find", "replay", "evidence", "sessions"},
             pc \in {"find", "replay", "evidence", "sessions"},
             UNCHANGED <<file, work, pending, open, returned, faults>>
      PROVE  Local(c)
  <2>1. Moved(c, pc, FALSE, local)
      BY <1>1, <1>3, ContinueMoves
  <2> QED BY <1>3, <2>1, MovedLocally
<1>4. CASE Configure(c)
  <2>1. Moved(c, "begin", frame[c].reading, None)
      BY <1>1, <1>4, GotoMoves DEF Configure
  <2>2. frame[c].op = "open" /\ frame[c].pc = "configure"
      BY <1>4 DEF Configure, At
  <2>3. ~frame[c].reading /\ frame[c].reading \in BOOLEAN
      BY <1>1, <2>2 DEF FrameShape, Idle
  <2> QED BY <1>4, <2>1, <2>2, <2>3, MovedLocally DEF Configure
<1>5. CASE LocateArchive(c)
  <2>1. frame[c].op = "record" /\ frame[c].pc = "locate"
      BY <1>5 DEF LocateArchive, At
  <2>2. CASE frame' = [frame EXCEPT ![c].pc = "begin", ![c].reading = TRUE]
    <3>1. Moved(c, "begin", TRUE, frame[c].local)
        BY <1>1, <2>2 DEF Moved, OthersKept, FrameShape, Idle
    <3> QED BY <1>5, <2>1, <3>1, MovedLocally DEF LocateArchive
  <2>3. CASE Finish(c, [code |-> "archive_not_found"])
    <3>1. Holds([op |-> frame[c].op, arg |-> frame[c].arg,
                 outcome |-> [code |-> "archive_not_found"]])
        BY <2>1, FailureHolds
    <3> QED BY <1>1, <1>5, <2>1, <2>3, <3>1, FinishedLocally
            DEF LocateArchive, TransactionPcs
  <2> QED BY <1>5, <2>2, <2>3 DEF LocateArchive
<1>6. CASE StepRow(c)
  <2>1. frame[c].op = "export"
      BY <1>1, <1>6 DEF StepRow, FrameShape, Idle
  <2>2. Moved(c, frame[c].pc, TRUE, frame[c].local)
      BY <1>1, <1>6 DEF StepRow, Moved, OthersKept, FrameShape, Idle
  <2> QED BY <1>6, <2>1, <2>2, MovedLocally DEF StepRow
<1>7. CASE FindArchive(c)
  <2>1. frame[c].op = "export" /\ frame[c].pc = "find"
      BY <1>7 DEF FindArchive, At
  <2>2. \/ \E local : Continue(c, "replay", local) \/ Continue(c, "find", local)
        \/ \E outcome : Finish(c, outcome)
      BY <1>7 DEF FindArchive
  <2>3. UNCHANGED <<file, work, pending, open, returned, faults>>
      BY <1>7 DEF FindArchive
  <2> QED BY <1>2, <1>3, <2>1, <2>2, <2>3
<1>8. CASE ReadReplayResult(c)
  <2>1. frame[c].op = "export" /\ frame[c].pc = "replay"
      BY <1>8 DEF ReadReplayResult, At
  <2>2. \/ \E local : Continue(c, "evidence", local)
        \/ \E outcome : Finish(c, outcome)
      BY <1>8 DEF ReadReplayResult
  <2>3. UNCHANGED <<file, work, pending, open, returned, faults>>
      BY <1>8 DEF ReadReplayResult
  <2> QED BY <1>2, <1>3, <2>1, <2>2, <2>3
<1>9. CASE LoadEvidence(c)
  <2>1. frame[c].op = "export" /\ frame[c].pc = "evidence"
      BY <1>9 DEF LoadEvidence, At
  <2>2. \/ \E local : Continue(c, "evidence", local) \/ Continue(c, "sessions", local)
        \/ \E outcome : Finish(c, outcome)
      BY <1>9 DEF LoadEvidence
  <2>3. UNCHANGED <<file, work, pending, open, returned, faults>>
      BY <1>9 DEF LoadEvidence
  <2> QED BY <1>2, <1>3, <2>1, <2>2, <2>3
<1>10. CASE ReadSessions(c)
  <2>1. frame[c].op = "export" /\ frame[c].pc = "sessions"
      BY <1>10 DEF ReadSessions, At
  <2>2. \E outcome : Finish(c, outcome)
      BY <1>10 DEF ReadSessions
  <2>3. UNCHANGED <<file, work, pending, open, returned, faults>>
      BY <1>10 DEF ReadSessions
  <2> QED BY <1>2, <2>1, <2>2, <2>3
<1> QED BY <1>4, <1>5, <1>6, <1>7, <1>8, <1>9, <1>10

(* Refused transactions, timeouts and failing statements.                   *)
LEMMA FailingIsLocalOrRolledBack ==
    ASSUME StoreInv, NEW c \in Callers,
           BeginFails(c) \/ BusyTimeout(c) \/ StatementFails(c)
    PROVE  Local(c) \/ RolledBack(c)
<1>1. Shape /\ FrameShape(frame[c]) /\ faults \in 0 .. MaxFaults
    BY DEF StoreInv, Shape
<1>2. ASSUME NEW cause \in {"fault", "timeout"}, Finish(c, failure(c, cause)),
             frame[c].pc \notin TransactionPcs \cup {"idle", "done"},
             UNCHANGED <<file, work, pending, open, returned>>,
             faults' \in 0 .. MaxFaults
      PROVE  Local(c)
    BY <1>1, <1>2, SqliteFailureHolds, FinishedLocally
<1>3. ASSUME NEW cause \in {"fault", "timeout"}, Finish(c, failure(c, cause)),
             frame[c].pc \in TransactionPcs, Rollback(ConnectionOf[c]),
             UNCHANGED <<file, open, returned>>,
             faults' \in 0 .. MaxFaults
      PROVE  RolledBack(c)
    BY <1>1, <1>3, SqliteFailureHolds, FinishedRolledBack
<1>4. CASE BeginFails(c)
  <2>1. frame[c].pc = "begin"
      BY <1>4 DEF BeginFails, nested_begin
  <2>2. frame[c].op # "open"
    <3> SUFFICES ASSUME frame[c].op = "open" PROVE FALSE
        OBVIOUS
    <3>1. work[ConnectionOf[c]] = NoCopy /\ Statements(ConnectionOf[c]) = {}
        BY <2>1, OpenIsAlone DEF TransactionPcs
    <3> QED BY <1>4, <3>1 DEF BeginFails, nested_begin
  <2>3. PICK cause : Finish(c, failure(c, cause))
      BY <1>4 DEF BeginFails, nested_begin
  <2>4. Holds([op |-> frame[c].op, arg |-> frame[c].arg,
               outcome |-> failure(c, cause)])
      BY <2>2, SqliteFailureHolds
  <2>5. UNCHANGED <<file, work, pending, open, returned, faults>>
      BY <1>4 DEF BeginFails, nested_begin
  <2> QED BY <1>1, <2>1, <2>3, <2>4, <2>5, FinishedLocally DEF TransactionPcs
<1>5. CASE BusyTimeout(c)
  <2>1. /\ Finish(c, failure(c, "timeout"))
        /\ UNCHANGED <<file, open, returned>> /\ faults' \in 0 .. MaxFaults
      BY <1>1, <1>5 DEF BusyTimeout
  <2>2. \/ /\ frame[c].pc \in {"begin", "locate", "find", "replay", "evidence", "sessions"}
           /\ UNCHANGED <<work, pending>>
        \/ frame[c].pc = "commit" /\ Rollback(ConnectionOf[c])
      BY <1>5 DEF BusyTimeout
  <2> QED BY <1>2, <1>3, <2>1, <2>2 DEF TransactionPcs
<1>6. CASE StatementFails(c)
  <2>1. /\ Finish(c, failure(c, "fault"))
        /\ UNCHANGED <<file, open, returned>>
        /\ frame[c].pc \notin {"idle", "done"}
      BY <1>6 DEF StatementFails
  <2>2. faults' \in 0 .. MaxFaults
      BY <1>1, <1>6, StoreAssumption DEF StatementFails
  <2>3. IF frame[c].pc \in TransactionPcs THEN Rollback(ConnectionOf[c])
        ELSE UNCHANGED <<work, pending>>
      BY <1>6 DEF StatementFails, InTransaction, TransactionPcs
  <2> QED BY <1>2, <1>3, <2>1, <2>2, <2>3
<1> QED BY <1>4, <1>5, <1>6

(* A database with the same rows is as sound.                               *)
LEMMA SameRowsSound ==
    ASSUME NEW old, Sound(old), NEW new, DOMAIN new = DOMAIN EmptyDatabase,
           new.archives = old.archives, new.evidence = old.evidence,
           new.sessions = old.sessions, new.replay_results = old.replay_results
    PROVE  Sound(new) /\ Extends(old, new)
<1>1. \A i : Content(new, i) = Content(old, i)
    BY DEF Content
<1>2. Whole(new)
    BY <1>1 DEF Sound, Whole
<1> QED BY <1>2 DEF Sound, DatabaseShape, Extends

(* A statement of a transaction other than one that ends it.                *)
StatementOf(op, pc) ==
    \/ op = "open" /\ pc \in {"ledger", "schema", "version", "commit"}
    \/ op = "import" /\ pc \in {"archive", "rows", "commit"}
    \/ op = "record" /\ pc \in {"upsert", "commit"}

ProgressedAt(op, arg, pc, local, db) ==
    \A f : f.op = op /\ f.arg = arg /\ f.pc = pc /\ f.local = local
            => Progressed(f, db)

(* A statement that leaves the work copy as its next one expects it.        *)
LEMMA WroteBy ==
    ASSUME StoreInv, NEW c \in Callers, NEW pc, NEW local, Goto(c, pc, local),
           frame[c].pc \in TransactionPcs, StatementOf(frame[c].op, pc),
           NEW db, work' = [work EXCEPT ![ConnectionOf[c]] = db],
           ProgressedAt(frame[c].op, frame[c].arg, pc, local, db),
           UNCHANGED <<file, pending, open, returned, faults>>
    PROVE  Wrote(c)
<1>1. Shape /\ FrameShape(frame[c])
    BY DEF StoreInv, Shape
<1>2. Moved(c, pc, frame[c].reading, local)
    BY <1>1, GotoMoves
<1>3. FrameShape(frame'[c]) /\ frame[c] # Idle /\ frame'[c] # Idle
    BY <1>1, <1>2 DEF Moved, FrameShape, Idle, TransactionPcs, StatementOf
<1>4. Progressed(frame'[c], db)
    BY <1>2 DEF Moved, ProgressedAt
<1> QED BY <1>2, <1>3, <1>4 DEF Wrote, SameCall, Moved, TransactionPcs, StatementOf

(* BEGIN IMMEDIATE copies the committed file.                               *)
LEMMA BeginWrites ==
    ASSUME StoreInv, NEW c \in Callers, Begin(c)
    PROVE  Wrote(c)
<1> DEFINE k == ConnectionOf[c]
           pc == CASE frame[c].op = "open" -> "ledger"
                   [] frame[c].op = "import" -> "archive"
                   [] frame[c].op = "record" -> "upsert"
<1>1. Shape /\ FrameShape(frame[c]) /\ frame[c].pc = "begin"
    BY DEF StoreInv, Shape, Begin
<1>2. frame[c].op \in {"open", "import", "record"}
    BY <1>1 DEF FrameShape, Idle
<1>3. pc = IF frame[c].op = "open" THEN "ledger"
           ELSE IF frame[c].op = "import" THEN "archive" ELSE "upsert"
    BY <1>2
<1>4. Goto(c, pc, frame[c].local) /\ Write(c, file)
    BY DEF Begin
<1> HIDE DEF pc
<1>5. Moved(c, pc, frame[c].reading, frame[c].local)
    BY <1>1, <1>4, GotoMoves
<1>6. FrameShape(frame'[c]) /\ frame[c] # Idle /\ frame'[c] # Idle
    BY <1>1, <1>2, <1>3, <1>5 DEF Moved, FrameShape, Idle
<1>7. Progressed(frame'[c], file)
  <2>1. DatabaseShape(file)
      BY DEF StoreInv, Sound
  <2> QED BY <1>2, <1>3, <1>5, <2>1 DEF Moved, Progressed
<1>8. \A j \in Connections : work[j] = NoCopy
    BY DEF Begin, WriterElsewhere, Others
<1>9. frame'[c].pc \in TransactionPcs
    BY <1>2, <1>3, <1>5 DEF Moved, TransactionPcs
<1> QED BY <1>1, <1>4, <1>5, <1>6, <1>7, <1>8, <1>9
        DEF Wrote, Write, SameCall, Moved

(* Tables are there from the first version on.                              *)
LEMMA TablesOfVersion ==
    ASSUME StoreInv
    PROVE  /\ file.version \in 0 .. 2
           /\ file.version = 0 => ~file.tables
           /\ file.version = 1 => file.tables = TRUE
<1>1. file.version \in 0 .. 2 /\ file.tables = (file.version > 0)
    BY DEF StoreInv, Versions, investigation_schema_version
<1>2. file.version = 0 => (file.version > 0) = FALSE
    OBVIOUS
<1>3. file.version = 1 => (file.version > 0) = TRUE
    OBVIOUS
<1>4. file.version = 0 => ~file.tables
    BY <1>1, <1>2, Zenon
<1>5. file.version = 1 => file.tables = TRUE
    BY <1>1, <1>3, Zenon
<1> QED BY <1>1, <1>4, <1>5

(* The migration.                                                           *)
LEMMA MigrationSteps ==
    ASSUME StoreInv, NEW c \in Callers,
           ReadVersion(c) \/ ApplySchema(c) \/ RecordVersion(c)
    PROVE  Wrote(c) \/ RolledBack(c)
<1> DEFINE k == ConnectionOf[c]
           db == work[k]
<1>0. frame[c].op = "open" /\ frame[c].pc \in {"ledger", "schema", "version"}
    BY DEF ReadVersion, ApplySchema, RecordVersion, At
<1>1. /\ Shape /\ FrameShape(frame[c]) /\ faults \in 0 .. MaxFaults
      /\ Sound(file) /\ DatabaseShape(file)
      /\ k \in Connections
    BY Connected DEF StoreInv, Shape, Sound
<1>9. /\ file.version \in 0 .. 2
      /\ file.version = 0 => ~file.tables
      /\ file.version = 1 => file.tables = TRUE
    BY TablesOfVersion
<1>2. Progressed(frame[c], db)
    BY <1>0 DEF StoreInv, Transactions, InTransaction
<1>3. frame[c].pc \in TransactionPcs
    BY <1>0 DEF TransactionPcs
<1>4. CASE ReadVersion(c)
  <2>1. frame[c].pc = "ledger"
      BY <1>4 DEF ReadVersion, At
  <2>2. db = file
      BY <1>2, <2>1 DEF Progressed
  <2>3. CASE file.version = 2
    <3>1. Rollback(k) /\ Finish(c, failure(c, "newer"))
        BY <1>4, <2>2, <2>3 DEF ReadVersion, migration_step,
              investigation_schema_version
    <3>2. Newer
        BY <2>3 DEF Newer, investigation_schema_version
    <3>3. Holds([op |-> frame[c].op, arg |-> frame[c].arg,
                 outcome |-> failure(c, "newer")])
        BY <3>2, SqliteFailureHolds
    <3> QED BY <1>1, <1>3, <1>4, <3>1, <3>3, FinishedRolledBack DEF ReadVersion
  <2>4. CASE file.version # 2
    <3> DEFINE pc == IF file.version = 0 THEN "schema" ELSE "commit"
    <3>1. Goto(c, pc, None) /\ UNCHANGED <<work, pending>>
        BY <1>9, <1>4, <2>2, <2>4 DEF ReadVersion, migration_step,
              investigation_schema_version
    <3>2. work' = [work EXCEPT ![k] = file]
        BY <1>1, <2>2, <3>1 DEF Shape
    <3>3. Extends(file, file)
        BY DEF Extends
    <3>4. file.version \in 0 .. 1 /\ (pc = "commit" => file.version = 1)
        BY <1>9, <2>4
    <3>5. pc \in {"schema", "commit"} /\ (pc = "schema" => file.version = 0)
        OBVIOUS
    <3> HIDE DEF pc
    <3>6. ASSUME NEW f, f.op = "open", f.pc = pc
          PROVE  Progressed(f, file)
      <4>1. pc = "commit" => Committing(f, file)
          BY <1>1, <1>9, <3>3, <3>4, <3>6 DEF Committing
      <4> QED BY <1>1, <3>5, <3>6, <4>1 DEF Progressed
    <3>7. ProgressedAt(frame[c].op, frame[c].arg, pc, None, file)
        BY <1>0, <3>6 DEF ProgressedAt
    <3>9. StatementOf(frame[c].op, pc)
        BY <1>0, <3>5 DEF StatementOf
    <3>8. UNCHANGED <<file, pending, open, returned, faults>>
        BY <1>4, <3>1 DEF ReadVersion
    <3> QED BY <1>3, <3>1, <3>2, <3>7, <3>8, <3>9, WroteBy
  <2> QED BY <2>3, <2>4
<1>5. CASE ApplySchema(c)
  <2> DEFINE new == [file EXCEPT !.tables = TRUE]
  <2>1. frame[c].pc = "schema"
      BY <1>5 DEF ApplySchema, At
  <2>2. db = file /\ file.version = 0
      BY <1>2, <2>1 DEF Progressed
  <2>3. /\ Goto(c, "version", None)
        /\ work' = [work EXCEPT ![k] = [@ EXCEPT !.tables = TRUE]]
        /\ UNCHANGED pending
    <3>1. ~work[k].tables
        BY <1>9, <2>2
    <3> QED BY <1>5, <3>1 DEF ApplySchema
  <2>4. work' = [work EXCEPT ![k] = new]
      BY <1>1, <2>2, <2>3 DEF Shape
  <2>5. DatabaseShape(new)
      BY <1>1, StatementChanges DEF DatabaseShape, Rest
  <2>6. ProgressedAt(frame[c].op, frame[c].arg, "version", None, new)
      BY <2>2, <2>5 DEF ProgressedAt, Progressed
  <2> HIDE DEF new
  <2>7. StatementOf(frame[c].op, "version")
      BY <1>0 DEF StatementOf
  <2>8. UNCHANGED <<file, pending, open, returned, faults>>
      BY <1>5, <2>3 DEF ApplySchema
  <2> QED BY <1>3, <2>3, <2>4, <2>6, <2>7, <2>8, WroteBy
<1>6. CASE RecordVersion(c)
  <2> DEFINE tabled == [file EXCEPT !.tables = TRUE]
             new == [tabled EXCEPT !.version = 1]
  <2>1. frame[c].pc = "version"
      BY <1>6 DEF RecordVersion, At
  <2>2. db = tabled /\ file.version = 0
      BY <1>2, <2>1 DEF Progressed
  <2>3. Goto(c, "commit", None) /\ Write(c, new)
      BY <1>6, <2>2 DEF RecordVersion, investigation_schema_version
  <2>4. Rest(file, tabled, "tables") /\ tabled.tables = TRUE
      BY <1>1, StatementChanges DEF DatabaseShape
  <2>5. Rest(tabled, new, "version") /\ new.version = 1
      BY <2>4, StatementChanges DEF Rest
  <2> HIDE DEF tabled, new
  <2>6. Sound(new) /\ Extends(file, new) /\ new.tables = TRUE
      BY <1>1, <2>4, <2>5, SameRowsSound DEF Rest
  <2>7. ProgressedAt(frame[c].op, frame[c].arg, "commit", None, new)
      BY <1>0, <2>2, <2>5, <2>6 DEF ProgressedAt, Progressed, Committing, Sound
  <2>8. StatementOf(frame[c].op, "commit")
      BY <1>0 DEF StatementOf
  <2>9. /\ work' = [work EXCEPT ![k] = new]
        /\ UNCHANGED <<file, pending, open, returned, faults>>
      BY <2>3 DEF Write
  <2> QED BY <1>3, <2>3, <2>7, <2>8, <2>9, WroteBy
<1> QED BY <1>4, <1>5, <1>6

(* INSERT OR IGNORE of the archive.                                         *)
LEMMA InsertArchiveStep ==
    ASSUME StoreInv, NEW c \in Callers, InsertArchive(c)
    PROVE  Wrote(c) \/ RolledBack(c)
<1> DEFINE k == ConnectionOf[c]
           x == frame[c].arg
           a == x.archive
           db == insert_archive(work[k], a, x.trusted_head, x.source)
           inserted == db # work[k]
           id == archive_id_of(db, a)
           local == [archive_id |-> id, inserted |-> inserted, n |-> 0]
           pc == IF inserted /\ row_count(x) > 0 THEN "rows" ELSE "commit"
<1>0. frame[c].op = "import" /\ frame[c].pc = "archive"
    BY DEF InsertArchive, At
<1>1. /\ Shape /\ FrameShape(frame[c]) /\ faults \in 0 .. MaxFaults
      /\ Sound(file) /\ DatabaseShape(file)
      /\ frame[c].op = "import" /\ frame[c].pc = "archive"
      /\ k \in Connections
    BY <1>0, Connected DEF StoreInv, Shape, Sound
<1>2. file.version = 1 /\ file.tables = TRUE
  <2>1. file.version = 1
      BY <1>0 DEF StoreInv, Versions
  <2> QED BY <2>1, TablesOfVersion
<1>3. work[k] = file
    BY <1>1 DEF StoreInv, Transactions, InTransaction, Progressed
<1>4. x \in ImportArguments /\ frame[c].pc \in TransactionPcs
    BY <1>1 DEF FrameShape, Idle, ValidImports, ImportArguments, TransactionPcs
<1>5. \/ Rollback(k) /\ Finish(c, failure(c, "conflict"))
      \/ /\ work' = [work EXCEPT ![k] = db]
         /\ Goto(c, pc, local)
         /\ UNCHANGED pending
    BY DEF InsertArchive
<1>6. UNCHANGED <<file, open, returned, faults>>
    BY DEF InsertArchive
<1>9. StatementOf("import", "rows") /\ StatementOf("import", "commit")
    BY DEF StatementOf
<1>7. CASE Rollback(k) /\ Finish(c, failure(c, "conflict"))
  <2>1. Holds([op |-> frame[c].op, arg |-> frame[c].arg,
               outcome |-> failure(c, "conflict")])
      BY <1>1, SqliteFailureHolds
  <2> QED BY <1>1, <1>4, <1>6, <1>7, <2>1, FinishedRolledBack
<1>8. ASSUME work' = [work EXCEPT ![k] = db], Goto(c, pc, local),
             UNCHANGED pending
      PROVE  Wrote(c)
  <2>1. CASE Stored(file, a) = {}
    <3>1. /\ DatabaseShape(db) /\ inserted
          /\ Inserting(x, Len(file.archives) + 1, 0, db)
          /\ id = Len(file.archives) + 1
        BY <1>1, <1>3, <1>4, <2>1, ImportStarts
    <3>2. row_count(x) \in Nat
        BY <1>4, ImportRows
    <3> HIDE DEF db, id
    <3>3. CASE row_count(x) > 0
      <4>1. pc = "rows"
          BY <3>1, <3>3
      <4>2. ProgressedAt("import", x, "rows", local, db)
          BY <3>1, <3>2, <3>3 DEF ProgressedAt, Progressed, InsertingRows
      <4> HIDE DEF local, pc
      <4> QED BY <1>0, <1>4, <1>6, <1>8, <1>9, <4>1, <4>2, WroteBy
    <3>4. CASE ~(row_count(x) > 0)
      <4>1. pc = "commit" /\ row_count(x) = 0
          BY <3>2, <3>4
      <4>2. /\ Sound(db) /\ Extends(file, db)
            /\ db.version = file.version /\ db.tables = file.tables
            /\ id \in DOMAIN db.archives /\ Content(db, id) = a
          BY <1>1, <1>4, <3>1, <4>1, ImportEnds
      <4>3. ProgressedAt("import", x, "commit", local, db)
          BY <1>2, <3>1, <4>2 DEF ProgressedAt, Progressed, Committing
      <4> HIDE DEF local, pc
      <4> QED BY <1>0, <1>4, <1>6, <1>8, <1>9, <4>1, <4>3, WroteBy
    <3> QED BY <3>3, <3>4
  <2>2. CASE Stored(file, a) # {}
    <3>1. db = file
        BY <1>3, <2>2 DEF insert_archive
    <3>2. id \in Stored(file, a)
        BY <2>2, <3>1 DEF archive_id_of
    <3>3. id \in DOMAIN file.archives /\ Content(file, id) = a
      <4>1. /\ id \in DOMAIN file.archives
            /\ file.archives[id].archive_digest = archive_digest(a)
          BY <3>2 DEF Stored
      <4>2. a \in Archives
          BY <1>4 DEF Archives
      <4> HIDE DEF id, a
      <4> QED BY <4>1, <4>2, ContentOf
    <3>4. pc = "commit" /\ Extends(file, file)
        BY <1>3, <3>1 DEF Extends
    <3> HIDE DEF db, id
    <3>5. ProgressedAt("import", x, "commit", local, file)
        BY <1>1, <1>2, <3>3, <3>4 DEF ProgressedAt, Progressed, Committing
    <3> HIDE DEF local, pc
    <3> QED BY <1>0, <1>4, <1>6, <1>8, <1>9, <3>1, <3>4, <3>5, WroteBy
  <2> QED BY <2>1, <2>2
<1> QED BY <1>5, <1>7, <1>8

(* INSERT of a record's or a session's row.                                 *)
LEMMA InsertRowStep ==
    ASSUME StoreInv, NEW c \in Callers, InsertRow(c)
    PROVE  Wrote(c)
<1> DEFINE k == ConnectionOf[c]
           x == frame[c].arg
           old == frame[c].local
           id == old.archive_id
           n == old.n
           local == [old EXCEPT !.n = @ + 1]
           db == WithRow(x, id, n + 1, work[k])
           pc == IF n + 1 = row_count(x) THEN "commit" ELSE "rows"
<1>1. /\ frame[c].op = "import" /\ frame[c].pc = "rows"
      /\ frame[c].pc \in TransactionPcs /\ InTransaction(c)
    BY DEF InsertRow, At, TransactionPcs, InTransaction
<1>2. FrameShape(frame[c]) /\ Sound(file)
    BY DEF StoreInv, Shape
<1>3. x \in ImportArguments
    BY <1>1, <1>2 DEF FrameShape, Idle, ValidImports, ImportArguments
<1>4. file.version = 1 /\ file.tables = TRUE
  <2>1. file.version = 1
      BY <1>1 DEF StoreInv, Versions
  <2> QED BY <2>1, TablesOfVersion
<1>5. Progressed(frame[c], work[k])
    BY <1>1 DEF StoreInv, Transactions
<1>6. /\ DatabaseShape(work[k])
      /\ old = [archive_id |-> id, inserted |-> old.inserted, n |-> n]
      /\ n \in Nat /\ n < row_count(x)
      /\ Inserting(x, id, n, work[k])
    BY <1>1, <1>5 DEF Progressed, InsertingRows
<1>7. /\ DatabaseShape(db) /\ Inserting(x, id, n + 1, db)
      /\ row_count(x) \in Nat
    BY <1>3, <1>6, ImportContinues, ImportRows
<1>8. /\ local = [archive_id |-> id, inserted |-> old.inserted, n |-> n + 1]
      /\ local.n = n + 1 /\ local.archive_id = id /\ local.inserted = old.inserted
    BY <1>6
<1>9. Write(c, db) /\ Goto(c, pc, local)
    BY <1>8 DEF InsertRow, WithRow
<1> HIDE DEF db, pc, local, id, n, old, x
<1>10. CASE n + 1 = row_count(x)
  <2>1. /\ Sound(db) /\ Extends(file, db)
        /\ db.version = file.version /\ db.tables = file.tables
        /\ id \in DOMAIN db.archives /\ Content(db, id) = x.archive
      BY <1>2, <1>3, <1>7, <1>10, ImportEnds
  <2>2. ASSUME NEW f, f.op = "import", f.arg = x, f.pc = "commit", f.local = local
        PROVE  Progressed(f, db)
    <3>1. Committing(f, db)
        BY <1>4, <1>8, <2>1, <2>2 DEF Committing
    <3> QED BY <1>7, <2>2, <3>1 DEF Progressed
  <2>3. ProgressedAt(frame[c].op, frame[c].arg, "commit", local, db)
      BY <1>1, <2>2 DEF ProgressedAt, x
  <2>4. StatementOf(frame[c].op, "commit") /\ pc = "commit"
      BY <1>1, <1>10 DEF StatementOf, pc
  <2> QED BY <1>1, <1>9, <2>3, <2>4, WroteBy DEF Write
<1>11. CASE n + 1 # row_count(x)
  <2>1. n + 1 \in Nat /\ n + 1 < row_count(x)
      BY <1>6, <1>7, <1>11
  <2>2. ASSUME NEW f, f.op = "import", f.arg = x, f.pc = "rows", f.local = local
        PROVE  Progressed(f, db)
    <3>1. InsertingRows(f, db)
        BY <1>7, <1>8, <2>1, <2>2 DEF InsertingRows
    <3> QED BY <1>7, <2>2, <3>1 DEF Progressed
  <2>3. ProgressedAt(frame[c].op, frame[c].arg, "rows", local, db)
      BY <1>1, <2>2 DEF ProgressedAt, x
  <2>4. StatementOf(frame[c].op, "rows") /\ pc = "rows"
      BY <1>1, <1>11 DEF StatementOf, pc
  <2> QED BY <1>1, <1>9, <2>3, <2>4, WroteBy DEF Write
<1> QED BY <1>10, <1>11

(* INSERT ... ON CONFLICT of a replay result.                               *)
LEMMA UpsertIsSound ==
    ASSUME Sound(file), NEW id \in DOMAIN file.archives, NEW result
    PROVE  LET db == upsert_replay_result(file, id, result)
           IN  /\ Sound(db) /\ Extends(file, db)
               /\ db.version = file.version /\ db.tables = file.tables
               /\ \E row \in db.replay_results : row.archive_id = id
<1> DEFINE added == [archive_id |-> id, result |-> result]
           rows == {row \in file.replay_results : row.archive_id # id} \cup {added}
           db == [file EXCEPT !.replay_results = rows]
<1>1. Rest(file, db, "replay_results") /\ db.replay_results = rows
    BY StatementChanges DEF Sound, DatabaseShape
<1>2. added.archive_id = id /\ added \in rows
    OBVIOUS
<1>3. \A row \in rows : row \in file.replay_results \/ row = added
    OBVIOUS
<1>4. \A row \in file.replay_results : row.archive_id = id \/ row \in rows
    OBVIOUS
<1>5. upsert_replay_result(file, id, result) = db
    BY DEF upsert_replay_result
<1> HIDE DEF rows, added, db
<1>6. \A i : Content(db, i) = Content(file, i)
    BY <1>1 DEF Content, Rest
<1>7. Whole(db)
    BY <1>1, <1>6 DEF Sound, Whole, Rest
<1>8. \A row \in db.replay_results : row.archive_id \in DOMAIN db.archives
    BY <1>1, <1>2, <1>3 DEF Sound, Rest
<1>9. Sound(db)
    BY <1>1, <1>7, <1>8 DEF Sound, DatabaseShape, Rest
<1>10. Extends(file, db)
    BY <1>1, <1>2, <1>4 DEF Extends, Rest
<1> QED BY <1>1, <1>2, <1>5, <1>9, <1>10 DEF Rest

(* The upsert of record_replay_result, in its transaction.                  *)
LEMMA UpsertStep ==
    ASSUME StoreInv, NEW c \in Callers, UpsertReplayResult(c)
    PROVE  Wrote(c) \/ RolledBack(c)
<1> DEFINE k == ConnectionOf[c]
           id == frame[c].arg.archive_id
           db == upsert_replay_result(file, id, frame[c].arg.result)
<1>1. /\ frame[c].op = "record" /\ frame[c].pc = "upsert"
      /\ frame[c].pc \in TransactionPcs /\ InTransaction(c)
      /\ UNCHANGED <<file, open, returned, faults>>
    BY DEF UpsertReplayResult, At, TransactionPcs, InTransaction
<1>2. /\ Shape /\ Sound(file) /\ faults \in 0 .. MaxFaults
      /\ k \in Connections /\ k \in DOMAIN work
    BY Connected DEF StoreInv, Shape
<1>3. work[k] = file
    BY <1>1 DEF StoreInv, Transactions, Progressed
<1>4. file.version = 1 /\ file.tables = TRUE
  <2>1. file.version = 1
      BY <1>1 DEF StoreInv, Versions
  <2> QED BY <2>1, TablesOfVersion
<1>5. CASE id \in DOMAIN file.archives
  <2>1. /\ Sound(db) /\ Extends(file, db)
        /\ db.version = file.version /\ db.tables = file.tables
        /\ \E row \in db.replay_results : row.archive_id = id
      BY <1>2, <1>5, UpsertIsSound
  <2>2. /\ work' = [work EXCEPT ![k] = db]
        /\ Goto(c, "commit", None) /\ UNCHANGED pending
      BY <1>3, <1>5 DEF UpsertReplayResult, foreign_key_holds
  <2> HIDE DEF db
  <2>3. ProgressedAt(frame[c].op, frame[c].arg, "commit", None, db)
      BY <1>1, <1>4, <2>1 DEF ProgressedAt, Progressed, Committing, Sound
  <2>4. StatementOf(frame[c].op, "commit")
      BY <1>1 DEF StatementOf
  <2> QED BY <1>1, <2>2, <2>3, <2>4, WroteBy
<1>6. CASE id \notin DOMAIN file.archives
  <2>1. Rollback(k) /\ Finish(c, failure(c, "foreign key"))
      BY <1>3, <1>6 DEF UpsertReplayResult, foreign_key_holds
  <2>2. Holds([op |-> frame[c].op, arg |-> frame[c].arg,
               outcome |-> failure(c, "foreign key")])
      BY <1>1, SqliteFailureHolds
  <2> QED BY <1>1, <1>2, <2>1, <2>2, FinishedRolledBack
<1> QED BY <1>5, <1>6

(* The end of a call.                                                       *)
LEMMA EndingSteps ==
    ASSUME StoreInv, NEW c \in Callers, Commit(c) \/ CommitWaits(c) \/ Return(c)
    PROVE  Committed(c) \/ Waits(c) \/ Left(c)
<1>1. Shape /\ DOMAIN frame = Callers
    BY DEF StoreInv, Shape
<1>2. CASE Commit(c)
  <2>1. frame[c].pc = "commit" /\ Finish(c, commit_outcome(c))
      BY <1>2 DEF Commit
  <2>2. frame[c] # Idle
      BY <2>1 DEF Idle
  <2>3. SameCall(c) /\ frame'[c].pc = "done"
      BY <1>1, <2>1, <2>2, FinishShape
  <2>4. frame'[c].arg = frame[c].arg /\ frame'[c].local = commit_outcome(c)
      BY <1>1, <2>1, FinishMoves DEF Moved
  <2> QED BY <1>2, <2>1, <2>3, <2>4 DEF Commit, Committed, committed
<1>3. CASE CommitWaits(c)
    BY <1>3 DEF CommitWaits, Waits
<1>4. CASE Return(c)
    BY <1>1, <1>4 DEF Return, Left, OthersKept, AnswerIn
<1> QED BY <1>2, <1>3, <1>4

(* Every step of the system is of one of these kinds, or a crash.           *)
LEMMA NextIsAStep ==
    ASSUME StoreInv, Next
    PROVE  /\ \/ \E c \in Callers : CallerStep(c)
              \/ \E k \in Connections : Crash(k)
           /\ UNCHANGED workload
<1>1. ASSUME NEW c \in Callers, Progress(c)
      PROVE  CallerStep(c)
  <2>1. CASE Configure(c) \/ LocateArchive(c) \/ StepRow(c) \/ FindArchive(c)
             \/ ReadReplayResult(c) \/ LoadEvidence(c) \/ ReadSessions(c)
      BY <2>1, ReadingIsLocal DEF CallerStep
  <2>2. CASE BeginFails(c) \/ BusyTimeout(c)
      BY <2>2, FailingIsLocalOrRolledBack DEF CallerStep
  <2>3. CASE Begin(c)
      BY <2>3, BeginWrites DEF CallerStep
  <2>4. CASE ReadVersion(c) \/ ApplySchema(c) \/ RecordVersion(c)
      BY <2>4, MigrationSteps DEF CallerStep
  <2>5. CASE InsertArchive(c)
      BY <2>5, InsertArchiveStep DEF CallerStep
  <2>6. CASE InsertRow(c)
      BY <2>6, InsertRowStep DEF CallerStep
  <2>7. CASE UpsertReplayResult(c)
      BY <2>7, UpsertStep DEF CallerStep
  <2>8. CASE Commit(c) \/ CommitWaits(c) \/ Return(c)
      BY <2>8, EndingSteps DEF CallerStep
  <2> QED BY <1>1, <2>1, <2>2, <2>3, <2>4, <2>5, <2>6, <2>7, <2>8 DEF Progress
<1>2. ASSUME NEW c \in Callers, Call(c)
      PROVE  CallerStep(c)
    BY <1>2, CallIsInvoked DEF CallerStep
<1>3. ASSUME NEW c \in Callers, StatementFails(c)
      PROVE  CallerStep(c)
    BY <1>3, FailingIsLocalOrRolledBack DEF CallerStep
<1> QED BY <1>1, <1>2, <1>3 DEF Next

-----------------------------------------------------------------------------
(* Each kind of step preserves the invariant.                               *)

(* The caller's part of a workload does not change.                         *)
LEMMA WorkloadKept ==
    ASSUME UNCHANGED workload
    PROVE  /\ ConnectionOf' = ConnectionOf /\ MaxCalls' = MaxCalls
           /\ \A v : Database(v)' = Database(v)
  BY DEF ConnectionOf, MaxCalls, Load, Database, Preloaded

(* What depends on the file only.                                           *)
LEMMA FileKept ==
    ASSUME StoreInv, UNCHANGED <<workload, file>>
    PROVE  /\ Sound(file')
           /\ file'.version \in 0 .. investigation_schema_version + 1
           /\ file'.tables = (file'.version > 0)
           /\ Newer' => file' = Database(file.version)'
           /\ \A a : Holds(a) => Holds(a)'
           /\ \A f, db : Progressed(f, db) => Progressed(f, db)'
<1>1. Sound(file) /\ Versions
    BY DEF StoreInv
<1>2. Newer' => file' = Database(file.version)'
    BY <1>1, WorkloadKept DEF Versions, Newer
<1>3. ASSUME NEW a, Holds(a)
      PROVE  Holds(a)'
    BY <1>3 DEF Holds, ImportHolds, RecordHolds, OpenHolds, Newer
<1>4. ASSUME NEW f, NEW db, Progressed(f, db)
      PROVE  Progressed(f, db)'
    BY <1>4 DEF Progressed, InsertingRows, Inserting, SameButRows, Committing
<1> QED BY <1>1, <1>2, <1>3, <1>4 DEF Versions

(* The transaction in progress is the only one.                             *)
LEMMA OneTransaction ==
    ASSUME StoreInv, NEW c \in Callers, frame[c].pc \in TransactionPcs
    PROVE  /\ \A d \in Callers : frame[d].pc \in TransactionPcs => d = c
           /\ \A k \in Connections : k # ConnectionOf[c] =>
                 work[k] = NoCopy /\ ~pending[k]
           /\ work[ConnectionOf[c]] # NoCopy
           /\ Progressed(frame[c], work[ConnectionOf[c]])
<1>1. \A d \in Callers : InTransaction(d) <=> frame[d].pc \in TransactionPcs
    BY DEF InTransaction, TransactionPcs
<1>2. Owners /\ Transactions /\ pending \in [Connections -> BOOLEAN]
    BY DEF StoreInv, Shape
<1>3. \A d \in Callers : InTransaction(d) => d = c
    BY <1>1, <1>2 DEF Owners
<1>4. ASSUME NEW k \in Connections, k # ConnectionOf[c]
      PROVE  work[k] = NoCopy /\ ~pending[k]
    BY <1>2, <1>3, <1>4 DEF Owners
<1> QED BY <1>1, <1>2, <1>3, <1>4 DEF Owners, Transactions

(* What a step keeps of a call it goes on with.                             *)
LEMMA CallGoesOn ==
    ASSUME StoreInv, UNCHANGED workload, NEW c \in Callers, SameCall(c)
    PROVE  /\ DOMAIN frame' = Callers
           /\ \A d \in Callers : FrameShape(frame'[d])
           /\ \A d \in Callers : frame'[d].op = frame[d].op
           /\ \A d \in Callers : frame'[d] = Idle <=> frame[d] = Idle
           /\ UNCHANGED returned => Counted'
<1>1. Shape /\ Counted /\ MaxCalls' = MaxCalls
    BY WorkloadKept DEF StoreInv
<1>2. /\ DOMAIN frame' = Callers
      /\ \A d \in Callers : d # c => frame'[d] = frame[d]
      /\ FrameShape(frame'[c]) /\ frame'[c].op = frame[c].op
      /\ frame[c] # Idle /\ frame'[c] # Idle
    BY DEF SameCall, OthersKept
<1>3. \A d \in Callers : FrameShape(frame'[d])
    BY <1>1, <1>2 DEF Shape
<1>4. \A d \in Callers : frame'[d].op = frame[d].op
    BY <1>2
<1>5. \A d \in Callers : frame'[d] = Idle <=> frame[d] = Idle
    BY <1>2
<1>6. UNCHANGED returned => Counted'
    BY <1>1, <1>5 DEF Counted
<1> QED BY <1>2, <1>3, <1>4, <1>5, <1>6

(* A call begins: only a constructed store is called.                       *)
LEMMA InvokedInv ==
    ASSUME StoreInv, UNCHANGED workload, NEW c \in Callers, Invoked(c)
    PROVE  StoreInv'
<1>1. /\ Shape /\ Counted /\ Owners /\ Alone /\ Versions /\ Transactions /\ Told
      /\ \A d \in Callers : ConnectionOf[d] \in Connections
    BY Connected DEF StoreInv, Shape
<1>2. /\ frame[c] = Idle /\ Len(returned[c]) < MaxCalls[c]
      /\ DOMAIN frame' = Callers
      /\ \A d \in Callers : d # c => frame'[d] = frame[d]
      /\ FrameShape(frame'[c]) /\ frame'[c] # Idle
      /\ frame'[c].pc \notin TransactionPcs
      /\ frame'[c].pc = "done" => Holds(AnswerIn(frame'[c]))
      /\ UNCHANGED <<file, work, pending, open, returned, faults>>
    BY DEF Invoked, OthersKept
<1>3. /\ Sound(file')
      /\ file'.version \in 0 .. investigation_schema_version + 1
      /\ file'.tables = (file'.version > 0)
      /\ Newer' => file' = Database(file.version)'
      /\ \A a : Holds(a) => Holds(a)'
      /\ \A f, db : Progressed(f, db) => Progressed(f, db)'
    BY <1>2, FileKept
<1>4. ConnectionOf' = ConnectionOf /\ MaxCalls' = MaxCalls
    BY WorkloadKept
<1>5. \A d \in Callers : /\ InTransaction(d)' <=> InTransaction(d)
                         /\ InTransaction(d) => frame'[d] = frame[d]
    BY <1>2 DEF InTransaction, TransactionPcs, Idle
<1>6. Shape'
    BY <1>1, <1>2 DEF Shape
<1>7. Counted'
    BY <1>1, <1>2, <1>4 DEF Counted
<1>8. Owners'
    BY <1>1, <1>2, <1>4, <1>5 DEF Owners
<1>9. Alone'
  <2>1. IF frame'[c].op = "open"
        THEN /\ ~open[ConnectionOf[c]] /\ frame'[c].pc # "done"
             /\ \A d \in Callers : ConnectionOf[d] = ConnectionOf[c]
                                     => frame[d] = Idle
        ELSE open[ConnectionOf[c]]
      BY DEF Invoked
  <2>2. ASSUME NEW d \in Callers, d # c, frame[d].op = "open",
               ConnectionOf[d] = ConnectionOf[c]
        PROVE  open[ConnectionOf[c]]
    <3>1. frame[d] # Idle
        BY <2>2 DEF Idle
    <3> QED BY <2>1, <2>2, <3>1
  <2> QED BY <1>1, <1>2, <1>4, <2>1, <2>2 DEF Alone
<1>10. Versions'
  <2>1. frame'[c].op # "open" => file.version = 1
      BY <1>1 DEF Invoked, Versions
  <2>2. \A d \in Callers : frame'[d].op \notin {"idle", "open"} => file'.version = 1
      BY <1>1, <1>2, <2>1 DEF Versions
  <2>3. \A k \in Connections : open'[k] => file'.version = 1
      BY <1>1, <1>2 DEF Versions
  <2> QED BY <1>3, <2>2, <2>3 DEF Versions
<1>11. Transactions'
    BY <1>1, <1>2, <1>3, <1>4, <1>5 DEF Transactions
<1>12. Told'
    BY <1>1, <1>2, <1>3 DEF Told
<1> QED BY <1>3, <1>6, <1>7, <1>8, <1>9, <1>10, <1>11, <1>12 DEF StoreInv

(* A step outside transactions changes its own call only.                   *)
LEMMA LocalInv ==
    ASSUME StoreInv, UNCHANGED workload, NEW c \in Callers, Local(c)
    PROVE  StoreInv'
<1>1. /\ Shape /\ Counted /\ Owners /\ Alone /\ Versions /\ Transactions /\ Told
      /\ \A d \in Callers : ConnectionOf[d] \in Connections
    BY Connected DEF StoreInv, Shape
<1>2. /\ SameCall(c)
      /\ frame[c].pc \notin TransactionPcs \cup {"done"}
      /\ frame'[c].pc \notin TransactionPcs
      /\ frame'[c].pc = "done" => Holds(AnswerIn(frame'[c]))
      /\ UNCHANGED <<file, work, pending, open, returned>>
      /\ faults' \in 0 .. MaxFaults
      /\ \A d \in Callers : d # c => frame'[d] = frame[d]
      /\ frame[c] # Idle
    BY DEF Local, SameCall, OthersKept
<1>3. /\ DOMAIN frame' = Callers
      /\ \A d \in Callers : FrameShape(frame'[d])
      /\ \A d \in Callers : frame'[d].op = frame[d].op
      /\ \A d \in Callers : frame'[d] = Idle <=> frame[d] = Idle
      /\ Counted'
    BY <1>2, CallGoesOn
<1>4. ConnectionOf' = ConnectionOf
    BY WorkloadKept
<1>5. /\ Sound(file')
      /\ file'.version \in 0 .. investigation_schema_version + 1
      /\ file'.tables = (file'.version > 0)
      /\ Newer' => file' = Database(file.version)'
      /\ \A a : Holds(a) => Holds(a)'
      /\ \A f, db : Progressed(f, db) => Progressed(f, db)'
    BY <1>2, FileKept
<1>6. \A d \in Callers : /\ InTransaction(d)' <=> InTransaction(d)
                         /\ InTransaction(d) => frame'[d] = frame[d]
    BY <1>2 DEF InTransaction, TransactionPcs
<1>7. Shape'
    BY <1>1, <1>2, <1>3 DEF Shape
<1>8. Owners'
    BY <1>1, <1>2, <1>4, <1>6 DEF Owners
<1>9. Alone'
  <2>1. \A d \in Callers : frame'[d].pc # "done" => frame[d].pc # "done"
      BY <1>2
  <2> QED BY <1>1, <1>2, <1>3, <1>4, <2>1 DEF Alone
<1>10. Versions'
  <2>1. \A d \in Callers : frame'[d].op \notin {"idle", "open"} => file'.version = 1
      BY <1>1, <1>2, <1>3 DEF Versions
  <2>2. \A k \in Connections : open'[k] => file'.version = 1
      BY <1>1, <1>2 DEF Versions
  <2> QED BY <1>5, <2>1, <2>2 DEF Versions
<1>11. Transactions'
    BY <1>1, <1>2, <1>4, <1>5, <1>6 DEF Transactions
<1>12. Told'
    BY <1>1, <1>2, <1>5 DEF Told
<1> QED BY <1>3, <1>5, <1>7, <1>8, <1>9, <1>10, <1>11, <1>12 DEF StoreInv

(* A rollback leaves the file as it was and ends the one transaction.       *)
LEMMA RolledBackInv ==
    ASSUME StoreInv, UNCHANGED workload, NEW c \in Callers, RolledBack(c)
    PROVE  StoreInv'
<1> DEFINE k == ConnectionOf[c]
<1>1. /\ Shape /\ Counted /\ Owners /\ Alone /\ Versions /\ Transactions /\ Told
      /\ \A d \in Callers : ConnectionOf[d] \in Connections
      /\ pending \in [Connections -> BOOLEAN] /\ DOMAIN work = Connections
    BY Connected DEF StoreInv, Shape
<1>2. /\ SameCall(c) /\ frame[c].pc \in TransactionPcs
      /\ frame'[c].pc = "done" /\ Holds(AnswerIn(frame'[c]))
      /\ work' = [work EXCEPT ![k] = NoCopy]
      /\ pending' = [pending EXCEPT ![k] = FALSE]
      /\ UNCHANGED <<file, open, returned>>
      /\ faults' \in 0 .. MaxFaults
      /\ \A d \in Callers : d # c => frame'[d] = frame[d]
    BY DEF RolledBack, SameCall, OthersKept, Rollback
<1>3. /\ DOMAIN frame' = Callers
      /\ \A d \in Callers : FrameShape(frame'[d])
      /\ \A d \in Callers : frame'[d].op = frame[d].op
      /\ \A d \in Callers : frame'[d] = Idle <=> frame[d] = Idle
      /\ Counted'
    BY <1>2, CallGoesOn
<1>4. ConnectionOf' = ConnectionOf
    BY WorkloadKept
<1>5. /\ Sound(file')
      /\ file'.version \in 0 .. investigation_schema_version + 1
      /\ file'.tables = (file'.version > 0)
      /\ Newer' => file' = Database(file.version)'
      /\ \A a : Holds(a) => Holds(a)'
    BY <1>2, FileKept
<1>6. /\ \A d \in Callers : ~InTransaction(d)'
      /\ \A j \in Connections : work'[j] = NoCopy /\ ~pending'[j]
  <2>1. \A d \in Callers : frame'[d].pc \notin TransactionPcs
    <3>1. \A d \in Callers : frame[d].pc \in TransactionPcs => d = c
        BY <1>2, OneTransaction
    <3> QED BY <1>2, <3>1 DEF TransactionPcs
  <2>2. \A j \in Connections : j # k => work[j] = NoCopy /\ ~pending[j]
      BY <1>2, OneTransaction
  <2> QED BY <1>1, <1>2, <2>1, <2>2 DEF InTransaction, TransactionPcs
<1>7. Shape'
  <2>1. /\ work' \in [Connections -> Range(work')]
        /\ pending' \in [Connections -> BOOLEAN]
      BY <1>1, <1>2 DEF Range
  <2> QED BY <1>1, <1>2, <1>3, <2>1 DEF Shape
<1>8. Owners' /\ Transactions'
    BY <1>6 DEF Owners, Transactions
<1>9. Alone'
    BY <1>1, <1>2, <1>3, <1>4 DEF Alone, TransactionPcs
<1>10. Versions'
  <2>1. \A d \in Callers : frame'[d].op \notin {"idle", "open"} => file'.version = 1
      BY <1>1, <1>2, <1>3 DEF Versions
  <2>2. \A j \in Connections : open'[j] => file'.version = 1
      BY <1>1, <1>2 DEF Versions
  <2> QED BY <1>5, <2>1, <2>2 DEF Versions
<1>11. Told'
    BY <1>1, <1>2, <1>5 DEF Told
<1> QED BY <1>3, <1>5, <1>7, <1>8, <1>9, <1>10, <1>11 DEF StoreInv

(* A statement changes the copy of its own transaction only.                *)
LEMMA WroteInv ==
    ASSUME StoreInv, UNCHANGED workload, NEW c \in Callers, Wrote(c)
    PROVE  StoreInv'
<1> DEFINE k == ConnectionOf[c]
<1>1. /\ Shape /\ Counted /\ Owners /\ Alone /\ Versions /\ Transactions /\ Told
      /\ \A d \in Callers : ConnectionOf[d] \in Connections
      /\ pending \in [Connections -> BOOLEAN] /\ DOMAIN work = Connections
    BY Connected DEF StoreInv, Shape
<1>2. /\ SameCall(c) /\ frame'[c].pc \in TransactionPcs
      /\ \/ frame[c].pc \in TransactionPcs
         \/ /\ frame[c].pc = "begin"
            /\ \A j \in Connections : work[j] = NoCopy
      /\ UNCHANGED <<file, pending, open, returned, faults>>
      /\ \A d \in Callers : d # c => frame'[d] = frame[d]
    BY DEF Wrote, SameCall, OthersKept
<1>3. /\ DOMAIN frame' = Callers
      /\ \A d \in Callers : FrameShape(frame'[d])
      /\ \A d \in Callers : frame'[d].op = frame[d].op
      /\ \A d \in Callers : frame'[d] = Idle <=> frame[d] = Idle
      /\ Counted'
    BY <1>2, CallGoesOn
<1>4. ConnectionOf' = ConnectionOf
    BY WorkloadKept
<1>5. /\ Sound(file')
      /\ file'.version \in 0 .. investigation_schema_version + 1
      /\ file'.tables = (file'.version > 0)
      /\ Newer' => file' = Database(file.version)'
      /\ \A a : Holds(a) => Holds(a)'
      /\ \A f, db : Progressed(f, db) => Progressed(f, db)'
    BY <1>2, FileKept
<1>6. PICK db : /\ work' = [work EXCEPT ![k] = db]
                /\ Progressed(frame'[c], db)
    BY DEF Wrote
<1>7. /\ \A d \in Callers : frame[d].pc \in TransactionPcs => d = c
      /\ \A j \in Connections : j # k => work[j] = NoCopy /\ ~pending[j]
  <2>1. CASE frame[c].pc \in TransactionPcs
      BY <2>1, OneTransaction
  <2>2. CASE \A j \in Connections : work[j] = NoCopy
    <3>1. \A d \in Callers : ~InTransaction(d)
        BY <1>1, <2>2 DEF Owners
    <3>2. \A j \in Connections : ~pending[j]
        BY <1>1, <2>2 DEF Owners
    <3> QED BY <2>2, <3>1, <3>2 DEF InTransaction, TransactionPcs
  <2> QED BY <1>2, <2>1, <2>2
<1>8. /\ k \in Connections /\ work'[k] = db /\ db # NoCopy
      /\ \A j \in Connections : j # k => work'[j] = NoCopy
  <2>1. db # NoCopy
      BY <1>6, DatabaseIsACopy DEF Progressed
  <2> QED BY <1>1, <1>6, <1>7, <2>1
<1>9. \A d \in Callers : InTransaction(d)' <=> d = c
    BY <1>2, <1>7 DEF InTransaction, TransactionPcs
<1>10. Shape'
  <2>1. work' \in [Connections -> Range(work')]
      BY <1>1, <1>6 DEF Range
  <2> QED BY <1>1, <1>2, <1>3, <2>1 DEF Shape
<1>11. Owners'
    BY <1>2, <1>4, <1>7, <1>8, <1>9 DEF Owners
<1>12. Transactions'
    BY <1>4, <1>5, <1>6, <1>8, <1>9 DEF Transactions
<1>13. Alone'
    BY <1>1, <1>2, <1>3, <1>4 DEF Alone, TransactionPcs
<1>14. Versions'
  <2>1. \A d \in Callers : frame'[d].op \notin {"idle", "open"} => file'.version = 1
      BY <1>1, <1>2, <1>3 DEF Versions
  <2>2. \A j \in Connections : open'[j] => file'.version = 1
      BY <1>1, <1>2 DEF Versions
  <2> QED BY <1>5, <2>1, <2>2 DEF Versions
<1>15. Told'
    BY <1>1, <1>2, <1>5 DEF Told, TransactionPcs
<1> QED BY <1>3, <1>5, <1>10, <1>11, <1>12, <1>13, <1>14, <1>15 DEF StoreInv

(* What was true of the file is true of the file a COMMIT installs.         *)
LEMMA CommittedHolds ==
    ASSUME StoreInv, UNCHANGED workload,
           Sound(file'), Extends(file, file'),
           file.version \in 0 .. 1, file'.version = 1,
           NEW a, Holds(a)
    PROVE  Holds(a)'
<1>1. ImportHolds(a)'
  <2> SUFFICES ASSUME Ok(a, "import")
               PROVE  /\ a.outcome.archive_id \in DOMAIN file'.archives
                      /\ Content(file', a.outcome.archive_id) = a.arg.archive
                      /\ a.arg.archive.head_digest = a.arg.trusted_head
      BY DEF ImportHolds
  <2>1. /\ a.outcome.archive_id \in DOMAIN file.archives
        /\ Content(file, a.outcome.archive_id) = a.arg.archive
        /\ a.arg.archive.head_digest = a.arg.trusted_head
      BY DEF Holds, ImportHolds
  <2>2. /\ a.outcome.archive_id \in DOMAIN file'.archives
        /\ file'.archives[a.outcome.archive_id]
             = file.archives[a.outcome.archive_id]
      BY <2>1 DEF Extends
  <2> QED BY <2>1, <2>2, SameContent
<1>2. RecordHolds(a)'
  <2> SUFFICES ASSUME Ok(a, "record")
               PROVE  replay_result(file', a.arg.archive_id) # {}
      BY DEF RecordHolds
  <2>1. replay_result(file, a.arg.archive_id) # {}
      BY DEF Holds, RecordHolds
  <2>2. PICK row \in file.replay_results : row.archive_id = a.arg.archive_id
      BY <2>1 DEF replay_result
  <2>3. PICK r \in file'.replay_results : r.archive_id = a.arg.archive_id
      BY <2>2 DEF Extends
  <2>4. r.result \in replay_result(file', a.arg.archive_id)
      BY <2>3 DEF replay_result
  <2> QED BY <2>4
<1>3. OpenHolds(a)'
  <2>1. ~Newer /\ ~Newer'
      BY DEF Newer, investigation_schema_version
  <2> QED BY <2>1 DEF Holds, OpenHolds
<1> QED BY <1>1, <1>2, <1>3 DEF Holds

(* A call that committed is told what COMMIT installed.                     *)
LEMMA CommitAnswerHolds ==
    ASSUME StoreInv, NEW c \in Callers, Committed(c),
           Committing(frame[c], file')
    PROVE  Holds(AnswerIn(frame[c]))'
<1> DEFINE a == AnswerIn(frame[c])
           f == frame[c]
<1>1. /\ a'.op = f.op /\ a'.arg = f.arg /\ a'.outcome = commit_outcome(c)
      /\ f.op = frame'[c].op /\ f.pc = "commit"
    BY DEF Committed, SameCall, AnswerIn
<1>2. FrameShape(f) /\ f.op \in {"open", "import", "record"}
    BY <1>1 DEF StoreInv, Shape, FrameShape, Idle
<1>3. ~Newer'
    BY DEF Committing, Newer, investigation_schema_version
<1>4. CASE f.op = "open"
  <2>1. a'.outcome = [code |-> "ok"]
      BY <1>1, <1>4 DEF commit_outcome
  <2>2. a'.op = "open" /\ a'.outcome.code = "ok"
      BY <1>1, <1>4, <2>1
  <2> HIDE DEF a
  <2>3. /\ a'.op = "import" => FALSE
        /\ a'.op = "record" => FALSE
      BY <2>2
  <2>4. ImportHolds(a)' /\ RecordHolds(a)' /\ OpenHolds(a)'
      BY <1>3, <2>2, <2>3 DEF ImportHolds, RecordHolds, OpenHolds, Ok
  <2> QED BY <2>4 DEF Holds, a
<1>5. CASE f.op = "import"
  <2>1. a'.outcome = [code |-> "ok", archive_id |-> f.local.archive_id,
                     inserted |-> f.local.inserted]
      BY <1>1, <1>5 DEF commit_outcome
  <2>2. a'.op = "import" /\ a'.outcome.archive_id = f.local.archive_id /\ a'.arg = f.arg
      BY <1>1, <1>5, <2>1
  <2>3. f.arg.archive.head_digest = f.arg.trusted_head
    <3>1. f.arg \in ValidImports
        BY <1>1, <1>2, <1>5 DEF FrameShape, Idle
    <3>2. import_error(f.arg) = "none"
        BY <3>1 DEF ValidImports
    <3> QED BY <3>2 DEF import_error
  <2>4. /\ f.local.archive_id \in DOMAIN file'.archives
        /\ Content(file', f.local.archive_id) = f.arg.archive
      BY <1>5 DEF Committing
  <2> HIDE DEF a, f
  <2>5. ImportHolds(a)' /\ RecordHolds(a)' /\ OpenHolds(a)'
      BY <2>2, <2>3, <2>4 DEF ImportHolds, RecordHolds, OpenHolds, Ok
  <2> QED BY <2>5 DEF Holds, a
<1>6. CASE f.op = "record"
  <2>1. a'.op = "record" /\ a'.arg = f.arg
      BY <1>1, <1>6
  <2>2. PICK row \in file'.replay_results : row.archive_id = f.arg.archive_id
      BY <1>6 DEF Committing
  <2>3. row.result \in replay_result(file', f.arg.archive_id)
      BY <2>2 DEF replay_result
  <2> HIDE DEF a, f
  <2>4. ImportHolds(a)' /\ RecordHolds(a)' /\ OpenHolds(a)'
      BY <2>1, <2>3 DEF ImportHolds, RecordHolds, OpenHolds, Ok
  <2> QED BY <2>4 DEF Holds, a
<1> QED BY <1>2, <1>4, <1>5, <1>6

(* COMMIT installs a database that keeps every earlier answer true.         *)
LEMMA CommittedInv ==
    ASSUME StoreInv, UNCHANGED workload, NEW c \in Callers, Committed(c)
    PROVE  StoreInv'
<1> DEFINE k == ConnectionOf[c]
<1>1. /\ Shape /\ Counted /\ Owners /\ Alone /\ Versions /\ Transactions /\ Told
      /\ \A d \in Callers : ConnectionOf[d] \in Connections
      /\ pending \in [Connections -> BOOLEAN] /\ DOMAIN work = Connections
      /\ open \in [Connections -> BOOLEAN]
    BY Connected DEF StoreInv, Shape
<1>2. /\ SameCall(c) /\ frame[c].pc = "commit" /\ frame'[c].pc = "done"
      /\ frame[c].pc \in TransactionPcs
      /\ file' = work[k]
      /\ work' = [work EXCEPT ![k] = NoCopy]
      /\ pending' = [pending EXCEPT ![k] = FALSE]
      /\ open' = [open EXCEPT ![k] = TRUE]
      /\ UNCHANGED <<returned, faults>>
      /\ \A d \in Callers : d # c => frame'[d] = frame[d]
      /\ frame[c] # Idle
    BY DEF Committed, SameCall, OthersKept, Rollback, TransactionPcs
<1>3. /\ DOMAIN frame' = Callers
      /\ \A d \in Callers : FrameShape(frame'[d])
      /\ \A d \in Callers : frame'[d].op = frame[d].op
      /\ \A d \in Callers : frame'[d] = Idle <=> frame[d] = Idle
      /\ Counted'
    BY <1>2, CallGoesOn
<1>4. ConnectionOf' = ConnectionOf /\ k \in Connections
    BY <1>1, WorkloadKept
<1>5. Committing(frame[c], file')
  <2>1. Progressed(frame[c], work[k])
      BY <1>2, OneTransaction
  <2> QED BY <1>2, <2>1 DEF Progressed
<1>6. /\ Sound(file') /\ Extends(file, file')
      /\ file.version \in 0 .. 1 /\ file'.version = 1 /\ file'.tables = TRUE
    BY <1>5 DEF Committing
<1>7. /\ \A d \in Callers : ~InTransaction(d)'
      /\ \A j \in Connections : work'[j] = NoCopy /\ ~pending'[j]
  <2>1. \A d \in Callers : frame'[d].pc \notin TransactionPcs
    <3>1. \A d \in Callers : frame[d].pc \in TransactionPcs => d = c
        BY <1>2, OneTransaction
    <3> QED BY <1>2, <3>1 DEF TransactionPcs
  <2>2. \A j \in Connections : j # k => work[j] = NoCopy /\ ~pending[j]
      BY <1>2, OneTransaction
  <2> QED BY <1>1, <1>2, <2>1, <2>2 DEF InTransaction, TransactionPcs
<1>8. Shape'
  <2>1. /\ work' \in [Connections -> Range(work')]
        /\ pending' \in [Connections -> BOOLEAN]
        /\ open' \in [Connections -> BOOLEAN]
      BY <1>1, <1>2 DEF Range
  <2> QED BY <1>1, <1>2, <1>3, <2>1 DEF Shape
<1>9. Owners' /\ Transactions'
    BY <1>7 DEF Owners, Transactions
<1>10. Alone'
  <2>1. \A j \in Connections : open'[j] <=> j = k \/ open[j]
      BY <1>1, <1>2, <1>4
  <2>2. ASSUME NEW d \in Callers, frame[d].op = "open", d # c,
               ~open[ConnectionOf[d]]
        PROVE  ConnectionOf[d] # k
      BY <1>1, <1>2, <2>2 DEF Alone
  <2>3. ASSUME NEW d \in Callers, frame'[d].op = "open", frame'[d].pc # "done"
        PROVE  ~open'[ConnectionOf[d]]
    <3>1. d # c /\ frame'[d] = frame[d]
        BY <1>2, <2>3
    <3>2. ~open[ConnectionOf[d]]
        BY <1>1, <2>3, <3>1 DEF Alone
    <3>3. ConnectionOf[d] # k
        BY <2>2, <2>3, <3>1, <3>2
    <3> QED BY <1>1, <2>1, <3>2, <3>3
  <2>4. ASSUME NEW d \in Callers, frame'[d].op = "open", ~open'[ConnectionOf[d]],
               NEW e \in Callers, ConnectionOf[e] = ConnectionOf[d], e # d
        PROVE  frame'[e] = Idle
    <3>1. ~open[ConnectionOf[d]] /\ ConnectionOf[d] # k
        BY <1>1, <2>1, <2>4
    <3>2. frame[e] = Idle
        BY <1>1, <1>3, <2>4, <3>1 DEF Alone
    <3> QED BY <1>3, <3>2
  <2> QED BY <1>4, <2>3, <2>4 DEF Alone
<1>11. Versions'
  <2>1. file'.tables = (file'.version > 0)
    <3>1. (file'.version > 0) = TRUE
        BY <1>6
    <3> QED BY <1>6, <3>1, Zenon
  <2>2. ~Newer'
      BY <1>6 DEF Newer, investigation_schema_version
  <2>3. file'.version \in 0 .. investigation_schema_version + 1
      BY <1>6 DEF investigation_schema_version
  <2> QED BY <1>6, <2>1, <2>2, <2>3 DEF Versions
<1>12. Told'
  <2>1. \A a : Holds(a) => Holds(a)'
      BY <1>6, CommittedHolds
  <2>2. Holds(AnswerIn(frame[c]))'
      BY <1>5, CommitAnswerHolds
  <2> QED BY <1>1, <1>2, <2>1, <2>2 DEF Told
<1> QED BY <1>3, <1>6, <1>8, <1>9, <1>10, <1>11, <1>12 DEF StoreInv

(* A COMMIT that waits for readers keeps its transaction.                   *)
LEMMA WaitsInv ==
    ASSUME StoreInv, UNCHANGED workload, NEW c \in Callers, Waits(c)
    PROVE  StoreInv'
<1>1. /\ Shape /\ Counted /\ Owners /\ Alone /\ Versions /\ Transactions /\ Told
      /\ pending \in [Connections -> BOOLEAN]
    BY DEF StoreInv, Shape
<1>2. /\ frame[c].pc = "commit"
      /\ pending' = [pending EXCEPT ![ConnectionOf[c]] = TRUE]
      /\ UNCHANGED <<file, work, open, frame, returned, faults>>
    BY DEF Waits
<1>3. ConnectionOf' = ConnectionOf /\ MaxCalls' = MaxCalls
    BY WorkloadKept
<1>4. /\ Sound(file')
      /\ file'.version \in 0 .. investigation_schema_version + 1
      /\ file'.tables = (file'.version > 0)
      /\ Newer' => file' = Database(file.version)'
      /\ \A a : Holds(a) => Holds(a)'
      /\ \A f, db : Progressed(f, db) => Progressed(f, db)'
    BY <1>2, FileKept
<1>5. work[ConnectionOf[c]] # NoCopy
    BY <1>2, OneTransaction DEF TransactionPcs
<1>6. Shape'
  <2>1. pending' \in [Connections -> BOOLEAN]
      BY <1>1, <1>2
  <2> QED BY <1>1, <1>2, <2>1 DEF Shape
<1>7. Counted' /\ Alone'
    BY <1>1, <1>2, <1>3 DEF Counted, Alone
<1>8. Owners'
  <2>1. \A j \in Connections : pending'[j] => j = ConnectionOf[c] \/ pending[j]
      BY <1>1, <1>2
  <2> QED BY <1>1, <1>2, <1>3, <1>5, <2>1 DEF Owners, InTransaction
<1>9. Versions'
  <2>1. /\ \A d \in Callers : frame'[d].op \notin {"idle", "open"}
                                => file'.version = 1
        /\ \A j \in Connections : open'[j] => file'.version = 1
      BY <1>1, <1>2 DEF Versions
  <2> QED BY <1>4, <2>1 DEF Versions
<1>10. Transactions'
  <2>1. \A d \in Callers : InTransaction(d)' <=> InTransaction(d)
      BY <1>2 DEF InTransaction
  <2> QED BY <1>1, <1>2, <1>3, <1>4, <2>1 DEF Transactions
<1>11. Told'
    BY <1>1, <1>2, <1>4 DEF Told
<1> QED BY <1>4, <1>6, <1>7, <1>8, <1>9, <1>10, <1>11 DEF StoreInv

(* A call returns what was true when it ended.                              *)
LEMMA LeftInv ==
    ASSUME StoreInv, UNCHANGED workload, NEW c \in Callers, Left(c)
    PROVE  StoreInv'
<1> DEFINE added == AnswerIn(frame[c])
<1>1. /\ Shape /\ Counted /\ Owners /\ Alone /\ Versions /\ Transactions /\ Told
      /\ \A d \in Callers : MaxCalls[d] \in Nat
    BY Connected DEF StoreInv, Shape
<1>2. /\ frame[c].pc = "done" /\ frame'[c] = Idle
      /\ DOMAIN frame' = Callers
      /\ \A d \in Callers : d # c => frame'[d] = frame[d]
      /\ returned' = [returned EXCEPT ![c] = Append(@, added)]
      /\ UNCHANGED <<file, work, pending, open, faults>>
    BY DEF Left, OthersKept
<1>3. ConnectionOf' = ConnectionOf /\ MaxCalls' = MaxCalls
    BY WorkloadKept
<1>4. /\ Sound(file')
      /\ file'.version \in 0 .. investigation_schema_version + 1
      /\ file'.tables = (file'.version > 0)
      /\ Newer' => file' = Database(file.version)'
      /\ \A a : Holds(a) => Holds(a)'
      /\ \A f, db : Progressed(f, db) => Progressed(f, db)'
    BY <1>2, FileKept
<1>5. \A d \in Callers : /\ InTransaction(d)' <=> InTransaction(d)
                         /\ InTransaction(d) => frame'[d] = frame[d]
    BY <1>2 DEF InTransaction, Idle
<1>6. Holds(added)
    BY <1>1, <1>2 DEF Told
<1> HIDE DEF added
<1>7. /\ DOMAIN returned' = Callers
      /\ \A d \in Callers : d # c => returned'[d] = returned[d]
      /\ returned'[c] \in Seq(Range(returned'[c]))
      /\ Range(returned'[c]) = Range(returned[c]) \cup {added}
      /\ Len(returned'[c]) = Len(returned[c]) + 1 /\ Len(returned[c]) \in Nat
  <2>1. returned[c] \in Seq(Range(returned[c])) /\ DOMAIN returned = Callers
      BY <1>1 DEF Counted
  <2>2. returned'[c] = Append(returned[c], added)
      BY <1>2, <2>1
  <2>3. DOMAIN returned' = Callers /\ \A d \in Callers : d # c => returned'[d] = returned[d]
      BY <1>2, <2>1
  <2> QED BY <2>1, <2>2, <2>3, AppendAnswer
<1>8. Shape'
  <2>1. FrameShape(Idle)
      BY DEF FrameShape, Idle
  <2> QED BY <1>1, <1>2, <2>1 DEF Shape
<1>9. Counted'
  <2>1. Len(returned[c]) < MaxCalls[c]
    <3>1. frame[c] # Idle
        BY <1>2 DEF Idle
    <3> QED BY <1>1, <3>1 DEF Counted
  <2>2. Len(returned'[c]) <= MaxCalls[c]
      BY <1>1, <1>7, <2>1
  <2> QED BY <1>1, <1>2, <1>3, <1>7, <2>2 DEF Counted
<1>10. Owners'
    BY <1>1, <1>2, <1>3, <1>5 DEF Owners
<1>11. Alone'
    BY <1>1, <1>2, <1>3 DEF Alone, Idle
<1>12. Versions'
  <2>1. /\ \A d \in Callers : frame'[d].op \notin {"idle", "open"}
                                => file'.version = 1
        /\ \A j \in Connections : open'[j] => file'.version = 1
      BY <1>1, <1>2 DEF Versions, Idle
  <2> QED BY <1>4, <2>1 DEF Versions
<1>13. Transactions'
    BY <1>1, <1>2, <1>3, <1>4, <1>5 DEF Transactions
<1>14. Told'
  <2>1. \A d \in Callers : frame'[d].pc = "done" => Holds(AnswerIn(frame[d]))'
      BY <1>1, <1>2, <1>4 DEF Told, Idle
  <2>2. ASSUME NEW d \in Callers, NEW a \in Range(returned'[d])
        PROVE  Holds(a)'
    <3>1. a \in Range(returned[d]) \/ a = added
        BY <1>7, <2>2
    <3>2. Holds(a)
        BY <1>1, <1>6, <3>1 DEF Told
    <3> QED BY <1>4, <3>2
  <2> QED BY <2>1, <2>2 DEF Told
<1> QED BY <1>4, <1>8, <1>9, <1>10, <1>11, <1>12, <1>13, <1>14 DEF StoreInv

(* A crash ends every call of its process, and the transaction with them.   *)
LEMMA CrashInv ==
    ASSUME StoreInv, UNCHANGED workload, NEW k \in Connections, Crash(k)
    PROVE  StoreInv'
<1> DEFINE users == {c \in Callers : ConnectionOf[c] = k /\ frame[c] # Idle}
           crashed(c) == [op |-> frame[c].op, arg |-> frame[c].arg,
                          outcome |-> [code |-> "crashed"]]
<1>1. /\ Shape /\ Counted /\ Owners /\ Alone /\ Versions /\ Transactions /\ Told
      /\ \A d \in Callers : MaxCalls[d] \in Nat
      /\ \A d \in Callers : ConnectionOf[d] \in Connections
      /\ pending \in [Connections -> BOOLEAN] /\ DOMAIN work = Connections
      /\ open \in [Connections -> BOOLEAN]
      /\ faults \in 0 .. MaxFaults
    BY Connected DEF StoreInv, Shape
<1>2. /\ faults < MaxFaults /\ faults' = faults + 1
      /\ work' = [work EXCEPT ![k] = NoCopy]
      /\ pending' = [pending EXCEPT ![k] = FALSE]
      /\ open' = [open EXCEPT ![k] = FALSE]
      /\ returned' = [c \in Callers |-> IF c \notin users THEN returned[c]
                                        ELSE Append(returned[c], crashed(c))]
      /\ frame' = [c \in Callers |-> IF c \in users THEN Idle ELSE frame[c]]
      /\ UNCHANGED file
    BY DEF Crash, Rollback
<1>3. ConnectionOf' = ConnectionOf /\ MaxCalls' = MaxCalls
    BY WorkloadKept
<1>4. /\ Sound(file')
      /\ file'.version \in 0 .. investigation_schema_version + 1
      /\ file'.tables = (file'.version > 0)
      /\ Newer' => file' = Database(file.version)'
      /\ \A a : Holds(a) => Holds(a)'
      /\ \A f, db : Progressed(f, db) => Progressed(f, db)'
    BY <1>2, FileKept
<1>5. /\ DOMAIN frame' = Callers
      /\ \A c \in Callers : \/ ConnectionOf[c] = k /\ frame'[c] = Idle
                            \/ ConnectionOf[c] # k /\ frame'[c] = frame[c]
    BY <1>2
<1>6. /\ \A j \in Connections : j # k => /\ work'[j] = work[j]
                                         /\ pending'[j] = pending[j]
                                         /\ open'[j] = open[j]
      /\ work'[k] = NoCopy /\ ~pending'[k] /\ ~open'[k]
    BY <1>1, <1>2
<1>7. \A d \in Callers : InTransaction(d)' <=> ConnectionOf[d] # k /\ InTransaction(d)
    BY <1>5 DEF InTransaction, Idle
<1>8. Shape'
  <2>1. FrameShape(Idle)
      BY DEF FrameShape, Idle
  <2>2. \A c \in Callers : FrameShape(frame'[c])
      BY <1>1, <1>5, <2>1 DEF Shape
  <2>3. /\ work' \in [Connections -> Range(work')]
        /\ pending' \in [Connections -> BOOLEAN]
        /\ open' \in [Connections -> BOOLEAN]
      BY <1>1, <1>2 DEF Range
  <2>4. faults' \in 0 .. MaxFaults
      BY <1>1, <1>2, StoreAssumption
  <2> QED BY <1>1, <1>5, <2>2, <2>3, <2>4 DEF Shape
<1>9. /\ DOMAIN returned' = Callers
      /\ \A c \in Callers :
            /\ returned'[c] \in Seq(Range(returned'[c]))
            /\ Len(returned'[c]) <= MaxCalls[c]
            /\ frame'[c] # Idle => Len(returned'[c]) < MaxCalls[c]
            /\ \A a \in Range(returned'[c]) : a \in Range(returned[c]) \/ Holds(a)
  <2>1. DOMAIN returned' = Callers
      BY <1>2
  <2>2. ASSUME NEW c \in Callers, c \notin users
        PROVE  /\ returned'[c] = returned[c] /\ frame'[c] = frame[c]
      BY <1>2, <2>2
  <2>3. ASSUME NEW c \in Callers, c \in users
        PROVE  /\ returned'[c] \in Seq(Range(returned'[c]))
               /\ Len(returned'[c]) <= MaxCalls[c]
               /\ frame'[c] = Idle
               /\ \A a \in Range(returned'[c]) : a \in Range(returned[c]) \/ Holds(a)
    <3>1. returned'[c] = Append(returned[c], crashed(c)) /\ frame'[c] = Idle
        BY <1>2, <2>3
    <3>2. returned[c] \in Seq(Range(returned[c])) /\ Len(returned[c]) < MaxCalls[c]
        BY <1>1, <2>3 DEF Counted
    <3>3. Holds(crashed(c))
        BY DEF Holds, ImportHolds, RecordHolds, OpenHolds, Ok
    <3> HIDE DEF crashed
    <3>4. /\ returned'[c] \in Seq(Range(returned'[c]))
          /\ Range(returned'[c]) = Range(returned[c]) \cup {crashed(c)}
          /\ Len(returned'[c]) = Len(returned[c]) + 1 /\ Len(returned[c]) \in Nat
        BY <3>1, <3>2, AppendAnswer
    <3>5. Len(returned'[c]) <= MaxCalls[c]
        BY <1>1, <3>2, <3>4
    <3>6. \A a \in Range(returned'[c]) : a \in Range(returned[c]) \/ Holds(a)
        BY <3>3, <3>4
    <3> QED BY <3>1, <3>4, <3>5, <3>6
  <2> HIDE DEF users
  <2> QED BY <1>1, <2>1, <2>2, <2>3 DEF Counted
<1>10. Counted'
    BY <1>3, <1>9 DEF Counted
<1>11. Owners'
    BY <1>1, <1>3, <1>6, <1>7 DEF Owners
<1>12. Alone'
  <2>1. ASSUME NEW d \in Callers, frame'[d].op = "open"
        PROVE  /\ frame'[d] = frame[d] /\ ConnectionOf[d] # k
               /\ open'[ConnectionOf[d]] = open[ConnectionOf[d]]
      BY <1>1, <1>5, <1>6, <2>1 DEF Idle
  <2> QED BY <1>1, <1>3, <1>5, <2>1 DEF Alone
<1>13. Versions'
  <2>1. /\ \A d \in Callers : frame'[d].op \notin {"idle", "open"}
                                => file'.version = 1
        /\ \A j \in Connections : open'[j] => file'.version = 1
      BY <1>1, <1>2, <1>5, <1>6 DEF Versions, Idle
  <2> QED BY <1>4, <2>1 DEF Versions
<1>14. Transactions'
  <2>1. ASSUME NEW d \in Callers, InTransaction(d)'
        PROVE  /\ InTransaction(d) /\ frame'[d] = frame[d]
               /\ work'[ConnectionOf[d]] = work[ConnectionOf[d]]
      BY <1>1, <1>5, <1>6, <1>7, <2>1
  <2> QED BY <1>1, <1>3, <1>4, <2>1 DEF Transactions
<1>15. Told'
  <2>1. \A d \in Callers : frame'[d].pc = "done" => Holds(AnswerIn(frame[d]))'
      BY <1>1, <1>4, <1>5 DEF Told, Idle
  <2>2. ASSUME NEW d \in Callers, NEW a \in Range(returned'[d])
        PROVE  Holds(a)'
      BY <1>1, <1>4, <1>9, <2>2 DEF Told
  <2> QED BY <2>1, <2>2 DEF Told
<1> QED BY <1>4, <1>8, <1>10, <1>11, <1>12, <1>13, <1>14, <1>15 DEF StoreInv

-----------------------------------------------------------------------------
(* Theorems.                                                                *)

(* A new, a current or a newer file satisfies the invariant.                *)
LEMMA InitInv ==
    ASSUME Init
    PROVE  StoreInv
<1>1. workload \in DOMAIN Workloads
    BY DEF Init
<1>2. PICK v \in Load.versions : /\ file = Database(v)
                                 /\ open = [k \in Connections |-> v = 1]
    BY DEF Init
<1>3. v \in 0 .. 2
    BY <1>1, StoreAssumption DEF Load, investigation_schema_version
<1>4. /\ work = [k \in Connections |-> NoCopy]
      /\ pending = [k \in Connections |-> FALSE]
      /\ frame = [c \in Callers |-> Idle]
      /\ returned = [c \in Callers |-> <<>>]
      /\ faults = 0
    BY DEF Init
<1>5. Sound(file) /\ file.version = v /\ file.tables = (v > 0)
    BY <1>1, <1>2, <1>3, FirstFile
<1>6. \A c \in Callers : ConnectionOf[c] \in Connections /\ MaxCalls[c] \in Nat
    BY <1>1, Connected
<1>7. Shape
  <2>1. FrameShape(Idle)
      BY DEF FrameShape, Idle
  <2>2. work \in [Connections -> Range(work)]
      BY <1>4 DEF Range
  <2>3. open \in [Connections -> BOOLEAN]
      BY <1>2
  <2> QED BY <1>1, <1>4, <2>1, <2>2, <2>3, StoreAssumption DEF Shape
<1>8. Counted
  <2>1. \A c \in Callers : returned[c] = <<>> /\ frame[c] = Idle
      BY <1>4
  <2>2. <<>> \in Seq(Range(<<>>)) /\ Len(<<>>) = 0
      OBVIOUS
  <2>3. DOMAIN returned = Callers
      BY <1>4
  <2>4. ASSUME NEW c \in Callers
        PROVE  returned[c] \in Seq(Range(returned[c])) /\ Len(returned[c]) = 0
      BY <2>1, <2>2
  <2>5. \A c \in Callers : 0 <= MaxCalls[c]
      BY <1>6
  <2> QED BY <2>1, <2>3, <2>4, <2>5 DEF Counted
<1>9. Owners /\ Transactions
    BY <1>4 DEF Owners, Transactions, InTransaction, Idle
<1>10. Alone
    BY <1>4 DEF Alone, Idle
<1>11. Versions
  <2>1. \A k \in Connections : open[k] => file.version = 1
      BY <1>2, <1>5
  <2>2. \A c \in Callers : frame[c].op = "idle"
      BY <1>4 DEF Idle
  <2>3. file.tables = (file.version > 0) /\ file = Database(file.version)
      BY <1>2, <1>5
  <2> QED BY <1>3, <1>5, <2>1, <2>2, <2>3
          DEF Versions, investigation_schema_version
<1>12. Told
  <2>1. \A c \in Callers : frame[c].pc = "idle"
      BY <1>4 DEF Idle
  <2>2. \A c \in Callers : Range(returned[c]) = {}
      BY <1>4 DEF Range
  <2> QED BY <2>1, <2>2 DEF Told
<1> QED BY <1>5, <1>7, <1>8, <1>9, <1>10, <1>11, <1>12 DEF StoreInv

(* So does whatever follows.                                                *)
LEMMA StepInv ==
    ASSUME StoreInv, [Next]_vars
    PROVE  StoreInv'
<1>1. CASE Next
  <2>1. /\ \/ \E c \in Callers : CallerStep(c)
           \/ \E k \in Connections : Crash(k)
        /\ UNCHANGED workload
      BY <1>1, NextIsAStep
  <2>2. ASSUME NEW c \in Callers, CallerStep(c)
        PROVE  StoreInv'
    <3>1. CASE Invoked(c)
        BY <2>1, <3>1, InvokedInv
    <3>2. CASE Local(c)
        BY <2>1, <3>2, LocalInv
    <3>3. CASE RolledBack(c)
        BY <2>1, <3>3, RolledBackInv
    <3>4. CASE Wrote(c)
        BY <2>1, <3>4, WroteInv
    <3>5. CASE Committed(c)
        BY <2>1, <3>5, CommittedInv
    <3>6. CASE Waits(c)
        BY <2>1, <3>6, WaitsInv
    <3>7. CASE Left(c)
        BY <2>1, <3>7, LeftInv
    <3> QED BY <2>2, <3>1, <3>2, <3>3, <3>4, <3>5, <3>6, <3>7 DEF CallerStep
  <2>3. ASSUME NEW k \in Connections, Crash(k)
        PROVE  StoreInv'
      BY <2>1, <2>3, CrashInv
  <2> QED BY <2>1, <2>2, <2>3
<1>2. CASE UNCHANGED vars
  <2>1. UNCHANGED <<workload, file, work, pending, open, frame, returned, faults>>
      BY <1>2 DEF vars
  <2>2. ConnectionOf' = ConnectionOf /\ MaxCalls' = MaxCalls
      BY <2>1, WorkloadKept
  <2>3. /\ Sound(file')
        /\ file'.version \in 0 .. investigation_schema_version + 1
        /\ file'.tables = (file'.version > 0)
        /\ Newer' => file' = Database(file.version)'
        /\ \A a : Holds(a) => Holds(a)'
        /\ \A f, db : Progressed(f, db) => Progressed(f, db)'
      BY <2>1, FileKept
  <2>4. /\ Shape /\ Counted /\ Owners /\ Alone /\ Versions /\ Transactions /\ Told
      BY DEF StoreInv
  <2>5. \A d \in Callers : InTransaction(d)' <=> InTransaction(d)
      BY <2>1 DEF InTransaction
  <2>6. Shape' /\ Counted' /\ Alone'
      BY <2>1, <2>2, <2>4 DEF Shape, Counted, Alone
  <2>7. Owners' /\ Transactions'
      BY <2>1, <2>2, <2>3, <2>4, <2>5 DEF Owners, Transactions
  <2>8. Versions'
    <3>1. /\ \A d \in Callers : frame'[d].op \notin {"idle", "open"}
                                  => file'.version = 1
          /\ \A j \in Connections : open'[j] => file'.version = 1
        BY <2>1, <2>4 DEF Versions
    <3> QED BY <2>3, <3>1 DEF Versions
  <2>9. Told'
      BY <2>1, <2>3, <2>4 DEF Told
  <2> QED BY <2>3, <2>6, <2>7, <2>8, <2>9 DEF StoreInv
<1> QED BY <1>1, <1>2

(* StoreInv holds of the committed file, the one transaction in progress    *)
(* and every call, whatever fails, times out or crashes: what a transaction *)
(* has written at each of its statements, up to the COMMIT in               *)
(* investigation_store.cpp, is a database a COMMIT may install or the start *)
(* of one.                                                                  *)
THEOREM StoreInvariant == Spec => []StoreInv
<1>1. Init => StoreInv
    BY InitInv
<1>2. StoreInv /\ [Next]_vars => StoreInv'
    BY StepInv
<1> QED BY <1>1, <1>2, PTL DEF Spec

(* No transaction and no lock outlives its call.                            *)
LEMMA OwnersCounted ==
    ASSUME StoreInv
    PROVE  NothingLeftBehind
<1> SUFFICES ASSUME NEW k \in Connections
             PROVE  LET owners == {c \in Callers : ConnectionOf[c] = k
                                                     /\ InTransaction(c)}
                    IN  /\ Cardinality(owners) = IF work[k] = NoCopy THEN 0 ELSE 1
                        /\ pending[k] => work[k] # NoCopy
                        /\ \A c \in Callers : frame[c].reading =>
                              frame[c].pc \notin {"idle", "done"}
    BY DEF NothingLeftBehind
<1> DEFINE owners == {c \in Callers : ConnectionOf[c] = k /\ InTransaction(c)}
<1>1. Owners /\ \A c \in Callers : FrameShape(frame[c])
    BY DEF StoreInv, Shape
<1>2. CASE work[k] = NoCopy
  <2>1. owners = {}
      BY <1>1, <1>2 DEF Owners
  <2>2. Cardinality(owners) = 0
      BY <2>1, FS_EmptySet
  <2> QED BY <1>1, <1>2, <2>2 DEF Owners, FrameShape
<1>3. CASE work[k] # NoCopy
  <2>1. PICK c \in Callers : ConnectionOf[c] = k /\ InTransaction(c)
      BY <1>1, <1>3 DEF Owners
  <2>2. owners = {c}
      BY <1>1, <2>1 DEF Owners
  <2>3. Cardinality(owners) = 1
      BY <2>2, FS_Singleton
  <2> QED BY <1>1, <1>3, <2>3 DEF Owners, FrameShape
<1> QED BY <1>2, <1>3

(* However many threads and processes use a database file, and whatever     *)
(* statement of InvestigationStore fails, times out or is cut off by a      *)
(* crash, the file holds whole archives and results of archives it has, and *)
(* no call leaves a transaction or a lock behind.                           *)
THEOREM StoreIsSound == Spec => []StoreSound
<1>1. ASSUME StoreInv PROVE StoreSound
  <2>1. TypeOK
    <3>1. /\ Shape /\ Counted /\ Versions /\ Owners /\ Sound(file) /\ Transactions
        BY <1>1 DEF StoreInv
    <3>2. ASSUME NEW k \in Connections, work[k] # NoCopy
          PROVE  DOMAIN work[k] = DOMAIN EmptyDatabase
      <4>1. PICK c \in Callers : ConnectionOf[c] = k /\ InTransaction(c)
          BY <3>1, <3>2 DEF Owners
      <4> QED BY <3>1, <4>1 DEF Transactions, Progressed, DatabaseShape
    <3>3. ASSUME NEW c \in Callers
          PROVE  /\ frame[c].op \in {"idle", "open", "import", "record", "export"}
                 /\ frame[c].reading \in BOOLEAN
                 /\ Len(returned[c]) <= MaxCalls[c]
        BY <3>1 DEF Shape, FrameShape, Idle, Counted
    <3>4. DOMAIN file = DOMAIN EmptyDatabase
        BY <3>1 DEF Sound, DatabaseShape
    <3> QED BY <3>1, <3>2, <3>3, <3>4 DEF TypeOK, Shape, Versions
  <2>2. ImportsWhole /\ ReplayedArchiveExists
      BY <1>1 DEF StoreInv, Sound, ImportsWhole, ReplayedArchiveExists
  <2>3. NothingLeftBehind
      BY <1>1, OwnersCounted
  <2> QED BY <2>1, <2>2, <2>3 DEF StoreSound
<1> QED BY <1>1, StoreInvariant, PTL

(* What import_archive, record_replay_result and the constructor answered   *)
(* is true of every later file, and a file of a newer schema is refused and *)
(* never written.                                                           *)
THEOREM AnswersStayTrue == Spec => []AnswersHold
<1>1. ASSUME StoreInv PROVE AnswersHold
  <2>1. \A c \in Callers : \A a \in Range(returned[c]) : Holds(a)
      BY <1>1 DEF StoreInv, Told
  <2>2. ASSUME NEW a \in Answers PROVE Holds(a)
    <3>1. PICK c \in Callers : a \in Range(returned[c])
        BY <2>2 DEF Answers
    <3> QED BY <2>1, <3>1
  <2>3. Newer => file = Database(file.version)
      BY <1>1 DEF StoreInv, Versions
  <2> QED BY <2>2, <2>3 DEF AnswersHold, Holds
<1> QED BY <1>1, StoreInvariant, PTL

=============================================================================
