------------------------ MODULE InvestigationLedger ------------------------
(***************************************************************************)
(* What InvestigationStore and the bundle exporter promise to callers that  *)
(* each use a store of their own: every call takes effect at one moment     *)
(* between its invocation and its return.  The ledger is the sequence of    *)
(* archives imported, whose positions are their identifiers, and the last   *)
(* replay result recorded for each.  A call that fails has no effect.       *)
(***************************************************************************)
EXTENDS Integers, Sequences, SequencesExt

CONSTANTS
    Callers,
    None,            \* no answer yet
    Preloads,        \* initial ledgers
    Arguments,       \* op |-> arguments it is called with
    Failures,        \* outcomes of a call that was not carried out
    OpenOutcomes,    \* outcomes of the constructor
    Unopened,        \* the argument the constructor is listed with
    Imported(_),     \* the archive a valid import argument carries
    Bundle(_, _)     \* what is exported for an archive and a replay result

VARIABLES
    archives,        \* sequence of archives
    verdicts,        \* archive_id |-> last replay result recorded
    answer,          \* the answer of a call that took effect
    returned         \* the answers each caller got, in order

ledgerVars == <<archives, verdicts, answer, returned>>

LedgerInit ==
    /\ archives \in Preloads
    /\ verdicts = <<>>
    /\ answer = [c \in Callers |-> None]
    /\ returned = [c \in Callers |-> <<>>]

Answer(c, op, arg, outcome) ==
    /\ answer[c] = None
    /\ answer' = [answer EXCEPT ![c] =
                    [op |-> op, arg |-> arg, outcome |-> outcome]]
    /\ UNCHANGED returned

(* Importing an archive that is there already finds its identifier.         *)
Import(c, arg) ==
    LET a == Imported(arg)
        known == Contains(archives, a)
    IN  /\ archives' = IF known THEN archives ELSE Append(archives, a)
        /\ Answer(c, "import", arg,
                  [code |-> "ok", inserted |-> ~known,
                   archive_id |-> IF known
                                  THEN CHOOSE i \in DOMAIN archives :
                                           archives[i] = a
                                  ELSE Len(archives) + 1])
        /\ UNCHANGED verdicts

Record(c, arg) ==
    LET found == arg.archive_id \in DOMAIN archives
    IN  /\ verdicts' =
             IF ~found THEN verdicts
             ELSE [i \in DOMAIN verdicts \cup {arg.archive_id} |->
                      IF i = arg.archive_id THEN arg.result ELSE verdicts[i]]
        /\ Answer(c, "record", arg,
                  [code |-> IF found THEN "ok" ELSE "archive_not_found"])
        /\ UNCHANGED archives

Export(c, arg) ==
    /\ Answer(c, "export", arg,
              IF arg.archive_id \notin DOMAIN archives
              THEN [code |-> "archive_not_found"]
              ELSE IF arg.archive_id \notin DOMAIN verdicts
              THEN [code |-> "replay_result_missing"]
              ELSE [code |-> "ok",
                    bundle |-> Bundle(archives[arg.archive_id],
                                      verdicts[arg.archive_id])])
    /\ UNCHANGED <<archives, verdicts>>

(* An export may still fail after it has seen what it will report.          *)
Withdraw(c) ==
    /\ answer[c] # None
    /\ answer[c].op = "export"
    /\ answer' = [answer EXCEPT ![c] = None]
    /\ UNCHANGED <<archives, verdicts, returned>>

Return(c) ==
    /\ answer[c] # None
    /\ returned' = [returned EXCEPT ![c] = Append(@, answer[c])]
    /\ answer' = [answer EXCEPT ![c] = None]
    /\ UNCHANGED <<archives, verdicts>>

(* A call with no effect on the ledger: one that failed, or a constructor.  *)
NoEffectCall(c, op, arg, outcome) ==
    /\ answer[c] = None
    /\ returned' = [returned EXCEPT ![c] =
                      Append(@, [op |-> op, arg |-> arg, outcome |-> outcome])]
    /\ UNCHANGED <<archives, verdicts, answer>>

(* A process that dies takes the answer with it, not the effect.            *)
Die(c, op, arg) ==
    /\ returned' = [returned EXCEPT ![c] =
                      Append(@, [op |-> op, arg |-> arg,
                                 outcome |-> [code |-> "crashed"]])]
    /\ answer' = [answer EXCEPT ![c] = None]
    /\ UNCHANGED <<archives, verdicts>>

Answered(c) ==
    /\ answer[c] = None /\ answer'[c] # None
    /\ \/ \E arg \in Arguments["import"] : Import(c, arg)
       \/ \E arg \in Arguments["record"] : Record(c, arg)
       \/ \E arg \in Arguments["export"] : Export(c, arg)

Returned(c) ==
    /\ returned'[c] # returned[c]
    /\ \/ Return(c)
       \/ \E outcome \in OpenOutcomes : NoEffectCall(c, "open", Unopened, outcome)
       \/ \E op \in DOMAIN Arguments : \E arg \in Arguments[op] :
             \/ \E outcome \in Failures : NoEffectCall(c, op, arg, outcome)
             \/ Die(c, op, arg)

LedgerNext == \E c \in Callers : Answered(c) \/ Withdraw(c) \/ Returned(c)

LedgerSpec == LedgerInit /\ [][LedgerNext]_ledgerVars
=============================================================================
