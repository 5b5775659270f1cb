----------------------------- MODULE RunArtifacts -----------------------------
(***************************************************************************)
(* The record a verification run leaves on disk: the log files of its       *)
(* stages (internal/runlog), result.json and the artifact manifest          *)
(* (internal/cli/artifacts.go, internal/artifactmanifest), and the          *)
(* verification of that record (internal/artifactverify).                   *)
(*                                                                          *)
(* The runner is Runner.tla's, reduced to the events it emits.  Any call on *)
(* a file may fail.  The process may be killed between two calls, and the   *)
(* machine may lose what was not synchronized.  A digest is the content: no *)
(* two contents have the same SHA-256.                                      *)
(***************************************************************************)
EXTENDS Integers, Sequences, SequencesExt

CONSTANTS
    StageCount,  \* stages of the plan
    MaxChunks,  \* bound: output events of the run
    MaxDisturbances  \* bound: files edited or damaged after the run

ASSUME ArtifactsAssumption ==
    StageCount \in Nat \ {0} /\ MaxChunks \in Nat /\ MaxDisturbances \in Nat

PlannedStages == 1 .. StageCount
Streams == {"stdout", "stderr"}

StageLogs(s) == <<<<"stdout", s>>, <<"stderr", s>>, <<"combined", s>>>>
LogFiles == {"stdout", "stderr", "combined"} \X PlannedStages
ResultFile == <<"result", 0>>
ManifestFile == <<"manifest", 0>>
Files == LogFiles \cup {ResultFile, ManifestFile}

VARIABLES
    run,            \* Runner.Run: its pc, its stage and its result
    outputs,        \* history: the output events of the run
    files,          \* the run directory
    logWriteError,  \* of newExecutionFunction
    open,           \* store.stages
    persist,        \* persistRunArtifacts: its pc and its joined errors
    exit,           \* exit code of the process, "none" while it runs
    disturbed       \* history: how often a file was edited or lost data

artifactsVars == <<run, outputs, files, logWriteError, open, persist, exit, disturbed>>

Absent == [exists |-> FALSE, data |-> <<>>, edited |-> FALSE, synced |-> FALSE]
Empty == [Absent EXCEPT !.exists = TRUE]

Digest(file) == <<file.data, file.edited>>

ArtifactsInit ==
    /\ run = [pc |-> "between", stage |-> 1, stages |-> <<>>, status |-> "passed"]
    /\ outputs = <<>>
    /\ files = [f \in Files |-> Absent]
    /\ logWriteError = FALSE
    /\ open = {}
    /\ persist = [pc |-> "runner", error |-> FALSE]
    /\ exit = "none"
    /\ disturbed = 0

Alive == exit = "none"

-----------------------------------------------------------------------------
(* Store: the outcome of a call is the directory, the open stages and       *)
(* whether there was an error.                                              *)

Outcome(fs, stages, failed) == [files |-> fs, open |-> stages, failed |-> failed]

(* createFile is exclusive; the first n of the three files are created.     *)
ensureStage(s) ==
    IF s \in open THEN {Outcome(files, open, FALSE)}
    ELSE {Outcome([files EXCEPT ![StageLogs(s)[1]] = IF n >= 1 THEN Empty ELSE @,
                                ![StageLogs(s)[2]] = IF n >= 2 THEN Empty ELSE @,
                                ![StageLogs(s)[3]] = IF n = 3 THEN Empty ELSE @],
                  IF n = 3 THEN open \cup {s} ELSE open, n # 3) :
             n \in {k \in 0 .. 3 :
                       \A i \in 1 .. k : ~files[StageLogs(s)[i]].exists}}

(* writeAll: everything, or a part and an error.                            *)
writeAll(o, f, chunk) ==
    LET written(x) == [o.files EXCEPT ![f].data = Append(@, x)]
    IN  {[o EXCEPT !.files = written(chunk)],
         [o EXCEPT !.files = written(-chunk), !.failed = TRUE],
         [o EXCEPT !.failed = TRUE]}

writeOutput(o, s, stream, chunk) ==
    IF o.failed THEN {o}
    ELSE UNION {IF w.failed THEN {w} ELSE writeAll(w, <<"combined", s>>, chunk) :
                   w \in writeAll(o, <<stream, s>>, chunk)}

Nothing == {Outcome(files, open, FALSE)}

(* Mutant: a later event overwrites the error.                              *)
observe_each_event == TRUE
may_observe == ~logWriteError

(* The observer of newExecutionFunction: the store sees an event unless it  *)
(* has failed before.                                                       *)
Observe(outcomes) ==
    IF may_observe
    THEN \E o \in outcomes : /\ files' = o.files
                             /\ open' = o.open
                             /\ logWriteError' = o.failed
    ELSE UNCHANGED <<files, open, logWriteError>>

-----------------------------------------------------------------------------
(* The runner.                                                              *)

Running(pc) == Alive /\ persist.pc = "runner" /\ run.pc = pc

unpersisted == <<persist, exit, disturbed>>

StageStarted ==
    /\ Running("between")
    /\ Observe(ensureStage(run.stage))
    /\ run' = [run EXCEPT !.pc = "stage"]
    /\ UNCHANGED <<outputs, unpersisted>>

StageOutputs(stream) ==
    LET chunk == Len(outputs) + 1
    IN  /\ Running("stage") /\ Len(outputs) < MaxChunks
        /\ Observe(UNION {writeOutput(o, run.stage, stream, chunk) :
                             o \in ensureStage(run.stage)})
        /\ outputs' = Append(outputs, [stage |-> run.stage, stream |-> stream])
        /\ UNCHANGED <<run, unpersisted>>

StageResult(status, started) == [status |-> status, started |-> started]

appendSkipped(stages) ==
    stages \o [i \in 1 .. StageCount - Len(stages) |-> StageResult("skipped", FALSE)]

more_stages == run.stage < StageCount

Finishes(status, started) ==
    LET stages == Append(run.stages, StageResult(status, started))
    IN  /\ Observe(Nothing)
        /\ IF status = "passed" /\ more_stages
           THEN run' = [run EXCEPT !.pc = "between", !.stage = @ + 1,
                                   !.stages = stages]
           ELSE run' = [run EXCEPT !.pc = "finished", !.status = status,
                                   !.stages = appendSkipped(stages)]
        /\ UNCHANGED <<outputs, unpersisted>>

StageFinished ==
    /\ Running("stage")
    /\ \E status \in {"passed", "failed", "cancelled", "internal-error"} :
          Finishes(status, TRUE)

(* The context is done before the next stage.                               *)
StageCancelled == Running("between") /\ Finishes("cancelled", FALSE)

-----------------------------------------------------------------------------
(* persistRunArtifacts.                                                     *)

Persisting(pc) == Alive /\ run.pc = "finished" /\ persist.pc = pc

Goes(pc, failed) == persist' = [pc |-> pc, error |-> persist.error \/ failed]

Report == [stages |-> run.stages, status |-> run.status]

(* The files of the stages whose StartedAt is set.                          *)
targets ==
    {ResultFile} \cup {f \in LogFiles : /\ f[2] <= Len(run.stages)
                                        /\ run.stages[f[2]].started}

RunnerReturns ==
    /\ Persisting("runner")
    /\ Goes("create_result", logWriteError)
    /\ UNCHANGED <<run, outputs, files, logWriteError, open, exit, disturbed>>

afterwards == <<run, outputs, logWriteError, open, exit, disturbed>>

(* WriteArtifact: an exclusive create, then write, Sync and Close; a file   *)
(* that is not complete is removed.                                         *)
CreateArtifact(f, from, to) ==
    /\ Persisting(from)
    /\ \/ /\ ~files[f].exists
          /\ files' = [files EXCEPT ![f] = Empty]
          /\ Goes(to, FALSE)
       \/ /\ Goes("close", TRUE)
          /\ UNCHANGED files
    /\ UNCHANGED afterwards

CompleteArtifact(f, content, from, to) ==
    /\ Persisting(from)
    /\ \/ /\ files' = [files EXCEPT ![f].data = <<content>>, ![f].synced = TRUE]
          /\ Goes(to, FALSE)
       \/ /\ files' = [files EXCEPT ![f] = Absent]
          /\ Goes("close", TRUE)
    /\ UNCHANGED afterwards

CreateResult == CreateArtifact(ResultFile, "create_result", "write_result")
WriteResult == CompleteArtifact(ResultFile, Report, "write_result", "build")

may_build == ~logWriteError

(* artifactmanifest.Build: every target must exist and be readable.         *)
Build ==
    /\ Persisting("build")
    /\ \/ ~may_build /\ Goes("close", FALSE)
       \/ may_build /\ (\A f \in targets : files[f].exists) /\ Goes("create_manifest", FALSE)
       \/ may_build /\ Goes("close", TRUE)
    /\ UNCHANGED <<files, afterwards>>

Manifest == [f \in targets |-> Digest(files[f])]

CreateManifest == CreateArtifact(ManifestFile, "create_manifest", "write_manifest")

(* Mutant: the error of writing the manifest is not joined.                 *)
write_manifest_quietly ==
    /\ Persisting("write_manifest")
    /\ \/ files' = [files EXCEPT ![ManifestFile].data = <<Manifest>>]
       \/ files' = [files EXCEPT ![ManifestFile] = Absent]
    /\ Goes("close", FALSE)
    /\ UNCHANGED afterwards

WriteManifest == CompleteArtifact(ManifestFile, Manifest, "write_manifest", "close")

(* Store.Close, and the exit code of check.                                 *)
ExitCode(status) ==
    CASE status = "passed" -> "success" [] status = "failed" -> "check_failed"
      [] status = "cancelled" -> "interrupted" [] OTHER -> "internal_error"

CloseAndExit ==
    /\ Persisting("close")
    /\ \E failed \in BOOLEAN :
          /\ Goes("closed", failed)
          /\ exit' = IF persist'.error THEN "internal_error" ELSE ExitCode(run.status)
    /\ UNCHANGED <<run, outputs, files, logWriteError, open, disturbed>>

-----------------------------------------------------------------------------
(* The process is killed; the machine stops and data that was not           *)
(* synchronized is gone; somebody changes a file other than the manifest.   *)

Killed ==
    /\ Alive
    /\ exit' = "killed"
    /\ UNCHANGED <<run, outputs, files, logWriteError, open, persist, disturbed>>

Disturb(f, file) ==
    /\ ~Alive /\ disturbed < MaxDisturbances
    /\ files' = [files EXCEPT ![f] = file]
    /\ disturbed' = disturbed + 1
    /\ UNCHANGED <<run, outputs, logWriteError, open, persist, exit>>

LoseData(f) ==
    /\ files[f].data # <<>> /\ ~files[f].synced
    /\ Disturb(f, [files[f] EXCEPT !.data = Front(@)])

LoseFile(f) == files[f].exists /\ Disturb(f, Absent)

Edit(f) ==
    /\ f # ManifestFile /\ files[f].exists
    /\ Disturb(f, [files[f] EXCEPT !.edited = TRUE])

ArtifactsNext ==
    \/ StageStarted \/ StageFinished \/ StageCancelled
    \/ \E stream \in Streams : StageOutputs(stream)
    \/ RunnerReturns \/ CreateResult \/ WriteResult \/ Build
    \/ CreateManifest \/ WriteManifest \/ CloseAndExit
    \/ Killed
    \/ \E f \in Files : LoseData(f) \/ LoseFile(f) \/ Edit(f)

(* The record on its own: what DeveloperConsole does in a plain run.        *)
ArtifactsSpec == ArtifactsInit /\ [][ArtifactsNext]_artifactsVars

-----------------------------------------------------------------------------
(* VerifyFile: the manifest parses, and every artifact it lists is there    *)
(* with its size and digest.                                                *)
VerifyFile ==
    /\ files[ManifestFile].exists /\ files[ManifestFile].data # <<>>
    /\ LET manifest == files[ManifestFile].data[1]
       IN  \A f \in DOMAIN manifest : files[f].exists /\ Digest(files[f]) = manifest[f]

(* The output events of the run that belong in a log file, and a log that   *)
(* holds all of them in the order they were made, and nothing else.         *)
Logged(f) ==
    {i \in DOMAIN outputs :
        outputs[i].stage = f[2] /\ f[1] \in {outputs[i].stream, "combined"}}

HoldsOutput(data, f) ==
    /\ Range(data) = Logged(f)
    /\ \A i, j \in DOMAIN data : i < j => data[i] < data[j]

(* A record that passes verification is the run's: result.json is its       *)
(* result and the logs of every stage that was started hold its output,     *)
(* complete and in order.  No failed write, kill, loss of data or edit in   *)
(* between leaves a record that verifies and says something else.           *)
VerifiedIsTheRun ==
    VerifyFile =>
        /\ run.pc = "finished"
        /\ files[ResultFile].data = <<Report>>
        /\ \A f \in LogFiles : run.stages[f[2]].started =>
              files[f].exists /\ HoldsOutput(files[f].data, f)

(* A run that ends with the exit code of its checks, not of an internal     *)
(* error, leaves a record that verifies, until somebody disturbs it.        *)
ReportedRunVerifies ==
    exit \in {"success", "check_failed", "interrupted"} /\ disturbed = 0 => VerifyFile
=============================================================================
