------------------------------- MODULE Runner -------------------------------
(***************************************************************************)
(* The stage runner of the developer console (internal/runner): the         *)
(* goroutine that executes a plan stage by stage, the two goroutines that   *)
(* capture a stage's streams, the goroutine that reaps the process, the     *)
(* caller's context, and the process group of the stage (external).         *)
(*                                                                          *)
(* A stage's output is a count of writes per stream; a chunk of output is   *)
(* the interval of writes it carries.  A goroutine that only waits for one  *)
(* event and then makes another visible is a state predicate (ReadersDone). *)
(* A signal takes effect when it is sent.                                   *)
(***************************************************************************)
EXTENDS Naturals, FiniteSets, Sequences
LOCAL INSTANCE Functions

CONSTANTS
    Streams,       \* stdout and stderr
    PlanLength,    \* stages in the plan
    PipeCapacity,  \* writes a pipe holds before a writer blocks
    MaxWrites,     \* bound: writes made by the processes of each stage
    Faults         \* which system calls may fail: "start", "read", "wait"

ASSUME RunnerAssumption ==
    /\ IsFiniteSet(Streams) /\ Streams # {}
    /\ PlanLength \in Nat \ {0}
    /\ PipeCapacity \in Nat \ {0}
    /\ MaxWrites \in Seq(Nat) /\ Len(MaxWrites) = PlanLength
    /\ Faults \subseteq {"start", "read", "wait"}

Processes == {"leader", "child"}
Stages == 1 .. PlanLength

VARIABLES
    \* Runner.Run and Runner.runStage
    pc,             \* where the running goroutine is
    index,          \* the plan entry it is at
    stages,         \* result.Stages
    status,         \* result.Status
    events,         \* what the observer has been called with
    ctxDone,        \* ctx.Done() is closed
    \* awaitCommand and terminateAndDrain
    processChannel, \* processChannel # nil
    readersChannel, \* readersChannel # nil
    waitErr,        \* result of command.Wait()
    cancelled,      \* terminateAndDrain was entered
    \* captureStream
    readers,        \* per stream: what its goroutine is doing
    captured,       \* per stream: writes in its buffer
    chunk,          \* per stream: the event about to be emitted
    sequence,       \* the run's event counter
    \* the process group of the stage
    processes,      \* per process: state, trap of SIGTERM, pipe ends, group
    exit,           \* how the leader ended
    reaped,         \* command.Wait() has returned
    written         \* per stream: writes made by the stage's processes

runVars == <<pc, index, stages, status, events>>
awaitVars == <<processChannel, readersChannel, waitErr, cancelled>>
readerVars == <<readers, captured, chunk, sequence>>
processVars == <<processes, exit, reaped, written>>
vars == <<runVars, ctxDone, awaitVars, readerVars, processVars>>

-----------------------------------------------------------------------------
(* Results and events *)

Statuses == {"passed", "failed", "skipped", "cancelled", "internal-error"}

StageResult(s, out) == [status |-> s, output |-> out]

NoOutput == [s \in Streams |-> 0]

Event(kind, stage) == [kind |-> kind, stage |-> stage]

StageFinished(stage, s) ==
    [kind |-> "stage-finished", stage |-> stage, status |-> s]

StageOutput(stage, stream, c) ==
    [kind |-> "stage-output", stage |-> stage, stream |-> stream,
     sequence |-> c.sequence, first |-> c.first, last |-> c.last]

RunFinished(s) == [kind |-> "run-finished", status |-> s]

NoChunk == [sequence |-> 0, first |-> 0, last |-> 0]

appendSkipped(rs) ==
    rs \o [i \in 1 .. PlanLength - Len(rs) |-> StageResult("skipped", NoOutput)]

SkippedEvents(first) ==
    [i \in 1 .. PlanLength - first + 1 |-> Event("stage-skipped", first + i - 1)]

-----------------------------------------------------------------------------
(* The process group of a stage *)

NoProcess == [state |-> "none", traps |-> FALSE, holds |-> FALSE, group |-> FALSE]

Process(traps) ==
    [state |-> "running", traps |-> traps, holds |-> TRUE, group |-> TRUE]

Running(p) == processes[p].state = "running"

Holds(p) == Running(p) /\ processes[p].holds

InGroup(p) == Running(p) /\ processes[p].group

\* kill(-pgid, signal): every running group member the signal ends.
Signalled(ended) ==
    [p \in Processes |->
        IF InGroup(p) /\ ended[p]
        THEN [processes[p] EXCEPT !.state = "exited"] ELSE processes[p]]

ExitAfter(ended) ==
    IF InGroup("leader") /\ ended["leader"] THEN "signal" ELSE exit

terminateProcessTree == [p \in Processes |-> ~processes[p].traps]

\* Mutant: only the leader is signalled, not its group.
killProcessOnly == [p \in Processes |-> p = "leader"]

killProcessTree == [p \in Processes |-> TRUE]

Spawn(traps) ==
    /\ Running("leader")
    /\ processes["child"].state = "none"
    /\ processes' = [processes EXCEPT !["child"] =
                        [Process(traps) EXCEPT !.holds = processes["leader"].holds]]
    /\ UNCHANGED <<runVars, ctxDone, awaitVars, readerVars, exit, reaped, written>>

Write(p, s) ==
    /\ Holds(p)
    /\ SumFunction(written) < MaxWrites[index]
    /\ written[s] - captured[s] < PipeCapacity
    /\ written' = [written EXCEPT ![s] = @ + 1]
    /\ UNCHANGED <<runVars, ctxDone, awaitVars, readerVars, processes, exit, reaped>>

\* The process closes or redirects both of its output streams.
Redirect(p) ==
    /\ Holds(p)
    /\ processes' = [processes EXCEPT ![p].holds = FALSE]
    /\ UNCHANGED <<runVars, ctxDone, awaitVars, readerVars, exit, reaped, written>>

\* A descendant leaves the process group; its leader cannot.
LeaveGroup ==
    /\ InGroup("child")
    /\ processes' = [processes EXCEPT !["child"].group = FALSE]
    /\ UNCHANGED <<runVars, ctxDone, awaitVars, readerVars, exit, reaped, written>>

Exit(p, code) ==
    /\ Running(p)
    /\ processes' = [processes EXCEPT ![p].state = "exited"]
    /\ exit' = IF p = "leader" THEN code ELSE exit
    /\ UNCHANGED <<runVars, ctxDone, awaitVars, readerVars, reaped, written>>

-----------------------------------------------------------------------------
(* captureStream: one goroutine per stream *)

\* Mutant: the counter is read and not advanced.
ReadChunkSameSequence(s) ==
    /\ readers[s] = "read"
    /\ \E n \in captured[s] + 1 .. written[s] :
          /\ captured' = [captured EXCEPT ![s] = n]
          /\ chunk' = [chunk EXCEPT ![s] =
                         [sequence |-> sequence + 1,
                          first |-> captured[s] + 1, last |-> n]]
    /\ readers' = [readers EXCEPT ![s] = "emit"]
    /\ UNCHANGED <<runVars, ctxDone, awaitVars, sequence, processVars>>

ReadChunk(s) ==
    /\ readers[s] = "read"
    /\ \E n \in captured[s] + 1 .. written[s] :
          /\ captured' = [captured EXCEPT ![s] = n]
          /\ chunk' = [chunk EXCEPT ![s] =
                         [sequence |-> sequence + 1,
                          first |-> captured[s] + 1, last |-> n]]
    /\ sequence' = sequence + 1
    /\ readers' = [readers EXCEPT ![s] = "emit"]
    /\ UNCHANGED <<runVars, ctxDone, awaitVars, processVars>>

EmitChunk(s) ==
    /\ readers[s] = "emit"
    /\ events' = Append(events, StageOutput(index, s, chunk[s]))
    /\ chunk' = [chunk EXCEPT ![s] = NoChunk]
    /\ readers' = [readers EXCEPT ![s] = "read"]
    /\ UNCHANGED <<pc, index, stages, status, ctxDone, awaitVars, captured,
                   sequence, processVars>>

\* Mutant: the goroutine returns when the leader is gone, without draining.
ReadEOFAtExit(s) ==
    /\ readers[s] = "read"
    /\ ~Running("leader")
    /\ readers' = [readers EXCEPT ![s] = "done"]
    /\ UNCHANGED <<runVars, ctxDone, awaitVars, captured, chunk, sequence, processVars>>

ReadEOF(s) ==
    /\ readers[s] = "read"
    /\ captured[s] = written[s]
    /\ \A p \in Processes : ~Holds(p)
    /\ readers' = [readers EXCEPT ![s] = "done"]
    /\ UNCHANGED <<runVars, ctxDone, awaitVars, captured, chunk, sequence, processVars>>

ReadFails(s) ==
    /\ "read" \in Faults
    /\ readers[s] = "read"
    /\ readers' = [readers EXCEPT ![s] = "failed"]
    /\ UNCHANGED <<runVars, ctxDone, awaitVars, captured, chunk, sequence, processVars>>

\* close(readersDone) after readers.Wait()
ReadersDone == \A s \in Streams : readers[s] \in {"done", "failed"}

\* <-readersDone; processDone <- command.Wait()
Reap ==
    /\ pc \in {"await", "drain", "killed"}
    /\ ReadersDone
    /\ processes["leader"].state = "exited"
    /\ ~reaped
    /\ reaped' = TRUE
    /\ UNCHANGED <<runVars, ctxDone, awaitVars, readerVars, processes, exit, written>>

-----------------------------------------------------------------------------
(* Runner.Run *)

Init ==
    /\ pc = "loop"
    /\ index = 1
    /\ stages = <<>>
    /\ status = "passed"
    /\ events = <<[kind |-> "run-started"]>>
    /\ ctxDone = FALSE
    /\ processChannel = FALSE
    /\ readersChannel = FALSE
    /\ waitErr = "none"
    /\ cancelled = FALSE
    /\ readers = [s \in Streams |-> "idle"]
    /\ captured = NoOutput
    /\ chunk = [s \in Streams |-> NoChunk]
    /\ sequence = 0
    /\ processes = [p \in Processes |-> NoProcess]
    /\ exit = "none"
    /\ reaped = FALSE
    /\ written = NoOutput

\* The caller cancels the context, or its deadline passes.
Cancel ==
    /\ pc # "done"
    /\ ~ctxDone
    /\ ctxDone' = TRUE
    /\ UNCHANGED <<runVars, awaitVars, readerVars, processVars>>

\* Mutant: a stopped run keeps the status it started with.
FinishStageKeepsStatus(s, out, emitted) ==
    LET recorded == Append(stages, StageResult(s, out))
        finished == Append(events \o emitted, StageFinished(index, s))
    IN  /\ stages' = IF s = "passed" THEN recorded ELSE appendSkipped(recorded)
        /\ events' = IF s = "passed" THEN finished
                     ELSE Append(finished \o SkippedEvents(index + 1), RunFinished(s))
        /\ index' = IF s = "passed" THEN index + 1 ELSE index
        /\ pc' = IF s = "passed" THEN "loop" ELSE "done"
        /\ UNCHANGED status

\* The current stage ends with status s: it is recorded, and anything but
\* "passed" skips the rest of the plan and ends the run.
FinishStage(s, out, emitted) ==
    LET recorded == Append(stages, StageResult(s, out))
        finished == Append(events \o emitted, StageFinished(index, s))
    IN  IF s = "passed"
        THEN /\ stages' = recorded
             /\ events' = finished
             /\ index' = index + 1
             /\ pc' = "loop"
             /\ UNCHANGED status
        ELSE /\ stages' = appendSkipped(recorded)
             /\ events' = Append(finished \o SkippedEvents(index + 1), RunFinished(s))
             /\ status' = s
             /\ pc' = "done"
             /\ UNCHANGED index

FinishRun ==
    /\ pc = "loop"
    /\ index > PlanLength
    /\ events' = Append(events, RunFinished(status))
    /\ pc' = "done"
    /\ UNCHANGED <<index, stages, status, ctxDone, awaitVars, readerVars, processVars>>

CancelledBeforeStage ==
    /\ pc = "loop"
    /\ index <= PlanLength
    /\ ctxDone
    /\ FinishStage("cancelled", NoOutput, <<>>)
    /\ UNCHANGED <<ctxDone, awaitVars, readerVars, processVars>>

StartFails ==
    /\ pc = "loop"
    /\ index <= PlanLength
    /\ ~ctxDone
    /\ "start" \in Faults
    /\ FinishStage("internal-error", NoOutput, <<Event("stage-started", index)>>)
    /\ UNCHANGED <<ctxDone, awaitVars, readerVars, processVars>>

StartStage(traps) ==
    /\ pc = "loop"
    /\ index <= PlanLength
    /\ ~ctxDone
    /\ events' = Append(events, Event("stage-started", index))
    /\ pc' = "await"
    /\ processChannel' = TRUE
    /\ readersChannel' = TRUE
    /\ waitErr' = "none"
    /\ cancelled' = FALSE
    /\ readers' = [s \in Streams |-> "read"]
    /\ captured' = NoOutput
    /\ processes' = [p \in Processes |->
                        IF p = "leader" THEN Process(traps) ELSE NoProcess]
    /\ exit' = "none"
    /\ reaped' = FALSE
    /\ written' = NoOutput
    /\ UNCHANGED <<index, stages, status, ctxDone, chunk, sequence>>

-----------------------------------------------------------------------------
(* awaitCommand and terminateAndDrain: a select over the open channels *)

Selecting == pc \in {"await", "drain"} /\ (processChannel \/ readersChannel)

SelectProcess ==
    /\ Selecting
    /\ processChannel
    /\ reaped
    /\ processChannel' = FALSE
    /\ \/ waitErr' = exit
       \/ "wait" \in Faults /\ waitErr' = "error"
    /\ UNCHANGED <<runVars, ctxDone, readersChannel, cancelled, readerVars, processVars>>

SelectReaders ==
    /\ Selecting
    /\ readersChannel
    /\ ReadersDone
    /\ readersChannel' = FALSE
    /\ UNCHANGED <<runVars, ctxDone, processChannel, waitErr, cancelled, readerVars,
                   processVars>>

SelectCancel ==
    /\ Selecting
    /\ pc = "await"
    /\ ctxDone
    /\ events' = Append(events, Event("cancellation-requested", index))
    /\ processes' = Signalled(terminateProcessTree)
    /\ exit' = ExitAfter(terminateProcessTree)
    /\ cancelled' = TRUE
    /\ pc' = "drain"
    /\ UNCHANGED <<index, stages, status, ctxDone, processChannel, readersChannel,
                   waitErr, readerVars, reaped, written>>

SelectTimer ==
    /\ Selecting
    /\ pc = "drain"
    /\ processes' = Signalled(killProcessTree)
    /\ exit' = ExitAfter(killProcessTree)
    /\ pc' = "killed"
    /\ UNCHANGED <<index, stages, status, events, ctxDone, awaitVars, readerVars,
                   reaped, written>>

\* After SIGKILL the runner waits for the process, then for the readers.
ReceiveAfterKill ==
    /\ pc = "killed"
    /\ processChannel \/ readersChannel
    /\ processChannel => reaped
    /\ readersChannel => ReadersDone
    /\ processChannel' = FALSE
    /\ readersChannel' = FALSE
    /\ IF processChannel
       THEN \/ waitErr' = exit
            \/ "wait" \in Faults /\ waitErr' = "error"
       ELSE UNCHANGED waitErr
    /\ UNCHANGED <<runVars, ctxDone, cancelled, readerVars, processVars>>

stageStatus ==
    CASE cancelled -> "cancelled"
      [] ~cancelled /\ \E s \in Streams : readers[s] = "failed" -> "internal-error"
      [] ~cancelled /\ \A s \in Streams : readers[s] # "failed" ->
            CASE waitErr = "zero" -> "passed"
              [] waitErr \in {"nonzero", "signal"} -> "failed"
              [] OTHER -> "internal-error"

Collect ==
    /\ pc \in {"await", "drain", "killed"}
    /\ ~processChannel
    /\ ~readersChannel
    /\ FinishStage(stageStatus, captured, <<>>)
    /\ UNCHANGED <<ctxDone, awaitVars, readerVars, processVars>>

-----------------------------------------------------------------------------
Main ==
    \/ FinishRun
    \/ CancelledBeforeStage
    \/ StartFails
    \/ \E traps \in BOOLEAN : StartStage(traps)
    \/ SelectProcess
    \/ SelectReaders
    \/ SelectCancel
    \/ SelectTimer
    \/ ReceiveAfterKill
    \/ Collect

Reader(s) == ReadChunk(s) \/ EmitChunk(s) \/ ReadEOF(s)

Environment ==
    \/ Cancel
    \/ \E s \in Streams : ReadFails(s)
    \/ \E traps \in BOOLEAN : Spawn(traps)
    \/ \E p \in Processes, s \in Streams : Write(p, s)
    \/ \E p \in Processes : Redirect(p)
    \/ LeaveGroup
    \/ \E p \in Processes, code \in {"zero", "nonzero"} : Exit(p, code)

\* A finished run stays finished.
Finished == pc = "done" /\ UNCHANGED vars

Next ==
    \/ Main
    \/ \E s \in Streams : Reader(s)
    \/ Reap
    \/ Environment
    \/ Finished

Spec == Init /\ [][Next]_vars

\* The Go scheduler runs every goroutine that can run; nothing is assumed of
\* the stage's processes or of the caller, and no read has to fail.
Fairness ==
    /\ WF_vars(Main)
    /\ \A s \in Streams : WF_vars(Reader(s))
    /\ WF_vars(Reap)

LiveSpec == Spec /\ Fairness

-----------------------------------------------------------------------------
(* Properties *)

\* Every variable has its type.
TypeOK ==
    /\ pc \in {"loop", "await", "drain", "killed", "done"}
    /\ index \in 1 .. PlanLength + 1
    /\ stages \in Seq([status : Statuses, output : [Streams -> Nat]])
    /\ Len(stages) <= PlanLength
    /\ status \in Statuses \ {"skipped"}
    /\ ctxDone \in BOOLEAN
    /\ processChannel \in BOOLEAN
    /\ readersChannel \in BOOLEAN
    /\ waitErr \in {"none", "zero", "nonzero", "signal", "error"}
    /\ cancelled \in BOOLEAN
    /\ readers \in [Streams -> {"idle", "read", "emit", "done", "failed"}]
    /\ captured \in [Streams -> Nat]
    /\ chunk \in [Streams -> [sequence : Nat, first : Nat, last : Nat]]
    /\ sequence \in Nat
    /\ processes \in [Processes -> [state : {"none", "running", "exited"},
                                    traps : BOOLEAN, holds : BOOLEAN,
                                    group : BOOLEAN]]
    /\ exit \in {"none", "zero", "nonzero", "signal"}
    /\ reaped \in BOOLEAN
    /\ written \in [Streams -> Nat]

IsOutput(e) == e.kind = "stage-output"

Terminal(e) == e.kind \in {"stage-finished", "stage-skipped"}

\* A finished run (runner.go:89-155) has one result for every plan entry:
\* passed stages, then at most one stage that stopped the run and gave it its
\* status, then skipped ones; and the observer was told of exactly one end of
\* each stage, whatever raced with whatever.
ResultsMatchPlan ==
    pc = "done" =>
        /\ Len(stages) = PlanLength
        /\ \E stop \in 1 .. PlanLength + 1 :
              /\ \A i \in Stages : i < stop => stages[i].status = "passed"
              /\ \A i \in Stages : i > stop => stages[i].status = "skipped"
              /\ IF stop \in Stages
                 THEN /\ stages[stop].status = status
                      /\ status \notin {"passed", "skipped"}
                 ELSE status = "passed"
        /\ \A i \in Stages :
              Cardinality({k \in DOMAIN events :
                             Terminal(events[k]) /\ events[k].stage = i}) = 1
        /\ events[Len(events)] = RunFinished(status)

\* When a stage is recorded (runner.go:282-293) its goroutines are gone, and a
\* stream whose reader did not fail has captured every write made by any
\* process of the stage, also when the group was signalled or killed.
OutputComplete ==
    pc \in {"loop", "done"} =>
        \A s \in Streams :
            /\ readers[s] \in {"idle", "done", "failed"}
            /\ readers[s] = "done" => captured[s] = written[s]

\* Output events of a stage lie between its stage-started and its
\* stage-finished event, and nothing follows run-finished: the reader
\* goroutines never outlive runStage (runner.go:230-280).
EventsFramed ==
    \A k \in DOMAIN events :
        /\ IsOutput(events[k]) =>
              /\ \E j \in 1 .. k - 1 :
                    events[j] = Event("stage-started", events[k].stage)
              /\ \A j \in 1 .. k - 1 :
                    Terminal(events[j]) => events[j].stage # events[k].stage
        /\ events[k].kind = "run-finished" => k = Len(events)

\* For one stream of one stage the observer sees the captured bytes in order,
\* without a gap, and sequence numbers are never reused (runner.go:471-488).
StreamsInOrder ==
    \A k, l \in DOMAIN events :
        k < l /\ IsOutput(events[k]) /\ IsOutput(events[l]) =>
            /\ events[k].sequence # events[l].sequence
            /\ events[k].stage = events[l].stage /\ events[k].stream = events[l].stream
                  => /\ events[k].sequence < events[l].sequence
                     /\ events[k].last < events[l].first
                     /\ events[k].last + 1 = events[l].first
                           \/ \E m \in k + 1 .. l - 1 :
                                 /\ IsOutput(events[m])
                                 /\ events[m].stage = events[l].stage
                                 /\ events[m].stream = events[l].stream

\* The observer's account of a run can be read from beginning to end: stages
\* framed, streams in order, nothing after the end (runner.go:230-293), with
\* every variable in its type.
EventsInOrder == TypeOK /\ EventsFramed /\ StreamsInOrder

\* When a cancelled stage is over, its leader is not running, and neither is
\* any member of its process group that still has the pipes, unless a reader
\* gave up on its stream (runner.go:391-436).
CancelledStageIsQuiet ==
    pc = "done" /\ cancelled =>
        /\ ~Running("leader")
        /\ (\A s \in Streams : readers[s] = "done") =>
              \A p \in Processes : ~(InGroup(p) /\ Holds(p))

\* What the console's README says of cancellation (README.md:134-136): no
\* member of the process group survives it.
GroupTerminated ==
    pc = "done" /\ cancelled => \A p \in Processes : ~InGroup(p)

\* A descendant that left the process group and kept the pipes open.
EscapedHolder == Holds("child") /\ ~processes["child"].group

\* Cancelling ends the run, whatever the stage's processes do, provided that
\* no descendant outside the process group holds the pipes for ever
\* (runner.go:369-436).
CancelEndsRun ==
    ([]<>~EscapedHolder) => (ctxDone ~> pc = "done")
=============================================================================
