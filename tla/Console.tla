------------------------------- MODULE Console -------------------------------
(***************************************************************************)
(* The terminal interface of the developer console (internal/tui): the      *)
(* goroutine that executes the plan and sends messages into a bounded       *)
(* channel, the commands of Bubble Tea that wait for one message each, the  *)
(* Update function, the user at the keyboard, a signal to the process, and  *)
(* Run, which joins them.                                                   *)
(*                                                                          *)
(* The runner is Runner.tla's: it emits the events of its stages in order   *)
(* and, once its context is done, ends.  Bubble Tea is external: it calls   *)
(* Update with one message at a time, runs each command in a goroutine of   *)
(* its own, and its program ends after tea.Quit or with an error.  Run does *)
(* not disable its signal handler (tui/run.go:70-74), so a signal ends the  *)
(* program too, beside what main makes of it.                               *)
(***************************************************************************)
EXTENDS Integers, FiniteSets, Sequences, SequencesExt

CONSTANTS
    PlanLength,       \* stages of the plan
    ChannelCapacity,  \* 256
    MaxStageLog,      \* maxStageLogBytes, in chunks of output
    MaxOutputs,       \* bound: chunks of output of a stage
    MaxKeys           \* bound: key presses and signals

ASSUME ConsoleAssumption ==
    /\ PlanLength \in Nat \ {0} /\ ChannelCapacity \in Nat \ {0}
    /\ MaxStageLog \in Nat \ {0}
    /\ MaxOutputs \in Nat /\ MaxKeys \in Nat

Stages == 1 .. PlanLength

VARIABLES
    exec,      \* the goroutine of execute: stage, outputs, queue, status
    ctxDone,   \* runContext is cancelled
    channel,   \* events
    emitted,   \* history: messages that were accepted by the channel
    waits,     \* commands under way: Waiting or the message they carry
    model,     \* Model
    ui,        \* program.Run: "running", "quit" or "failed"
    main,      \* Run: where it is and, at the end, what it returned
    keys,      \* key presses and signals so far
    signal     \* the process got SIGTERM or SIGINT

screenVars == <<exec, ctxDone, channel, emitted, waits, model, ui, main, keys, signal>>

-----------------------------------------------------------------------------
(* Messages.                                                                *)

Event(kind, stage) ==
    [kind |-> kind, stage |-> stage, status |-> "none", chunk |-> 0, error |-> FALSE]
Waiting == Event("waiting", 0)
RunEvent == Event("run", 0)  \* EventRunStarted and EventRunFinished
Output(stage, n) == [Event("output", stage) EXCEPT !.chunk = n]
Finished(stage, s) == [Event("finished", stage) EXCEPT !.status = s]
RunFinishedMsg(s, failed) ==
    [Event("run_finished", 0) EXCEPT !.status = s, !.error = failed]

Skipped(first) ==
    [i \in 1 .. PlanLength - first + 1 |-> Event("skipped", first + i - 1)]

-----------------------------------------------------------------------------
(* Model.                                                                   *)

NewModel ==
    [stages |-> [s \in Stages |-> "waiting"],
     logs |-> [s \in Stages |-> <<>>],
     logTruncated |-> [s \in Stages |-> FALSE],
     selected |-> 1, completed |-> FALSE, cancelling |-> FALSE,
     result |-> "none", runError |-> FALSE]

(* The newest chunks that fit.                                              *)
appendStageOutput(m, stage, n) ==
    LET combined == Append(m.logs[stage], n)
        excess == Len(combined) - MaxStageLog
    IN  IF Len(combined) <= MaxStageLog THEN [m EXCEPT !.logs[stage] = combined]
        ELSE [m EXCEPT !.logs[stage] = SubSeq(combined, excess + 1, Len(combined)),
                       !.logTruncated[stage] = TRUE]

applyRunnerEvent(m, e) ==
    CASE e.kind = "started" ->
           [m EXCEPT !.stages[e.stage] = "running", !.selected = e.stage]
      [] e.kind = "output" -> appendStageOutput(m, e.stage, e.chunk)
      [] e.kind = "finished" -> [m EXCEPT !.stages[e.stage] = e.status]
      [] e.kind = "skipped" -> [m EXCEPT !.stages[e.stage] = "skipped"]
      [] e.kind = "cancellation" -> [m EXCEPT !.cancelling = TRUE]
      [] e.kind = "run" -> m

previousIndex(i) == IF i <= 1 THEN PlanLength ELSE i - 1
nextIndex(i) == IF i >= PlanLength THEN 1 ELSE i + 1

waitForEvent(m) == IF m.completed THEN <<>> ELSE <<Waiting>>

-----------------------------------------------------------------------------
ScreenInit ==
    /\ exec = [pc |-> "between", stage |-> 1, outputs |-> 0,
               queue |-> <<RunEvent>>, status |-> "passed", error |-> FALSE]
    /\ ctxDone = FALSE
    /\ channel = <<>>
    /\ emitted = <<>>
    /\ model = NewModel
    /\ waits = waitForEvent(NewModel)
    /\ ui = "running"
    /\ main = [pc |-> "interface", result |-> "none", error |-> FALSE]
    /\ keys = 0
    /\ signal = FALSE

interfaceVars == <<waits, model, ui, main, keys, signal>>

-----------------------------------------------------------------------------
(* A signal to the process.  The channels of signal.NotifyContext in main   *)
(* and of Bubble Tea both get it; a goroutine each acts on it, in any order. *)

(* Bound: one signal, and none where it would change nothing any more.      *)
ReceiveSignal ==
    /\ ~signal /\ main.pc # "returned" /\ keys < MaxKeys
    /\ ui = "running" \/ ~ctxDone
    /\ keys' = keys + 1
    /\ signal' = TRUE
    /\ UNCHANGED <<exec, ctxDone, channel, emitted, waits, model, ui, main>>

(* signal.NotifyContext cancels the context Run was called with.            *)
CancelParent ==
    /\ signal /\ ~ctxDone
    /\ ctxDone' = TRUE
    /\ UNCHANGED <<exec, channel, emitted, interfaceVars>>

(* Bubble Tea quits at SIGTERM, with the model as it is and no error, and   *)
(* fails at SIGINT; it misses a signal that comes before it listens.        *)
HandleSignal ==
    /\ ui = "running" /\ signal
    /\ ui' \in {"quit", "failed"}
    /\ UNCHANGED <<exec, ctxDone, channel, emitted, waits, model, main, keys, signal>>

-----------------------------------------------------------------------------
(* The goroutine of execute.  What the runner and persistRunArtifacts do    *)
(* next is decided when the messages of the last step are sent.             *)

Decides(pc) == exec.pc = pc /\ exec.queue = <<>>

Emits(queue, pc, stage, outputs) ==
    /\ exec' = [exec EXCEPT !.pc = pc, !.stage = stage, !.outputs = outputs,
                            !.queue = queue]
    /\ UNCHANGED <<ctxDone, channel, emitted, interfaceVars>>

(* The stages after the last one are skipped, the artifacts are persisted   *)
(* (which may fail) and the result is sent.                                 *)
Ends(status) ==
    \E failed \in BOOLEAN :
        /\ exec' = [exec EXCEPT !.pc = "finished", !.status = status,
                                !.error = failed,
                                !.queue = <<Finished(exec.stage, status)>>
                                          \o Skipped(exec.stage + 1)
                                          \o <<RunEvent, RunFinishedMsg(status, failed)>>]
        /\ UNCHANGED <<ctxDone, channel, emitted, interfaceVars>>

StartStage ==
    /\ Decides("between") /\ ~ctxDone
    /\ Emits(<<Event("started", exec.stage)>>, "stage", exec.stage, 0)

StageOutput ==
    /\ Decides("stage") \/ Decides("draining")
    /\ exec.outputs < MaxOutputs
    /\ Emits(<<Output(exec.stage, exec.outputs + 1)>>, exec.pc, exec.stage,
             exec.outputs + 1)

StagePasses ==
    /\ Decides("stage")
    /\ IF exec.stage = PlanLength THEN Ends("passed")
       ELSE Emits(<<Finished(exec.stage, "passed")>>, "between", exec.stage + 1, 0)

StageFails ==
    /\ Decides("stage")
    /\ \E s \in {"failed", "internal-error"} : Ends(s)

DrainStage ==
    /\ Decides("stage") /\ ctxDone
    /\ Emits(<<Event("cancellation", exec.stage)>>, "draining", exec.stage,
             exec.outputs)

RunCancelled ==
    /\ Decides("draining") \/ (Decides("between") /\ ctxDone)
    /\ Ends("cancelled")

interface_done == main.pc # "interface"

(* sendMessage: into the channel if there is room, or dropped if nobody     *)
(* reads any more; with both the choice is open.                            *)
SendMessage ==
    /\ exec.queue # <<>>
    /\ exec' = [exec EXCEPT !.queue = Tail(@)]
    /\ \/ /\ Len(channel) < ChannelCapacity
          /\ channel' = Append(channel, Head(exec.queue))
          /\ emitted' = Append(emitted, Head(exec.queue))
       \/ /\ interface_done
          /\ UNCHANGED <<channel, emitted>>
    /\ UNCHANGED <<ctxDone, interfaceVars>>

executionDone == exec.pc = "finished" /\ exec.queue = <<>>

-----------------------------------------------------------------------------
(* Bubble Tea.                                                              *)

(* waitForMessage: a command takes the next message of the channel.         *)
TakeMessage(i) ==
    /\ ui = "running"
    /\ waits[i] = Waiting /\ channel # <<>>
    /\ waits' = [waits EXCEPT ![i] = Head(channel)]
    /\ channel' = Tail(channel)
    /\ UNCHANGED <<exec, ctxDone, emitted, model, ui, main, keys, signal>>

(* Update with what a command returned.                                     *)
Deliver(i) ==
    LET message == waits[i]
    IN  /\ ui = "running"
        /\ message # Waiting
        /\ IF message.kind = "run_finished"
           THEN /\ model' = [model EXCEPT !.completed = TRUE,
                                          !.result = message.status,
                                          !.runError = message.error]
                /\ waits' = RemoveAt(waits, i)
                /\ ui' = IF message.status = "cancelled" THEN "quit" ELSE ui
           ELSE /\ model' = applyRunnerEvent(model, message)
                /\ waits' = RemoveAt(waits, i) \o waitForEvent(model')
                /\ UNCHANGED ui
        /\ UNCHANGED <<exec, ctxDone, channel, emitted, main, keys, signal>>

-----------------------------------------------------------------------------
(* Update with a key.                                                       *)

Press ==
    /\ ui = "running" /\ keys < MaxKeys
    /\ keys' = keys + 1
    /\ UNCHANGED <<exec, channel, emitted, main, signal>>

(* Mutant: a key asks for the next event as well.                           *)
key_waits_too == <<Waiting>>
key_command == <<>>

SelectStage(i) ==
    /\ Press
    /\ model' = [model EXCEPT !.selected = i]
    /\ waits' = waits \o key_command
    /\ UNCHANGED <<ctxDone, ui>>

requestCancellation ==
    /\ IF model.completed \/ model.cancelling THEN UNCHANGED <<model, ctxDone>>
       ELSE /\ model' = [model EXCEPT !.cancelling = TRUE]
            /\ ctxDone' = TRUE
    /\ UNCHANGED <<waits, ui>>

leave ==
    /\ ui' = "quit"
    /\ UNCHANGED <<model, ctxDone, waits>>

quit_always == TRUE  \* mutant: q leaves a run that is under way
may_leave == model.completed

PressQ == Press /\ IF may_leave THEN leave ELSE requestCancellation
PressCtrlC == Press /\ requestCancellation
PressEnter == Press /\ model.completed /\ leave

PressSelect ==
    \E i \in {1, PlanLength, previousIndex(model.selected),
              nextIndex(model.selected)} : SelectStage(i)

InterfaceFails ==
    /\ ui = "running"
    /\ ui' = "failed"
    /\ UNCHANGED <<exec, ctxDone, channel, emitted, waits, model, main, keys, signal>>

-----------------------------------------------------------------------------
(* Run after program.Run.                                                   *)

(* Mutant: an interface that failed leaves the run under way.               *)
close_without_cancel ==
    /\ main.pc = "interface" /\ ui # "running"
    /\ main' = [main EXCEPT !.pc = "await"]
    /\ UNCHANGED <<exec, ctxDone, channel, emitted, waits, model, ui, keys, signal>>

CloseInterface ==
    /\ main.pc = "interface" /\ ui # "running"
    /\ main' = [main EXCEPT !.pc = "await"]
    /\ ctxDone' = (ctxDone \/ ui = "failed")
    /\ UNCHANGED <<exec, channel, emitted, waits, model, ui, keys, signal>>

Return ==
    /\ main.pc = "await" /\ executionDone
    /\ main' = IF ui = "failed"
               THEN [pc |-> "returned", result |-> exec.status, error |-> TRUE]
               ELSE [pc |-> "returned", result |-> model.result,
                     error |-> model.runError]
    /\ ctxDone' = TRUE
    /\ UNCHANGED <<exec, channel, emitted, waits, model, ui, keys, signal>>

Returned == main.pc = "returned"

Done == Returned /\ UNCHANGED screenVars

-----------------------------------------------------------------------------
Execute ==
    StartStage \/ StageOutput \/ StagePasses \/ StageFails \/ DrainStage \/ RunCancelled

Signals == ReceiveSignal \/ CancelParent \/ HandleSignal

Interface == \E i \in DOMAIN waits : TakeMessage(i) \/ Deliver(i)

Keyboard == PressQ \/ PressCtrlC \/ PressEnter \/ PressSelect

ScreenNext ==
    \/ Signals
    \/ Execute \/ SendMessage
    \/ Interface \/ Keyboard \/ InterfaceFails
    \/ CloseInterface \/ Return \/ Done

(* The interface on its own: what DeveloperConsole does between the plan    *)
(* and the exit code, in an interactive run.                                *)
ScreenSpec == ScreenInit /\ [][ScreenNext]_screenVars

-----------------------------------------------------------------------------
(* Properties.                                                              *)

(* What Update has applied: the messages under way to it are the newest.    *)
Carried == {i \in DOMAIN waits : waits[i] # Waiting}
Applied == SubSeq(emitted, 1, Len(emitted) - Len(channel) - Cardinality(Carried))

(* What a sequence of messages says of a stage, and the output it brings.   *)
Notices(t, s) ==
    {i \in DOMAIN t : t[i].stage = s /\ t[i].kind \in {"started", "finished", "skipped"}}
Says(e) ==
    CASE e.kind = "started" -> "running" [] e.kind = "finished" -> e.status
      [] e.kind = "skipped" -> "skipped"
LastSaid(t, s) ==
    IF Notices(t, s) = {} THEN "waiting" ELSE Says(t[Max(Notices(t, s))])

OutputOf(t, s) == {i \in DOMAIN t : t[i].stage = s /\ t[i].kind = "output"}
LastChunk(t, s) == Max({0} \cup {t[i].chunk : i \in OutputOf(t, s)})

(* The newest chunks, of n that were made, that fit into a log.             *)
NewestChunks(n) ==
    LET kept == IF n < MaxStageLog THEN n ELSE MaxStageLog
    IN  [k \in 1 .. kept |-> n - kept + k]

(* The stages and logs on the screen are what the runner's events say, none *)
(* lost, repeated or out of order, although every event is fetched by a     *)
(* goroutine of its own: the status of a stage is the one it was given last *)
(* and its log holds the newest of the chunks, which the runner numbers,    *)
(* without a gap.  A screen that calls the run complete shows an outcome    *)
(* for every stage, one that fits the result.                               *)
ScreenFollowsRunner ==
    /\ \A s \in Stages :
          /\ model.stages[s] = LastSaid(Applied, s)
          /\ model.logs[s] = NewestChunks(LastChunk(Applied, s))
          /\ model.logTruncated[s] <=> LastChunk(Applied, s) > MaxStageLog
    /\ model.completed <=> \E i \in DOMAIN Applied : Applied[i].kind = "run_finished"
    /\ model.completed =>
          /\ \A s \in Stages : model.stages[s] \notin {"waiting", "running"}
          /\ model.result = "passed"
               <=> \A s \in Stages : model.stages[s] = "passed"

(* Run returns the result of the execution, whatever was still in the       *)
(* channel when the interface ended, so the exit code is that of the run.   *)
(* The one exception is a signal that made the interface quit before its    *)
(* model was complete: Run then returns that model's zero result, which     *)
(* becomes an internal error (check.go:628-645), never the outcome of       *)
(* another run.                                                             *)
LeftUnfinished == ui = "quit" /\ ~model.completed
ReturnsItsResult ==
    Returned =>
        /\ executionDone
        /\ IF LeftUnfinished
           THEN signal /\ main.result = "none" /\ main.error = FALSE
           ELSE /\ main.result = exec.status
                /\ main.error <=> exec.error \/ ui = "failed"

(* Once a signal came, the run is cancelled or the interface has ended, Run *)
(* returns, or a run that had completed waits for the user to leave.  The   *)
(* execution is never left waiting for room in a channel that nobody        *)
(* empties.                                                                 *)
EndsOrAsks ==
    signal \/ ctxDone \/ ui # "running"
        ~> Returned \/ (ui = "running" /\ model.completed)
=============================================================================
