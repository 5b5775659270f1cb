# Tickline: TLA+ verification project

Tickline is a deterministic, server-authoritative simulation with tamper-evident
command evidence, tools to store, export and inspect that evidence, and a
developer console that runs the repository's verification stages. This project
models the parts that decide whether the simulation, its evidence, an
investigation and a verification run can be trusted, checks them with TLC on
small instances, and proves with TLAPS, for every value of their constants, the
safety properties of the simulation world and its refinement of a simpler one, of
the command pipeline, its evidence, the gateway in front of it and the replay of
its log, of the stream parser, the investigation store, the stage runner, the
console's record and terminal interface, and the viewer.

Paths below are relative to the repository root. `PROJECT.json` maps every
definition to the lines it stands for and lists components, runs, mutants,
theorems, findings and hazards.

## 1. Inventory

| Part | State it keeps | Operations | Talks to | Status |
| --- | --- | --- | --- | --- |
| Simulation world (`cpp/src/simulation/world.cpp`, `tick_clock.hpp`, `units.hpp`) | entities with position, velocity, residual and last sequence; two high-water marks per entity; sorted vector of pending commands; tick index and elapsed time | `add_entity`, `queue_velocity`, `advance` | called by pipeline, replay and host | modelled, proved |
| Canonical state, fingerprint (`canonical_state.cpp`, `state_fingerprint.cpp`) | none | encode, FNV-1a | world to evidence | encoding modelled; FNV-1a taken as injective |
| Validator, session, pipeline (`cpp/src/command/`) | highest accepted sequence per session; the evidence log | `validate`, `evaluate`, `commit_accepted_sequence`, `submit` | world, evidence | modelled, proved |
| Evidence log (`command_evidence.cpp`) | records, head digest | `prepare_append`, `append`, `verify`, record codec | SHA-256 | modelled; the log proved |
| Evidence replay (`command_evidence_replay.cpp`) | the session, world and pipeline it rebuilds | `replay` | all of the above | modelled, proved |
| Frame and stream parser (`cpp/src/protocol/`) | buffer, pending header, failure | `push`, `finish`, `reset`, `parse_frame` | transport, host | modelled, proved |
| Gateway, envelope codec (`authoritative_command_gateway.cpp`, `command_envelope_codec.cpp`) | the pipeline it owns | `submit(bytes)`, encode, decode | parser, pipeline | modelled, proved over a codec that reads back |
| Evidence archive (`command_evidence_archive.cpp`) | a file | encode, decode, write, read | file system, SHA-256 | modelled |
| SHA-256 (`cpp/src/security`) | block state | update, finish | evidence, archive | blocks, padding and chaining; compression is free |
| Investigation store (`cpp/src/storage/investigation_store.cpp`) | SQLite tables | open and migrate, import, record replay result, four queries | SQLite | modelled, safety proved |
| Bundle exporter (`investigation_bundle_exporter.cpp`) | none | export | store | modelled |
| Python tools (`tools/python`) | none | validate a bundle, analytics, baselines, reports | bundle files | the bundle's consistency rules |
| Console: runner (`tools/tickline-dev/internal/runner`) | results, events, goroutines, process group of a stage | `Run`, `runStage`, `awaitCommand`, `terminateAndDrain`, `captureStream` | processes, context, observer | modelled; safety proved |
| Console: task plans and manifest (`internal/task`) | none | parse, validate, `BuildPlan` | CLI | validation and planning |
| Console: run log and artifacts (`internal/runlog`, `artifactmanifest`, `artifactverify`, `cli/artifacts.go`) | files of a run | observe events, write result and manifest, verify | runner, file system | modelled, safety proved |
| Console: workflows, command line, reports (`internal/cli`, ...) | none | `check`, exit codes, text | all of the console | the path of `check` |
| Console: terminal interface (`internal/tui`) | TUI model, channel, context | `Update`, `Run`, `execute` | runner, Bubble Tea | all but view and sanitizer; safety proved |
| Unity viewer (`unity/`) | playback position, filters, active workspace, subscriptions | load, clear, filter, seek, play, tick | bundle files, editor window | all but parsing and drawing; events and playback proved |

**What is hard here.** The C++ core is sequential, so its difficulty lies in
long sequences of legal calls: marks that only rise, a sort that is not stable,
copies that are committed at the end of `advance`, truncating division with a
carried residual, several layers that refuse a command for overlapping reasons,
a log that has to describe all of it exactly, and byte formats whose sizes and
codes come from the other side. The stream parser meets a transport that cuts
anywhere, the gateway frames that are cut or damaged. The archive is rewritten
in place without a lock; the store is used by several processes and threads at
once, and any statement or process may fail between two statements. The runner
has five goroutines, a group of processes that fork, ignore signals, redirect
their output or leave the group, a context that may be cancelled at any time,
and a timer. The terminal interface fetches every event by a goroutine of its
own through a bounded channel whose reader may go away, and a signal both cancels
the run and ends the interface. The viewer is single threaded, but its objects
raise events half-way through their calls, and not for every change.

**What makes each part correct.** World: the queue executes in sequence and
nothing accepted is lost, motion is exact, the arithmetic stays in its width,
internal errors are unreachable. Pipeline and gateway: a command is admitted if
and only if it is admissible, queue, motion and sessions are what the evidence
says, and the caller was told the same. Replay: it accepts exactly the honest
log. Archive: what is read is the log of the trusted head or an error. Store:
every call is atomic, every bundle is that of an archive, every call returns.
Parser: what it returns does not depend on the cuts, the buffer is bounded.
Runner: one result per stage, complete output, framed events, and an end to every
cancelled run. Console: the screen is what the runner said, a record that
verifies is the run's. Viewer: the position is where the time leads.

## 2. Modules

| Module | What it is |
| --- | --- |
| `WorldModel` | The world as a value and each call as an operator on it: `add_entity`, `queue_velocity`, `advance` and their results, with `sort`, `integrate`, `clock_overflows` for the code's helpers. |
| `WorldInvariant` | `WorldInv`, the inductive invariant, as named predicates on a world value. |
| `World` | One world and any host: variables `world`, `result`; actions `AddEntity`, `QueueVelocity`, `Advance`; properties. |
| `CommandSchedule` | Abstract specification: one first-in-first-out line of commands per entity, no shared queue, no sort. |
| `WorldSchedule` | The refinement mapping: the line of an entity is what the shared queue holds for it, in order. |
| `CanonicalState` | `encode_world_state` over `World`, and what it means to read it back. |
| `WorldLemmas`, `WorldProofs` | The lemmas (truncating division, insertion into a sorted queue, the split of the queue into due and later commands, every call preserves `WorldInv`) and the theorems of `World`, its refinement of `CommandSchedule` among them. |
| `CommandModel` | Validator, session, evidence log and `submit` as operators, on top of `WorldModel`. |
| `CommandPipeline` | Composition: several sessions, one pipeline and its log, one world; actions `Submit`, `AddEntity`, `Advance`. |
| `PipelineProofs` | Inductive invariants and theorems of `CommandPipeline`, `Gateway` and `EvidenceReplay`. |
| `EvidenceCodec`, `FrameCodec` | The byte formats as layouts: envelope, evidence record, archive; frame header and payload. |
| `Gateway` | `submit(bytes)` over `CommandPipeline`, fed with intact, cut, extended and damaged frames. |
| `EvidenceReplay` | `replay` with its early returns, applied to the log of every state of a live run, to forged logs and to every budget. |
| `Sha256`, `EvidenceArchive` | Blocks and padding; one archive file written in pieces and read by several processes. |
| `InvestigationModel` | The database as a value and each SQL statement as an operator. |
| `BundleModel` | The exporter as a function of what it read, and what the two readers of a bundle require. |
| `InvestigationStore` | Store and exporter statement by statement over SQLite; actions are named after the code's steps (`Begin`, `InsertArchive`, `UpsertReplayResult`, `FindArchive`, ...). |
| `StoreProofs` | Its inductive invariant and theorems. |
| `InvestigationLedger`, `StoreRefinement` | Abstract specification: every call takes effect at one moment; the refinement mapping to it. |
| `Investigation` | `EvidenceReplay` composed with import, queries, export and the readers' rules. |
| `StreamParser`, `StreamParserProofs` | `push` half an iteration at a time, `finish`, `reset`, the strict parser, and a reference parser that sees the whole stream; the theorems about them. |
| `Runner`, `RunnerProofs` | The runner's goroutine (`pc`), the two readers, the reaper, the caller and the processes; the theorems about them. |
| `TaskPlan` | Manifest validation and `BuildPlan`, over every small manifest and selection. |
| `Console` | The goroutine of `execute`, the channel, the commands of Bubble Tea, `Update`, the user, a signal, `Run`. |
| `RunArtifacts` | The run directory: logs, result, manifest, failures, and `VerifyFile`. |
| `DeveloperConsole` | `tickline-dev check`: `TaskPlan`, then `Console` or `RunArtifacts`. |
| `ConsoleProofs` | Theorems about `Console` and `RunArtifacts`, each on its own (`ScreenSpec`, `ArtifactsSpec`). |
| `Viewer`, `ViewerProofs` | Playback, workspace, load session and editor controller with their events; the theorems about them. |
| `MC*` | Values of the constants for TLC: workloads, streams, damage, the initial world of a live run. |

Operators keep the names of the C++, Go, Python and C# functions. Operators
commented as mutants are deliberate errors; no specification uses them. They
show that each property can fail (see `mutants` in `PROJECT.json`).

### Correspondence and abstractions

* **A call is one step** where the code is sequential. `advance` computes on
  copies and commits last, so a throw leaves the world unchanged: the model's
  `advance` returns the old world whenever `advance_result` is an error.
* **Widths are scaled.** `Int64Max`, `UInt64Max`, `MicrosPerSecond`,
  `TickDuration` and the limits are constants; the assumptions relate them the
  way the C++ constructor does, and the proofs use nothing else. In TLC they are
  small enough for clock and positions to reach their limits. In the byte
  formats `ByteBase` and the widths of the integers are scaled the same way, so
  that sizes wrap and two's complement shows.
* **The clock** overflows in the code when the tick index or the elapsed time
  would leave its type. Both checks are kept; with a duration of at least one
  microsecond elapsed time overflows first, and TLC reaches it.
* **Digests are free of collisions.** A digest is the value it digests, so a
  chain is a nested value. The 64-bit FNV-1a fingerprint is abstracted the same
  way: `BytesDetermineWorld` says that the bytes it is taken of determine the
  world, nothing here says that FNV-1a separates them. `Sha256` gives the same
  digest only to the same sequence of blocks.
* **Bytes** are cells: `<<n>>` is the byte n, a longer sequence is a cell of a
  digest. A layout lists the fields of a format; encoder and decoder follow it.
* **Gateway.** The frame of the protocol carries no checksum: damage to the
  payload that leaves a well-formed envelope is, to the server, another command.
  The damage of the model is therefore what the code can detect: wrong lengths,
  the header's fields, an entity number of zero, a payload of another size. That the codec reads back the frames it wrote and
notices this damage (`FramesReadBack`, `DamageIsRefused`) is what the theorems
about the gateway rely on; both hold for the frames of the run, where
`EvidenceIsWhatArrived` fails as soon as the codec loses or lets pass one (its
mutant is such a codec).
* **Archive file.** A write truncates the file and fills it in pieces; a piece
  may end at `CutPoints`. Writers may overlap, fail or die; the operator may
  change a byte. A file system that loses what was acknowledged is left out.
* **SQLite** is external. A connection in a transaction works on a copy that
  COMMIT installs; `BEGIN IMMEDIATE` takes the one RESERVED lock, an unfinished
  SELECT holds a SHARED lock, COMMIT waits for readers and keeps new ones out
  (rollback-journal mode, the code sets no other). The busy handler waits and
  then gives up; SQLite does not call it for a connection that holds a SHARED
  lock and asks for RESERVED. A nested `BEGIN` on one connection fails.
  `Transaction`'s destructor is `Rollback`. Threads that share a store share its
  connection.
* **JSON text**, of bundles and reports, is left out; numbers keep the range
  that exporter and readers check.
* **Exceptions of allocation** are left out.
* **Parser.** The sixteen header bytes are three cells: protocol identification,
  frame size, type with flags. The order of the checks is kept.
* **Runner.** Output is counted in writes; a chunk is an interval of writes. A
  `select` is a choice among enabled actions, so is the moment the grace period
  ends. `readers.Wait(); close(readersDone)` is the predicate `ReadersDone`. A
  sequence number is taken in `ReadChunk` and the event delivered in
  `EmitChunk`, because the code takes the number before the observer's lock.
  The leader and one child stand for the process group; either may ignore
  SIGTERM, redirect its output, or exit at any time, and the child may leave the
  group. Signals act at once. `start`, `read` and `wait` may fail. Texts,
  durations and the non-Linux variant are left out. Processes of a stage that
  outlive it are forgotten when the next stage starts.
* **Console.** The runner is reduced to the events it may emit, in the order
  `Runner` establishes, and to ending once its context is done. Bubble Tea is
  external: one message at a time, one goroutine per command, an end after
  `tea.Quit` or with an error. It also handles signals itself, because
  `tui/run.go:70-74` does not switch that off: at SIGTERM its program ends with
  the model as it is and no error, at SIGINT with an error (Bubble Tea's own
  source, version 2; the repository only names it in `go.mod`). So a signal
  (`ReceiveSignal`) has two effects, each by a goroutine of its own and in either
  order: `CancelParent`, the context of `signal.NotifyContext` in `main.go`, and
  `HandleSignal`. Which signal it was is the choice in `HandleSignal`; one that
  comes before Bubble Tea listens is one it never handles. A log is counted in
  chunks, not bytes.
* **Run directory.** Each call on a file succeeds, fails, or fails after a part.
  The process may be killed between any two calls; afterwards files that were
  not synchronized may lose their end, any file may vanish, and any file but the
  manifest may be edited. Interactive runs write the same record by the same
  code; `DeveloperConsole` follows the record where no interface takes part,
  because the interface never touches it.
* **Viewer.** A bundle is the sequence of its evidence. `SelectOrdinal` and
  `TogglePlayback` are `SelectTimelineIndex` and `StartPlayback` or
  `PausePlayback` with their argument looked up first, and have no action of
  their own. Handlers run inside the call that raises the event.

## 3. Runs

| Run | Question | Distinct states |
| --- | --- | --- |
| `world` | Any sequence of calls on one world: queue, marks, motion, limits, wedging, canonical bytes, refinement of `CommandSchedule`, accepted commands are executed | 24 542 |
| `gateway` | Frames, sessions, pipeline, world and evidence agree, up to a full log | 336 314 |
| `investigation` | Replay, forgeries, budgets, queries, summaries and export of every log of a live run | 6 862 |
| `python` | *violation*: see findings | |
| `archive` | One archive file written by overlapping and failing writers, edited, or with records at the ends of their types | 34 150 |
| `store` | Calls on a database by two callers, statement by statement, with failures and crashes; refinement of `InvestigationLedger`; every call returns | 77 623 |
| `runner` | Results, events, output and cancellation for two stages, every fault allowed; cancellation ends the run | 857 354 |
| `runner_survivor` | *violation*: see findings | |
| `stream_parser` | Reassembly equals parsing in one go, for every cut | 123 091 |
| `stream_parser_independent` | *violation*: see findings | |
| `console` | From the task manifest to the exit code, in the terminal interface or plainly | 648 052 |
| `viewer` | Loads, filters, seeks and playback | 5 676 |

Three runs choose a *workload* in their initial states, so that one run asks its
question of several mixes of callers without multiplying them.

**World.** `Consistent` is the conjunction of five parts that rest on each
other. `QueueOrdered`: the vector is *strictly* sorted, so the unstable sort
never decides. `MarksBoundQueue`, `NewestCommandKept`: queue, marks and executed
sequence agree and the newest command is never lost. `StateWithinLimits` and
`TypeOK`: positions, residuals, clock and integers keep their limits. `NoLogicError`: the
internal errors of `advance` are unreachable. `IntegrationInRange`: the products
and sums inside a tick stay in int64. `ExactMotion`: a tick moves an entity by
exactly velocity times duration, residual included. `ImplementsSchedule`: the
shared vector behaves as one line of commands per entity, in the order of
sequence numbers. `WedgeIsPermanent`: an entity that the next tick would carry
over the limit and that already has a command for a later tick stops the clock
for good, since `target_tick_regression` refuses every command that could turn
it; this is what the code does, and hosts have to know it. `AcceptedIsExecuted`:
an accepted command is executed, or `advance` comes to fail and the command is
still queued. `BytesDetermineWorld`: every field the future depends on can be
read off the canonical bytes.

Bounds: two entities and two sequence numbers let commands of one entity
overtake, collide in a tick and interleave with another's; the target ticks 1
and 3 with a clock that overflows after four let a command be past, next, later
and unreachable; the velocities carry entities to the limit in both directions
with every residual, and one lies beyond the velocity limit. The start positions
include one from which the first tick fails, so that wedges arise at tick 0.

**Gateway.** `EvidenceAgrees` says that log, queue, sessions and world tell one
story: the log verifies and reads back (`EvidenceReadsBack`), the queue is what
it accepted and has not been executed (`QueueMatchesEvidence`), positions follow
from it (`MotionIsEvidenced`), and so do the sessions' marks
(`SessionFollowsEvidence`) and the order of commands an entity received through
two sessions (`EntityOrderAcrossSessions`). `AdmissionIsExact`: a command
reaches the world's queue if and only if it is admissible to validator and
session, whatever was submitted before.
`EvidenceIsWhatArrived` relates the story to the bytes that came in and
(`ToldWhatIsRecorded`) to the answer that went out; a damaged frame changes
nothing. Workloads: two session objects of a client that
reconnected, until the log of three records is full; one envelope for every
check of the validator, from two clients; envelopes at the ends of int64 and
with two-byte numbers, intact and with every kind of damage. The two objects of
the reconnected client are symmetric; only safety is checked here.

**Investigation.** `ReplayReproduces`, with every tick budget, and
`ForgeryDetected`, also with a recomputed chain, are evaluated in every state of
the live run. `BundleAccepted`: summaries are exact (`SummariesExact`), the
exporter accepts what was imported and the viewer accepts what it exports.
`QueryExact`: SQL over blobs, paged with limits 1 and 2, returns what a
definition over the log does. Three
records allow a forgery first, in the middle and last; some ticks of the live run
fail because an entity reaches its limit.

**Archive.** `ReadIsAuthentic`: whatever happened to the file, a read returns the
log of the trusted head or an error. `UndisturbedWriteReadsBack`: a write nobody
disturbed reads back, and a record no server writes is refused.
`AcceptedFileIsCanonical`: only one sequence of bytes is accepted for a log, and
no count or length leads a read out of the file. `DigestsStandardBlocks`: the
blocks digested are those of the standard's padding. The workloads: two writers and
a reader; a writer, a reader and an operator who writes, among others, the byte
that makes the record count wrap the size of the archive; and logs of one record
with every field, and every related pair of fields, at the ends of its type.

**Store.** `StoreSound`: an archive is there with all its records and sessions or
not at all (`ImportsWhole`), a replay result has its archive
(`ReplayedArchiveExists`), and no returned call leaves a transaction, lock or
statement behind (`NothingLeftBehind`). `AnswersHold`: what a call answered is
true, and stays true: the identifier an import returned names its archive, a
recorded replay result is there, and a constructor fails for a fault, a lock that
was not had in time or a newer schema only, whose file is never written.
`BundlesGenuine`: an exported bundle is that of one archive, complete.
`EveryCallReturns`. `ImplementsLedger`: when every caller
has a store of its own, each call takes effect at one moment between invocation
and return; an exporter reads in separate statements, and is still atomic because
of all it reads only the replay result can change once it is there. Threads that
share a store are not atomic to each other (one may read inside the other's
transaction); for them the other properties hold. Workloads: competing imports
and replay results with retries; an exporter that pages with one row per page
while another process writes; two threads on one store; two processes opening a
new or a newer file. One fault (failing statement or crash) per behaviour.

**Parser.** `BufferBounded` and `ReassemblyExact`, the latter against a reference
that sees the whole stream (`CutPoints` walks from frame to frame, `FrameAt` says
where one begins) and uses the documented rejection order. Three items give a frame before, between and after frames and
errors, in all cuts, and resets in the middle of a frame.

**Runner.** `ResultsMatchPlan`: one result per stage, and it is that of the
process; `EventsInOrder`: events are framed (`EventsFramed`) and each stream is
in order (`StreamsInOrder`), all in their types; `OutputComplete`; `CancelledStageIsQuiet`: nothing of
a cancelled stage is left that still holds its output; `CancelEndsRun`. Sequence numbers are unique and rise within a stream;
across the two streams the observer may see them out of order, and nothing in
the repository promises otherwise. Two stages suffice for a stage after a passed
one and a skipped one, two writes for order and for a chunk of more than one
write, one child for a holder, a survivor and an escaped process.

**Console.** `PlanIsRunnable`: the depth-first walks against reachability (an
acyclic manifest is accepted, a plan has every required stage after its
dependencies, a refusal has a reason), for every manifest of four stages and
three dependencies. `ScreenFollowsRunner`: a stage on the screen has the status
that was said of it last and its log the newest chunks without a gap, whatever is
still in the channel or on its way; a screen that calls the run complete has an
outcome for every stage, one that fits the result;
`ReturnsItsResult`: `Run` returns the result of the run it started, except where
a signal made the interface quit before it had shown that result: `Run` then
returns the zero result (`run.go:120-127`), which `check.go` turns into the code
of an internal error, and never the outcome of another run. `EndsOrAsks`: once a
signal came, cancelled, or without its interface, a run ends and the execution is
never left waiting for room in the channel. A channel of one message makes it full
most of the time; two inputs (keys or a signal) allow a cancellation followed by
leaving, and a signal before or after a key. `VerifiedIsTheRun`: a record that passes
verification is the run's (`result.json` its result, the logs of every started
stage its output, complete and in order), whatever failed, was killed, lost or
edited;
`ReportedRunVerifies`: a run that exits with the code of its checks left a record
that verifies.

**Viewer.** `PlaybackExact`: the position is the one the accumulated time leads
to, however updates cut it and at changing speed; `BoundToActive`: exactly the
active workspace is subscribed to; `WindowIsTold`: the window is told of every
change of what it draws (`Shown`: workspace, outcome of the last load, entry,
whether it plays, speed, filters and visible evidence), with one exception the
code makes. A step or a seek calls `Pause` first and raises an event only if it
then moves (`ReplayPlaybackController.cs:123-145`), so Back at the first entry,
or a seek to the entry that is shown, ends playback and no event says so
(`StopsInPlace`). The bundles are an empty one and one whose ticks repeat and go
back.

**Deadlock** is checked except where stopping is the end of the workload:
`archive`, `store` (all calls made) and `viewer` (all loads made, nothing
playing). `Runner` and `Console` have an explicit final step.

**Fairness.** `world`: weak fairness of `Advance` only, the host's tick loop;
nobody has to submit commands. `runner`: weak fairness of the main goroutine
(which includes the timer), of each reader and of the reaper, which is what the
Go scheduler and the kernel give a runnable goroutine. Nothing is assumed of
processes, of the caller, or of failing reads. `CancelEndsRun` is conditional: a
descendant that has left the process group and keeps the pipes open for ever
makes `Run` wait for ever after SIGKILL (`runner.go:423-429`). `console`: weak
fairness of the goroutines and of Bubble Tea's loop, and of the runner ending
once its context is done (what `CancelEndsRun` establishes), and of the goroutine
of `signal.NotifyContext`; a stage need not end by itself, a user need not press a
key, and Bubble Tea need not handle a signal. `store`: weak fairness of each
caller's thread inside a call, including the busy timeout of
`sqlite3_busy_timeout(5000)`; nothing has to be called and nothing has to fail.

### Findings

1. `tools/tickline-dev/README.md:134-136` says the console "sends `SIGTERM`,
   waits for the configured grace period, and sends `SIGKILL` to surviving
   descendants". `terminateAndDrain` returns without SIGKILL once the leader is
   reaped and the readers are done, so a descendant that ignores SIGTERM and has
   redirected its output survives (`runner_survivor`). `CancelledStageIsQuiet`
   states what does hold.
2. `docs/protocol-compatibility.md:81-82` says the stream parser "emits each
   concatenated frame independently". `push` drops the frames it decoded from a
   chunk when a later header of the same chunk is malformed, so which frames
   arrive depends on the transport's cuts (`stream_parser_independent`).
   `ReassemblyExact` states what does hold.
3. The Python tools refuse bundles of honest logs that the exporter writes and
   the viewer accepts (`python`): the replay ends at the tick of the last
   submission, which may lie before a target tick
   (`investigation_bundle.py:521-525`); first and last target tick are those of
   a session's first and last record, not the least and greatest
   (`:574-585`); a command refused for its identity is summarised under the
   identity it claims with the sequence of the session that submitted it
   (`:553-562`). `README.md:265` says "Python validates the same bundle before
   computing statistics or baselines". `BundleAccepted` states what does hold.

Two observations without a run. `record_replay_result` opens its transaction while
the statement that located the archive is unfinished
(`investigation_store.cpp:860`), so SQLite does not call the busy handler there
and the call fails at once when another process is writing, where every other
call would wait. The model has this step (`BeginFails`); the repository promises
nothing about it, and `ImplementsLedger` holds since the failed call has no
effect.

`tools/tickline-dev/README.md:130` gives 130 as the exit code of "Execution was
cancelled". In the terminal interface SIGTERM cancels the execution and also makes
Bubble Tea quit; if it does so before the execution's last message was shown, `Run`
returns the unfinished model's zero result (`tui/run.go:120-127`), whose empty
status `exitCodeForStatus` maps to 3, an internal error, even of a run that passed.
The record on disk has the true status. This rests on Bubble Tea's handling of
signals, which is not in the repository, so it is not counted as a finding. The
model has this end (`LeftUnfinished`), and `ReturnsItsResult` states what does hold.

## 4. Proofs

All proofs are checked by TLAPS; no step is left out. `tlapm M.tla` checks the
module M, one of `WorldLemmas`, `WorldProofs`, `PipelineProofs`,
`StreamParserProofs`, `StoreProofs`, `RunnerProofs`, `ConsoleProofs`,
`ViewerProofs`. The assumptions on constants are the named `ASSUME`s of the
modules; TLC evaluates them in every run.

**Induction.** The library's induction theorems take an operator as a parameter,
which the installed provers cannot instantiate. Where a proof needs induction it
is stated about sets instead: a set of naturals that contains 0 and with each
number the next contains all of them (`NatSets`), which follows from the least
element of its complement. The recursive *functions* of the model (`Replaying`,
`AdvanceTimes`, `Rechaining`, the playback's `Advance`, the reference parser's
`CutPoints`) are shown to exist that way and can then be reasoned about.
`RECURSIVE` operators, the folds of the library and what is built from them
remain out of reach.

**World.** From the assumptions on the constants (`WorldModel`, `World`):
durations and limits are positive naturals, the velocity limit satisfies the
constructor's bound, the integer maxima are large enough for the limits.

The properties are not inductive one by one. `NoLogicError` needs that queued
commands lie in the future (`QueueInv`) and that the three maps have the same
keys (`SameKeys`). That needs `OrderedQueue`, because `advance` removes a prefix
and the rest must be later. `OrderedQueue` is *strict* only because a new command
has a greater sequence than every queued one of its entity, which is the relation
of the queue to the marks. `SequenceInv` is what makes "last in the due prefix"
mean "newest", and `NewestInv` depends on it. `IntegrationInRange` needs the
velocity limit for queued commands (`QueueInv`) and a residual below one
millimetre (`MotionInv`). Their conjunction with the type is `WorldInv`, checked
by TLC through the properties of run `world`, and preserved by each call
(`AddEntityInv`, `QueueVelocityInv`, `AdvanceInv`). The main lemmas are
`TruncSplit` (quotient and remainder of truncating division), `SortInserts`
(inserting into a strictly sorted sequence keeps it so), `DueSplit` and
`KeepSuffix` (due commands are a prefix, the rest is a suffix).

Theorems: `WorldTypeOK`, `WorldQueueOrdered`, `WorldMarksBoundQueue`,
`WorldNewestCommandKept`, `WorldStateWithinLimits`, `WorldNoLogicError`,
`WorldConsistent` (the conjunction of the first five), `WorldIntegrationInRange`,
`WorldExactMotion`, `WorldWedgeIsPermanent`. The last is an action property. An
entity is wedged when the next tick, with the commands due in it, would carry it
over the limit and its mark `latest_target_tick` lies beyond that tick.
`queue_velocity` refuses every command before the mark, hence no other becomes
due at the next tick; `advance` fails and changes nothing; `add_entity` refuses a
known entity.

**Schedule.** `WorldImplementsSchedule` is the refinement of `CommandSchedule`,
which has one line of commands per entity and neither a shared queue nor a sort.
The line of an entity is the part of the queue that is the entity's, in order.
`WorldProofs` describes that part by the places of the entity in the queue
and the rank of each place among them, so that two parts are equal when there is
a monotone map between their places (`KeepSame`). The step simulation needs three
facts from `WorldInv`: an accepted command is inserted somewhere in the middle of
the queue, but after every command of its own entity, since its sequence and its
target tick exceed theirs (`LineJoined`), and it shifts the places of the others
without changing their order (`LineUntouched`); a tick removes a prefix of the
queue, which is a prefix of every line (`KeepRest`, `LineTaken`), and the command
in force afterwards is the last of the entity's that it removed (`AdvanceForce`).

**Pipeline.** `EvidenceAgrees` and `AdmissionIsExact` speak about log, sessions
and world; their inductive strengthening `Inv` keeps the parts that are inductive
(`EvidenceReadsBack`, `EntityOrderAcrossSessions`, `AdmissionIsExact`) and replaces
the others. `QueueMatchesEvidence` counts; `OpenInv` instead says that the set of
queued commands is that of accepted records whose tick is to come, and the count
follows because two accepted records of an entity never share a sequence.
`MotionIsEvidenced` and `SessionFollowsEvidence` choose a greatest record;
`ExecutedInv` and `SessionInv` say what that record is without choosing.
`MarksInv`, the world's marks are not below any accepted record, carries
`EntityOrderAcrossSessions`: it is the only thing two session objects of one
client share. `WorldInv` of the pipeline's world is kept by the lemmas of
`WorldLemmas`, which take any world. Submission is split by `SubmitCases` into a
full log, an accepted and a refused command. Theorems: `PipelineEvidenceAgrees`,
`PipelineAdmissionIsExact`.

**Gateway.** `GatewayTellsWhatIsRecorded` assumes nothing of the codec: whatever
decoding makes of a frame, the caller is told what the last record says, because
the answer and the record are made of one evaluation. The other theorems take the
codec's contract as hypotheses: `FramesReadBack` and `DamageIsRefused`, equations
between folds over bytes that the provers cannot evaluate; run `gateway`, which
assumes nothing, shows what they say with the codec's bytes. Under them every step of
the gateway is a step of `CommandPipeline` or none (`GatewayImplementsPipeline`),
from which the pipeline's theorems carry over (`GatewayEvidenceAgrees`), and the
log is the sequence of intact frames as long as it has room (`ArrivedInv`,
`GatewayEvidenceIsWhatArrived`).

**Replay.** `ReplayReproducesTheRun` and `ReplayFindsForgery` hold for logs of any
length, every budget and every initial world of the right shape (`IsWorld`). The
inductive invariant of the live run, `Live`, says that replaying the log so far
ends as `ReplayReproduces` says, for every budget at once (`ReplayedSoFar`), that
no record stops it, and that the log is the one chain over its entries. Submitting
and replaying use the same `evaluate` and `submit`, so a new record is reproduced
once the replay stands at the same session, log and world (`ReplayFollowsSubmit`);
the work is in getting there, past ticks on which nothing was recorded and past
ticks that failed: a failed tick changes nothing (`AdvanceSteps`), so the number
of ticks between two records is the difference of their ticks
(`AdvanceCount`). For a forgery the replay of the records before it is that of the
honest log, since the chain up to there is the same (`RechainAgrees`). At the
forged record a changed tick is told by the fingerprint, which binds the tick index
(`FingerprintTellsTick`), and anything else by submitting the envelope again, which
gives the record the honest run has (`ForgeryFails`). Digest and fingerprint are
free of collisions in the model, so the theorem says that replay compares all it
has to, not that FNV-1a is strong.

**Stream parser.** `Inv` adds to type and bound that a parser inside `push` has
not failed. `HeaderFacts` shows that the verdict on a header depends on its own
cells only, so the second, strict parse of a complete buffer agrees with the
first; hence its failure branch is dead code. `ReassemblyInv` says what has been
read of the stream pushed so far: a list of frames one behind the other, each where
the last ended, and a rest, which is the buffer followed by the input still to be
taken (`Reads`); after a failure the rest begins with what caused it, and a prefix
of the frames was delivered (`Stopped`). Both survive more input, because a frame
and a fault stay where they are in a longer stream (`FrameLonger`). Their positions
are those of the reference parser by induction. Theorems: `ParserTypeOK`,
`ParserBufferBounded`, `ParserReassemblyExact`.

**Store.** For any callers, connections, workload, number of faults and result of
SQLite's choices. `StoreInv` relates three things that change at different moments:
the committed file, the working copy of a connection and what callers hold in
their hands. `Owners` says that a copy exists exactly while one thread is inside
the transaction's statements, also when threads share the connection, where a
nested `BEGIN` fails. `Progressed` says, for each statement of each transaction,
what the copy is by then: the file itself, the file with some of the rows of one
new archive (`Inserting`), or, before COMMIT, a database that is whole and extends
the file (`Committing`). That is what makes COMMIT safe and a rollback at any other
place harmless. It stays true because nobody else can commit meanwhile: a second
writer does not get the lock. `Versions` and `Alone` say that a store is used only
after its constructor, on the current schema, and that a newer file is untouched.
`Told` keeps what was answered true of every later file, since commits only
extend. Steps are proved by kind (a statement that changes the frame only, one that
writes the copy, COMMIT, rollback, crash). Besides the assumptions of the modules
nothing is used but that an archive's digest names it (`ArchiveAssumption`).
Theorems: `StoreInvariant`, `StoreIsSound`, `AnswersStayTrue`.

**Runner.** For every plan, every non-empty set of streams, any capacity of a
pipe and any fault. `Inv` has two layers. `StageInv` is about the goroutines: a
channel that was received from tells what its goroutine saw (`ChannelInv`: the
readers are gone before the leader is reaped), and a reader that met the end of
its stream leaves nobody who could write (`StreamEndInv`). From it follow
`RunnerOutputComplete` and `RunnerCancelledStageIsQuiet`. `AccountInv` is about
what the observer was told, and rests on the first: no reader is under way
between stages, so no output event can follow the end of its stage. Its hard part
is the window between taking a sequence number and delivering the event:
`CounterInv` keeps the numbers of undelivered chunks apart from each other and
from all delivered ones, and `ToldInv` says how far the observer has been told of
a stream, which is where the undelivered chunk begins. Theorems:
`RunnerEventsInOrder`, `RunnerResultsMatchPlan`. The assumption that there is a
stream is needed: without readers `reaped` would say nothing about the pipes.

**Console.** `DeveloperConsole` reaches the recursive `TaskPlan`, from which
nothing can be proved, so the theorems are about its two halves on their own.
They carry over: every step of `DeveloperConsole` is a step of `ScreenNext` or
leaves `screenVars` alone, and the same for `ArtifactsNext`.
`ConsoleReturnsItsResult`: `Run` takes its result from the model if the interface
quit and from the execution if it failed, so they must agree, unless a signal made
it quit with a model that has no result yet. `HonestInv`
follows the message that ends the run through queue, channel and command: it
exists only after the execution has ended, and carries its status and error.
`CompletedInv` says the same of a model that has applied it, and that any other
has the zero result; `LeavingInv` that the interface is left by a complete run, a
signal or a failure only.
`ConsoleScreenFollowsRunner`: `CarriedInv` accounts for every message: applied, in
the hand of the one goroutine that fetches, or in the channel, in the order of
sending. `TracedInv` describes what the execution has said and still has to say,
as a sequence in which stages begin and end in turn and chunks are numbered without
gap. `Shows` states the screen by the number of messages applied; together they are
`ShownInv`. At the end the trace says how every stage went, hence so does the screen.
`ConsoleReportedRunVerifies`: in `RecordInv` an error of the log store has reached
`persist.error` before the manifest is considered; from `Build` on the targets
exist; and nothing the manifest lists changes while it is written, because it does
not list itself. `ConsoleVerifiedIsTheRun`: `TruthInv` says that the logs are what
the runner said as long as no call failed, that the result is on disk before the
manifest is made, and that a manifest with any content is truthful (`Truthful`).
Edits, lost data and kills may come at any time afterwards; they change files, never
what the manifest says of them, so verification fails or the files are the run's.

**Viewer.** `Inv` adds to `BoundToActive` that the visible evidence of the
active workspace is what its filters leave (`WorkspaceInv`), without which a
filter that changes nothing could change the screen, and that numbers of
workspaces are not reused (`NumberInv`). `PlaybackInv` says that the position is
where the playing time leads; for the loop of `Advance`, `Running` says of each
iteration that what was taken off the accumulated time has moved the position, or
that the last entry was reached. The action property needs it too: an update raises
an event only when it moved, so playback that it stops must have moved
(`AdvanceMovesOrStops`), and a step or a seek that does not move changes nothing but
that it no longer plays (`SeekMovesOrStops`). Theorems: `ViewerBoundToActive`,
`ViewerPlaybackExact` and `ViewerWindowIsTold`.

**Only model-checked.**
* Liveness: `AcceptedIsExecuted`, `CancelEndsRun`, `EndsOrAsks`,
  `EveryCallReturns`. The prover has no rule for fairness.
* What `RECURSIVE` operators and the library's folds compute: `PlanIsRunnable`
  (the depth-first walk `visit`), and whatever encodes or decodes bytes by a
  layout: `BytesDetermineWorld`, the contract of the codec behind the gateway, and
  the archive's `ReadIsAuthentic`, `UndisturbedWriteReadsBack`,
  `AcceptedFileIsCanonical` and `DigestsStandardBlocks`.
* `BundleAccepted` and `QueryExact`: exporter, queries and summaries are functions
  of a log, compared with definitions over it through sorting, paging and
  `SelectSeq`; run `investigation` compares them for every log of a live run.
* `BundlesGenuine` and `ImplementsLedger`, which rest on the exporter being the
  same function of what it read over four statements. `StoreInv` covers its steps
  but says nothing about the pages it holds.

## 5. Not modelled

* The compression function of SHA-256 and the arithmetic of FNV-1a: bit
  operations with published test vectors.
* Allocation failure; the reuse of a process identifier between reaping and
  signalling. Both are listed as hazards without a property.
* JSON parsing and writing, the tab-separated task manifest, argument parsing:
  stateless text formats. What they carry is modelled where it is used.
* Views, styles and the sanitizer of the console, drawing of the viewer,
  analytics, baselines and reports of the Python tools, environment diagnostics,
  the workflow catalogue: formatting and aggregation without state.
* Build and release scripts, CI.

## 6. Plan

The model covers the components the repository names, and the theorems every
component with state whose properties do not rest on decoding bytes. What is left,
by what it would tell:

1. The refinement of `InvestigationLedger` for callers with a store of their own,
   and with it `BundlesGenuine`: `StoreInv` has to be extended by what an exporter
   holds between its statements.
2. `EvidenceArchive`: `ReadIsAuthentic`, from the chain of digests alone.
3. The codec's contract, by stating its layouts as recursive functions.
