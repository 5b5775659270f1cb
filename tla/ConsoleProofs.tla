---------------------------- MODULE ConsoleProofs ----------------------------
(***************************************************************************)
(* What a verification run shows, returns and leaves on disk, for any plan, *)
(* any capacity of the channel and any amount of output.                    *)
(***************************************************************************)
EXTENDS Console, RunArtifacts, FiniteSetTheorems, TLAPS

-----------------------------------------------------------------------------
(* The terminal interface.                                                  *)

RunnerKinds == {"started", "output", "finished", "skipped", "cancellation", "run"}

Statuses == {"none", "passed", "failed", "internal-error", "cancelled"}

Messages ==
    [kind : RunnerKinds \cup {"run_finished"}, stage : Nat, status : Statuses,
     chunk : Nat, error : BOOLEAN]

ModelFields ==
    {"stages", "logs", "logTruncated", "selected", "completed", "cancelling",
     "result", "runError"}

IsModel(m) == DOMAIN m = ModelFields /\ m.completed \in BOOLEAN

ScreenTypes ==
    /\ exec \in [pc : {"between", "stage", "draining", "finished"}, stage : Stages,
                 outputs : Nat, queue : Seq(Messages), status : Statuses,
                 error : BOOLEAN]
    /\ channel \in Seq(Messages)
    /\ waits \in Seq(Messages \cup {Waiting})
    /\ IsModel(model)
    /\ ui \in {"running", "quit", "failed"}
    /\ main \in [pc : {"interface", "await", "returned"}, result : Statuses,
                 error : BOOLEAN]
    /\ signal \in BOOLEAN

(* A message that ends the run exists only once the execution has ended,    *)
(* and carries its result.                                                  *)
Honest(x, m) ==
    m.kind = "run_finished" =>
        x.pc = "finished" /\ m.status = x.status /\ m.error = x.error

HonestAll(x, s) == \A i \in DOMAIN s : Honest(x, s[i])

HonestInv ==
    HonestAll(exec, exec.queue) /\ HonestAll(exec, channel) /\ HonestAll(exec, waits)

(* A model that calls the run complete has the result of the execution, and *)
(* any other has the zero result.                                           *)
CompletedInv ==
    /\ model.completed =>
          /\ exec.pc = "finished"
          /\ model.result = exec.status /\ model.runError = exec.error
    /\ ~model.completed => model.result = "none" /\ model.runError = FALSE

(* The interface is left by a complete run, at a signal or by a failure,    *)
(* and Run goes on only after it.                                           *)
LeavingInv ==
    /\ ui = "quit" => model.completed \/ signal
    /\ main.pc # "interface" => ui # "running"

ScreenInv ==
    ScreenTypes /\ HonestInv /\ CompletedInv /\ LeavingInv /\ ReturnsItsResult

(* A runner's event changes the stages, the logs, the selection or the      *)
(* cancellation, never the completion.                                      *)
LEMMA ApplyKeeps ==
    ASSUME NEW m, IsModel(m), NEW e, e.kind \in RunnerKinds
    PROVE  LET n == applyRunnerEvent(m, e) IN
           /\ IsModel(n) /\ n.completed = m.completed
           /\ n.result = m.result /\ n.runError = m.runError
<1> DEFINE n == applyRunnerEvent(m, e)
           Keeps(x) == /\ IsModel(x) /\ x.completed = m.completed
                       /\ x.result = m.result /\ x.runError = m.runError
<1>1. ASSUME NEW s, NEW v, NEW u
      PROVE  /\ Keeps(m)
             /\ Keeps([m EXCEPT !.stages[s] = v])
             /\ Keeps([m EXCEPT !.stages[s] = v, !.selected = u])
             /\ Keeps([m EXCEPT !.logs[s] = v])
             /\ Keeps([m EXCEPT !.logs[s] = v, !.logTruncated[s] = u])
             /\ Keeps([m EXCEPT !.cancelling = v])
    BY DEF IsModel, ModelFields
<1> HIDE DEF Keeps
<1>2. ASSUME e.kind = "started" PROVE Keeps(n)
    BY <1>1, <1>2 DEF applyRunnerEvent
<1>3. ASSUME e.kind = "output" PROVE Keeps(n)
    BY <1>1, <1>3 DEF applyRunnerEvent, appendStageOutput
<1>4. ASSUME e.kind \in {"finished", "skipped"} PROVE Keeps(n)
    BY <1>1, <1>4 DEF applyRunnerEvent
<1>5. ASSUME e.kind = "cancellation" PROVE Keeps(n)
    BY <1>1, <1>5 DEF applyRunnerEvent
<1>6. ASSUME e.kind = "run" PROVE Keeps(n)
    BY <1>1, <1>6 DEF applyRunnerEvent
<1> HIDE DEF n
<1>7. Keeps(n)
    BY <1>2, <1>3, <1>4, <1>5, <1>6 DEF RunnerKinds
<1> QED BY <1>7 DEF Keeps, n

(* Taking an element out leaves the others.                                 *)
LEMMA RemoveAtFacts ==
    ASSUME NEW S, NEW s \in Seq(S), NEW i \in DOMAIN s
    PROVE  /\ RemoveAt(s, i) \in Seq(S)
           /\ \A j \in DOMAIN RemoveAt(s, i) : \E k \in DOMAIN s :
                 RemoveAt(s, i)[j] = s[k]
<1> DEFINE a == SubSeq(s, 1, i - 1)
           b == SubSeq(s, i + 1, Len(s))
<1>1. Len(s) \in Nat /\ DOMAIN s = 1 .. Len(s) /\ i \in 1 .. Len(s)
    OBVIOUS
<1>2. a \in Seq(S) /\ Len(a) = i - 1 /\ \A j \in 1 .. i - 1 : a[j] = s[j]
    BY <1>1
<1>3. b \in Seq(S) /\ Len(b) = Len(s) - i /\ \A j \in 1 .. Len(s) - i : b[j] = s[i + j]
    BY <1>1
<1>4. RemoveAt(s, i) = a \o b
    BY DEF RemoveAt
<1> HIDE DEF a, b
<1>5. a \o b \in Seq(S) /\ DOMAIN (a \o b) = 1 .. Len(s) - 1
  <2>0. a \in Seq(S) /\ b \in Seq(S)
      BY <1>2, <1>3
  <2>1. Len(a \o b) = Len(a) + Len(b) /\ a \o b \in Seq(S)
      BY <2>0
  <2>2. Len(a) + Len(b) = Len(s) - 1
      BY <1>1, <1>2, <1>3
  <2>3. DOMAIN (a \o b) = 1 .. Len(a \o b)
      BY <2>1
  <2> QED BY <2>1, <2>2, <2>3
<1>6. ASSUME NEW j \in 1 .. Len(s) - 1
      PROVE  \E k \in DOMAIN s : (a \o b)[j] = s[k]
  <2>1. CASE j <= i - 1
    <3>1. (a \o b)[j] = s[j] /\ j \in DOMAIN s
        BY <1>1, <1>2, <1>3, <2>1
    <3> QED BY <3>1
  <2>2. CASE j > i - 1
    <3>1. (a \o b)[j] = b[j - (i - 1)] /\ j - (i - 1) \in 1 .. Len(s) - i
        BY SMTT(30), <1>1, <1>2, <1>3, <2>2
    <3>2. b[j - (i - 1)] = s[i + (j - (i - 1))] /\ i + (j - (i - 1)) \in DOMAIN s
        BY <1>1, <1>3, <3>1
    <3> QED BY <3>1, <3>2
  <2>3. j <= i - 1 \/ j > i - 1
      BY <1>1
  <2> QED BY <2>1, <2>2, <2>3
<1> QED BY <1>4, <1>5, <1>6

(* Honesty depends on how the execution ended, and before its end there is  *)
(* no message that could be dishonest.                                      *)
LEMMA HonestMoves ==
    ASSUME NEW x, NEW y, NEW s, HonestAll(x, s),
           \/ x.pc # "finished"
           \/ y.pc = x.pc /\ y.status = x.status /\ y.error = x.error
    PROVE  HonestAll(y, s)
BY DEF HonestAll, Honest

(* Honest sequences stay honest when elements are taken out or added.       *)
LEMMA HonestSequences ==
    ASSUME NEW x, NEW S, NEW s \in Seq(S), HonestAll(x, s)
    PROVE  /\ s # <<>> => /\ Head(s) \in S /\ Honest(x, Head(s))
                          /\ Tail(s) \in Seq(S) /\ HonestAll(x, Tail(s))
           /\ \A m \in S : Honest(x, m) =>
                 Append(s, m) \in Seq(S) /\ HonestAll(x, Append(s, m))
           /\ \A i \in DOMAIN s : /\ s[i] \in S /\ Honest(x, s[i])
                                  /\ RemoveAt(s, i) \in Seq(S)
                                  /\ HonestAll(x, RemoveAt(s, i))
<1>1. ASSUME s # <<>>
      PROVE  /\ Head(s) \in S /\ Honest(x, Head(s))
             /\ Tail(s) \in Seq(S) /\ HonestAll(x, Tail(s))
  <2>1. Len(s) \in Nat \ {0} /\ DOMAIN s = 1 .. Len(s) /\ Head(s) = s[1] /\ 1 \in DOMAIN s
      BY <1>1
  <2>2. /\ Tail(s) \in Seq(S) /\ DOMAIN Tail(s) = 1 .. Len(s) - 1
        /\ \A i \in 1 .. Len(s) - 1 : Tail(s)[i] = s[i + 1]
      BY <1>1
  <2>3. \A i \in 1 .. Len(s) - 1 : i + 1 \in DOMAIN s
      BY <2>1
  <2> QED BY <2>1, <2>2, <2>3 DEF HonestAll
<1>2. ASSUME NEW m \in S, Honest(x, m)
      PROVE  Append(s, m) \in Seq(S) /\ HonestAll(x, Append(s, m))
  <2>1. /\ Append(s, m) \in Seq(S) /\ DOMAIN Append(s, m) = 1 .. Len(s) + 1
        /\ \A i \in 1 .. Len(s) : Append(s, m)[i] = s[i]
        /\ Append(s, m)[Len(s) + 1] = m
        /\ Len(s) \in Nat /\ DOMAIN s = 1 .. Len(s)
      OBVIOUS
  <2>2. ASSUME NEW i \in 1 .. Len(s) + 1
        PROVE  Honest(x, Append(s, m)[i])
    <3>1. CASE i = Len(s) + 1
        BY <1>2, <2>1, <3>1
    <3>2. CASE i # Len(s) + 1
      <4>1. i \in DOMAIN s /\ Append(s, m)[i] = s[i]
          BY <2>1, <3>2
      <4> QED BY <4>1 DEF HonestAll
    <3> QED BY <3>1, <3>2
  <2> QED BY <2>1, <2>2 DEF HonestAll
<1>3. ASSUME NEW i \in DOMAIN s
      PROVE  /\ s[i] \in S /\ Honest(x, s[i])
             /\ RemoveAt(s, i) \in Seq(S) /\ HonestAll(x, RemoveAt(s, i))
  <2>1. s[i] \in S /\ Honest(x, s[i])
      BY DEF HonestAll
  <2>2. /\ RemoveAt(s, i) \in Seq(S)
        /\ \A j \in DOMAIN RemoveAt(s, i) : \E k \in DOMAIN s : RemoveAt(s, i)[j] = s[k]
      BY RemoveAtFacts
  <2>3. HonestAll(x, RemoveAt(s, i))
    <3> SUFFICES ASSUME NEW j \in DOMAIN RemoveAt(s, i)
                 PROVE  Honest(x, RemoveAt(s, i)[j])
        BY DEF HonestAll
    <3>1. PICK k \in DOMAIN s : RemoveAt(s, i)[j] = s[k]
        BY <2>2
    <3> QED BY <3>1 DEF HonestAll
  <2> QED BY <2>1, <2>2, <2>3
<1> QED BY <1>1, <1>2, <1>3

(* Two honest sequences make an honest one.                                 *)
LEMMA HonestConcat ==
    ASSUME NEW x, NEW S, NEW s \in Seq(S), NEW t \in Seq(S),
           HonestAll(x, s), HonestAll(x, t)
    PROVE  s \o t \in Seq(S) /\ HonestAll(x, s \o t)
<1>1. s \o t \in Seq(S) /\ Len(s \o t) = Len(s) + Len(t)
    OBVIOUS
<1>2. Len(s) \in Nat /\ Len(t) \in Nat /\ DOMAIN s = 1 .. Len(s) /\ DOMAIN t = 1 .. Len(t)
    OBVIOUS
<1>3. DOMAIN (s \o t) = 1 .. Len(s) + Len(t)
    BY <1>1
<1>4. ASSUME NEW i \in 1 .. Len(s) + Len(t)
      PROVE  Honest(x, (s \o t)[i])
  <2>1. CASE i <= Len(s)
    <3>1. i \in DOMAIN s /\ (s \o t)[i] = s[i]
        BY <1>2, <2>1
    <3> QED BY <3>1 DEF HonestAll
  <2>2. CASE i > Len(s)
    <3>1. i - Len(s) \in DOMAIN t /\ (s \o t)[i] = t[i - Len(s)]
        BY <1>2, <2>2
    <3> QED BY <3>1 DEF HonestAll
  <2>3. i <= Len(s) \/ i > Len(s)
      BY <1>2
  <2> QED BY <2>1, <2>2, <2>3
<1> QED BY <1>1, <1>3, <1>4 DEF HonestAll

(* The messages of a stage, and what ends a run.                            *)
LEMMA MessageTypes ==
    ASSUME NEW st \in Nat
    PROVE  /\ RunEvent \in Messages /\ RunEvent.kind = "run"
           /\ \A k \in RunnerKinds : Event(k, st) \in Messages /\ Event(k, st).kind = k
           /\ \A n \in Nat : Output(st, n) \in Messages /\ Output(st, n).kind = "output"
           /\ \A s \in Statuses : Finished(st, s) \in Messages
                                  /\ Finished(st, s).kind = "finished"
           /\ \A s \in Statuses, b \in BOOLEAN :
                 /\ RunFinishedMsg(s, b) \in Messages
                 /\ RunFinishedMsg(s, b).status = s /\ RunFinishedMsg(s, b).error = b
<1>1. ASSUME NEW k \in RunnerKinds \cup {"run_finished"}, NEW t \in Nat
      PROVE  Event(k, t) \in Messages /\ Event(k, t).kind = k
    BY DEF Event, Messages, Statuses
<1>2. RunEvent \in Messages /\ RunEvent.kind = "run"
    BY <1>1 DEF RunEvent, RunnerKinds
<1>3. ASSUME NEW e \in Messages, NEW n \in Nat, NEW s \in Statuses
      PROVE  /\ [e EXCEPT !.chunk = n] \in Messages
             /\ [e EXCEPT !.chunk = n].kind = e.kind
             /\ [e EXCEPT !.status = s] \in Messages
             /\ [e EXCEPT !.status = s].kind = e.kind
    BY DEF Messages
<1>4. ASSUME NEW n \in Nat
      PROVE  Output(st, n) \in Messages /\ Output(st, n).kind = "output"
  <2>1. Event("output", st) \in Messages /\ Event("output", st).kind = "output"
      BY <1>1 DEF RunnerKinds
  <2>2. "none" \in Statuses
      BY DEF Statuses
  <2> QED BY <1>3, <2>1, <2>2 DEF Output
<1>5. ASSUME NEW s \in Statuses
      PROVE  Finished(st, s) \in Messages /\ Finished(st, s).kind = "finished"
  <2>1. Event("finished", st) \in Messages /\ Event("finished", st).kind = "finished"
      BY <1>1 DEF RunnerKinds
  <2> QED BY <1>3, <2>1 DEF Finished
<1>6. ASSUME NEW s \in Statuses, NEW b \in BOOLEAN
      PROVE  /\ RunFinishedMsg(s, b) \in Messages
             /\ RunFinishedMsg(s, b).status = s /\ RunFinishedMsg(s, b).error = b
  <2> DEFINE e == Event("run_finished", 0)
  <2>1. e \in Messages
      BY <1>1
  <2> HIDE DEF e
  <2>2. /\ [e EXCEPT !.status = s, !.error = b] \in Messages
        /\ [e EXCEPT !.status = s, !.error = b].status = s
        /\ [e EXCEPT !.status = s, !.error = b].error = b
      BY <2>1 DEF Messages
  <2>3. RunFinishedMsg(s, b) = [e EXCEPT !.status = s, !.error = b]
      BY Zenon DEF RunFinishedMsg, e
  <2> QED BY <2>2, <2>3
<1>7. ASSUME NEW k \in RunnerKinds
      PROVE  Event(k, st) \in Messages /\ Event(k, st).kind = k
    BY <1>1
<1> QED BY <1>2, <1>4, <1>5, <1>6, <1>7

(* The execution goes on, with messages that do not end the run.            *)
LEMMA EmitsKeeps ==
    ASSUME ScreenInv, exec.pc # "finished",
           NEW m \in Messages, m.kind # "run_finished",
           NEW pc \in {"between", "stage", "draining"}, NEW stage \in Stages,
           NEW outs \in Nat, Emits(<<m>>, pc, stage, outs)
    PROVE  ScreenInv'
<1>1. /\ exec' = [exec EXCEPT !.pc = pc, !.stage = stage, !.outputs = outs,
                              !.queue = <<m>>]
      /\ channel' = channel /\ waits' = waits /\ model' = model /\ ui' = ui
      /\ main' = main /\ signal' = signal
    BY DEF Emits, interfaceVars
<1>2. <<m>> \in Seq(Messages) /\ DOMAIN <<m>> = {1} /\ <<m>>[1] = m
    OBVIOUS
<1>3. ScreenTypes'
  <2>1. exec' \in [pc : {"between", "stage", "draining", "finished"}, stage : Stages,
                   outputs : Nat, queue : Seq(Messages), status : Statuses,
                   error : BOOLEAN]
      BY <1>1, <1>2 DEF ScreenInv, ScreenTypes
  <2> QED BY <1>1, <2>1 DEF ScreenInv, ScreenTypes
<1>4. HonestInv'
  <2>1. exec'.queue = <<m>>
      BY <1>1 DEF ScreenInv, ScreenTypes
  <2>2. HonestAll(exec', <<m>>)
      BY <1>2 DEF HonestAll, Honest
  <2>3. HonestAll(exec', channel) /\ HonestAll(exec', waits)
      BY HonestMoves DEF ScreenInv, HonestInv
  <2> QED BY <1>1, <2>1, <2>2, <2>3 DEF HonestInv
<1>5. ~model.completed /\ ~Returned
    BY DEF ScreenInv, CompletedInv, ReturnsItsResult, executionDone
<1>6. CompletedInv' /\ LeavingInv' /\ ReturnsItsResult'
    BY <1>1, <1>5 DEF ScreenInv, CompletedInv, LeavingInv, ReturnsItsResult, Returned
<1> QED BY <1>3, <1>4, <1>6 DEF ScreenInv

(* The execution ends, and its last message says how.                       *)
LEMMA EndsKeeps ==
    ASSUME ScreenInv, exec.pc # "finished", NEW status \in Statuses, Ends(status)
    PROVE  ScreenInv'
<1> DEFINE first == exec.stage + 1
           last(b) == <<RunEvent, RunFinishedMsg(status, b)>>
           q(b) == <<Finished(exec.stage, status)>> \o Skipped(first) \o last(b)
<1>1. PICK b \in BOOLEAN :
         /\ exec' = [exec EXCEPT !.pc = "finished", !.status = status, !.error = b,
                                 !.queue = q(b)]
         /\ channel' = channel /\ waits' = waits /\ model' = model /\ ui' = ui
         /\ main' = main /\ signal' = signal
    BY DEF Ends, interfaceVars
<1>2. exec.stage \in Stages /\ exec.stage \in Nat /\ PlanLength \in Nat
    BY ConsoleAssumption DEF ScreenInv, ScreenTypes, Stages
<1> DEFINE n == PlanLength - first + 1
           u == <<Finished(exec.stage, status)>>
           s == Skipped(first)
<1>3. n \in Nat
    BY <1>2 DEF Stages
<1>4. s \in Seq(Messages) /\ \A i \in DOMAIN s : s[i].kind = "skipped"
  <2>1. s = [i \in 1 .. n |-> Event("skipped", first + i - 1)]
      BY DEF Skipped
  <2>2. \A i \in 1 .. n : /\ Event("skipped", first + i - 1) \in Messages
                          /\ Event("skipped", first + i - 1).kind = "skipped"
    <3> TAKE i \in 1 .. n
    <3>1. first + i - 1 \in Nat
        BY <1>2, <1>3
    <3> QED BY <3>1, MessageTypes DEF RunnerKinds
  <2> HIDE DEF n, s
  <2> QED BY <1>3, <2>1, <2>2
<1>5. /\ u \in Seq(Messages) /\ DOMAIN u = {1} /\ u[1].kind = "finished"
      /\ last(b) \in Seq(Messages) /\ DOMAIN last(b) = 1 .. 2
      /\ last(b)[1].kind = "run" /\ last(b)[2] = RunFinishedMsg(status, b)
    BY <1>2, MessageTypes
<1>6. q(b) \in Seq(Messages)
  <2> HIDE DEF u, s, last
  <2>1. u \o s \in Seq(Messages)
      BY <1>4, <1>5
  <2>2. (u \o s) \o last(b) \in Seq(Messages)
      BY <1>5, <2>1
  <2> QED BY <2>2 DEF u, s
<1>7. HonestAll(exec', q(b))
  <2>1. /\ exec'.pc = "finished" /\ exec'.status = status /\ exec'.error = b
      BY <1>1 DEF ScreenInv, ScreenTypes
  <2>2. HonestAll(exec', u) /\ HonestAll(exec', s)
      BY <1>4, <1>5 DEF HonestAll, Honest
  <2>3. HonestAll(exec', last(b))
    <3>1. Honest(exec', last(b)[1]) /\ Honest(exec', last(b)[2])
        BY <1>2, <1>5, <2>1, MessageTypes DEF Honest
    <3>2. \A i \in 1 .. 2 : i = 1 \/ i = 2
        OBVIOUS
    <3> HIDE DEF last
    <3> QED BY <1>5, <3>1, <3>2 DEF HonestAll
  <2> HIDE DEF u, s, last
  <2>4. u \o s \in Seq(Messages) /\ HonestAll(exec', u \o s)
      BY <1>4, <1>5, <2>2, HonestConcat
  <2>5. HonestAll(exec', (u \o s) \o last(b))
      BY <1>5, <2>3, <2>4, HonestConcat
  <2> QED BY <2>5 DEF u, s
<1> HIDE DEF q
<1>8. ScreenTypes'
  <2>1. exec' \in [pc : {"between", "stage", "draining", "finished"}, stage : Stages,
                   outputs : Nat, queue : Seq(Messages), status : Statuses,
                   error : BOOLEAN]
      BY <1>1, <1>6 DEF ScreenInv, ScreenTypes
  <2> QED BY <1>1, <2>1 DEF ScreenInv, ScreenTypes
<1>9. HonestInv'
  <2>1. exec'.queue = q(b)
      BY <1>1 DEF ScreenInv, ScreenTypes
  <2>2. HonestAll(exec', channel) /\ HonestAll(exec', waits)
      BY HonestMoves DEF ScreenInv, HonestInv
  <2> QED BY <1>1, <1>7, <2>1, <2>2 DEF HonestInv
<1>10. ~model.completed /\ ~Returned
    BY DEF ScreenInv, CompletedInv, ReturnsItsResult, executionDone
<1>11. CompletedInv' /\ LeavingInv' /\ ReturnsItsResult'
    BY <1>1, <1>10 DEF ScreenInv, CompletedInv, LeavingInv, ReturnsItsResult, Returned
<1> QED BY <1>8, <1>9, <1>11 DEF ScreenInv

(* Every step of the goroutine of execute is one of the two.                *)
LEMMA ExecuteKeeps ==
    ASSUME ScreenInv, Execute
    PROVE  ScreenInv'
<1>1. /\ exec.stage \in Stages /\ exec.stage \in Nat /\ exec.outputs \in Nat
      /\ PlanLength \in Nat
    BY ConsoleAssumption DEF ScreenInv, ScreenTypes, Stages
<1>2. CASE StartStage
  <2> DEFINE m == Event("started", exec.stage)
  <2>1. m \in Messages /\ m.kind = "started"
      BY <1>1, MessageTypes DEF RunnerKinds
  <2>2. exec.pc # "finished" /\ Emits(<<m>>, "stage", exec.stage, 0)
      BY <1>2 DEF StartStage, Decides
  <2> HIDE DEF m
  <2> QED BY <1>1, <2>1, <2>2, EmitsKeeps
<1>3. CASE StageOutput
  <2> DEFINE m == Output(exec.stage, exec.outputs + 1)
  <2>1. m \in Messages /\ m.kind = "output"
      BY <1>1, MessageTypes
  <2>2. /\ exec.pc \in {"between", "stage", "draining"} /\ exec.pc # "finished"
        /\ Emits(<<m>>, exec.pc, exec.stage, exec.outputs + 1)
      BY <1>3 DEF StageOutput, Decides
  <2> HIDE DEF m
  <2> QED BY <1>1, <2>1, <2>2, EmitsKeeps
<1>4. CASE StagePasses
  <2>1. exec.pc # "finished" /\ "passed" \in Statuses
      BY <1>4 DEF StagePasses, Decides, Statuses
  <2>2. CASE exec.stage = PlanLength
      BY <1>4, <2>1, <2>2, EndsKeeps DEF StagePasses
  <2>3. CASE exec.stage # PlanLength
    <3> DEFINE m == Finished(exec.stage, "passed")
    <3>1. m \in Messages /\ m.kind = "finished"
        BY <1>1, <2>1, MessageTypes
    <3>2. Emits(<<m>>, "between", exec.stage + 1, 0) /\ exec.stage + 1 \in Stages
        BY <1>1, <1>4, <2>3 DEF StagePasses, Stages
    <3> HIDE DEF m
    <3> QED BY <2>1, <3>1, <3>2, EmitsKeeps
  <2> QED BY <2>2, <2>3
<1>5. CASE StageFails
  <2>1. PICK s \in {"failed", "internal-error"} : Ends(s)
      BY <1>5 DEF StageFails
  <2>2. exec.pc # "finished" /\ s \in Statuses
      BY <1>5 DEF StageFails, Decides, Statuses
  <2> QED BY <2>1, <2>2, EndsKeeps
<1>6. CASE DrainStage
  <2> DEFINE m == Event("cancellation", exec.stage)
  <2>1. m \in Messages /\ m.kind = "cancellation"
      BY <1>1, MessageTypes DEF RunnerKinds
  <2>2. exec.pc # "finished" /\ Emits(<<m>>, "draining", exec.stage, exec.outputs)
      BY <1>6 DEF DrainStage, Decides
  <2> HIDE DEF m
  <2> QED BY <1>1, <2>1, <2>2, EmitsKeeps
<1>7. CASE RunCancelled
  <2>1. exec.pc # "finished" /\ Ends("cancelled") /\ "cancelled" \in Statuses
      BY <1>7 DEF RunCancelled, Decides, Statuses
  <2> QED BY <2>1, EndsKeeps
<1> QED BY <1>2, <1>3, <1>4, <1>5, <1>6, <1>7 DEF Execute

(* sendMessage moves an honest message, or drops it.                        *)
LEMMA SendKeeps ==
    ASSUME ScreenInv, SendMessage
    PROVE  ScreenInv'
<1> DEFINE q == exec.queue
<1>1. q \in Seq(Messages) /\ q # <<>> /\ channel \in Seq(Messages)
    BY DEF ScreenInv, ScreenTypes, SendMessage
<1>2. HonestAll(exec, q) /\ HonestAll(exec, channel) /\ HonestAll(exec, waits)
    BY DEF ScreenInv, HonestInv
<1>3. /\ exec' = [exec EXCEPT !.queue = Tail(q)]
      /\ channel' \in {Append(channel, Head(q)), channel}
      /\ waits' = waits /\ model' = model /\ ui' = ui /\ main' = main
      /\ signal' = signal
    BY DEF SendMessage, interfaceVars
<1>4. ~Returned
    BY <1>1 DEF ScreenInv, ReturnsItsResult, executionDone
<1>5. /\ Head(q) \in Messages /\ Honest(exec, Head(q))
      /\ Tail(q) \in Seq(Messages) /\ HonestAll(exec, Tail(q))
    BY <1>1, <1>2, HonestSequences
<1>6. channel' \in Seq(Messages) /\ HonestAll(exec, channel')
  <2>1. Append(channel, Head(q)) \in Seq(Messages) /\ HonestAll(exec, Append(channel, Head(q)))
      BY <1>1, <1>2, <1>5, HonestSequences
  <2> QED BY <1>1, <1>2, <1>3, <2>1
<1>7. /\ exec'.pc = exec.pc /\ exec'.status = exec.status /\ exec'.error = exec.error
      /\ exec'.queue = Tail(q)
    BY <1>3 DEF ScreenInv, ScreenTypes
<1>8. ScreenTypes'
  <2>1. exec' \in [pc : {"between", "stage", "draining", "finished"}, stage : Stages,
                   outputs : Nat, queue : Seq(Messages), status : Statuses,
                   error : BOOLEAN]
      BY <1>3, <1>5 DEF ScreenInv, ScreenTypes
  <2> QED BY <1>3, <1>6, <2>1 DEF ScreenInv, ScreenTypes
<1>9. HonestInv'
  <2>1. /\ HonestAll(exec', Tail(q)) /\ HonestAll(exec', channel')
        /\ HonestAll(exec', waits)
      BY <1>2, <1>5, <1>6, <1>7, HonestMoves
  <2> QED BY <1>3, <1>7, <2>1 DEF HonestInv
<1>10. CompletedInv' /\ LeavingInv' /\ ReturnsItsResult'
    BY <1>3, <1>4, <1>7
       DEF ScreenInv, CompletedInv, LeavingInv, ReturnsItsResult, Returned
<1> QED BY <1>8, <1>9, <1>10 DEF ScreenInv

(* A command takes the oldest message of the channel.                       *)
LEMMA TakeKeeps ==
    ASSUME ScreenInv, NEW i \in DOMAIN waits, TakeMessage(i)
    PROVE  ScreenInv'
<1> DEFINE W == Messages \cup {Waiting}
           w == [waits EXCEPT ![i] = Head(channel)]
<1>1. /\ waits' = w /\ channel' = Tail(channel) /\ channel # <<>> /\ ui = "running"
      /\ exec' = exec /\ model' = model /\ ui' = ui /\ main' = main
      /\ signal' = signal
    BY DEF TakeMessage
<1>2. channel \in Seq(Messages) /\ waits \in Seq(W)
    BY DEF ScreenInv, ScreenTypes
<1>3. HonestAll(exec, exec.queue) /\ HonestAll(exec, channel) /\ HonestAll(exec, waits)
    BY DEF ScreenInv, HonestInv
<1>4. /\ Head(channel) \in Messages /\ Honest(exec, Head(channel))
      /\ Tail(channel) \in Seq(Messages) /\ HonestAll(exec, Tail(channel))
    BY <1>1, <1>2, <1>3, HonestSequences
<1>5. w \in Seq(W)
  <2> HIDE DEF W
  <2>1. Head(channel) \in W
      BY <1>4 DEF W
  <2> QED BY <1>2, <2>1
<1>6. HonestAll(exec, w)
  <2>1. DOMAIN w = DOMAIN waits /\ \A j \in DOMAIN waits : w[j] \in {waits[j], Head(channel)}
      BY <1>2
  <2> QED BY <1>3, <1>4, <2>1 DEF HonestAll
<1> HIDE DEF w
<1>7. ScreenTypes' /\ HonestInv'
    BY <1>1, <1>3, <1>4, <1>5, <1>6 DEF ScreenInv, ScreenTypes, HonestInv
<1>8. CompletedInv' /\ LeavingInv' /\ ReturnsItsResult'
    BY <1>1 DEF ScreenInv, CompletedInv, LeavingInv, ReturnsItsResult, Returned,
                LeftUnfinished, executionDone
<1> QED BY <1>7, <1>8 DEF ScreenInv

(* Update with a message: only the one that ends the run completes the      *)
(* model, and an honest one has its result.                                 *)
LEMMA DeliverKeeps ==
    ASSUME ScreenInv, NEW i \in DOMAIN waits, Deliver(i)
    PROVE  ScreenInv'
<1> DEFINE W == Messages \cup {Waiting}
           message == waits[i]
           rest == RemoveAt(waits, i)
<1>1. /\ ui = "running" /\ message # Waiting
      /\ exec' = exec /\ channel' = channel /\ main' = main /\ signal' = signal
    BY DEF Deliver
<1>2. waits \in Seq(W) /\ HonestAll(exec, waits)
    BY DEF ScreenInv, ScreenTypes, HonestInv
<1>3. /\ message \in W /\ Honest(exec, message)
      /\ rest \in Seq(W) /\ HonestAll(exec, rest)
    BY <1>2, HonestSequences
<1>4. message \in Messages /\ IsModel(model) /\ main.pc = "interface"
    BY <1>1, <1>3 DEF ScreenInv, ScreenTypes, LeavingInv
<1>5. ASSUME message.kind = "run_finished"
      PROVE  /\ waits' \in Seq(W) /\ HonestAll(exec, waits')
             /\ IsModel(model') /\ ui' \in {"running", "quit"}
             /\ model'.completed /\ exec.pc = "finished"
             /\ model'.result = exec.status /\ model'.runError = exec.error
  <2>1. /\ model' = [model EXCEPT !.completed = TRUE, !.result = message.status,
                                  !.runError = message.error]
        /\ waits' = rest /\ ui' \in {"running", "quit"}
      BY <1>1, <1>5 DEF Deliver
  <2>2. /\ exec.pc = "finished" /\ message.status = exec.status
        /\ message.error = exec.error
      BY <1>3, <1>5 DEF Honest
  <2>3. /\ IsModel(model') /\ model'.completed
        /\ model'.result = message.status /\ model'.runError = message.error
      BY <1>4, <2>1 DEF IsModel, ModelFields
  <2> QED BY <1>3, <2>1, <2>2, <2>3
<1>6. ASSUME message.kind # "run_finished"
      PROVE  /\ waits' \in Seq(W) /\ HonestAll(exec, waits')
             /\ IsModel(model') /\ ui' = "running"
             /\ model'.completed = model.completed
             /\ model'.result = model.result /\ model'.runError = model.runError
  <2>1. /\ model' = applyRunnerEvent(model, message)
        /\ waits' = rest \o waitForEvent(model') /\ ui' = "running"
      BY <1>1, <1>6 DEF Deliver
  <2>2. message.kind \in RunnerKinds
      BY <1>4, <1>6 DEF Messages
  <2>3. /\ IsModel(model') /\ model'.completed = model.completed
        /\ model'.result = model.result /\ model'.runError = model.runError
      BY <1>4, <2>1, <2>2, ApplyKeeps
  <2>4. waitForEvent(model') \in {<<>>, <<Waiting>>}
      BY DEF waitForEvent
  <2>5. /\ <<>> \in Seq(W) /\ HonestAll(exec, <<>>)
        /\ <<Waiting>> \in Seq(W) /\ HonestAll(exec, <<Waiting>>)
    <3>1. Waiting.kind = "waiting" /\ Waiting \in W
        BY DEF Waiting, Event
    <3>2. DOMAIN <<Waiting>> = {1} /\ <<Waiting>>[1] = Waiting
        OBVIOUS
    <3>3. HonestAll(exec, <<Waiting>>)
        BY <3>1, <3>2 DEF HonestAll, Honest
    <3>4. HonestAll(exec, <<>>)
        BY DEF HonestAll
    <3>5. <<>> \in Seq(W) /\ <<Waiting>> \in Seq(W)
        BY <3>1
    <3> QED BY <3>3, <3>4, <3>5
  <2>6. waits' \in Seq(W) /\ HonestAll(exec, waits')
      BY <1>3, <2>1, <2>4, <2>5, HonestConcat
  <2> QED BY <2>1, <2>3, <2>6
<1>7. /\ waits' \in Seq(W) /\ HonestAll(exec, waits') /\ IsModel(model')
      /\ ui' \in {"running", "quit"} /\ (ui' = "quit" => model'.completed)
      /\ model'.completed => /\ exec.pc = "finished" /\ model'.result = exec.status
                             /\ model'.runError = exec.error
      /\ ~model'.completed => model'.result = "none" /\ model'.runError = FALSE
  <2>1. CASE message.kind = "run_finished"
      BY <1>5, <2>1
  <2>2. CASE message.kind # "run_finished"
      BY <1>6, <2>2 DEF ScreenInv, CompletedInv
  <2> QED BY <2>1, <2>2
<1>8. ScreenTypes' /\ HonestInv'
    BY <1>1, <1>7 DEF ScreenInv, ScreenTypes, HonestInv
<1>9. CompletedInv' /\ LeavingInv' /\ ReturnsItsResult'
    BY <1>1, <1>4, <1>7 DEF CompletedInv, LeavingInv, ReturnsItsResult, Returned
<1> QED BY <1>8, <1>9 DEF ScreenInv

(* A key moves the selection, asks for the cancellation, or leaves a run    *)
(* that is complete.                                                        *)
LEMMA KeyKeeps ==
    ASSUME ScreenInv, Keyboard
    PROVE  ScreenInv'
<1>1. /\ ui = "running" /\ exec' = exec /\ channel' = channel /\ main' = main
      /\ signal' = signal
    BY DEF Keyboard, PressQ, PressCtrlC, PressEnter, PressSelect, SelectStage, Press
<1>2. waits' = waits
  <2>1. waits \o <<>> = waits
      BY DEF ScreenInv, ScreenTypes
  <2> QED BY <2>1 DEF Keyboard, PressQ, PressCtrlC, PressEnter, PressSelect, SelectStage,
                      requestCancellation, leave, key_command
<1>3. /\ IsModel(model') /\ model'.completed = model.completed
      /\ model'.result = model.result /\ model'.runError = model.runError
  <2>1. ASSUME NEW v
        PROVE  LET a == [model EXCEPT !.selected = v]
                   b == [model EXCEPT !.cancelling = TRUE]
               IN  /\ IsModel(a) /\ a.completed = model.completed
                   /\ a.result = model.result /\ a.runError = model.runError
                   /\ IsModel(b) /\ b.completed = model.completed
                   /\ b.result = model.result /\ b.runError = model.runError
      BY DEF ScreenInv, ScreenTypes, IsModel, ModelFields
  <2>2. \/ model' = model
        \/ model' = [model EXCEPT !.cancelling = TRUE]
        \/ \E v : model' = [model EXCEPT !.selected = v]
      BY DEF Keyboard, PressQ, PressCtrlC, PressEnter, PressSelect, SelectStage,
             requestCancellation, leave
  <2>3. IsModel(model)
      BY DEF ScreenInv, ScreenTypes
  <2> QED BY <2>1, <2>2, <2>3
<1>4. ui' = "running" \/ (ui' = "quit" /\ model.completed)
    BY <1>1 DEF Keyboard, PressQ, PressCtrlC, PressEnter, PressSelect, SelectStage,
                requestCancellation, leave, may_leave
<1>5. main.pc = "interface"
    BY <1>1 DEF ScreenInv, ScreenTypes, LeavingInv
<1>6. ScreenTypes' /\ HonestInv'
    BY <1>1, <1>2, <1>3, <1>4 DEF ScreenInv, ScreenTypes, HonestInv
<1>7. CompletedInv' /\ LeavingInv' /\ ReturnsItsResult'
    BY <1>1, <1>3, <1>4, <1>5
       DEF ScreenInv, CompletedInv, LeavingInv, ReturnsItsResult, Returned
<1> QED BY <1>6, <1>7 DEF ScreenInv

(* Run waits for the execution, then returns what the model was told or, if *)
(* the interface failed, what the execution itself says.                    *)
LEMMA RunKeeps ==
    ASSUME ScreenInv, InterfaceFails \/ HandleSignal \/ CloseInterface \/ Return
    PROVE  ScreenInv'
<1>1. /\ exec' = exec /\ channel' = channel /\ waits' = waits /\ model' = model
      /\ signal' = signal
    BY DEF InterfaceFails, HandleSignal, CloseInterface, Return
<1>2. ASSUME InterfaceFails \/ HandleSignal
      PROVE  /\ ui = "running" /\ ui' \in {"quit", "failed"} /\ main' = main
             /\ ui' = "quit" => signal
    BY <1>2 DEF InterfaceFails, HandleSignal
<1>3. ASSUME CloseInterface
      PROVE  ui' = ui /\ ui # "running" /\ main' = [main EXCEPT !.pc = "await"]
    BY <1>3 DEF CloseInterface
<1>4. ASSUME Return
      PROVE  /\ ui' = ui /\ executionDone /\ main.pc = "await" /\ main'.pc = "returned"
             /\ IF LeftUnfinished
                THEN signal /\ main'.result = "none" /\ main'.error = FALSE
                ELSE /\ main'.result = exec.status
                     /\ main'.error <=> (exec.error \/ ui = "failed")
             /\ main' \in [pc : {"interface", "await", "returned"}, result : Statuses,
                           error : BOOLEAN]
  <2>1. ui' = ui /\ executionDone /\ main.pc = "await"
      BY <1>4 DEF Return
  <2>2. exec.status \in Statuses /\ exec.error \in BOOLEAN
      BY DEF ScreenInv, ScreenTypes
  <2>3. CASE ui = "failed"
    <3>1. main' = [pc |-> "returned", result |-> exec.status, error |-> TRUE]
        BY <1>4, <2>3 DEF Return
    <3> QED BY <2>1, <2>2, <2>3, <3>1 DEF LeftUnfinished
  <2>4. CASE ui # "failed"
    <3>1. main' = [pc |-> "returned", result |-> model.result, error |-> model.runError]
        BY <1>4, <2>4 DEF Return
    <3>2. ui = "quit" /\ (model.completed \/ signal)
        BY <2>1, <2>4 DEF ScreenInv, ScreenTypes, LeavingInv
    <3>3. CASE model.completed
      <4>1. model.result = exec.status /\ model.runError = exec.error
          BY <3>3 DEF ScreenInv, CompletedInv
      <4> QED BY <2>1, <2>2, <2>4, <3>1, <3>3, <4>1 DEF LeftUnfinished
    <3>4. CASE ~model.completed
      <4>1. model.result = "none" /\ model.runError = FALSE /\ "none" \in Statuses
          BY <3>4 DEF ScreenInv, CompletedInv, Statuses
      <4> QED BY <2>1, <3>1, <3>2, <3>4, <4>1 DEF LeftUnfinished
    <3> QED BY <3>3, <3>4
  <2> QED BY <2>3, <2>4
<1>5. main.pc = "interface" \/ ui # "running"
    BY DEF ScreenInv, LeavingInv
<1>6. ScreenTypes' /\ HonestInv'
  <2>1. main' \in [pc : {"interface", "await", "returned"}, result : Statuses,
                   error : BOOLEAN]
      BY <1>2, <1>3, <1>4 DEF ScreenInv, ScreenTypes
  <2>2. ui' \in {"running", "quit", "failed"}
      BY <1>2, <1>3, <1>4 DEF ScreenInv, ScreenTypes
  <2> QED BY <1>1, <2>1, <2>2 DEF ScreenInv, ScreenTypes, HonestInv
<1>7. CompletedInv'
    BY <1>1 DEF ScreenInv, CompletedInv
<1>8. CASE InterfaceFails \/ HandleSignal
    BY <1>1, <1>2, <1>5, <1>6, <1>7, <1>8
       DEF ScreenInv, ScreenTypes, LeavingInv, ReturnsItsResult, Returned
<1>9. CASE CloseInterface
  <2>1. main'.pc = "await"
      BY <1>3, <1>9 DEF ScreenInv, ScreenTypes
  <2> QED BY <1>1, <1>3, <1>6, <1>7, <1>9, <2>1
         DEF ScreenInv, LeavingInv, ReturnsItsResult, Returned
<1>10. CASE Return
    BY <1>1, <1>4, <1>5, <1>6, <1>7, <1>10
       DEF ScreenInv, LeavingInv, ReturnsItsResult, Returned, LeftUnfinished, executionDone
<1> QED BY <1>8, <1>9, <1>10

(* The invariant holds from the start.                                      *)
LEMMA ScreenInvStarts == ScreenInit => ScreenInv
<1> SUFFICES ASSUME ScreenInit PROVE ScreenInv
    OBVIOUS
<1>1. /\ exec = [pc |-> "between", stage |-> 1, outputs |-> 0, queue |-> <<RunEvent>>,
                 status |-> "passed", error |-> FALSE]
      /\ channel = <<>> /\ model = NewModel /\ ui = "running"
      /\ main = [pc |-> "interface", result |-> "none", error |-> FALSE]
      /\ signal = FALSE
    BY DEF ScreenInit
<1>2. /\ IsModel(model) /\ ~model.completed
      /\ model.result = "none" /\ model.runError = FALSE
    BY <1>1 DEF NewModel, IsModel, ModelFields
<1>3. waits = <<Waiting>>
    BY <1>1, <1>2 DEF ScreenInit, waitForEvent
<1>4. RunEvent \in Messages /\ RunEvent.kind = "run"
    BY MessageTypes
<1>5. ScreenTypes
  <2>1. <<RunEvent>> \in Seq(Messages) /\ 1 \in Stages /\ "passed" \in Statuses
        /\ "none" \in Statuses
      BY <1>4, ConsoleAssumption DEF Stages, Statuses
  <2>2. exec \in [pc : {"between", "stage", "draining", "finished"}, stage : Stages,
                  outputs : Nat, queue : Seq(Messages), status : Statuses,
                  error : BOOLEAN]
      BY <1>1, <2>1
  <2>3. waits \in Seq(Messages \cup {Waiting})
      BY <1>3
  <2>4. main \in [pc : {"interface", "await", "returned"}, result : Statuses,
                  error : BOOLEAN]
      BY <1>1, <2>1
  <2>5. channel \in Seq(Messages) /\ ui \in {"running", "quit", "failed"}
      BY <1>1
  <2>6. signal \in BOOLEAN
      BY <1>1
  <2> QED BY <1>2, <2>2, <2>3, <2>4, <2>5, <2>6 DEF ScreenTypes
<1>6. HonestInv
  <2>1. exec.queue = <<RunEvent>>
      BY <1>1
  <2>2. DOMAIN <<RunEvent>> = {1} /\ <<RunEvent>>[1] = RunEvent
        /\ DOMAIN <<Waiting>> = {1} /\ <<Waiting>>[1] = Waiting
      OBVIOUS
  <2>3. Waiting.kind = "waiting"
      BY DEF Waiting, Event
  <2>4. /\ HonestAll(exec, <<RunEvent>>) /\ HonestAll(exec, <<Waiting>>)
        /\ HonestAll(exec, <<>>)
      BY <1>4, <2>2, <2>3 DEF HonestAll, Honest
  <2> QED BY <1>1, <1>3, <2>1, <2>4 DEF HonestInv
<1>7. CompletedInv /\ LeavingInv /\ ReturnsItsResult
    BY <1>1, <1>2 DEF CompletedInv, LeavingInv, ReturnsItsResult, Returned
<1> QED BY <1>5, <1>6, <1>7 DEF ScreenInv

(* Every step keeps it.                                                     *)
LEMMA ScreenInvKept == ScreenInv /\ [ScreenNext]_screenVars => ScreenInv'
<1> SUFFICES ASSUME ScreenInv, [ScreenNext]_screenVars PROVE ScreenInv'
    OBVIOUS
<1>1. ASSUME exec' = exec, channel' = channel, waits' = waits, model' = model,
             ui' = ui, main' = main, signal' = signal \/ signal' = TRUE
      PROVE  ScreenInv'
    BY <1>1 DEF ScreenInv, ScreenTypes, HonestInv, CompletedInv, LeavingInv,
                ReturnsItsResult, Returned, LeftUnfinished, executionDone
<1>2. CASE ReceiveSignal \/ CancelParent
    BY <1>1, <1>2 DEF ReceiveSignal, CancelParent, interfaceVars
<1>3. CASE Execute
    BY <1>3, ExecuteKeeps
<1>4. CASE SendMessage
    BY <1>4, SendKeeps
<1>5. CASE Interface
    BY <1>5, TakeKeeps, DeliverKeeps DEF Interface
<1>6. CASE Keyboard
    BY <1>6, KeyKeeps
<1>7. CASE InterfaceFails \/ HandleSignal \/ CloseInterface \/ Return
    BY <1>7, RunKeeps
<1>8. CASE Done \/ UNCHANGED screenVars
    BY <1>1, <1>8 DEF Done, screenVars
<1> QED BY <1>2, <1>3, <1>4, <1>5, <1>6, <1>7, <1>8 DEF ScreenNext, Signals

(* Run returns the result of the execution: whatever the length of the      *)
(* plan, the room in the channel, the keys that were pressed and the        *)
(* messages still under way when the interface ended, the status is the one *)
(* the execution reached and the error says whether persisting or the       *)
(* interface failed.  Only a signal that ended the interface before it had  *)
(* shown the result makes Run return the zero result instead, without an    *)
(* error and never another run's outcome (tui/run.go:104-127).              *)
THEOREM ConsoleReturnsItsResult == ScreenSpec => []ReturnsItsResult
<1>1. ScreenInv => ReturnsItsResult
    BY DEF ScreenInv
<1> QED BY <1>1, ScreenInvStarts, ScreenInvKept, PTL DEF ScreenSpec

-----------------------------------------------------------------------------
(* The record of a run.                                                     *)

FileOfManifest == files[ManifestFile]

(* A record whose manifest lists every target as it is.                     *)
Recorded ==
    /\ FileOfManifest.exists /\ FileOfManifest.data = <<Manifest>>
    /\ \A f \in targets : files[f].exists

(* Nothing is disturbed while the process lives; an error of the log store  *)
(* reaches persist.error before the manifest is considered; the targets     *)
(* exist from Build on, and the manifest is empty until it is written.      *)
RecordInv ==
    /\ Files \subseteq DOMAIN files
    /\ logWriteError \in BOOLEAN /\ persist.error \in BOOLEAN /\ disturbed \in Nat
    /\ Alive => disturbed = 0
    /\ run.pc # "finished" => persist.pc = "runner"
    /\ persist.pc # "runner" /\ logWriteError => persist.error
    /\ Alive /\ persist.pc \in {"create_manifest", "write_manifest"} =>
          \A f \in targets : files[f].exists
    /\ Alive /\ persist.pc = "write_manifest" => FileOfManifest = Empty
    /\ Alive /\ persist.pc = "close" /\ ~persist.error => Recorded
    /\ Alive => persist.pc # "closed"
    /\ exit \in {"success", "check_failed", "interrupted"} /\ disturbed = 0 => Recorded

(* A record of that kind verifies.                                          *)
LEMMA RecordedVerifies == Recorded => VerifyFile
<1> SUFFICES ASSUME Recorded PROVE VerifyFile
    OBVIOUS
<1> DEFINE m == FileOfManifest.data[1]
<1>1. m = Manifest /\ FileOfManifest.data # <<>> /\ FileOfManifest.exists
    BY DEF Recorded
<1>2. DOMAIN m = targets /\ \A f \in targets : m[f] = Digest(files[f])
    BY <1>1 DEF Manifest
<1>3. \A f \in targets : files[f].exists
    BY DEF Recorded
<1> HIDE DEF m
<1>4. \A f \in DOMAIN m : files[f].exists /\ Digest(files[f]) = m[f]
    BY <1>2, <1>3
<1> QED BY <1>1, <1>4 DEF VerifyFile, FileOfManifest, m

(* The manifest is not one of the files it lists.                           *)
LEMMA TargetFacts ==
    /\ ManifestFile \in Files /\ ResultFile \in Files
    /\ targets \subseteq Files /\ ManifestFile \notin targets
<1>1. ManifestFile # ResultFile /\ ManifestFile \notin LogFiles
    BY ArtifactsAssumption DEF ManifestFile, ResultFile, LogFiles, PlannedStages
<1> QED BY <1>1 DEF targets, Files

(* The outcomes of an output event.                                         *)
StoreWrites(stream, chunk) ==
    UNION {writeOutput(o, run.stage, stream, chunk) : o \in ensureStage(run.stage)}

(* What the store makes of an event keeps every file in the directory.      *)
LEMMA ObserveKeeps ==
    ASSUME Files \subseteq DOMAIN files, logWriteError \in BOOLEAN,
           \/ Observe(ensureStage(run.stage))
           \/ \E stream, chunk : Observe(StoreWrites(stream, chunk))
           \/ Observe(Nothing)
    PROVE  Files \subseteq (DOMAIN files)' /\ logWriteError' \in BOOLEAN
<1> DEFINE Kept(o) == /\ DOMAIN o = {"files", "open", "failed"}
                      /\ Files \subseteq DOMAIN o.files /\ o.failed \in BOOLEAN
<1>1. ASSUME NEW fs, Files \subseteq DOMAIN fs, NEW op, NEW b \in BOOLEAN
      PROVE  Kept(Outcome(fs, op, b))
    BY <1>1 DEF Outcome
<1>2. \A o \in Nothing : Kept(o)
    BY <1>1 DEF Nothing
<1>3. \A o \in ensureStage(run.stage) : Kept(o)
  <2>1. ASSUME NEW n \in 0 .. 3
        PROVE  LET logs == StageLogs(run.stage)
                   made == [files EXCEPT ![logs[1]] = IF n >= 1 THEN Empty ELSE @,
                                         ![logs[2]] = IF n >= 2 THEN Empty ELSE @,
                                         ![logs[3]] = IF n = 3 THEN Empty ELSE @]
               IN  Kept(Outcome(made, IF n = 3 THEN open \cup {run.stage} ELSE open,
                                n # 3))
      BY <1>1
  <2> HIDE DEF Kept
  <2>2. Kept(Outcome(files, open, FALSE))
      BY <1>1
  <2> QED BY <2>1, <2>2 DEF ensureStage
<1>4. ASSUME NEW o, Kept(o), NEW f, NEW chunk, NEW w \in writeAll(o, f, chunk)
      PROVE  Kept(w)
    BY <1>4 DEF writeAll
<1>5. ASSUME NEW o, Kept(o), NEW s, NEW stream, NEW chunk,
             NEW w \in writeOutput(o, s, stream, chunk)
      PROVE  Kept(w)
  <2> HIDE DEF Kept
  <2> QED BY <1>4, <1>5 DEF writeOutput
<1>6. ASSUME NEW outcomes, \A o \in outcomes : Kept(o), Observe(outcomes)
      PROVE  Files \subseteq (DOMAIN files)' /\ logWriteError' \in BOOLEAN
    BY <1>6 DEF Observe
<1> HIDE DEF Kept
<1>7. ASSUME NEW stream, NEW chunk
      PROVE  \A o \in StoreWrites(stream, chunk) : Kept(o)
    BY <1>3, <1>5 DEF StoreWrites
<1> QED BY <1>2, <1>3, <1>6, <1>7

(* A step of the runner only touches the log files and the error of their   *)
(* store, and comes before anything is persisted.                           *)
LEMMA RunnerStepKeeps ==
    ASSUME RecordInv,
           \/ StageStarted \/ StageFinished \/ StageCancelled
           \/ \E stream \in Streams : StageOutputs(stream)
    PROVE  RecordInv'
<1>1. /\ exit = "none" /\ persist.pc = "runner" /\ persist' = persist
      /\ exit' = exit /\ disturbed' = disturbed
    BY DEF StageStarted, StageFinished, StageCancelled, StageOutputs, Finishes,
           Running, Alive, unpersisted
<1>2. \/ Observe(ensureStage(run.stage))
      \/ \E stream, chunk : Observe(StoreWrites(stream, chunk))
      \/ Observe(Nothing)
  <2>1. CASE StageStarted
      BY <2>1 DEF StageStarted
  <2>2. CASE StageFinished \/ StageCancelled
      BY <2>2 DEF StageFinished, StageCancelled, Finishes
  <2>3. CASE \E stream \in Streams : StageOutputs(stream)
    <3>1. PICK stream \in Streams : StageOutputs(stream)
        BY <2>3
    <3>2. Observe(StoreWrites(stream, Len(outputs) + 1))
        BY <3>1 DEF StageOutputs, StoreWrites
    <3> QED BY <3>2
  <2> QED BY <2>1, <2>2, <2>3
<1>3. Files \subseteq (DOMAIN files)' /\ logWriteError' \in BOOLEAN
    BY <1>2, ObserveKeeps DEF RecordInv
<1> QED BY <1>1, <1>3 DEF RecordInv, Alive

(* A step of persistRunArtifacts, and the exit.                             *)
LEMMA PersistStepKeeps ==
    ASSUME RecordInv,
           \/ RunnerReturns \/ CreateResult \/ WriteResult \/ Build
           \/ CreateManifest \/ WriteManifest \/ CloseAndExit
    PROVE  RecordInv'
<1> USE TargetFacts
<1>1. /\ exit = "none" /\ disturbed = 0 /\ disturbed' = disturbed
      /\ run.pc = "finished" /\ run' = run /\ logWriteError' = logWriteError
      /\ targets' = targets
    BY DEF RecordInv, RunnerReturns, CreateResult, WriteResult, Build, CreateManifest,
           WriteManifest, CloseAndExit, CreateArtifact, CompleteArtifact, Persisting,
           Alive, afterwards, targets
<1>2. ASSUME NEW pc, NEW b \in BOOLEAN, Goes(pc, b)
      PROVE  /\ persist'.pc = pc /\ persist'.error = (persist.error \/ b)
             /\ persist'.error \in BOOLEAN
    BY <1>2 DEF Goes, RecordInv
<1>3. CASE RunnerReturns
  <2>1. /\ files' = files /\ exit' = exit /\ persist.pc = "runner"
        /\ Goes("create_result", logWriteError)
      BY <1>3 DEF RunnerReturns, Persisting
  <2>2. /\ persist'.pc = "create_result" /\ persist'.error \in BOOLEAN
        /\ logWriteError => persist'.error
      BY <1>2, <2>1 DEF RecordInv
  <2> QED BY <1>1, <2>1, <2>2 DEF RecordInv, Alive
<1>4. ASSUME NEW f \in Files, NEW from, NEW to,
             CreateArtifact(f, from, to) \/ \E c : CompleteArtifact(f, c, from, to)
      PROVE  /\ exit' = exit /\ persist.pc = from
             /\ \A g \in Files \ {f} : files'[g] = files[g]
             /\ Files \subseteq DOMAIN files'
             /\ persist'.error \in BOOLEAN /\ (persist.error => persist'.error)
             /\ \/ persist'.pc = to
                \/ persist'.pc = "close" /\ persist'.error
  <2>1. /\ exit' = exit /\ persist.pc = from
        /\ Goes(to, FALSE) \/ Goes("close", TRUE)
      BY <1>4 DEF CreateArtifact, CompleteArtifact, Persisting, afterwards
  <2>2. /\ DOMAIN files' = DOMAIN files /\ \A g \in Files \ {f} : files'[g] = files[g]
      BY <1>4 DEF CreateArtifact, CompleteArtifact, RecordInv
  <2>3. /\ persist'.error \in BOOLEAN /\ (persist.error => persist'.error)
        /\ \/ persist'.pc = to
           \/ persist'.pc = "close" /\ persist'.error
    <3>1. CASE Goes(to, FALSE)
        BY <1>2, <3>1
    <3>2. CASE Goes("close", TRUE)
        BY <1>2, <3>2
    <3> QED BY <2>1, <3>1, <3>2
  <2> QED BY <2>1, <2>2, <2>3 DEF RecordInv
<1>5. CASE CreateResult
  <2>1. /\ exit' = exit /\ persist.pc = "create_result"
        /\ Files \subseteq DOMAIN files'
        /\ persist'.error \in BOOLEAN /\ (persist.error => persist'.error)
        /\ \/ persist'.pc = "write_result"
           \/ persist'.pc = "close" /\ persist'.error
      BY <1>4, <1>5 DEF CreateResult
  <2> QED BY <1>1, <2>1 DEF RecordInv, Alive
<1>6. CASE WriteResult
  <2>1. /\ exit' = exit /\ persist.pc = "write_result"
        /\ Files \subseteq DOMAIN files'
        /\ persist'.error \in BOOLEAN /\ (persist.error => persist'.error)
        /\ \/ persist'.pc = "build"
           \/ persist'.pc = "close" /\ persist'.error
      BY <1>4, <1>6 DEF WriteResult
  <2> QED BY <1>1, <2>1 DEF RecordInv, Alive
<1>7. CASE Build
  <2>1. files' = files /\ exit' = exit /\ persist.pc = "build"
      BY <1>7 DEF Build, Persisting, afterwards
  <2>2. CASE logWriteError /\ Goes("close", FALSE)
    <3>1. persist'.pc = "close" /\ persist'.error
        BY <1>2, <2>1, <2>2 DEF RecordInv
    <3> QED BY <1>1, <2>1, <3>1 DEF RecordInv, Alive
  <2>3. CASE ~logWriteError /\ (\A f \in targets : files[f].exists)
             /\ Goes("create_manifest", FALSE)
    <3>1. persist'.pc = "create_manifest" /\ persist'.error \in BOOLEAN
        BY <1>2, <2>3
    <3> QED BY <1>1, <2>1, <2>3, <3>1 DEF RecordInv, Alive
  <2>4. CASE Goes("close", TRUE)
    <3>1. persist'.pc = "close" /\ persist'.error
        BY <1>2, <2>4
    <3> QED BY <1>1, <2>1, <3>1 DEF RecordInv, Alive
  <2> QED BY <1>7, <2>2, <2>3, <2>4 DEF Build, may_build, RecordInv
<1>8. CASE CreateManifest
  <2>1. /\ exit' = exit /\ persist.pc = "create_manifest"
        /\ \A g \in Files \ {ManifestFile} : files'[g] = files[g]
        /\ Files \subseteq DOMAIN files'
        /\ persist'.error \in BOOLEAN /\ (persist.error => persist'.error)
        /\ \/ persist'.pc = "write_manifest"
           \/ persist'.pc = "close" /\ persist'.error
      BY <1>4, <1>8 DEF CreateManifest
  <2>2. ASSUME persist'.pc = "write_manifest"
        PROVE  files'[ManifestFile] = Empty
    <3>1. ~Goes("close", TRUE)
        BY <2>2 DEF Goes
    <3>2. files' = [files EXCEPT ![ManifestFile] = Empty]
        BY <1>8, <3>1 DEF CreateManifest, CreateArtifact
    <3> QED BY <3>2 DEF RecordInv
  <2>3. \A f \in targets : files'[f].exists
      BY <1>1, <2>1 DEF RecordInv, Alive
  <2> QED BY <1>1, <2>1, <2>2, <2>3 DEF RecordInv, Alive, FileOfManifest
<1>9. CASE WriteManifest
  <2>1. /\ exit' = exit /\ persist.pc = "write_manifest"
        /\ \A g \in Files \ {ManifestFile} : files'[g] = files[g]
        /\ Files \subseteq DOMAIN files'
        /\ persist'.error \in BOOLEAN /\ (persist.error => persist'.error)
        /\ persist'.pc = "close"
      BY <1>4, <1>9 DEF WriteManifest
  <2>2. \A f \in targets : files'[f] = files[f] /\ files[f].exists
      BY <1>1, <2>1 DEF RecordInv, Alive
  <2>3. Manifest' = Manifest
      BY <1>1, <2>2 DEF Manifest
  <2>4. ASSUME ~persist'.error PROVE Recorded'
    <3>1. ~Goes("close", TRUE)
        BY <1>2, <2>4
    <3>2. files' = [files EXCEPT ![ManifestFile].data = <<Manifest>>,
                                 ![ManifestFile].synced = TRUE]
        BY <1>9, <3>1 DEF WriteManifest, CompleteArtifact
    <3>3. files[ManifestFile] = Empty /\ ManifestFile \in DOMAIN files
        BY <1>1, <2>1 DEF RecordInv, Alive, FileOfManifest
    <3>4. files'[ManifestFile].exists /\ files'[ManifestFile].data = <<Manifest>>
        BY <3>2, <3>3 DEF Empty, Absent
    <3> QED BY <1>1, <2>2, <2>3, <3>4 DEF Recorded, FileOfManifest
  <2> QED BY <1>1, <2>1, <2>4 DEF RecordInv, Alive
<1>10. CASE CloseAndExit
  <2>1. PICK b \in BOOLEAN :
           /\ Goes("closed", b)
           /\ exit' = IF persist'.error THEN "internal_error" ELSE ExitCode(run.status)
           /\ files' = files /\ persist.pc = "close"
      BY <1>10 DEF CloseAndExit, Persisting
  <2>2. /\ persist'.pc = "closed" /\ persist'.error = (persist.error \/ b)
        /\ persist'.error \in BOOLEAN
      BY <1>2, <2>1
  <2>3. exit' # "none"
      BY <2>1 DEF ExitCode
  <2>4. Recorded' <=> Recorded
      BY <1>1, <2>1 DEF Recorded, FileOfManifest, Manifest
  <2>5. ~persist'.error => Recorded
      BY <1>1, <2>1, <2>2 DEF RecordInv, Alive
  <2>6. persist'.error => exit' = "internal_error"
      BY <2>1
  <2> QED BY <1>1, <2>1, <2>2, <2>3, <2>4, <2>5, <2>6 DEF RecordInv, Alive
<1> QED BY <1>3, <1>5, <1>6, <1>7, <1>8, <1>9, <1>10

(* A kill, and what happens to the files afterwards.                        *)
LEMMA DisturbStepKeeps ==
    ASSUME RecordInv,
           Killed \/ \E f \in Files : LoseData(f) \/ LoseFile(f) \/ Edit(f)
    PROVE  RecordInv'
<1>1. CASE Killed
    BY <1>1 DEF Killed, RecordInv, Alive, Recorded, FileOfManifest, Manifest, targets
<1>2. CASE \E f \in Files : LoseData(f) \/ LoseFile(f) \/ Edit(f)
  <2>1. PICK f \in Files : \E file : Disturb(f, file)
      BY <1>2 DEF LoseData, LoseFile, Edit
  <2> PICK file : Disturb(f, file)
      BY <2>1
  <2>2. /\ exit # "none" /\ exit' = exit /\ disturbed' = disturbed + 1 /\ run' = run
        /\ logWriteError' = logWriteError /\ persist' = persist
        /\ files' = [files EXCEPT ![f] = file]
      BY DEF Disturb, Alive
  <2>3. DOMAIN files' = DOMAIN files /\ disturbed' \in Nat /\ disturbed' # 0
      BY <2>2 DEF RecordInv
  <2> QED BY <2>2, <2>3 DEF RecordInv, Alive
<1> QED BY <1>1, <1>2

(* A run that ends with the exit code of its checks leaves a record that    *)
(* verifies, for every number of stages, any output and any failure of a    *)
(* call on a file on the way: the manifest that was written lists what is   *)
(* there, and an error anywhere turns the exit code into an internal error. *)
THEOREM ConsoleReportedRunVerifies == ArtifactsSpec => []ReportedRunVerifies
<1>1. ArtifactsInit => RecordInv
  <2> SUFFICES ASSUME ArtifactsInit PROVE RecordInv
      OBVIOUS
  <2>1. /\ DOMAIN files = Files /\ logWriteError = FALSE /\ persist.pc = "runner"
        /\ persist.error = FALSE /\ disturbed = 0 /\ exit = "none"
      BY DEF ArtifactsInit
  <2> QED BY <2>1 DEF RecordInv, Alive
<1>2. RecordInv /\ [ArtifactsNext]_artifactsVars => RecordInv'
  <2> SUFFICES ASSUME RecordInv, [ArtifactsNext]_artifactsVars PROVE RecordInv'
      OBVIOUS
  <2>1. CASE UNCHANGED artifactsVars
      BY <2>1 DEF artifactsVars, RecordInv, Alive, Recorded, FileOfManifest, Manifest,
                  targets
  <2> QED BY <2>1, RunnerStepKeeps, PersistStepKeeps, DisturbStepKeeps DEF ArtifactsNext
<1>3. RecordInv => ReportedRunVerifies
    BY RecordedVerifies DEF RecordInv, ReportedRunVerifies
<1> QED BY <1>1, <1>2, <1>3, PTL DEF ArtifactsSpec

-----------------------------------------------------------------------------
(* What a record that verifies says.                                        *)

LogKinds == {"stdout", "stderr", "combined"}

Outputs == [stage : PlannedStages, stream : Streams]

(* The places in a run's output of what a log of a stage is told.           *)
Belongs(outs, k, s) ==
    {i \in DOMAIN outs : outs[i].stage = s /\ k \in {outs[i].stream, "combined"}}

Holds(data, outs, k, s) ==
    /\ data \in Seq(Nat)
    /\ Range(data) = Belongs(outs, k, s)
    /\ \A i, j \in DOMAIN data : i < j => data[i] < data[j]

GoodLog(file, outs, k, s) ==
    /\ file \in [exists : {TRUE}, data : Seq(Nat), edited : {FALSE}, synced : BOOLEAN]
    /\ Holds(file.data, outs, k, s)

(* The open stages have their three logs, each with what it was told, and   *)
(* no other stage has had output.                                           *)
GoodLogs(fs, opened, outs) ==
    /\ opened \subseteq PlannedStages
    /\ \A s \in opened, k \in LogKinds : GoodLog(fs[<<k, s>>], outs, k, s)
    /\ \A i \in DOMAIN outs : outs[i].stage \in opened

(* A directory that differs from the present one in its logs only.          *)
LogsOnly(fs) ==
    DOMAIN fs = Files /\ \A f \in Files \ LogFiles : fs[f] = files[f]

StageResults == [status : Statuses \cup {"skipped"}, started : BOOLEAN]

RunShape ==
    /\ DOMAIN files = Files
    /\ outputs \in Seq(Outputs)
    /\ run \in [pc : {"between", "stage", "finished"}, stage : PlannedStages,
               stages : Seq(StageResults), status : Statuses]
    /\ Len(run.stages) = IF run.pc = "finished" THEN StageCount ELSE run.stage - 1

(* The stages that the result calls started are open.                       *)
StartedAreOpen ==
    /\ run.pc = "stage" => run.stage \in open
    /\ \A i \in DOMAIN run.stages : run.stages[i].started => i \in open

(* A manifest that could only be made of a complete record.                 *)
Truthful(m) ==
    /\ DOMAIN m = targets
    /\ m[ResultFile] = <<<<Report>>, FALSE>>
    /\ \A f \in LogFiles \cap targets :
          \E data : m[f] = <<data, FALSE>> /\ Holds(data, outputs, f[1], f[2])

(* As long as nothing failed the logs are what the runner said; the result  *)
(* is on disk before the manifest is made, and a manifest that has been     *)
(* written is truthful, whatever happens to the files it lists.             *)
TruthInv ==
    /\ RunShape
    /\ Alive /\ ~logWriteError => GoodLogs(files, open, outputs) /\ StartedAreOpen
    /\ Alive /\ persist.pc = "write_result" => files[ResultFile] = Empty
    /\ Alive /\ persist.pc \in {"build", "create_manifest", "write_manifest"} =>
          files[ResultFile].data = <<Report>> /\ files[ResultFile].edited = FALSE
    /\ Alive /\ persist.pc \in {"create_manifest", "write_manifest"} => ~logWriteError
    /\ FileOfManifest.data # <<>> =>
          run.pc = "finished" /\ \E m : FileOfManifest.data = <<m>> /\ Truthful(m)

(* Output of a stage is appended to its own logs and leaves the others.     *)
LEMMA LogAppended ==
    ASSUME NEW outs \in Seq(Outputs), NEW e \in Outputs, NEW data, NEW k, NEW s,
           Holds(data, outs, k, s)
    PROVE  IF e.stage = s /\ k \in {e.stream, "combined"}
           THEN Holds(Append(data, Len(outs) + 1), Append(outs, e), k, s)
           ELSE Holds(data, Append(outs, e), k, s)
<1> DEFINE n == Len(outs) + 1
           more == Append(outs, e)
           mine == e.stage = s /\ k \in {e.stream, "combined"}
<1>1. /\ n \in Nat /\ DOMAIN outs = 1 .. n - 1 /\ DOMAIN more = 1 .. n
      /\ \A i \in 1 .. n - 1 : more[i] = outs[i]
      /\ more[n] = e
    OBVIOUS
<1>2. Belongs(more, k, s) = Belongs(outs, k, s) \cup (IF mine THEN {n} ELSE {})
    BY <1>1 DEF Belongs
<1>3. data \in Seq(Nat) /\ Range(data) = Belongs(outs, k, s)
    BY DEF Holds
<1>4. CASE ~mine
    BY <1>2, <1>4 DEF Holds
<1>5. CASE mine
  <2> DEFINE d == Append(data, n)
             l == Len(data)
  <2>1. /\ d \in Seq(Nat) /\ l \in Nat /\ DOMAIN data = 1 .. l /\ DOMAIN d = 1 .. l + 1
        /\ \A i \in 1 .. l : d[i] = data[i]
        /\ d[l + 1] = n
      BY <1>1, <1>3
  <2>2. \A i \in 1 .. l : data[i] \in 1 .. n - 1
      BY <1>1, <1>3, <2>1 DEF Range, Belongs
  <2>3. Range(d) = Range(data) \cup {n}
    <3>1. \A x : x \in Range(d) <=> \E i \in 1 .. l + 1 : x = d[i]
        BY <2>1 DEF Range
    <3>2. \A x : x \in Range(data) <=> \E i \in 1 .. l : x = data[i]
        BY <2>1 DEF Range
    <3>3. \A i : i \in 1 .. l + 1 <=> i \in 1 .. l \/ i = l + 1
        BY <2>1
    <3> HIDE DEF d, l
    <3> QED BY <2>1, <3>1, <3>2, <3>3
  <2>4. ASSUME NEW i \in 1 .. l + 1, NEW j \in 1 .. l + 1, i < j
        PROVE  d[i] < d[j]
    <3>1. i \in 1 .. l
        BY <2>1, <2>4
    <3>2. CASE j = l + 1
      <4>1. d[i] = data[i] /\ data[i] \in 1 .. n - 1 /\ d[j] = n
          BY <2>1, <2>2, <3>1, <3>2
      <4> HIDE DEF d, n
      <4> QED BY <1>1, <4>1
    <3>3. CASE j # l + 1
      <4>1. j \in 1 .. l
          BY <2>1, <3>3
      <4> QED BY <2>1, <2>4, <3>1, <4>1 DEF Holds
    <3> QED BY <3>2, <3>3
  <2>5. Range(d) = Belongs(more, k, s)
      BY <1>2, <1>3, <1>5, <2>3
  <2> QED BY <1>5, <2>1, <2>4, <2>5 DEF Holds
<1> QED BY <1>4, <1>5

(* The files of a stage are three, and none is the manifest or the result.  *)
LEMMA LogNames ==
    /\ \A k \in LogKinds, s \in PlannedStages : <<k, s>> \in LogFiles
    /\ LogFiles \subseteq Files
    /\ \A f \in LogFiles : /\ f[1] \in LogKinds /\ f[2] \in PlannedStages
                           /\ f = <<f[1], f[2]>>
    /\ \A s : /\ StageLogs(s)[1] = <<"stdout", s>> /\ StageLogs(s)[2] = <<"stderr", s>>
              /\ StageLogs(s)[3] = <<"combined", s>>
    /\ ManifestFile \in Files \ LogFiles /\ ResultFile \in Files \ LogFiles
    /\ ManifestFile # ResultFile
BY ArtifactsAssumption
   DEF LogKinds, LogFiles, Files, StageLogs, ManifestFile, ResultFile, PlannedStages

(* What a call of the store may leave behind.                               *)
StoreOutcome(o) ==
    /\ DOMAIN o = {"files", "open", "failed"}
    /\ LogsOnly(o.files) /\ o.failed \in BOOLEAN

(* A stage that was ensured without an error is open, with empty logs if it *)
(* was not open before.                                                     *)
LEMMA StageEnsured ==
    ASSUME DOMAIN files = Files, outputs \in Seq(Outputs),
           NEW s \in PlannedStages, NEW o \in ensureStage(s)
    PROVE  /\ StoreOutcome(o)
           /\ ~o.failed /\ GoodLogs(files, open, outputs) =>
                 /\ GoodLogs(o.files, o.open, outputs)
                 /\ o.open = open \cup {s}
<1> DEFINE a == <<"stdout", s>>
           b == <<"stderr", s>>
           c == <<"combined", s>>
           made(n) == [files EXCEPT ![a] = IF n >= 1 THEN Empty ELSE @,
                                    ![b] = IF n >= 2 THEN Empty ELSE @,
                                    ![c] = IF n = 3 THEN Empty ELSE @]
<1>1. a \in LogFiles /\ b \in LogFiles /\ c \in LogFiles /\ a # b /\ a # c /\ b # c
    BY LogNames DEF LogKinds
<1>2. CASE s \in open
  <2>1. o = Outcome(files, open, FALSE)
      BY <1>2 DEF ensureStage
  <2>2. StoreOutcome(o) /\ o.files = files /\ o.open = open
      BY <2>1 DEF Outcome, StoreOutcome, LogsOnly
  <2> QED BY <1>2, <2>2
<1>3. CASE s \notin open
  <2>1. PICK n \in 0 .. 3 :
           o = Outcome(made(n), IF n = 3 THEN open \cup {s} ELSE open, n # 3)
    <3>1. StageLogs(s)[1] = a /\ StageLogs(s)[2] = b /\ StageLogs(s)[3] = c
        BY LogNames
    <3> QED BY <1>3, <3>1 DEF ensureStage
  <2>2. /\ DOMAIN made(n) = Files
        /\ \A f \in Files \ {a, b, c} : made(n)[f] = files[f]
        /\ n = 3 => made(n)[a] = Empty /\ made(n)[b] = Empty /\ made(n)[c] = Empty
      BY <1>1, LogNames
  <2> HIDE DEF made
  <2>3. /\ DOMAIN o = {"files", "open", "failed"} /\ o.files = made(n)
        /\ o.failed = (n # 3) /\ o.open = IF n = 3 THEN open \cup {s} ELSE open
      BY <2>1 DEF Outcome
  <2>4. StoreOutcome(o)
      BY <1>1, <2>2, <2>3 DEF StoreOutcome, LogsOnly
  <2>5. ASSUME ~o.failed, GoodLogs(files, open, outputs)
        PROVE  GoodLogs(o.files, o.open, outputs) /\ o.open = open \cup {s}
    <3>1. n = 3 /\ o.open = open \cup {s}
        BY <2>3, <2>5
    <3>2. ASSUME NEW t \in open, NEW k \in LogKinds
          PROVE  GoodLog(o.files[<<k, t>>], outputs, k, t)
      <4>1. <<k, t>> \in Files \ {a, b, c} /\ GoodLog(files[<<k, t>>], outputs, k, t)
          BY <1>3, <2>5, LogNames DEF GoodLogs
      <4> QED BY <2>2, <2>3, <4>1
    <3>3. ASSUME NEW k \in LogKinds
          PROVE  GoodLog(o.files[<<k, s>>], outputs, k, s)
      <4>1. o.files[<<k, s>>] = Empty
          BY <2>2, <2>3, <3>1 DEF LogKinds
      <4>2. Belongs(outputs, k, s) = {}
          BY <1>3, <2>5 DEF Belongs, GoodLogs
      <4>3. Holds(<<>>, outputs, k, s)
          BY <4>2 DEF Holds, Range
      <4>4. Empty \in [exists : {TRUE}, data : {<<>>}, edited : {FALSE}, synced : {FALSE}]
          BY DEF Empty, Absent
      <4>5. <<>> \in Seq(Nat)
          OBVIOUS
      <4> QED BY <4>1, <4>3, <4>4, <4>5 DEF GoodLog
    <3> QED BY <2>5, <3>1, <3>2, <3>3 DEF GoodLogs
  <2> QED BY <2>4, <2>5
<1> QED BY <1>2, <1>3

(* Output that was written without an error is in both logs that are told   *)
(* of it, at the end.                                                       *)
LEMMA OutputWritten ==
    ASSUME outputs \in Seq(Outputs), NEW o, StoreOutcome(o), NEW e \in Outputs,
           NEW w \in writeOutput(o, e.stage, e.stream, Len(outputs) + 1)
    PROVE  /\ StoreOutcome(w)
           /\ ~w.failed /\ GoodLogs(o.files, o.open, outputs) /\ e.stage \in o.open =>
                 /\ ~o.failed /\ w.open = o.open
                 /\ GoodLogs(w.files, w.open, Append(outputs, e))
<1> DEFINE n == Len(outputs) + 1
           s == e.stage
           a == <<e.stream, s>>
           c == <<"combined", s>>
           longer(file) == [file EXCEPT !.data = Append(@, n)]
           put(fs, f) == [fs EXCEPT ![f].data = Append(@, n)]
<1>1. /\ s \in PlannedStages /\ e.stream \in Streams
      /\ a \in LogFiles /\ c \in LogFiles /\ a # c
    BY LogNames DEF Outputs, Streams, LogKinds
<1>2. ASSUME NEW p, StoreOutcome(p), NEW f \in LogFiles, NEW v \in writeAll(p, f, n)
      PROVE  /\ StoreOutcome(v)
             /\ ~v.failed => /\ ~p.failed /\ v.open = p.open
                             /\ v.files = put(p.files, f)
  <2>1. ASSUME NEW x
        PROVE  LogsOnly([p.files EXCEPT ![f].data = Append(@, x)])
      BY <1>2, LogNames DEF StoreOutcome, LogsOnly
  <2>2. \/ v = [p EXCEPT !.files = put(p.files, f)]
        \/ v = [p EXCEPT !.files = [p.files EXCEPT ![f].data = Append(@, -n)], !.failed = TRUE]
        \/ v = [p EXCEPT !.failed = TRUE]
      BY <1>2 DEF writeAll
  <2> HIDE DEF put
  <2>3. LogsOnly(put(p.files, f))
      BY <2>1 DEF put
  <2> QED BY <1>2, <2>1, <2>2, <2>3 DEF StoreOutcome
<1> HIDE DEF put
<1>3. CASE o.failed
    BY <1>3 DEF writeOutput
<1>4. CASE ~o.failed
  <2>1. PICK v \in writeAll(o, a, n) : w \in IF v.failed THEN {v} ELSE writeAll(v, c, n)
      BY <1>4 DEF writeOutput
  <2>2. /\ StoreOutcome(v)
        /\ ~v.failed => v.open = o.open /\ v.files = put(o.files, a)
      BY <1>1, <1>2
  <2>3. StoreOutcome(w)
      BY <1>1, <1>2, <2>1, <2>2
  <2>4. ASSUME ~w.failed, GoodLogs(o.files, o.open, outputs), s \in o.open
        PROVE  w.open = o.open /\ GoodLogs(w.files, w.open, Append(outputs, e))
    <3>1. ~v.failed
        BY <2>1, <2>4
    <3>2. w.open = o.open /\ w.files = put(put(o.files, a), c)
        BY <1>1, <1>2, <2>1, <2>2, <2>4, <3>1
    <3>3. DOMAIN o.files = Files
        BY DEF StoreOutcome, LogsOnly
    <3>4. ASSUME NEW t \in o.open, NEW k \in LogKinds
          PROVE  GoodLog(w.files[<<k, t>>], Append(outputs, e), k, t)
      <4> DEFINE f == <<k, t>>
      <4>1. f \in Files /\ GoodLog(o.files[f], outputs, k, t)
          BY <2>4, LogNames DEF GoodLogs
      <4>2. f \in {a, c} <=> s = t /\ k \in {e.stream, "combined"}
          BY Zenon
      <4>3. w.files[f] = IF f \in {a, c} THEN longer(o.files[f]) ELSE o.files[f]
        <5>1. ASSUME NEW fs, DOMAIN fs = Files, NEW g \in Files
              PROVE  /\ DOMAIN put(fs, g) = Files
                     /\ \A h \in Files :
                           put(fs, g)[h] = IF h = g THEN longer(fs[h]) ELSE fs[h]
            BY <5>1 DEF put
        <5>2. a \in Files /\ c \in Files
            BY <1>1, LogNames
        <5>3. DOMAIN put(o.files, a) = Files
            BY <3>3, <5>1, <5>2
        <5> HIDE DEF f, n, a, c, longer
        <5>4. put(put(o.files, a), c)[f] =
                  IF f = c THEN longer(put(o.files, a)[f]) ELSE put(o.files, a)[f]
            BY <4>1, <5>1, <5>2, <5>3
        <5>5. put(o.files, a)[f] = IF f = a THEN longer(o.files[f]) ELSE o.files[f]
            BY <3>3, <4>1, <5>1, <5>2
        <5> QED BY <1>1, <3>2, <5>4, <5>5
      <4>4. IF s = t /\ k \in {e.stream, "combined"}
            THEN Holds(Append(o.files[f].data, n), Append(outputs, e), k, t)
            ELSE Holds(o.files[f].data, Append(outputs, e), k, t)
          BY <4>1, LogAppended DEF GoodLog
      <4> HIDE DEF f
      <4>5. ASSUME f \in {a, c}
            PROVE  GoodLog(w.files[f], Append(outputs, e), k, t)
        <5>1. Holds(Append(o.files[f].data, n), Append(outputs, e), k, t)
            BY <4>2, <4>4, <4>5
        <5>2. Append(o.files[f].data, n) \in Seq(Nat)
            BY <5>1 DEF Holds
        <5>3. w.files[f] = [o.files[f] EXCEPT !.data = Append(@, n)]
            BY <4>3, <4>5
        <5> HIDE DEF n
        <5>4. w.files[f].data = Append(o.files[f].data, n)
            BY <4>1, <5>3 DEF GoodLog
        <5>5. w.files[f] \in [exists : {TRUE}, data : Seq(Nat), edited : {FALSE},
                              synced : BOOLEAN]
            BY <4>1, <5>2, <5>3 DEF GoodLog
        <5> QED BY <5>1, <5>4, <5>5 DEF GoodLog
      <4>6. ASSUME f \notin {a, c}
            PROVE  GoodLog(w.files[f], Append(outputs, e), k, t)
          BY <4>1, <4>2, <4>3, <4>4, <4>6 DEF GoodLog
      <4> QED BY <4>5, <4>6 DEF f
    <3>5. \A i \in DOMAIN Append(outputs, e) : Append(outputs, e)[i].stage \in o.open
      <4>1. \A i \in DOMAIN Append(outputs, e) :
               IF i = n THEN Append(outputs, e)[i] = e
               ELSE i \in DOMAIN outputs /\ Append(outputs, e)[i] = outputs[i]
          OBVIOUS
      <4> QED BY <2>4, <4>1 DEF GoodLogs
    <3> QED BY <2>4, <3>2, <3>4, <3>5 DEF GoodLogs
  <2> QED BY <1>4, <2>3, <2>4
<1> QED BY <1>3, <1>4

(* What an event leaves: if there is no error, an outcome without one.      *)
LEMMA ObserveFacts ==
    ASSUME DOMAIN files = Files, logWriteError \in BOOLEAN,
           NEW outcomes, \A o \in outcomes : StoreOutcome(o), Observe(outcomes)
    PROVE  /\ DOMAIN files' = Files
           /\ \A f \in Files \ LogFiles : files'[f] = files[f]
           /\ logWriteError' \in BOOLEAN
           /\ ~logWriteError' =>
                 /\ ~logWriteError
                 /\ \E o \in outcomes : ~o.failed /\ files' = o.files /\ open' = o.open
<1>1. CASE logWriteError
    BY <1>1 DEF Observe, may_observe
<1>2. CASE ~logWriteError
  <2>1. PICK o \in outcomes : files' = o.files /\ open' = o.open /\ logWriteError' = o.failed
      BY <1>2 DEF Observe, may_observe
  <2> QED BY <1>2, <2>1 DEF StoreOutcome, LogsOnly
<1> QED BY <1>1, <1>2

(* While the runner runs there is no manifest, and it stays so.             *)
LEMMA RunningTruth ==
    ASSUME TruthInv, RecordInv, run.pc # "finished", persist.pc = "runner",
           persist' = persist, exit' = exit, RunShape',
           files'[ManifestFile] = files[ManifestFile],
           Alive /\ ~logWriteError' => GoodLogs(files, open, outputs)' /\ StartedAreOpen'
    PROVE  TruthInv'
<1>1. FileOfManifest.data = <<>> /\ FileOfManifest' = FileOfManifest
    BY DEF TruthInv, FileOfManifest
<1> QED BY <1>1 DEF TruthInv, Alive

(* A stage starts, and its logs are created.                                *)
LEMMA StartTruth ==
    ASSUME TruthInv, RecordInv, StageStarted
    PROVE  TruthInv'
<1>1. /\ run.pc = "between" /\ persist.pc = "runner" /\ persist' = persist /\ exit' = exit
      /\ exit = "none" /\ outputs' = outputs /\ run' = [run EXCEPT !.pc = "stage"]
      /\ Observe(ensureStage(run.stage))
    BY DEF StageStarted, Running, Alive, unpersisted
<1>2. RunShape /\ logWriteError \in BOOLEAN /\ run.stage \in PlannedStages
    BY DEF TruthInv, RecordInv, RunShape
<1>3. /\ run' \in [pc : {"between", "stage", "finished"}, stage : PlannedStages,
                   stages : Seq(StageResults), status : Statuses]
      /\ run'.pc = "stage" /\ run'.stage = run.stage /\ run'.stages = run.stages
    BY <1>1, <1>2 DEF RunShape
<1>4. \A o \in ensureStage(run.stage) :
          /\ StoreOutcome(o)
          /\ ~o.failed /\ GoodLogs(files, open, outputs) =>
                GoodLogs(o.files, o.open, outputs) /\ o.open = open \cup {run.stage}
    BY <1>2, StageEnsured DEF RunShape
<1>5. /\ DOMAIN files' = Files /\ \A f \in Files \ LogFiles : files'[f] = files[f]
      /\ ~logWriteError' =>
            /\ ~logWriteError
            /\ \E o \in ensureStage(run.stage) :
                  ~o.failed /\ files' = o.files /\ open' = o.open
    BY <1>1, <1>2, <1>4, ObserveFacts DEF RunShape
<1>6. RunShape'
    BY <1>1, <1>2, <1>3, <1>5 DEF RunShape
<1>7. ASSUME ~logWriteError'
      PROVE  GoodLogs(files', open', outputs') /\ StartedAreOpen'
  <2>1. GoodLogs(files, open, outputs) /\ StartedAreOpen
      BY <1>1, <1>5, <1>7 DEF TruthInv, Alive
  <2>2. GoodLogs(files', open', outputs) /\ open' = open \cup {run.stage}
      BY <1>4, <1>5, <1>7, <2>1
  <2> QED BY <1>1, <1>3, <2>1, <2>2 DEF StartedAreOpen
<1>8. files'[ManifestFile] = files[ManifestFile]
    BY <1>5, LogNames
<1> QED BY <1>1, <1>6, <1>7, <1>8, RunningTruth

(* A stage brings output, and its log gets it or the writing has failed.    *)
LEMMA OutputTruth ==
    ASSUME TruthInv, RecordInv, NEW stream \in Streams, StageOutputs(stream)
    PROVE  TruthInv'
<1> DEFINE e == [stage |-> run.stage, stream |-> stream]
           outcomes == StoreWrites(stream, Len(outputs) + 1)
<1>1. /\ run.pc = "stage" /\ persist.pc = "runner" /\ persist' = persist /\ exit' = exit
      /\ exit = "none" /\ outputs' = Append(outputs, e) /\ run' = run
      /\ Observe(outcomes)
    BY DEF StageOutputs, StoreWrites, Running, Alive, unpersisted
<1>2. RunShape /\ logWriteError \in BOOLEAN /\ run.stage \in PlannedStages
    BY DEF TruthInv, RecordInv, RunShape
<1>3. e \in Outputs /\ e.stage = run.stage /\ e.stream = stream
    BY <1>2 DEF Outputs
<1>4. ASSUME NEW w \in outcomes
      PROVE  /\ StoreOutcome(w)
             /\ ~w.failed /\ GoodLogs(files, open, outputs) =>
                   /\ GoodLogs(w.files, w.open, Append(outputs, e))
                   /\ w.open = open \cup {run.stage}
  <2>1. PICK o \in ensureStage(run.stage) :
           w \in writeOutput(o, run.stage, stream, Len(outputs) + 1)
      BY DEF StoreWrites
  <2>2. /\ StoreOutcome(o)
        /\ ~o.failed /\ GoodLogs(files, open, outputs) =>
              GoodLogs(o.files, o.open, outputs) /\ o.open = open \cup {run.stage}
      BY <1>2, StageEnsured DEF RunShape
  <2> HIDE DEF e
  <2>3. o.failed => w = o
      BY <2>1 DEF writeOutput
  <2>4. /\ StoreOutcome(w)
        /\ ~w.failed /\ GoodLogs(o.files, o.open, outputs) /\ run.stage \in o.open =>
              /\ w.open = o.open
              /\ GoodLogs(w.files, w.open, Append(outputs, e))
      BY <1>2, <1>3, <2>1, <2>2, OutputWritten DEF RunShape
  <2> QED BY <2>2, <2>3, <2>4
<1> HIDE DEF e, outcomes
<1>5. /\ DOMAIN files' = Files /\ \A f \in Files \ LogFiles : files'[f] = files[f]
      /\ ~logWriteError' =>
            /\ ~logWriteError
            /\ \E o \in outcomes : ~o.failed /\ files' = o.files /\ open' = o.open
    BY <1>1, <1>2, <1>4, ObserveFacts DEF RunShape
<1>6. RunShape'
  <2>1. outputs' \in Seq(Outputs)
      BY <1>1, <1>2, <1>3 DEF RunShape
  <2> QED BY <1>1, <1>2, <1>5, <2>1 DEF RunShape
<1>7. ASSUME ~logWriteError'
      PROVE  GoodLogs(files', open', outputs') /\ StartedAreOpen'
  <2>1. GoodLogs(files, open, outputs) /\ StartedAreOpen
      BY <1>1, <1>5, <1>7 DEF TruthInv, Alive
  <2>2. GoodLogs(files', open', outputs') /\ open' = open \cup {run.stage}
      BY <1>1, <1>4, <1>5, <1>7, <2>1
  <2> QED BY <1>1, <2>1, <2>2 DEF StartedAreOpen
<1>8. files'[ManifestFile] = files[ManifestFile]
    BY <1>5, LogNames
<1> QED BY <1>1, <1>6, <1>7, <1>8, RunningTruth

(* The stages that are skipped were not started.                            *)
LEMMA SkippedStages ==
    ASSUME NEW stages \in Seq(StageResults), Len(stages) <= StageCount
    PROVE  /\ appendSkipped(stages) \in Seq(StageResults)
           /\ Len(appendSkipped(stages)) = StageCount
           /\ \A i \in DOMAIN appendSkipped(stages) :
                 appendSkipped(stages)[i].started =>
                    i \in DOMAIN stages /\ stages[i].started
<1> DEFINE n == StageCount - Len(stages)
           more == [i \in 1 .. n |-> StageResult("skipped", FALSE)]
           all == stages \o more
<1>1. n \in Nat /\ Len(stages) \in Nat /\ StageCount \in Nat
    BY ArtifactsAssumption
<1>2. more \in Seq(StageResults) /\ Len(more) = n
  <2>1. StageResult("skipped", FALSE) \in StageResults
      BY DEF StageResult, StageResults
  <2>2. more \in [1 .. n -> StageResults]
      BY <2>1
  <2>3. \A m \in Nat : [1 .. m -> StageResults] \subseteq Seq(StageResults)
      OBVIOUS
  <2> HIDE DEF more
  <2> QED BY <1>1, <2>2, <2>3
<1>3. \A i \in 1 .. n : more[i].started = FALSE
    BY DEF StageResult
<1> HIDE DEF more
<1>4. /\ all \in Seq(StageResults) /\ Len(all) = Len(stages) + n
      /\ \A i \in 1 .. Len(all) : all[i] = IF i <= Len(stages) THEN stages[i]
                                           ELSE more[i - Len(stages)]
    BY <1>1, <1>2
<1>5. Len(stages) + n = StageCount
    BY <1>1
<1>6. ASSUME NEW i \in 1 .. Len(all), all[i].started
      PROVE  i \in DOMAIN stages /\ stages[i].started
  <2>1. CASE i <= Len(stages)
      BY <1>4, <1>6, <2>1
  <2>2. CASE i > Len(stages)
    <3>1. all[i] = more[i - Len(stages)]
        BY <1>1, <1>4, <2>2
    <3>2. i - Len(stages) \in 1 .. n
        BY <1>1, <1>4, <1>5, <2>2
    <3> QED BY <1>3, <1>6, <3>1, <3>2
  <2> QED BY <1>1, <2>1, <2>2
<1>7. appendSkipped(stages) = all /\ DOMAIN all = 1 .. Len(all)
  <2>1. appendSkipped(stages) = all
      BY DEF appendSkipped, more
  <2> HIDE DEF all
  <2> QED BY <1>4, <2>1
<1> HIDE DEF all
<1> QED BY <1>4, <1>5, <1>6, <1>7

(* A stage ends, or the run does, and the stages after it are skipped.      *)
LEMMA FinishTruth ==
    ASSUME TruthInv, RecordInv, StageFinished \/ StageCancelled
    PROVE  TruthInv'
<1>1. PICK status \in Statuses, started \in BOOLEAN :
         /\ Finishes(status, started) /\ persist.pc = "runner" /\ exit = "none"
         /\ \/ run.pc = "stage"
            \/ run.pc = "between" /\ ~started
  <2>1. CASE StageFinished
    <3>1. PICK s \in {"passed", "failed", "cancelled", "internal-error"} : Finishes(s, TRUE)
        BY <2>1 DEF StageFinished
    <3>2. s \in Statuses /\ Running("stage")
        BY <2>1 DEF Statuses, StageFinished
    <3> QED BY <3>1, <3>2 DEF Running, Alive
  <2>2. CASE StageCancelled
    <3>1. Finishes("cancelled", FALSE) /\ Running("between") /\ "cancelled" \in Statuses
        BY <2>2 DEF Statuses, StageCancelled
    <3> QED BY <3>1 DEF Running, Alive
  <2> QED BY <2>1, <2>2
<1> DEFINE r == StageResult(status, started)
           stages == Append(run.stages, r)
           goes == status = "passed" /\ run.stage < StageCount
<1>2. /\ persist' = persist /\ exit' = exit /\ outputs' = outputs
      /\ Observe(Nothing)
      /\ run' = IF goes THEN [run EXCEPT !.pc = "between", !.stage = @ + 1, !.stages = stages]
                ELSE [run EXCEPT !.pc = "finished", !.status = status,
                                 !.stages = appendSkipped(stages)]
    BY <1>1 DEF Finishes, more_stages, unpersisted
<1>3. /\ RunShape /\ logWriteError \in BOOLEAN /\ run.stage \in 1 .. StageCount
      /\ StageCount \in Nat /\ run.stages \in Seq(StageResults)
      /\ Len(run.stages) = run.stage - 1
    BY <1>1, ArtifactsAssumption DEF TruthInv, RecordInv, RunShape, PlannedStages
<1>4. r \in StageResults /\ r.started = started
    BY <1>1 DEF StageResult, StageResults
<1> HIDE DEF r
<1>5. /\ stages \in Seq(StageResults) /\ Len(stages) = run.stage
      /\ DOMAIN stages = 1 .. run.stage /\ DOMAIN run.stages = 1 .. run.stage - 1
      /\ \A i \in 1 .. run.stage - 1 : stages[i] = run.stages[i]
      /\ stages[run.stage] = r
    BY <1>3, <1>4
<1> HIDE DEF stages
<1>6. /\ appendSkipped(stages) \in Seq(StageResults)
      /\ Len(appendSkipped(stages)) = StageCount
      /\ \A i \in DOMAIN appendSkipped(stages) :
            appendSkipped(stages)[i].started => i \in DOMAIN stages /\ stages[i].started
    BY <1>3, <1>5, SkippedStages
<1>7. \A o \in Nothing : StoreOutcome(o) /\ o.files = files /\ o.open = open
  <2> SUFFICES ASSUME NEW o \in Nothing
               PROVE  StoreOutcome(o) /\ o.files = files /\ o.open = open
      OBVIOUS
  <2>1. o = Outcome(files, open, FALSE) /\ DOMAIN files = Files
      BY <1>3 DEF Nothing, RunShape
  <2> QED BY <2>1 DEF Outcome, StoreOutcome, LogsOnly
<1>8. /\ DOMAIN files' = Files /\ \A f \in Files \ LogFiles : files'[f] = files[f]
      /\ ~logWriteError' => ~logWriteError /\ files' = files /\ open' = open
    BY <1>2, <1>3, <1>7, ObserveFacts DEF RunShape
<1>9. /\ run' \in [pc : {"between", "stage", "finished"}, stage : PlannedStages,
                   stages : Seq(StageResults), status : Statuses]
      /\ run'.pc # "stage"
      /\ Len(run'.stages) = IF run'.pc = "finished" THEN StageCount ELSE run'.stage - 1
      /\ run'.stages \in {stages, appendSkipped(stages)}
  <2>1. CASE goes
    <3>1. run.stage + 1 \in PlannedStages /\ run.stage + 1 - 1 = run.stage
        BY <1>3, <2>1 DEF PlannedStages
    <3>2. run' = [run EXCEPT !.pc = "between", !.stage = @ + 1, !.stages = stages]
        BY <1>2, <2>1
    <3>3. run'.pc = "between" /\ run'.stage = run.stage + 1 /\ run'.stages = stages
        BY <1>3, <3>2 DEF RunShape
    <3>4. run' \in [pc : {"between", "stage", "finished"}, stage : PlannedStages,
                    stages : Seq(StageResults), status : Statuses]
        BY <1>3, <1>5, <3>1, <3>2 DEF RunShape
    <3>5. Len(run'.stages) = run'.stage - 1
        BY <1>5, <3>1, <3>3
    <3> QED BY <3>3, <3>4, <3>5
  <2>2. CASE ~goes
      BY <1>2, <1>3, <1>6, <2>2 DEF RunShape
  <2> QED BY <2>1, <2>2
<1>10. RunShape'
    BY <1>2, <1>3, <1>8, <1>9 DEF RunShape
<1>11. ASSUME ~logWriteError'
       PROVE  GoodLogs(files', open', outputs') /\ StartedAreOpen'
  <2>1. GoodLogs(files, open, outputs) /\ StartedAreOpen
      BY <1>1, <1>8, <1>11 DEF TruthInv, Alive
  <2>2. ASSUME NEW i \in DOMAIN stages, stages[i].started
        PROVE  i \in open
    <3>1. CASE i = run.stage
        BY <1>1, <1>4, <1>5, <2>1, <2>2, <3>1 DEF StartedAreOpen
    <3>2. CASE i # run.stage
      <4>1. i \in DOMAIN run.stages /\ run.stages[i].started
          BY <1>3, <1>5, <2>2, <3>2
      <4> QED BY <2>1, <4>1 DEF StartedAreOpen
    <3> QED BY <3>1, <3>2
  <2>3. \A i \in DOMAIN run'.stages : run'.stages[i].started => i \in open
      BY <1>6, <1>9, <2>2
  <2> QED BY <1>2, <1>8, <1>9, <1>11, <2>1, <2>3 DEF StartedAreOpen
<1>12. files'[ManifestFile] = files[ManifestFile]
    BY <1>8, LogNames
<1> QED BY <1>1, <1>2, <1>10, <1>11, <1>12, RunningTruth

(* What is persisted does not touch the logs, and the run is over.          *)
LEMMA PersistFrame ==
    ASSUME TruthInv, run' = run, outputs' = outputs, logWriteError' = logWriteError,
           open' = open, DOMAIN files' = Files,
           Alive => \A f \in LogFiles : files'[f] = files[f]
    PROVE  /\ RunShape'
           /\ Alive /\ ~logWriteError' => GoodLogs(files', open', outputs') /\ StartedAreOpen'
           /\ Report' = Report /\ targets' = targets
           /\ \A m : Truthful(m)' <=> Truthful(m)
<1>1. RunShape'
    BY DEF TruthInv, RunShape
<1>2. Report' = Report /\ targets' = targets
    BY DEF Report, targets
<1>3. \A m : Truthful(m)' <=> Truthful(m)
    BY <1>2 DEF Truthful
<1>4. ASSUME Alive, ~logWriteError'
      PROVE  GoodLogs(files', open', outputs') /\ StartedAreOpen'
  <2>1. GoodLogs(files, open, outputs) /\ StartedAreOpen
      BY <1>4 DEF TruthInv
  <2>2. \A s \in open, k \in LogKinds : files'[<<k, s>>] = files[<<k, s>>]
      BY <1>4, <2>1, LogNames DEF GoodLogs
  <2> QED BY <2>1, <2>2 DEF GoodLogs, StartedAreOpen
<1> QED BY <1>1, <1>2, <1>3, <1>4

(* The manifest of a complete record is truthful.                           *)
LEMMA ManifestIsTruthful ==
    ASSUME RunShape, GoodLogs(files, open, outputs), StartedAreOpen,
           files[ResultFile].data = <<Report>>, files[ResultFile].edited = FALSE
    PROVE  Truthful(Manifest)
<1>1. DOMAIN Manifest = targets /\ \A f \in targets : Manifest[f] = Digest(files[f])
    BY DEF Manifest
<1>2. Manifest[ResultFile] = <<<<Report>>, FALSE>>
    BY <1>1 DEF targets, Digest
<1>3. ASSUME NEW f \in LogFiles \cap targets
      PROVE  /\ Manifest[f] = <<files[f].data, FALSE>>
             /\ Holds(files[f].data, outputs, f[1], f[2])
  <2>1. f[2] \in DOMAIN run.stages /\ run.stages[f[2]].started
    <3>1. /\ f \in LogFiles /\ f # ResultFile /\ f[2] \in PlannedStages
          /\ run.stages \in Seq(StageResults)
        BY LogNames DEF RunShape
    <3>2. f[2] <= Len(run.stages) /\ run.stages[f[2]].started
        BY <3>1 DEF targets
    <3> QED BY <3>1, <3>2, ArtifactsAssumption DEF PlannedStages
  <2>2. f[2] \in open
      BY <2>1 DEF StartedAreOpen
  <2>3. f[1] \in LogKinds /\ f = <<f[1], f[2]>>
      BY LogNames
  <2>4. GoodLog(files[f], outputs, f[1], f[2])
      BY <2>2, <2>3 DEF GoodLogs
  <2> QED BY <1>1, <2>4 DEF GoodLog, Digest
<1> QED BY <1>1, <1>2, <1>3 DEF Truthful

(* A step of persistRunArtifacts, and the exit.                             *)
LEMMA PersistTruth ==
    ASSUME TruthInv, RecordInv,
           \/ RunnerReturns \/ CreateResult \/ WriteResult \/ Build
           \/ CreateManifest \/ WriteManifest \/ CloseAndExit
    PROVE  TruthInv'
<1> USE LogNames
<1>1. /\ exit = "none" /\ run.pc = "finished" /\ run' = run /\ outputs' = outputs
      /\ logWriteError' = logWriteError /\ open' = open
    BY DEF RunnerReturns, CreateResult, WriteResult, Build, CreateManifest, WriteManifest,
           CloseAndExit, CreateArtifact, CompleteArtifact, Persisting, Alive, afterwards
<1>2. ASSUME NEW pc, NEW b, Goes(pc, b)
      PROVE  persist'.pc = pc
    BY <1>2 DEF Goes
<1>3. /\ DOMAIN files' = Files
      /\ \A f \in Files \ {ResultFile, ManifestFile} : files'[f] = files[f]
  <2>1. DOMAIN files = Files
      BY DEF TruthInv, RunShape
  <2> QED BY <2>1 DEF RunnerReturns, CreateResult, WriteResult, Build, CreateManifest,
              WriteManifest, CloseAndExit, CreateArtifact, CompleteArtifact, afterwards
<1>4. /\ RunShape'
      /\ Alive /\ ~logWriteError' => GoodLogs(files', open', outputs') /\ StartedAreOpen'
      /\ Report' = Report /\ targets' = targets
      /\ \A m : Truthful(m)' <=> Truthful(m)
    BY <1>1, <1>3, PersistFrame
<1> DEFINE Written == FileOfManifest.data # <<>> =>
                         \E m : FileOfManifest.data = <<m>> /\ Truthful(m)
<1>5. Written
    BY DEF TruthInv
<1>6. ASSUME files'[ManifestFile] = files[ManifestFile]
      PROVE  Written'
    BY <1>4, <1>5, <1>6 DEF FileOfManifest
<1>7. CASE RunnerReturns
  <2>1. files' = files /\ exit' = exit /\ persist'.pc = "create_result"
      BY <1>2, <1>7 DEF RunnerReturns
  <2> QED BY <1>1, <1>4, <1>6, <2>1 DEF TruthInv, Alive
<1>8. CASE CreateResult
  <2>1. /\ exit' = exit /\ files'[ManifestFile] = files[ManifestFile]
        /\ \/ persist'.pc = "write_result" /\ files'[ResultFile] = Empty
           \/ persist'.pc = "close"
    <3>1. CASE Goes("close", TRUE) /\ files' = files
        BY <1>2, <1>8, <3>1 DEF CreateResult, CreateArtifact, afterwards
    <3>2. CASE files' = [files EXCEPT ![ResultFile] = Empty] /\ Goes("write_result", FALSE)
      <4>1. files'[ResultFile] = Empty /\ files'[ManifestFile] = files[ManifestFile]
          BY <3>2 DEF TruthInv, RunShape
      <4> QED BY <1>2, <1>8, <3>2, <4>1 DEF CreateResult, CreateArtifact, afterwards
    <3> QED BY <1>8, <3>1, <3>2 DEF CreateResult, CreateArtifact
  <2> QED BY <1>1, <1>4, <1>6, <2>1 DEF TruthInv, Alive
<1>9. CASE WriteResult
  <2>1. exit' = exit /\ persist.pc = "write_result" /\ files[ResultFile] = Empty
      BY <1>1, <1>9 DEF WriteResult, CompleteArtifact, Persisting, TruthInv, Alive, afterwards
  <2>2. /\ files'[ManifestFile] = files[ManifestFile]
        /\ \/ /\ persist'.pc = "build"
              /\ files'[ResultFile].data = <<Report>> /\ files'[ResultFile].edited = FALSE
           \/ persist'.pc = "close"
    <3>1. CASE files' = [files EXCEPT ![ResultFile] = Absent] /\ Goes("close", TRUE)
        BY <1>2, <3>1 DEF TruthInv, RunShape
    <3>2. CASE /\ files' = [files EXCEPT ![ResultFile].data = <<Report>>,
                                         ![ResultFile].synced = TRUE]
               /\ Goes("build", FALSE)
      <4>1. /\ files'[ManifestFile] = files[ManifestFile]
            /\ files'[ResultFile] = [Empty EXCEPT !.data = <<Report>>, !.synced = TRUE]
          BY <2>1, <3>2 DEF TruthInv, RunShape
      <4>2. Empty \in [exists : {TRUE}, data : {<<>>}, edited : {FALSE}, synced : {FALSE}]
          BY DEF Empty, Absent
      <4>3. files'[ResultFile].data = <<Report>> /\ files'[ResultFile].edited = FALSE
          BY <4>1, <4>2
      <4> QED BY <1>2, <3>2, <4>1, <4>3
    <3> QED BY <1>9, <3>1, <3>2 DEF WriteResult, CompleteArtifact
  <2> QED BY <1>1, <1>4, <1>6, <2>1, <2>2 DEF TruthInv, Alive
<1>10. CASE Build
  <2>1. files' = files /\ exit' = exit /\ persist.pc = "build"
      BY <1>10 DEF Build, Persisting, afterwards
  <2>2. \/ persist'.pc = "close"
        \/ persist'.pc = "create_manifest" /\ ~logWriteError
      BY <1>2, <1>10 DEF Build, may_build
  <2> QED BY <1>1, <1>4, <1>6, <2>1, <2>2 DEF TruthInv, Alive
<1>11. CASE CreateManifest
  <2>1. exit' = exit /\ persist.pc = "create_manifest"
      BY <1>11 DEF CreateManifest, CreateArtifact, Persisting, afterwards
  <2>2. /\ files'[ResultFile] = files[ResultFile]
        /\ files'[ManifestFile] \in {files[ManifestFile], Empty}
        /\ persist'.pc \in {"write_manifest", "close"}
    <3>1. CASE Goes("close", TRUE) /\ files' = files
        BY <1>2, <3>1
    <3>2. CASE /\ files' = [files EXCEPT ![ManifestFile] = Empty]
               /\ Goes("write_manifest", FALSE)
        BY <1>2, <3>2 DEF TruthInv, RunShape
    <3> QED BY <1>11, <3>1, <3>2 DEF CreateManifest, CreateArtifact
  <2>3. Written'
    <3>1. CASE files'[ManifestFile] = Empty
        BY <3>1 DEF FileOfManifest, Empty, Absent
    <3> QED BY <1>6, <2>2, <3>1
  <2> QED BY <1>1, <1>4, <2>1, <2>2, <2>3 DEF TruthInv, Alive
<1>12. CASE WriteManifest
  <2>1. /\ exit' = exit /\ persist.pc = "write_manifest" /\ files[ManifestFile] = Empty
      BY <1>1, <1>12 DEF WriteManifest, CompleteArtifact, Persisting, RecordInv, Alive,
                         FileOfManifest, afterwards
  <2>2. persist'.pc = "close"
      BY <1>2, <1>12 DEF WriteManifest, CompleteArtifact
  <2>3. CASE files' = [files EXCEPT ![ManifestFile] = Absent]
    <3>1. FileOfManifest'.data = <<>>
        BY <2>3 DEF TruthInv, RunShape, FileOfManifest, Absent
    <3> QED BY <1>1, <1>4, <2>1, <2>2, <3>1 DEF TruthInv, Alive
  <2>4. CASE files' = [files EXCEPT ![ManifestFile].data = <<Manifest>>,
                                    ![ManifestFile].synced = TRUE]
    <3>1. files'[ManifestFile] = [Empty EXCEPT !.data = <<Manifest>>, !.synced = TRUE]
        BY <2>1, <2>4 DEF TruthInv, RunShape
    <3>2. Empty \in [exists : {TRUE}, data : {<<>>}, edited : {FALSE}, synced : {FALSE}]
        BY DEF Empty, Absent
    <3>3. FileOfManifest'.data = <<Manifest>>
        BY <3>1, <3>2 DEF FileOfManifest
    <3>4. Truthful(Manifest)
        BY <1>1, <2>1, ManifestIsTruthful DEF TruthInv, Alive
    <3>5. \E m : FileOfManifest'.data = <<m>> /\ Truthful(m)'
        BY <1>4, <3>3, <3>4
    <3> QED BY <1>1, <1>4, <2>1, <2>2, <3>5 DEF TruthInv, Alive
  <2> QED BY <1>12, <2>3, <2>4 DEF WriteManifest, CompleteArtifact
<1>13. CASE CloseAndExit
  <2>1. PICK b \in BOOLEAN :
           /\ exit' = IF persist'.error THEN "internal_error" ELSE ExitCode(run.status)
           /\ files' = files
      BY <1>13 DEF CloseAndExit
  <2>2. exit' # "none"
      BY <2>1 DEF ExitCode
  <2> QED BY <1>1, <1>4, <1>6, <2>1, <2>2 DEF TruthInv, Alive
<1> QED BY <1>7, <1>8, <1>9, <1>10, <1>11, <1>12, <1>13

(* Whatever happens to the files afterwards, the manifest keeps what it     *)
(* says or says nothing.                                                    *)
LEMMA DisturbTruth ==
    ASSUME TruthInv, RecordInv,
           Killed \/ \E f \in Files : LoseData(f) \/ LoseFile(f) \/ Edit(f)
    PROVE  TruthInv'
<1>1. /\ exit' # "none" /\ run' = run /\ outputs' = outputs
      /\ logWriteError' = logWriteError /\ open' = open /\ DOMAIN files' = Files
      /\ Alive => files' = files
      /\ files'[ManifestFile].data \in {files[ManifestFile].data,
                                        Front(files[ManifestFile].data), <<>>}
  <2>1. CASE Killed
      BY <2>1 DEF Killed, TruthInv, RunShape
  <2>2. ASSUME NEW f \in Files, NEW file, Disturb(f, file),
               \/ f # ManifestFile
               \/ file.data \in {Front(files[f].data), <<>>}
        PROVE  <1>1
    <3>1. /\ exit # "none" /\ exit' = exit /\ run' = run /\ outputs' = outputs
          /\ logWriteError' = logWriteError /\ open' = open
          /\ files' = [files EXCEPT ![f] = file] /\ DOMAIN files = Files
        BY <2>2 DEF Disturb, Alive, TruthInv, RunShape
    <3>2. DOMAIN files' = Files
        BY <3>1
    <3>3. /\ f # ManifestFile => files'[ManifestFile] = files[ManifestFile]
          /\ f = ManifestFile => files'[ManifestFile] = file
        BY <3>1, LogNames
    <3> QED BY <2>2, <3>1, <3>2, <3>3 DEF Alive
  <2>3. ASSUME NEW f \in Files, LoseData(f) \/ LoseFile(f) \/ Edit(f)
        PROVE  <1>1
    <3>1. CASE LoseData(f)
      <4> DEFINE file == [files[f] EXCEPT !.data = Front(@)]
      <4>1. Disturb(f, file) /\ files[f].data # <<>>
          BY <3>1 DEF LoseData
      <4>2. f # ManifestFile \/ file.data \in {Front(files[f].data), <<>>}
          OBVIOUS
      <4> HIDE DEF file
      <4> QED BY <2>2, <4>1, <4>2
    <3>2. CASE LoseFile(f)
      <4>1. Disturb(f, Absent) /\ Absent.data = <<>>
          BY <3>2 DEF LoseFile, Absent
      <4> QED BY <2>2, <4>1
    <3>3. CASE Edit(f)
        BY <2>2, <3>3 DEF Edit
    <3> QED BY <2>3, <3>1, <3>2, <3>3
  <2> QED BY <2>1, <2>3
<1>2. RunShape' /\ \A m : Truthful(m)' <=> Truthful(m)
    BY <1>1, PersistFrame
<1>3. ASSUME FileOfManifest'.data # <<>>
      PROVE  run.pc = "finished" /\ \E m : FileOfManifest'.data = <<m>> /\ Truthful(m)'
  <2>1. ASSUME NEW m
        PROVE  Front(<<m>>) = <<>>
      BY DEF Front
  <2>2. FileOfManifest.data # <<>>
    <3>1. Front(<<>>) = <<>>
        BY DEF Front
    <3> QED BY <1>1, <1>3, <3>1 DEF FileOfManifest
  <2>3. run.pc = "finished" /\ \E m : FileOfManifest.data = <<m>> /\ Truthful(m)
      BY <2>2 DEF TruthInv
  <2>4. FileOfManifest'.data = FileOfManifest.data
      BY <1>1, <1>3, <2>1, <2>3 DEF FileOfManifest
  <2> QED BY <1>2, <2>3, <2>4
<1> QED BY <1>1, <1>2, <1>3 DEF TruthInv, Alive

(* A record that verifies is that of the run, for every number of stages,   *)
(* any output and any failure, kill, loss or edit: a manifest is written    *)
(* only when no call failed before it, so it lists the result and every     *)
(* log of a stage that was started with all the runner said, and what       *)
(* happens to a listed file afterwards contradicts its digest.              *)
THEOREM ConsoleVerifiedIsTheRun == ArtifactsSpec => []VerifiedIsTheRun
<1>1. ArtifactsInit => TruthInv /\ RecordInv
  <2> SUFFICES ASSUME ArtifactsInit PROVE TruthInv /\ RecordInv
      OBVIOUS
  <2>1. /\ files = [f \in Files |-> Absent] /\ logWriteError = FALSE
        /\ persist.pc = "runner" /\ persist.error = FALSE /\ disturbed = 0
        /\ exit = "none" /\ outputs = <<>> /\ open = {}
        /\ run = [pc |-> "between", stage |-> 1, stages |-> <<>>, status |-> "passed"]
      BY DEF ArtifactsInit
  <2>2. RecordInv
      BY <2>1 DEF RecordInv, Alive
  <2>3. RunShape
    <3>1. 1 \in PlannedStages /\ <<>> \in Seq(StageResults) /\ <<>> \in Seq(Outputs)
        BY ArtifactsAssumption DEF PlannedStages
    <3>2. Len(run.stages) = run.stage - 1 /\ run.pc = "between"
        BY <2>1
    <3>3. run \in [pc : {"between", "stage", "finished"}, stage : PlannedStages,
                   stages : Seq(StageResults), status : Statuses]
        BY <2>1, <3>1 DEF Statuses
    <3> QED BY <2>1, <3>1, <3>2, <3>3 DEF RunShape
  <2>4. FileOfManifest.data = <<>>
      BY <2>1, LogNames DEF FileOfManifest, Absent
  <2>5. GoodLogs(files, open, outputs) /\ StartedAreOpen
      BY <2>1 DEF GoodLogs, StartedAreOpen
  <2> QED BY <2>1, <2>2, <2>3, <2>4, <2>5 DEF TruthInv
<1>2. TruthInv /\ RecordInv /\ [ArtifactsNext]_artifactsVars => TruthInv' /\ RecordInv'
  <2> SUFFICES ASSUME TruthInv, RecordInv, [ArtifactsNext]_artifactsVars
               PROVE  TruthInv' /\ RecordInv'
      OBVIOUS
  <2>1. CASE UNCHANGED artifactsVars
    <3>1. TruthInv'
        BY <2>1 DEF artifactsVars, TruthInv, RunShape, Alive, StartedAreOpen, FileOfManifest,
                    Truthful, Report, targets
    <3>2. RecordInv'
        BY <2>1 DEF artifactsVars, RecordInv, Alive, Recorded, FileOfManifest, Manifest,
                    targets
    <3> QED BY <3>1, <3>2
  <2>2. CASE StageStarted \/ StageFinished \/ StageCancelled
             \/ \E stream \in Streams : StageOutputs(stream)
      BY <2>2, StartTruth, FinishTruth, OutputTruth, RunnerStepKeeps
  <2>3. CASE \/ RunnerReturns \/ CreateResult \/ WriteResult \/ Build
             \/ CreateManifest \/ WriteManifest \/ CloseAndExit
      BY <2>3, PersistTruth, PersistStepKeeps
  <2>4. CASE Killed \/ \E f \in Files : LoseData(f) \/ LoseFile(f) \/ Edit(f)
      BY <2>4, DisturbTruth, DisturbStepKeeps
  <2> QED BY <2>1, <2>2, <2>3, <2>4 DEF ArtifactsNext
<1>3. TruthInv => VerifiedIsTheRun
  <2> SUFFICES ASSUME TruthInv, VerifyFile
               PROVE  /\ run.pc = "finished"
                      /\ files[ResultFile].data = <<Report>>
                      /\ \A f \in LogFiles : run.stages[f[2]].started =>
                            files[f].exists /\ HoldsOutput(files[f].data, f)
      BY DEF VerifiedIsTheRun
  <2>1. PICK m : /\ run.pc = "finished" /\ FileOfManifest.data = <<m>> /\ Truthful(m)
      BY DEF TruthInv, VerifyFile, FileOfManifest
  <2>2. \A f \in targets : files[f].exists /\ <<files[f].data, files[f].edited>> = m[f]
      BY <2>1 DEF VerifyFile, FileOfManifest, Truthful, Digest
  <2>3. files[ResultFile].data = <<Report>>
      BY <2>1, <2>2 DEF Truthful, targets
  <2>4. ASSUME NEW f \in LogFiles, run.stages[f[2]].started
        PROVE  files[f].exists /\ HoldsOutput(files[f].data, f)
    <3>1. f \in targets
        BY <2>1, <2>4, LogNames, ArtifactsAssumption
           DEF targets, TruthInv, RunShape, PlannedStages
    <3>2. PICK data : m[f] = <<data, FALSE>> /\ Holds(data, outputs, f[1], f[2])
        BY <2>1, <2>4, <3>1 DEF Truthful
    <3>3. files[f].exists /\ files[f].data = data
        BY <2>2, <3>1, <3>2
    <3>4. Belongs(outputs, f[1], f[2]) = Logged(f)
        BY DEF Belongs, Logged
    <3> QED BY <3>2, <3>3, <3>4 DEF Holds, HoldsOutput
  <2> QED BY <2>1, <2>3, <2>4
<1> QED BY <1>1, <1>2, <1>3, PTL DEF ArtifactsSpec

-----------------------------------------------------------------------------
(* What the screen shows.                                                   *)

IsNotice(e, s) == e.stage = s /\ e.kind \in {"started", "finished", "skipped"}
IsOutput(e, s) == e.stage = s /\ e.kind = "output"

(* The status of a stage, and its newest chunk, after the first m messages  *)
(* of a sequence.                                                           *)
StatusAt(t, m, s, v) ==
    \/ v = "waiting" /\ \A i \in 1 .. m : ~IsNotice(t[i], s)
    \/ \E i \in 1 .. m : /\ IsNotice(t[i], s) /\ v = Says(t[i])
                         /\ \A j \in i + 1 .. m : ~IsNotice(t[j], s)

NewestAt(t, m, s, n) ==
    /\ n = 0 \/ \E i \in 1 .. m : IsOutput(t[i], s) /\ t[i].chunk = n
    /\ \A i \in 1 .. m : IsOutput(t[i], s) => t[i].chunk <= n

(* Every chunk follows the one before it.                                   *)
Numbered(t) ==
    \A i \in DOMAIN t, s \in Stages :
        IsOutput(t[i], s) => NewestAt(t, i - 1, s, t[i].chunk - 1)

(* How a stage ends, once the execution x has.                              *)
FinalStatus(x, s) ==
    IF s < x.stage THEN "passed" ELSE IF s = x.stage THEN x.status ELSE "skipped"

(* What an execution x has sent and is about to send: stages that were left *)
(* have passed, the present one has brought so many chunks, later ones      *)
(* none; at the end every stage has its outcome, and the last message says  *)
(* that the run has ended.                                                  *)
TraceInv(t, x) ==
    /\ Numbered(t)
    /\ \A i \in DOMAIN t : t[i].kind = "run_finished" => i = Len(t) /\ x.pc = "finished"
    /\ \A s \in Stages :
          /\ s < x.stage => StatusAt(t, Len(t), s, "passed")
          /\ x.pc # "finished" /\ s = x.stage => NewestAt(t, Len(t), s, x.outputs)
          /\ x.pc # "finished" /\ s > x.stage => NewestAt(t, Len(t), s, 0)
          /\ x.pc = "finished" => StatusAt(t, Len(t), s, FinalStatus(x, s))

(* Messages that are not about a stage change nothing about it, and only    *)
(* what was sent until then counts.                                         *)
LEMMA StatusKept ==
    ASSUME NEW t, NEW u, NEW m \in Nat, NEW k \in Nat, m <= k, NEW s, NEW v,
           \A i \in 1 .. m : u[i] = t[i],
           \A i \in m + 1 .. k : ~IsNotice(u[i], s),
           StatusAt(t, m, s, v)
    PROVE  StatusAt(u, k, s, v)
<1>1. CASE v = "waiting" /\ \A i \in 1 .. m : ~IsNotice(t[i], s)
  <2>1. \A i \in 1 .. k : ~IsNotice(u[i], s)
    <3> TAKE i \in 1 .. k
    <3>1. i \in 1 .. m \/ i \in m + 1 .. k
        OBVIOUS
    <3> QED BY <1>1, <3>1
  <2> QED BY <1>1, <2>1 DEF StatusAt
<1>2. CASE \E i \in 1 .. m : /\ IsNotice(t[i], s) /\ v = Says(t[i])
                             /\ \A j \in i + 1 .. m : ~IsNotice(t[j], s)
  <2>1. PICK i \in 1 .. m : /\ IsNotice(t[i], s) /\ v = Says(t[i])
                            /\ \A j \in i + 1 .. m : ~IsNotice(t[j], s)
      BY <1>2
  <2>2. \A j \in i + 1 .. k : ~IsNotice(u[j], s)
    <3> TAKE j \in i + 1 .. k
    <3>1. (j \in i + 1 .. m /\ j \in 1 .. m) \/ j \in m + 1 .. k
        OBVIOUS
    <3> QED BY <2>1, <3>1
  <2>3. i \in 1 .. k /\ u[i] = t[i]
      OBVIOUS
  <2> QED BY <2>1, <2>2, <2>3 DEF StatusAt
<1> QED BY <1>1, <1>2 DEF StatusAt

(* A stage has one status.                                                  *)
LEMMA StatusUnique ==
    ASSUME NEW t, NEW m \in Nat, NEW s, NEW v, NEW w,
           StatusAt(t, m, s, v), StatusAt(t, m, s, w)
    PROVE  v = w
<1>1. CASE \A i \in 1 .. m : ~IsNotice(t[i], s)
    BY <1>1 DEF StatusAt
<1>2. CASE \E i \in 1 .. m : IsNotice(t[i], s)
  <2>1. PICK i \in 1 .. m : /\ IsNotice(t[i], s) /\ v = Says(t[i])
                            /\ \A j \in i + 1 .. m : ~IsNotice(t[j], s)
      BY <1>2 DEF StatusAt
  <2>2. PICK j \in 1 .. m : /\ IsNotice(t[j], s) /\ w = Says(t[j])
                            /\ \A l \in j + 1 .. m : ~IsNotice(t[l], s)
      BY <1>2 DEF StatusAt
  <2>3. i \notin j + 1 .. m /\ j \notin i + 1 .. m
      BY <2>1, <2>2
  <2>4. i = j
      BY <2>3
  <2> QED BY <2>1, <2>2, <2>4
<1> QED BY <1>1, <1>2

(* Messages that bring no output of a stage leave its newest chunk.         *)
LEMMA NewestKept ==
    ASSUME NEW t, NEW u, NEW m \in Nat, NEW k \in Nat, m <= k, NEW s, NEW n,
           \A i \in 1 .. m : u[i] = t[i],
           \A i \in m + 1 .. k : ~IsOutput(u[i], s),
           NewestAt(t, m, s, n)
    PROVE  NewestAt(u, k, s, n)
<1>1. \A i \in 1 .. k : i \in 1 .. m \/ i \in m + 1 .. k
    OBVIOUS
<1>2. \A i \in 1 .. m : i \in 1 .. k
    OBVIOUS
<1>3. \A i \in 1 .. k : IsOutput(u[i], s) => u[i].chunk <= n
    BY <1>1 DEF NewestAt
<1>4. n = 0 \/ \E i \in 1 .. k : IsOutput(u[i], s) /\ u[i].chunk = n
    BY <1>2 DEF NewestAt
<1> QED BY <1>3, <1>4 DEF NewestAt

(* Only what was sent until then counts.                                    *)
LEMMA NewestSame ==
    ASSUME NEW t, NEW u, NEW m \in Nat, NEW s, NEW n,
           \A i \in 1 .. m : u[i] = t[i], NewestAt(t, m, s, n)
    PROVE  NewestAt(u, m, s, n)
BY DEF NewestAt

(* The next chunk is the newest.                                            *)
LEMMA NewestStep ==
    ASSUME NEW t, NEW u, NEW m \in Nat, NEW s, NEW n \in Nat,
           \A i \in 1 .. m : u[i] = t[i] /\ t[i].chunk \in Nat,
           IsOutput(u[m + 1], s), u[m + 1].chunk = n + 1,
           NewestAt(t, m, s, n)
    PROVE  NewestAt(u, m + 1, s, n + 1)
<1>1. \A i \in 1 .. m + 1 : i \in 1 .. m \/ i = m + 1
    OBVIOUS
<1>2. \A i \in 1 .. m + 1 : IsOutput(u[i], s) => u[i].chunk <= n + 1
  <2>1. \A i \in 1 .. m : IsOutput(u[i], s) => u[i].chunk <= n + 1
      BY DEF NewestAt
  <2> QED BY <1>1, <2>1
<1> QED BY <1>2 DEF NewestAt

(* The newest chunk is one.                                                 *)
LEMMA NewestUnique ==
    ASSUME NEW t, NEW m \in Nat, NEW s, NEW n \in Nat, NEW l \in Nat,
           \A i \in 1 .. m : t[i].chunk \in Nat,
           NewestAt(t, m, s, n), NewestAt(t, m, s, l)
    PROVE  n = l
BY DEF NewestAt

(* Two logs with the same chunks are one.                                   *)
LEMMA SameChunks ==
    ASSUME NEW c \in Seq(Int), NEW d \in Seq(Int), Len(c) = Len(d),
           \A i \in 1 .. Len(c) : c[i] = d[i]
    PROVE  c = d
OBVIOUS

(* A log that gets the next chunk holds the newest ones that fit.           *)
LEMMA NewestAppended ==
    ASSUME NEW n \in Nat
    PROVE  LET c == Append(NewestChunks(n), n + 1)
           IN  /\ Len(c) \in Nat
               /\ Len(c) <= MaxStageLog => c = NewestChunks(n + 1) /\ ~(n + 1 > MaxStageLog)
               /\ ~(Len(c) <= MaxStageLog) =>
                     /\ SubSeq(c, Len(c) - MaxStageLog + 1, Len(c)) = NewestChunks(n + 1)
                     /\ n + 1 > MaxStageLog
<1> DEFINE kept(k) == IF k < MaxStageLog THEN k ELSE MaxStageLog
           old == NewestChunks(n)
           new == NewestChunks(n + 1)
           c == Append(old, n + 1)
<1>1. MaxStageLog \in Nat \ {0}
    BY ConsoleAssumption
<1>2. ASSUME NEW k \in Nat
      PROVE  /\ kept(k) \in Nat /\ kept(k) <= k
             /\ NewestChunks(k) \in Seq(Int) /\ Len(NewestChunks(k)) = kept(k)
             /\ \A i \in 1 .. kept(k) : NewestChunks(k)[i] = k - kept(k) + i
  <2>1. kept(k) \in Nat /\ kept(k) <= k
      BY <1>1
  <2>2. NewestChunks(k) = [i \in 1 .. kept(k) |-> k - kept(k) + i]
      BY DEF NewestChunks
  <2> HIDE DEF kept
  <2>3. NewestChunks(k) \in [1 .. kept(k) -> Int]
      BY <2>1, <2>2
  <2>4. \A m \in Nat : [1 .. m -> Int] \subseteq Seq(Int)
      OBVIOUS
  <2> QED BY <2>1, <2>2, <2>3, <2>4
<1>3. /\ old \in Seq(Int) /\ Len(old) = kept(n) /\ new \in Seq(Int)
      /\ Len(new) = kept(n + 1)
      /\ \A i \in 1 .. kept(n) : old[i] = n - kept(n) + i
      /\ \A i \in 1 .. kept(n + 1) : new[i] = n + 1 - kept(n + 1) + i
      /\ kept(n) \in Nat
  <2>1. n \in Nat /\ n + 1 \in Nat
      OBVIOUS
  <2> HIDE DEF kept, old, new
  <2>2. /\ kept(n) \in Nat /\ old \in Seq(Int) /\ Len(old) = kept(n)
        /\ \A i \in 1 .. kept(n) : old[i] = n - kept(n) + i
      BY <1>2 DEF old
  <2>3. /\ new \in Seq(Int) /\ Len(new) = kept(n + 1)
        /\ \A i \in 1 .. kept(n + 1) : new[i] = n + 1 - kept(n + 1) + i
      BY <1>2, <2>1 DEF new
  <2> QED BY <2>2, <2>3
<1> HIDE DEF old, new
<1>4. /\ c \in Seq(Int) /\ Len(c) = kept(n) + 1
      /\ \A i \in 1 .. kept(n) : c[i] = n - kept(n) + i
      /\ c[kept(n) + 1] = n + 1
    BY <1>3
<1>5. \A i \in 1 .. kept(n) + 1 : c[i] = n - kept(n) + i
  <2> HIDE DEF kept, c
  <2> TAKE i \in 1 .. kept(n) + 1
  <2>1. CASE i \in 1 .. kept(n)
      BY <1>4, <2>1
  <2>2. CASE i \notin 1 .. kept(n)
    <3>1. \A p \in Nat : i \in 1 .. p + 1 /\ i \notin 1 .. p =>
                             i = p + 1 /\ n + 1 = n - p + (p + 1)
        OBVIOUS
    <3>2. i = kept(n) + 1 /\ n + 1 = n - kept(n) + (kept(n) + 1)
        BY <1>3, <2>2, <3>1
    <3> QED BY <1>4, <3>2
  <2> QED BY <2>1, <2>2
<1> HIDE DEF c
<1>6. CASE n < MaxStageLog
  <2>1. kept(n) = n /\ kept(n + 1) = n + 1
      BY <1>1, <1>6
  <2>2. Len(c) <= MaxStageLog /\ ~(n + 1 > MaxStageLog)
      BY <1>1, <1>4, <1>6, <2>1
  <2> HIDE DEF kept
  <2>3. Len(c) = Len(new) /\ \A i \in 1 .. Len(c) : c[i] = new[i]
    <3>1. Len(c) = n + 1 /\ Len(new) = n + 1
        BY <1>3, <1>4, <2>1
    <3>2. ASSUME NEW i \in 1 .. n + 1
          PROVE  c[i] = new[i]
      <4>1. c[i] = n - n + i /\ new[i] = n + 1 - (n + 1) + i
          BY <1>3, <1>5, <2>1
      <4>2. n - n + i = n + 1 - (n + 1) + i
          OBVIOUS
      <4> QED BY <4>1, <4>2
    <3> QED BY <3>1, <3>2
  <2>4. c = new
    <3>1. c \in Seq(Int) /\ new \in Seq(Int)
        BY <1>3, <1>4
    <3> QED BY <2>3, <3>1, SameChunks, Zenon
  <2> QED BY <1>4, <2>1, <2>2, <2>4 DEF c, old, new
<1>7. CASE ~(n < MaxStageLog)
  <2>1. kept(n) = MaxStageLog /\ kept(n + 1) = MaxStageLog /\ n + 1 > MaxStageLog
      BY <1>1, <1>7
  <2> HIDE DEF kept
  <2> DEFINE d == SubSeq(c, Len(c) - MaxStageLog + 1, Len(c))
  <2>2. Len(c) = MaxStageLog + 1 /\ Len(c) - MaxStageLog + 1 = 2
      BY <1>1, <1>4, <2>1
  <2>3. d = SubSeq(c, 2, MaxStageLog + 1)
      BY <2>2
  <2>4. /\ SubSeq(c, 2, MaxStageLog + 1) \in Seq(Int)
        /\ Len(SubSeq(c, 2, MaxStageLog + 1)) = MaxStageLog
        /\ \A i \in 1 .. MaxStageLog : SubSeq(c, 2, MaxStageLog + 1)[i] = c[i + 1]
      BY <1>1, <1>4, <2>2
  <2> HIDE DEF d
  <2>5. \A i \in 1 .. MaxStageLog : d[i] = new[i]
      BY <1>1, <1>3, <1>5, <2>1, <2>3, <2>4
  <2>6. d = new
      BY <1>3, <2>1, <2>3, <2>4, <2>5
  <2> QED BY <1>1, <1>4, <2>1, <2>2, <2>6 DEF c, d, old, new
<1> QED BY <1>6, <1>7

(* The execution sends one more message: about its stage, or output of it,  *)
(* or that it has passed, which takes it to the next one.                   *)
LEMMA TraceEmitted ==
    ASSUME NEW t \in Seq(Messages), NEW x, NEW y, NEW e \in Messages, TraceInv(t, x),
           x.stage \in Nat, x.outputs \in Nat, x.pc # "finished", y.pc # "finished",
           e.stage = x.stage, e.kind # "run_finished",
           \/ y.stage = x.stage /\ y.outputs = x.outputs /\ e.kind # "output"
           \/ /\ y.stage = x.stage /\ y.outputs = x.outputs + 1
              /\ e.kind = "output" /\ e.chunk = x.outputs + 1
           \/ /\ y.stage = x.stage + 1 /\ y.outputs = 0
              /\ e.kind = "finished" /\ e.status = "passed"
    PROVE  t \o <<e>> \in Seq(Messages) /\ TraceInv(t \o <<e>>, y)
<1> DEFINE u == t \o <<e>>
           m == Len(t)
<1>1. /\ m \in Nat /\ DOMAIN t = 1 .. m
      /\ u \in Seq(Messages) /\ Len(u) = m + 1 /\ DOMAIN u = 1 .. m + 1
      /\ \A i \in 1 .. m : u[i] = t[i]
      /\ u[m + 1] = e
  <2>1. <<e>> \in Seq(Messages) /\ Len(<<e>>) = 1 /\ <<e>>[1] = e
      OBVIOUS
  <2> QED BY <2>1
<1> HIDE DEF u, m
<1>2. /\ \A i \in m + 1 .. m + 1 : i = m + 1
      /\ \A i \in 1 .. m + 1 : i \in 1 .. m \/ i = m + 1
      /\ \A i \in 1 .. m : t[i].chunk \in Nat
  <2>1. m \in Nat
      BY <1>1
  <2>2. \A i \in 1 .. m : t[i] \in Messages
      BY <1>1
  <2>3. \A i \in 1 .. m : t[i].chunk \in Nat
      BY <2>2 DEF Messages
  <2> QED BY <2>1, <2>3
<1>3. ASSUME NEW s \in Stages, NEW i \in 1 .. m, NEW n, NewestAt(t, i - 1, s, n)
      PROVE  NewestAt(u, i - 1, s, n)
  <2>1. i - 1 \in Nat /\ \A j \in 1 .. i - 1 : u[j] = t[j]
      BY <1>1
  <2> QED BY <1>3, <2>1, NewestSame
<1>4. ASSUME NEW s \in Stages, ~IsNotice(e, s), NEW v, StatusAt(t, m, s, v)
      PROVE  StatusAt(u, m + 1, s, v)
    BY <1>1, <1>2, <1>4, StatusKept
<1>5. ASSUME NEW s \in Stages, ~IsOutput(e, s), NEW n, NewestAt(t, m, s, n)
      PROVE  NewestAt(u, m + 1, s, n)
    BY <1>1, <1>2, <1>5, NewestKept
<1>6. Numbered(u)
  <2> SUFFICES ASSUME NEW i \in 1 .. m + 1, NEW s \in Stages, IsOutput(u[i], s)
               PROVE  NewestAt(u, i - 1, s, u[i].chunk - 1)
      BY <1>1 DEF Numbered
  <2>1. CASE i \in 1 .. m
      BY <1>1, <1>3, <2>1 DEF TraceInv, Numbered
  <2>2. CASE i = m + 1
    <3>1. e.kind = "output" /\ e.chunk = x.outputs + 1 /\ s = x.stage
        BY <1>1, <2>2 DEF IsOutput
    <3>2. NewestAt(t, m, s, x.outputs)
        BY <3>1 DEF TraceInv, m
    <3>3. NewestAt(u, m, s, x.outputs)
        BY <1>1, <3>2, NewestSame
    <3>4. i - 1 = m /\ u[i].chunk - 1 = x.outputs
        BY <1>1, <2>2, <3>1
    <3> QED BY <3>3, <3>4
  <2> QED BY <1>2, <2>1, <2>2
<1>7. \A i \in 1 .. m + 1 : u[i].kind # "run_finished"
    BY <1>1, <1>2 DEF TraceInv
<1>8. ASSUME NEW s \in Stages
      PROVE  /\ s < y.stage => StatusAt(u, m + 1, s, "passed")
             /\ s = y.stage => NewestAt(u, m + 1, s, y.outputs)
             /\ s > y.stage => NewestAt(u, m + 1, s, 0)
  <2>0. s \in Nat /\ (s # x.stage => ~IsNotice(e, s) /\ ~IsOutput(e, s))
      BY ConsoleAssumption DEF Stages, IsNotice, IsOutput
  <2>1. /\ s < x.stage => StatusAt(t, m, s, "passed")
        /\ s = x.stage => NewestAt(t, m, s, x.outputs)
        /\ s > x.stage => NewestAt(t, m, s, 0)
      BY DEF TraceInv, m
  <2>2. /\ s < x.stage => StatusAt(u, m + 1, s, "passed")
        /\ s > x.stage => NewestAt(u, m + 1, s, 0)
      BY <1>4, <1>5, <2>0, <2>1
  <2>3. CASE y.stage = x.stage /\ y.outputs = x.outputs /\ e.kind # "output"
    <3>1. ~IsOutput(e, s)
        BY <2>3 DEF IsOutput
    <3> QED BY <1>5, <2>1, <2>2, <2>3, <3>1
  <2>4. CASE /\ y.stage = x.stage /\ y.outputs = x.outputs + 1
             /\ e.kind = "output" /\ e.chunk = x.outputs + 1
    <3>1. ASSUME s = x.stage
          PROVE  NewestAt(u, m + 1, s, x.outputs + 1)
      <4>1. IsOutput(u[m + 1], s) /\ u[m + 1].chunk = x.outputs + 1
          BY <1>1, <2>4, <3>1 DEF IsOutput
      <4> QED BY <1>1, <1>2, <2>1, <3>1, <4>1, NewestStep
    <3> QED BY <2>2, <2>4, <3>1
  <2>5. CASE /\ y.stage = x.stage + 1 /\ y.outputs = 0
             /\ e.kind = "finished" /\ e.status = "passed"
    <3>1. ASSUME s = x.stage
          PROVE  StatusAt(u, m + 1, s, "passed")
      <4>1. IsNotice(u[m + 1], s) /\ "passed" = Says(u[m + 1])
          BY <1>1, <2>5, <3>1 DEF IsNotice, Says
      <4>2. m + 1 \in 1 .. m + 1 /\ \A j \in m + 1 + 1 .. m + 1 : ~IsNotice(u[j], s)
          BY <1>1
      <4> QED BY <4>1, <4>2 DEF StatusAt
    <3>2. /\ s < y.stage => s < x.stage \/ s = x.stage
          /\ s = y.stage => s > x.stage
          /\ s > y.stage => s > x.stage
        BY <2>0, <2>5
    <3> QED BY <2>2, <2>5, <3>1, <3>2
  <2> QED BY <2>3, <2>4, <2>5
<1>9. TraceInv(u, y)
    BY <1>1, <1>6, <1>7, <1>8 DEF TraceInv
<1> QED BY <1>1, <1>9 DEF u

(* u is s, of length k, followed by t, of length l.                         *)
Joined(u, s, t, k, l) ==
    /\ u \in Seq(Messages) /\ Len(u) = k + l /\ DOMAIN u = 1 .. k + l
    /\ \A i \in 1 .. k : u[i] = s[i]
    /\ \A i \in 1 .. l : u[k + i] = t[i]

(* Where the elements of a concatenation come from.                         *)
LEMMA ConcatFacts ==
    ASSUME NEW s \in Seq(Messages), NEW t \in Seq(Messages), NEW k, NEW l,
           Len(s) = k, Len(t) = l
    PROVE  Joined(s \o t, s, t, k, l)
<1>1. /\ s \o t \in Seq(Messages) /\ Len(s \o t) = Len(s) + Len(t)
      /\ DOMAIN (s \o t) = 1 .. Len(s) + Len(t)
    OBVIOUS
<1>2. \A i \in 1 .. Len(s) : (s \o t)[i] = s[i]
    OBVIOUS
<1>3. ASSUME NEW i \in 1 .. Len(t)
      PROVE  (s \o t)[Len(s) + i] = t[i]
  <2>1. Len(s) + i \in 1 .. Len(s) + Len(t) /\ Len(s) + i > Len(s) /\ Len(s) + i - Len(s) = i
      OBVIOUS
  <2> QED BY <2>1
<1> QED BY <1>1, <1>2, <1>3 DEF Joined

(* The last messages of an execution.                                       *)
Farewell(stage, status, b) ==
    <<Finished(stage, status)>> \o Skipped(stage + 1) \o <<RunEvent, RunFinishedMsg(status, b)>>

(* They are about the present stage, those after it, and the run.           *)
LEMMA FarewellFacts ==
    ASSUME NEW stage \in Stages, NEW status \in Statuses, NEW b \in BOOLEAN
    PROVE  LET q == Farewell(stage, status, b)
               n == PlanLength - stage
           IN  /\ n \in Nat /\ q \in Seq(Messages) /\ Len(q) = n + 3
               /\ q[1].kind = "finished" /\ q[1].stage = stage /\ q[1].status = status
               /\ \A i \in 2 .. n + 1 : q[i].kind = "skipped" /\ q[i].stage = stage + i - 1
               /\ q[n + 2].kind = "run" /\ q[n + 3].kind = "run_finished"
<1> DEFINE n == PlanLength - stage
           a == <<Finished(stage, status)>>
           s == Skipped(stage + 1)
           l == <<RunEvent, RunFinishedMsg(status, b)>>
<1>1. n \in Nat /\ stage \in Nat /\ PlanLength \in Nat
    BY ConsoleAssumption DEF Stages
<1>2. /\ a \in Seq(Messages) /\ Len(a) = 1 /\ a[1].kind = "finished"
      /\ a[1].stage = stage /\ a[1].status = status
  <2>1. Finished(stage, status) \in Messages /\ Finished(stage, status).kind = "finished"
      BY <1>1, MessageTypes
  <2>2. Finished(stage, status).stage = stage /\ Finished(stage, status).status = status
      BY DEF Finished, Event
  <2> QED BY <2>1, <2>2
<1>3. /\ s \in Seq(Messages) /\ Len(s) = n
      /\ \A i \in 1 .. n : s[i].kind = "skipped" /\ s[i].stage = stage + i
  <2>1. s = [i \in 1 .. n |-> Event("skipped", stage + i)]
    <3>1. PlanLength - (stage + 1) + 1 = n /\ \A i \in 1 .. n : stage + 1 + i - 1 = stage + i
        BY <1>1
    <3> QED BY <3>1 DEF Skipped
  <2>2. ASSUME NEW i \in 1 .. n
        PROVE  /\ Event("skipped", stage + i) \in Messages
               /\ Event("skipped", stage + i).kind = "skipped"
               /\ Event("skipped", stage + i).stage = stage + i
    <3>1. stage + i \in Nat
        BY <1>1
    <3>2. Event("skipped", stage + i).stage = stage + i
        BY DEF Event
    <3> QED BY <3>1, <3>2, MessageTypes DEF RunnerKinds
  <2>3. s \in [1 .. n -> Messages]
      BY <2>1, <2>2
  <2>4. \A k \in Nat : [1 .. k -> Messages] \subseteq Seq(Messages)
      OBVIOUS
  <2> HIDE DEF n, s
  <2>5. s \in Seq(Messages) /\ Len(s) = n
      BY <1>1, <2>3, <2>4
  <2> QED BY <2>1, <2>2, <2>5
<1>4. /\ l \in Seq(Messages) /\ Len(l) = 2 /\ l[1].kind = "run"
      /\ l[2].kind = "run_finished"
  <2>1. /\ RunEvent \in Messages /\ RunFinishedMsg(status, b) \in Messages
        /\ RunEvent.kind = "run"
      BY <1>1, MessageTypes
  <2>2. RunFinishedMsg(status, b).kind = "run_finished"
      BY DEF RunFinishedMsg, Event
  <2> QED BY <2>1, <2>2
<1> HIDE DEF a, s, l, n
<1>5. /\ a \o s \in Seq(Messages) /\ Len(a \o s) = n + 1 /\ (a \o s)[1] = a[1]
      /\ \A i \in 2 .. n + 1 : (a \o s)[i] = s[i - 1]
  <2>1. /\ a \o s \in Seq(Messages) /\ Len(a \o s) = 1 + n
        /\ \A i \in 1 .. 1 : (a \o s)[i] = a[i]
        /\ \A i \in 1 .. n : (a \o s)[1 + i] = s[i]
    <3>1. /\ a \in Seq(Messages) /\ s \in Seq(Messages)
          /\ Len(a) = 1 /\ Len(s) = n
        BY <1>2, <1>3
    <3>2. Joined(a \o s, a, s, 1, n)
        BY <3>1, ConcatFacts, Zenon
    <3> QED BY <3>2 DEF Joined
  <2>2. ASSUME NEW i \in 2 .. n + 1
        PROVE  i - 1 \in 1 .. n /\ 1 + (i - 1) = i
      BY <1>1
  <2>3. \A i \in 2 .. n + 1 : (a \o s)[i] = s[i - 1]
      BY <2>1, <2>2
  <2> QED BY <1>1, <2>1, <2>3
<1> DEFINE c == a \o s
<1> HIDE DEF c
<1>6. /\ c \in Seq(Messages) /\ Len(c) = n + 1 /\ c[1] = a[1]
      /\ \A i \in 2 .. n + 1 : c[i] = s[i - 1]
    BY <1>5 DEF c
<1>7. /\ c \o l \in Seq(Messages) /\ Len(c \o l) = n + 3
      /\ \A i \in 1 .. n + 1 : (c \o l)[i] = c[i]
      /\ (c \o l)[n + 2] = l[1] /\ (c \o l)[n + 3] = l[2]
  <2>1. /\ c \o l \in Seq(Messages) /\ Len(c \o l) = n + 1 + 2
        /\ \A i \in 1 .. n + 1 : (c \o l)[i] = c[i]
        /\ \A i \in 1 .. 2 : (c \o l)[n + 1 + i] = l[i]
    <3>1. /\ c \in Seq(Messages) /\ l \in Seq(Messages)
          /\ Len(c) = n + 1 /\ Len(l) = 2
        BY <1>4, <1>6
    <3>2. Joined(c \o l, c, l, n + 1, 2)
        BY <3>1, ConcatFacts, Zenon
    <3> QED BY <3>2 DEF Joined
  <2>2. n + 2 = n + 1 + 1 /\ n + 3 = n + 1 + 2
      BY <1>1
  <2>3. (c \o l)[n + 1 + 1] = l[1] /\ (c \o l)[n + 1 + 2] = l[2]
    <3>1. 1 \in 1 .. 2 /\ 2 \in 1 .. 2
        OBVIOUS
    <3> QED BY <2>1, <3>1
  <2> QED BY <2>1, <2>2, <2>3
<1>8. \A i \in 2 .. n + 1 : s[i - 1].kind = "skipped" /\ s[i - 1].stage = stage + i - 1
  <2> TAKE i \in 2 .. n + 1
  <2>1. i - 1 \in 1 .. n /\ stage + (i - 1) = stage + i - 1
      BY <1>1
  <2> QED BY <1>3, <2>1
<1>9. Farewell(stage, status, b) = c \o l
    BY DEF Farewell, a, s, l, c
<1>10. 1 \in 1 .. n + 1 /\ \A i \in 2 .. n + 1 : i \in 1 .. n + 1
    BY <1>1
<1>11. LET q == c \o l
       IN  /\ n \in Nat /\ q \in Seq(Messages) /\ Len(q) = n + 3
           /\ q[1].kind = "finished" /\ q[1].stage = stage /\ q[1].status = status
           /\ \A i \in 2 .. n + 1 : q[i].kind = "skipped" /\ q[i].stage = stage + i - 1
           /\ q[n + 2].kind = "run" /\ q[n + 3].kind = "run_finished"
    BY <1>1, <1>2, <1>4, <1>6, <1>7, <1>8, <1>10
<1> QED BY <1>9, <1>11 DEF n

(* The message of them that is about a stage.                               *)
LEMMA StagePlace ==
    ASSUME NEW stage \in Nat, NEW s \in Nat, NEW k \in Nat, NEW n \in Nat,
           n = k - stage, s <= k, ~(s < stage)
    PROVE  s - stage + 1 \in 1 .. n + 1
OBVIOUS

(* They give every stage its outcome.                                       *)
LEMMA TraceEnds ==
    ASSUME NEW t \in Seq(Messages), NEW x, NEW y, TraceInv(t, x), x.pc # "finished",
           NEW stage \in Stages, x.stage = stage,
           NEW status \in Statuses, NEW b \in BOOLEAN,
           y.pc = "finished", y.stage = stage, y.status = status
    PROVE  LET u == t \o Farewell(stage, status, b)
           IN  u \in Seq(Messages) /\ TraceInv(u, y)
<1> DEFINE q == Farewell(stage, status, b)
           n == PlanLength - stage
           u == t \o q
           m == Len(t)
<1>1. /\ n \in Nat /\ q \in Seq(Messages) /\ Len(q) = n + 3
      /\ q[1].kind = "finished" /\ q[1].stage = stage /\ q[1].status = status
      /\ \A i \in 2 .. n + 1 : q[i].kind = "skipped" /\ q[i].stage = stage + i - 1
      /\ q[n + 2].kind = "run" /\ q[n + 3].kind = "run_finished"
    BY FarewellFacts
<1>2. stage \in Nat /\ PlanLength \in Nat /\ n = PlanLength - stage
    BY ConsoleAssumption DEF Stages
<1> HIDE DEF q, n
<1>3. /\ m \in Nat /\ DOMAIN t = 1 .. m
      /\ u \in Seq(Messages) /\ Len(u) = m + (n + 3) /\ DOMAIN u = 1 .. m + (n + 3)
      /\ \A i \in 1 .. m : u[i] = t[i]
      /\ \A i \in 1 .. n + 3 : u[m + i] = q[i]
  <2>1. Len(t) \in Nat /\ DOMAIN t = 1 .. Len(t)
      OBVIOUS
  <2>2. t \in Seq(Messages) /\ q \in Seq(Messages) /\ Len(q) = n + 3
      BY <1>1
  <2>3. Joined(t \o q, t, q, Len(t), n + 3)
      BY <2>2, ConcatFacts, Zenon
  <2> QED BY <2>1, <2>3 DEF Joined
<1> HIDE DEF u, m
<1> DEFINE k == m + (n + 3)
<1>4. \A i \in 1 .. k : i \in 1 .. m \/ \E j \in 1 .. n + 3 : i = m + j
  <2> TAKE i \in 1 .. k
  <2>1. i \notin 1 .. m => i - m \in 1 .. n + 3 /\ i = m + (i - m)
      BY <1>1, <1>3
  <2> QED BY <2>1
<1>5. \A j \in 1 .. n + 3 : j = 1 \/ j \in 2 .. n + 1 \/ j = n + 2 \/ j = n + 3
    BY <1>1
<1>6. \A j \in 1 .. n + 3 : q[j].kind # "output"
    BY <1>1, <1>5
<1>7. \A i \in 1 .. k : u[i].kind = "output" => i \in 1 .. m
    BY <1>3, <1>4, <1>6
<1>8. Numbered(u)
  <2> SUFFICES ASSUME NEW i \in 1 .. k, NEW s \in Stages, IsOutput(u[i], s)
               PROVE  NewestAt(u, i - 1, s, u[i].chunk - 1)
      BY <1>3 DEF Numbered
  <2>1. i \in 1 .. m /\ u[i] = t[i]
      BY <1>3, <1>7 DEF IsOutput
  <2>2. NewestAt(t, i - 1, s, t[i].chunk - 1)
      BY <1>3, <2>1 DEF TraceInv, Numbered
  <2>3. i - 1 \in Nat /\ \A j \in 1 .. i - 1 : u[j] = t[j]
      BY <1>3, <2>1
  <2> QED BY <2>1, <2>2, <2>3, NewestSame
<1>9. \A i \in 1 .. k : u[i].kind = "run_finished" => i = k
  <2>1. \A j \in 1 .. n + 3 : q[j].kind = "run_finished" => j = n + 3
      BY <1>1, <1>5
  <2>2. \A i \in 1 .. m : u[i].kind # "run_finished"
      BY <1>3 DEF TraceInv
  <2> SUFFICES ASSUME NEW i \in 1 .. k, u[i].kind = "run_finished"
               PROVE  i = k
      OBVIOUS
  <2>3. i \notin 1 .. m
      BY <1>3, <2>2
  <2>4. PICK j \in 1 .. n + 3 : i = m + j
      BY <1>4, <2>3
  <2>5. j = n + 3
      BY <1>3, <2>1, <2>4
  <2> QED BY <2>4, <2>5
<1>10. ASSUME NEW s \in Stages
       PROVE  /\ s < stage => StatusAt(u, k, s, "passed")
              /\ StatusAt(u, k, s, FinalStatus(y, s))
  <2> HIDE DEF k
  <2>0. /\ s \in Nat /\ s <= PlanLength /\ k \in Nat /\ m <= k
        /\ n \in Nat /\ m \in Nat /\ k = m + (n + 3)
        /\ stage \in Nat /\ PlanLength \in Nat /\ n = PlanLength - stage
      BY <1>1, <1>2, <1>3 DEF Stages, k
  <2>1. CASE s < stage
    <3>1. \A i \in m + 1 .. k : ~IsNotice(u[i], s)
      <4> TAKE i \in m + 1 .. k
      <4>0. i - m \in 1 .. n + 3 /\ i = m + (i - m)
          BY <2>0
      <4>1. PICK j \in 1 .. n + 3 : i = m + j
          BY <4>0
      <4>2. u[i] = q[j]
          BY <1>3, <4>1
      <4>3. CASE j = 1
        <5>1. u[i].stage = stage /\ stage # s
            BY <1>1, <2>0, <2>1, <4>2, <4>3
        <5> QED BY <5>1 DEF IsNotice
      <4>4. CASE j \in 2 .. n + 1
        <5>1. u[i].stage = stage + j - 1
            BY <1>1, <4>2, <4>4
        <5>2. stage + j - 1 # s
            BY <2>0, <2>1, <4>4
        <5> QED BY <5>1, <5>2 DEF IsNotice
      <4>5. CASE j = n + 2 \/ j = n + 3
          BY <1>1, <4>2, <4>5 DEF IsNotice
      <4> QED BY <1>5, <4>3, <4>4, <4>5
    <3>2. StatusAt(t, m, s, "passed")
        BY <2>1 DEF TraceInv, m
    <3>3. StatusAt(u, k, s, "passed")
      <4>1. m \in Nat /\ k \in Nat /\ m <= k /\ \A i \in 1 .. m : u[i] = t[i]
          BY <1>3, <2>0
      <4> QED BY <3>1, <3>2, <4>1, StatusKept
    <3> QED BY <2>1, <3>3 DEF FinalStatus
  <2>2. CASE ~(s < stage)
    <3> DEFINE d == s - stage + 1
               p == m + d
    <3>1. d \in 1 .. n + 1 /\ d \in 1 .. n + 3 /\ p \in 1 .. k
      <4>1. d \in 1 .. n + 1
          BY <2>0, <2>2, StagePlace
      <4> HIDE DEF d
      <4>2. d \in 1 .. n + 3 /\ p \in 1 .. k
          BY <2>0, <4>1
      <4> QED BY <4>1, <4>2
    <3>2. IsNotice(q[d], s) /\ FinalStatus(y, s) = Says(q[d])
      <4>1. CASE d = 1
        <5>1. s = stage
            BY <1>2, <2>0, <4>1
        <5>2. q[d].kind = "finished" /\ q[d].stage = s /\ q[d].status = status
            BY <1>1, <4>1, <5>1
        <5>3. FinalStatus(y, s) = status
            BY <2>0, <5>1 DEF FinalStatus
        <5> QED BY <5>2, <5>3 DEF IsNotice, Says
      <4>2. CASE d # 1
        <5>1. d \in 2 .. n + 1 /\ s # stage /\ stage + d - 1 = s
            BY <2>0, <3>1, <4>2
        <5>2. q[d].kind = "skipped" /\ q[d].stage = s
            BY <1>1, <5>1
        <5>3. FinalStatus(y, s) = "skipped"
            BY <2>2, <5>1 DEF FinalStatus
        <5> QED BY <5>2, <5>3 DEF IsNotice, Says
      <4> QED BY <4>1, <4>2
    <3>3. \A i \in p + 1 .. k : ~IsNotice(u[i], s)
      <4> TAKE i \in p + 1 .. k
      <4>1. i - m \in d + 1 .. n + 3 /\ i - m \in 1 .. n + 3 /\ i = m + (i - m)
          BY <2>0, <3>1
      <4>2. u[i] = q[i - m]
          BY <1>3, <4>1
      <4>3. CASE i - m \in {n + 2, n + 3}
          BY <1>1, <4>2, <4>3 DEF IsNotice
      <4>4. CASE i - m \in 2 .. n + 1
        <5>1. u[i].stage = stage + (i - m) - 1
            BY <1>1, <4>2, <4>4
        <5>2. stage + (i - m) - 1 # s
            BY <2>0, <3>1, <4>1
        <5> QED BY <5>1, <5>2 DEF IsNotice
      <4>5. i - m # 1
          BY <3>1, <4>1
      <4> QED BY <1>5, <4>1, <4>3, <4>4, <4>5
    <3>4. u[p] = q[d]
        BY <1>3, <3>1
    <3> HIDE DEF p, d
    <3>5. StatusAt(u, k, s, FinalStatus(y, s))
        BY <3>1, <3>2, <3>3, <3>4 DEF StatusAt
    <3> QED BY <2>2, <3>5
  <2> QED BY <2>1, <2>2
<1> HIDE DEF k
<1>11. Len(u) = k /\ DOMAIN u = 1 .. k
    BY <1>3 DEF k
<1>12. TraceInv(u, y)
    BY <1>8, <1>9, <1>10, <1>11 DEF TraceInv
<1> QED BY <1>3, <1>12 DEF u, q

-----------------------------------------------------------------------------
(* What is on its way to the screen: the channel holds the newest messages  *)
(* that were accepted, and the one command the message before them.         *)
UnderWay == IF waits # <<>> /\ waits[1] # Waiting THEN 1 ELSE 0
Got == Len(emitted) - Len(channel) - UnderWay

CarriedInv ==
    /\ emitted \in Seq(Messages)
    /\ Len(waits) = IF model.completed THEN 0 ELSE 1
    /\ Got \in Nat
    /\ \A j \in 1 .. Len(channel) : channel[j] = emitted[Len(emitted) - Len(channel) + j]
    /\ UnderWay = 1 => waits[1] = emitted[Got + 1]

(* Nothing is dropped while the interface runs, so that what was accepted   *)
(* and what is left to send are all the execution said.                     *)
TracedInv ==
    /\ main.pc = "interface" => TraceInv(emitted \o exec.queue, exec)
    /\ exec.pc = "between" => exec.outputs = 0
    /\ exec.pc = "finished" =>
          /\ exec.status # "none"
          /\ exec.status = "passed" => exec.stage = PlanLength

(* The model m shows the first a messages of t, and the outcome of x.       *)
StageShown(m, t, a, s) ==
    /\ StatusAt(t, a, s, m.stages[s])
    /\ \E n \in Nat : /\ NewestAt(t, a, s, n) /\ m.logs[s] = NewestChunks(n)
                      /\ m.logTruncated[s] <=> n > MaxStageLog

Shows(m, t, a, x) ==
    /\ DOMAIN m.stages = Stages /\ DOMAIN m.logs = Stages
    /\ DOMAIN m.logTruncated = Stages
    /\ \A s \in Stages : StageShown(m, t, a, s)
    /\ m.completed <=> \E i \in 1 .. a : t[i].kind = "run_finished"
    /\ m.completed => \A s \in Stages : m.stages[s] = FinalStatus(x, s)

ShownInv == CarriedInv /\ TracedInv /\ Shows(model, emitted, Got, exec)

(* What an event changes on the screen: the status of the stage it notices, *)
(* the log of the stage it brings output of.                                *)
LogMoves(m, n, e, s) ==
    LET c == Append(m.logs[s], e.chunk)
    IN  IF Len(c) <= MaxStageLog
        THEN n.logs[s] = c /\ n.logTruncated[s] = m.logTruncated[s]
        ELSE /\ n.logs[s] = SubSeq(c, Len(c) - MaxStageLog + 1, Len(c))
             /\ n.logTruncated[s] = TRUE

Moves(m, n, e) ==
    /\ DOMAIN n.stages = Stages /\ DOMAIN n.logs = Stages
    /\ DOMAIN n.logTruncated = Stages
    /\ \A s \in Stages :
          /\ n.stages[s] = IF IsNotice(e, s) THEN Says(e) ELSE m.stages[s]
          /\ IsOutput(e, s) => LogMoves(m, n, e, s)
          /\ ~IsOutput(e, s) => /\ n.logs[s] = m.logs[s]
                                /\ n.logTruncated[s] = m.logTruncated[s]

(* Update does so with every kind of event.                                 *)
LEMMA ApplyMoves ==
    ASSUME NEW m, IsModel(m), DOMAIN m.stages = Stages, DOMAIN m.logs = Stages,
           DOMAIN m.logTruncated = Stages, NEW e, e.kind \in RunnerKinds
    PROVE  Moves(m, applyRunnerEvent(m, e), e)
<1> DEFINE n == applyRunnerEvent(m, e)
<1>1. ASSUME NEW s, NEW v, NEW u
      PROVE  LET a == [m EXCEPT !.stages[s] = v]
                 b == [m EXCEPT !.stages[s] = v, !.selected = u]
             IN  /\ a.stages = [m.stages EXCEPT ![s] = v]
                 /\ a.logs = m.logs /\ a.logTruncated = m.logTruncated
                 /\ b.stages = [m.stages EXCEPT ![s] = v]
                 /\ b.logs = m.logs /\ b.logTruncated = m.logTruncated
    BY DEF IsModel, ModelFields
<1>2. ASSUME NEW s, NEW v
      PROVE  LET a == [m EXCEPT !.logs[s] = v]
                 b == [m EXCEPT !.logs[s] = v, !.logTruncated[s] = TRUE]
                 c == [m EXCEPT !.cancelling = TRUE]
             IN  /\ a.logs = [m.logs EXCEPT ![s] = v]
                 /\ a.stages = m.stages /\ a.logTruncated = m.logTruncated
                 /\ b.logs = [m.logs EXCEPT ![s] = v]
                 /\ b.logTruncated = [m.logTruncated EXCEPT ![s] = TRUE]
                 /\ b.stages = m.stages
                 /\ c.stages = m.stages /\ c.logs = m.logs
                 /\ c.logTruncated = m.logTruncated
    BY DEF IsModel, ModelFields
<1>3. CASE e.kind \in {"started", "finished", "skipped"}
  <2>1. /\ n.stages = [m.stages EXCEPT ![e.stage] = Says(e)]
        /\ n.logs = m.logs /\ n.logTruncated = m.logTruncated
    <3>1. CASE e.kind = "started"
      <4>1. n = [m EXCEPT !.stages[e.stage] = "running", !.selected = e.stage]
          BY <3>1 DEF applyRunnerEvent
      <4> QED BY <1>1, <3>1, <4>1 DEF Says
    <3>2. CASE e.kind = "finished"
      <4>1. n = [m EXCEPT !.stages[e.stage] = e.status]
          BY <3>2 DEF applyRunnerEvent
      <4> QED BY <1>1, <3>2, <4>1 DEF Says
    <3>3. CASE e.kind = "skipped"
      <4>1. n = [m EXCEPT !.stages[e.stage] = "skipped"]
          BY <3>3 DEF applyRunnerEvent
      <4> QED BY <1>1, <3>3, <4>1 DEF Says
    <3> QED BY <1>3, <3>1, <3>2, <3>3
  <2>2. \A s \in Stages : ~IsOutput(e, s) /\ (IsNotice(e, s) <=> s = e.stage)
      BY <1>3 DEF IsOutput, IsNotice
  <2> HIDE DEF n
  <2>3. Moves(m, n, e)
      BY <2>1, <2>2 DEF Moves
  <2> QED BY <2>3 DEF n
<1>4. CASE e.kind = "output"
  <2> DEFINE c == Append(m.logs[e.stage], e.chunk)
             d == SubSeq(c, Len(c) - MaxStageLog + 1, Len(c))
  <2>1. IF Len(c) <= MaxStageLog THEN n = [m EXCEPT !.logs[e.stage] = c]
        ELSE n = [m EXCEPT !.logs[e.stage] = d, !.logTruncated[e.stage] = TRUE]
      BY <1>4 DEF applyRunnerEvent, appendStageOutput
  <2> HIDE DEF n, c, d
  <2>2. /\ n.stages = m.stages
        /\ IF Len(c) <= MaxStageLog
           THEN n.logs = [m.logs EXCEPT ![e.stage] = c] /\ n.logTruncated = m.logTruncated
           ELSE /\ n.logs = [m.logs EXCEPT ![e.stage] = d]
                /\ n.logTruncated = [m.logTruncated EXCEPT ![e.stage] = TRUE]
    <3>1. CASE Len(c) <= MaxStageLog
      <4>1. n = [m EXCEPT !.logs[e.stage] = c]
          BY <2>1, <3>1
      <4> QED BY <1>2, <3>1, <4>1
    <3>2. CASE ~(Len(c) <= MaxStageLog)
      <4>1. n = [m EXCEPT !.logs[e.stage] = d, !.logTruncated[e.stage] = TRUE]
          BY <2>1, <3>2
      <4> QED BY <1>2, <3>2, <4>1
    <3> QED BY <3>1, <3>2
  <2>3. \A s \in Stages : ~IsNotice(e, s) /\ (IsOutput(e, s) <=> s = e.stage)
      BY <1>4 DEF IsOutput, IsNotice
  <2>4. /\ DOMAIN n.stages = Stages /\ DOMAIN n.logs = Stages
        /\ DOMAIN n.logTruncated = Stages
      BY <2>2
  <2>5. ASSUME NEW s \in Stages, s # e.stage
        PROVE  n.logs[s] = m.logs[s] /\ n.logTruncated[s] = m.logTruncated[s]
      BY <2>2, <2>5
  <2>6. ASSUME NEW s \in Stages, s = e.stage
        PROVE  LogMoves(m, n, e, s)
      BY <2>2, <2>6 DEF LogMoves, c, d
  <2>7. Moves(m, n, e)
      BY <2>2, <2>3, <2>4, <2>5, <2>6 DEF Moves
  <2> QED BY <2>7 DEF n
<1>5. CASE e.kind \in {"cancellation", "run"}
  <2>1. n.stages = m.stages /\ n.logs = m.logs /\ n.logTruncated = m.logTruncated
    <3>1. n = m \/ n = [m EXCEPT !.cancelling = TRUE]
        BY <1>5 DEF applyRunnerEvent
    <3> QED BY <1>2, <3>1
  <2>2. \A s \in Stages : ~IsOutput(e, s) /\ ~IsNotice(e, s)
      BY <1>5 DEF IsOutput, IsNotice
  <2> HIDE DEF n
  <2>3. Moves(m, n, e)
      BY <2>1, <2>2 DEF Moves
  <2> QED BY <2>3 DEF n
<1> QED BY <1>3, <1>4, <1>5 DEF RunnerKinds

(* The screen follows the next event, whose output is the next chunk.       *)
LEMMA ShowsMore ==
    ASSUME NEW m, IsModel(m), NEW t \in Seq(Messages), Numbered(t), NEW a \in Nat,
           a + 1 <= Len(t), t[a + 1].kind \in RunnerKinds, NEW x, Shows(m, t, a, x),
           ~m.completed
    PROVE  Shows(applyRunnerEvent(m, t[a + 1]), t, a + 1, x)
<1> DEFINE e == t[a + 1]
           n == applyRunnerEvent(m, e)
<1>1. Moves(m, n, e) /\ n.completed = m.completed
    BY ApplyMoves, ApplyKeeps DEF Shows
<1>2. /\ a + 1 \in DOMAIN t /\ e \in Messages /\ e.chunk \in Nat
      /\ a \in Nat /\ a + 1 \in Nat /\ a <= a + 1
      /\ \A i \in 1 .. a : t[i] \in Messages /\ t[i].chunk \in Nat
      /\ \A i \in a + 1 .. a + 1 : i = a + 1
      /\ \A i \in 1 .. a + 1 : i \in 1 .. a \/ i = a + 1
  <2>1. Len(t) \in Nat /\ DOMAIN t = 1 .. Len(t)
      OBVIOUS
  <2>2. a + 1 \in DOMAIN t /\ \A i \in 1 .. a : i \in DOMAIN t
      BY <2>1
  <2>3. \A i \in DOMAIN t : t[i] \in Messages
      OBVIOUS
  <2>4. \A y \in Messages : y.chunk \in Nat
      BY DEF Messages
  <2> QED BY <2>2, <2>3, <2>4
<1> HIDE DEF n
<1>3. ASSUME NEW s \in Stages
      PROVE  StatusAt(t, a + 1, s, n.stages[s])
  <2>1. StatusAt(t, a, s, m.stages[s])
      BY DEF Shows, StageShown
  <2>2. n.stages[s] = IF IsNotice(e, s) THEN Says(e) ELSE m.stages[s]
      BY <1>1 DEF Moves
  <2>3. CASE IsNotice(e, s)
    <3>1. a + 1 \in 1 .. a + 1 /\ \A j \in a + 1 + 1 .. a + 1 : ~IsNotice(t[j], s)
        BY <1>2
    <3> QED BY <2>2, <2>3, <3>1 DEF StatusAt
  <2>4. CASE ~IsNotice(e, s)
    <3>1. StatusAt(t, a + 1, s, m.stages[s])
        BY <1>2, <2>1, <2>4, StatusKept
    <3> QED BY <2>2, <2>4, <3>1
  <2> QED BY <2>3, <2>4
<1>4. ASSUME NEW s \in Stages
      PROVE  \E k \in Nat : /\ NewestAt(t, a + 1, s, k) /\ n.logs[s] = NewestChunks(k)
                            /\ n.logTruncated[s] <=> k > MaxStageLog
  <2>1. PICK k \in Nat : /\ NewestAt(t, a, s, k) /\ m.logs[s] = NewestChunks(k)
                         /\ m.logTruncated[s] <=> k > MaxStageLog
      BY DEF Shows, StageShown
  <2>2. CASE ~IsOutput(e, s)
    <3>1. NewestAt(t, a + 1, s, k)
        BY <1>2, <2>1, <2>2, NewestKept
    <3>2. n.logs[s] = m.logs[s] /\ n.logTruncated[s] = m.logTruncated[s]
        BY <1>1, <2>2 DEF Moves
    <3> QED BY <2>1, <3>1, <3>2
  <2>3. CASE IsOutput(e, s)
    <3>1. NewestAt(t, a, s, e.chunk - 1)
      <4>1. a + 1 - 1 = a
          BY <1>2
      <4>2. NewestAt(t, a + 1 - 1, s, e.chunk - 1)
          BY <1>2, <2>3 DEF Numbered
      <4> QED BY <4>1, <4>2
    <3>2. e.chunk = k + 1
      <4>1. e.chunk - 1 \in Nat
          BY <1>2, <3>1 DEF NewestAt
      <4>2. e.chunk - 1 = k
          BY <1>2, <2>1, <3>1, <4>1, NewestUnique
      <4> QED BY <1>2, <2>1, <4>2
    <3>3. NewestAt(t, a + 1, s, k + 1)
        BY <1>2, <2>1, <2>3, <3>2, NewestStep
    <3> DEFINE c == Append(NewestChunks(k), k + 1)
    <3>4. /\ Len(c) <= MaxStageLog => c = NewestChunks(k + 1) /\ ~(k + 1 > MaxStageLog)
          /\ ~(Len(c) <= MaxStageLog) =>
                /\ SubSeq(c, Len(c) - MaxStageLog + 1, Len(c)) = NewestChunks(k + 1)
                /\ k + 1 > MaxStageLog
        BY NewestAppended
    <3>5. LogMoves(m, n, e, s)
        BY <1>1, <2>3 DEF Moves
    <3>6. IF Len(c) <= MaxStageLog
          THEN n.logs[s] = c /\ n.logTruncated[s] = m.logTruncated[s]
          ELSE /\ n.logs[s] = SubSeq(c, Len(c) - MaxStageLog + 1, Len(c))
               /\ n.logTruncated[s] = TRUE
        BY <2>1, <3>2, <3>5 DEF LogMoves
    <3> HIDE DEF c
    <3>7. n.logs[s] = NewestChunks(k + 1)
      <4>1. CASE Len(c) <= MaxStageLog
          BY <3>4, <3>6, <4>1, Zenon
      <4>2. CASE ~(Len(c) <= MaxStageLog)
          BY <3>4, <3>6, <4>2, Zenon
      <4> QED BY <4>1, <4>2
    <3>8. n.logTruncated[s] <=> k + 1 > MaxStageLog
      <4>1. CASE Len(c) <= MaxStageLog
        <5>1. ~(k > MaxStageLog)
            BY <3>4, <4>1, ConsoleAssumption
        <5>2. n.logTruncated[s] = m.logTruncated[s] /\ ~(k + 1 > MaxStageLog)
            BY <3>4, <3>6, <4>1
        <5> QED BY <2>1, <5>1, <5>2
      <4>2. CASE ~(Len(c) <= MaxStageLog)
          BY <3>4, <3>6, <4>2
      <4> QED BY <4>1, <4>2
    <3> HIDE DEF e
    <3>9. k + 1 \in Nat
        BY <2>1
    <3> QED BY <3>3, <3>7, <3>8, <3>9
  <2> QED BY <2>2, <2>3
<1>5. \A i \in 1 .. a + 1 : t[i].kind # "run_finished"
  <2>1. e.kind # "run_finished"
      BY DEF RunnerKinds
  <2> QED BY <1>2, <2>1 DEF Shows
<1>6. Shows(n, t, a + 1, x)
    BY <1>1, <1>3, <1>4, <1>5 DEF Shows, StageShown, Moves
<1> QED BY <1>6 DEF n

(* The message that ends the run completes the model, when every stage has  *)
(* its outcome.                                                             *)
LEMMA ShowsEnd ==
    ASSUME NEW m, IsModel(m), NEW t, NEW a \in Nat, t[a + 1].kind = "run_finished",
           NEW x, Shows(m, t, a, x),
           \A s \in Stages : StatusAt(t, a + 1, s, FinalStatus(x, s)),
           NEW n, n = [m EXCEPT !.completed = TRUE, !.result = t[a + 1].status,
                                !.runError = t[a + 1].error]
    PROVE  Shows(n, t, a + 1, x)
<1>1. /\ n.stages = m.stages /\ n.logs = m.logs /\ n.logTruncated = m.logTruncated
      /\ n.completed
    BY DEF IsModel, ModelFields
<1>2. /\ a \in Nat /\ a + 1 \in Nat /\ a <= a + 1
      /\ \A i \in a + 1 .. a + 1 : i = a + 1
      /\ a + 1 \in 1 .. a + 1
    OBVIOUS
<1>3. ASSUME NEW s \in Stages
      PROVE  n.stages[s] = FinalStatus(x, s) /\ StageShown(n, t, a + 1, s)
  <2>1. ~IsNotice(t[a + 1], s) /\ ~IsOutput(t[a + 1], s)
      BY DEF IsNotice, IsOutput
  <2>2. StatusAt(t, a, s, m.stages[s])
      BY DEF Shows, StageShown
  <2>3. StatusAt(t, a + 1, s, m.stages[s])
      BY <1>2, <2>1, <2>2, StatusKept
  <2>4. m.stages[s] = FinalStatus(x, s)
      BY <1>2, <2>3, StatusUnique
  <2>5. PICK k \in Nat : /\ NewestAt(t, a, s, k) /\ m.logs[s] = NewestChunks(k)
                         /\ m.logTruncated[s] <=> k > MaxStageLog
      BY DEF Shows, StageShown
  <2>6. NewestAt(t, a + 1, s, k)
      BY <1>2, <2>1, <2>5, NewestKept
  <2> QED BY <1>1, <2>3, <2>4, <2>5, <2>6 DEF StageShown
<1> QED BY <1>1, <1>2, <1>3 DEF Shows

(* The one command of an incomplete run.                                    *)
LEMMA OneCommand ==
    ASSUME ScreenInv, CarriedInv, NEW i \in DOMAIN waits
    PROVE  /\ i = 1 /\ Len(waits) = 1 /\ DOMAIN waits = {1} /\ ~model.completed
           /\ waits = <<waits[1]>> /\ waits # <<>>
<1>1. waits \in Seq(Messages \cup {Waiting}) /\ model.completed \in BOOLEAN
    BY DEF ScreenInv, ScreenTypes, IsModel
<1>2. Len(waits) \in Nat /\ DOMAIN waits = 1 .. Len(waits) /\ Len(waits) # 0
    BY <1>1
<1>3. Len(waits) = 1 /\ ~model.completed
    BY <1>2 DEF CarriedInv
<1> QED BY <1>1, <1>2, <1>3

(* The execution decides what to send next: nothing is shown yet.           *)
LEMMA ShownStays ==
    ASSUME ScreenInv, ShownInv, exec.pc # "finished",
           emitted' = emitted, channel' = channel, waits' = waits, model' = model
    PROVE  CarriedInv' /\ Shows(model', emitted', Got', exec')
<1>1. UnderWay' = UnderWay /\ Got' = Got
    BY DEF UnderWay, Got
<1>2. ~model.completed
    BY DEF ScreenInv, CompletedInv
<1>3. CarriedInv'
    BY <1>1 DEF ShownInv, CarriedInv
<1>4. Shows(model, emitted, Got, exec')
    BY <1>2 DEF ShownInv, Shows
<1> QED BY <1>1, <1>3, <1>4

(* One more message about the present stage.                                *)
LEMMA ShownEmits ==
    ASSUME ScreenInv, ShownInv, exec.pc # "finished", exec.queue = <<>>,
           NEW m \in Messages, m.kind # "run_finished", m.stage = exec.stage,
           NEW pc \in {"between", "stage", "draining"}, NEW stage \in Stages,
           NEW outs \in Nat, Emits(<<m>>, pc, stage, outs), pc = "between" => outs = 0,
           \/ stage = exec.stage /\ outs = exec.outputs /\ m.kind # "output"
           \/ /\ stage = exec.stage /\ outs = exec.outputs + 1
              /\ m.kind = "output" /\ m.chunk = exec.outputs + 1
           \/ /\ stage = exec.stage + 1 /\ outs = 0
              /\ m.kind = "finished" /\ m.status = "passed"
    PROVE  ShownInv'
<1>1. /\ exec' = [exec EXCEPT !.pc = pc, !.stage = stage, !.outputs = outs,
                              !.queue = <<m>>]
      /\ emitted' = emitted /\ channel' = channel /\ waits' = waits /\ model' = model
      /\ main' = main
    BY DEF Emits, interfaceVars
<1>2. /\ exec'.pc = pc /\ exec'.stage = stage /\ exec'.outputs = outs
      /\ exec'.queue = <<m>>
    BY <1>1 DEF ScreenInv, ScreenTypes
<1>3. CarriedInv' /\ Shows(model', emitted', Got', exec')
    BY <1>1, ShownStays
<1>4. ASSUME main.pc = "interface"
      PROVE  TraceInv(emitted \o <<m>>, exec')
  <2>1. emitted \in Seq(Messages) /\ emitted \o exec.queue = emitted
      BY DEF ShownInv, CarriedInv
  <2>2. TraceInv(emitted, exec)
      BY <1>4, <2>1 DEF ShownInv, TracedInv
  <2>3. exec.stage \in Nat /\ exec.outputs \in Nat
      BY ConsoleAssumption DEF ScreenInv, ScreenTypes, Stages
  <2>4. exec'.pc # "finished"
      BY <1>2
  <2>5. \/ exec'.stage = exec.stage /\ exec'.outputs = exec.outputs /\ m.kind # "output"
        \/ /\ exec'.stage = exec.stage /\ exec'.outputs = exec.outputs + 1
           /\ m.kind = "output" /\ m.chunk = exec.outputs + 1
        \/ /\ exec'.stage = exec.stage + 1 /\ exec'.outputs = 0
           /\ m.kind = "finished" /\ m.status = "passed"
      BY <1>2
  <2> QED BY <2>1, <2>2, <2>3, <2>4, <2>5, TraceEmitted
<1>5. TracedInv'
    BY <1>1, <1>2, <1>4 DEF TracedInv
<1> QED BY <1>3, <1>5 DEF ShownInv

(* The last messages, when the execution ends.                              *)
LEMMA ShownEnds ==
    ASSUME ScreenInv, ShownInv, exec.pc # "finished", exec.queue = <<>>,
           NEW status \in Statuses \ {"none"}, status = "passed" => exec.stage = PlanLength,
           Ends(status)
    PROVE  ShownInv'
<1>1. PICK b \in BOOLEAN :
         /\ exec' = [exec EXCEPT !.pc = "finished", !.status = status, !.error = b,
                                 !.queue = Farewell(exec.stage, status, b)]
         /\ emitted' = emitted /\ channel' = channel /\ waits' = waits
         /\ model' = model /\ main' = main
    BY DEF Ends, interfaceVars, Farewell
<1>2. /\ exec'.pc = "finished" /\ exec'.stage = exec.stage /\ exec'.status = status
      /\ exec'.queue = Farewell(exec.stage, status, b)
    BY <1>1 DEF ScreenInv, ScreenTypes
<1>3. CarriedInv' /\ Shows(model', emitted', Got', exec')
    BY <1>1, ShownStays
<1>4. ASSUME main.pc = "interface"
      PROVE  TraceInv(emitted \o Farewell(exec.stage, status, b), exec')
  <2>1. emitted \in Seq(Messages) /\ emitted \o exec.queue = emitted
      BY DEF ShownInv, CarriedInv
  <2>2. TraceInv(emitted, exec)
      BY <1>4, <2>1 DEF ShownInv, TracedInv
  <2>3. exec.stage \in Stages
      BY DEF ScreenInv, ScreenTypes
  <2>4. status \in Statuses
      OBVIOUS
  <2> QED BY <1>2, <2>1, <2>2, <2>3, <2>4, TraceEnds
<1>5. TracedInv'
    BY <1>1, <1>2, <1>4 DEF TracedInv
<1> QED BY <1>3, <1>5 DEF ShownInv

(* Every step of the goroutine of execute is one of the two.                *)
LEMMA ShownExecute ==
    ASSUME ScreenInv, ShownInv, Execute
    PROVE  ShownInv'
<1>1. /\ exec.stage \in Stages /\ exec.stage \in Nat /\ exec.outputs \in Nat
      /\ PlanLength \in Nat
    BY ConsoleAssumption DEF ScreenInv, ScreenTypes, Stages
<1>2. CASE StartStage
  <2> DEFINE m == Event("started", exec.stage)
  <2>1. m \in Messages /\ m.kind = "started"
      BY <1>1, MessageTypes DEF RunnerKinds
  <2>2. m.stage = exec.stage
      BY DEF Event
  <2>3. /\ exec.pc # "finished" /\ exec.queue = <<>> /\ exec.outputs = 0
        /\ Emits(<<m>>, "stage", exec.stage, 0)
      BY <1>2 DEF StartStage, Decides, ShownInv, TracedInv
  <2> HIDE DEF m
  <2> QED BY <1>1, <2>1, <2>2, <2>3, ShownEmits
<1>3. CASE StageOutput
  <2> DEFINE m == Output(exec.stage, exec.outputs + 1)
  <2>1. m \in Messages /\ m.kind = "output"
      BY <1>1, MessageTypes
  <2>2. m.stage = exec.stage /\ m.chunk = exec.outputs + 1
      BY DEF Output, Event
  <2>3. /\ exec.pc \in {"between", "stage", "draining"} /\ exec.pc # "finished"
        /\ exec.pc # "between" /\ exec.queue = <<>> /\ exec.outputs + 1 \in Nat
        /\ Emits(<<m>>, exec.pc, exec.stage, exec.outputs + 1)
      BY <1>1, <1>3 DEF StageOutput, Decides
  <2> HIDE DEF m
  <2> QED BY <1>1, <2>1, <2>2, <2>3, ShownEmits
<1>4. CASE StagePasses
  <2>1. exec.pc # "finished" /\ exec.queue = <<>> /\ "passed" \in Statuses
      BY <1>4 DEF StagePasses, Decides, Statuses
  <2>2. CASE exec.stage = PlanLength
      BY <1>4, <2>1, <2>2, ShownEnds DEF StagePasses
  <2>3. CASE exec.stage # PlanLength
    <3> DEFINE m == Finished(exec.stage, "passed")
    <3>1. m \in Messages /\ m.kind = "finished"
        BY <1>1, <2>1, MessageTypes
    <3>2. m.stage = exec.stage /\ m.status = "passed"
        BY DEF Finished, Event
    <3>3. Emits(<<m>>, "between", exec.stage + 1, 0) /\ exec.stage + 1 \in Stages
        BY <1>1, <1>4, <2>3 DEF StagePasses, Stages
    <3> HIDE DEF m
    <3> QED BY <1>1, <2>1, <3>1, <3>2, <3>3, ShownEmits
  <2> QED BY <2>2, <2>3
<1>5. CASE StageFails
  <2>1. PICK s \in {"failed", "internal-error"} : Ends(s)
      BY <1>5 DEF StageFails
  <2>2. /\ exec.pc # "finished" /\ exec.queue = <<>> /\ s \in Statuses \ {"none"}
        /\ s # "passed"
      BY <1>5 DEF StageFails, Decides, Statuses
  <2> QED BY <2>1, <2>2, ShownEnds
<1>6. CASE DrainStage
  <2> DEFINE m == Event("cancellation", exec.stage)
  <2>1. m \in Messages /\ m.kind = "cancellation"
      BY <1>1, MessageTypes DEF RunnerKinds
  <2>2. m.stage = exec.stage
      BY DEF Event
  <2>3. /\ exec.pc # "finished" /\ exec.queue = <<>>
        /\ Emits(<<m>>, "draining", exec.stage, exec.outputs)
      BY <1>6 DEF DrainStage, Decides
  <2> HIDE DEF m
  <2> QED BY <1>1, <2>1, <2>2, <2>3, ShownEmits
<1>7. CASE RunCancelled
  <2>1. /\ exec.pc # "finished" /\ exec.queue = <<>> /\ Ends("cancelled")
        /\ "cancelled" \in Statuses \ {"none"}
      BY <1>7 DEF RunCancelled, Decides, Statuses
  <2> QED BY <2>1, ShownEnds
<1> QED BY <1>2, <1>3, <1>4, <1>5, <1>6, <1>7 DEF Execute

(* Only what was applied is shown, and of the execution how it ended.       *)
LEMMA ShowsPrefix ==
    ASSUME NEW m, NEW t, NEW u, NEW a \in Nat, NEW x, NEW y, Shows(m, t, a, x),
           \A i \in 1 .. a : u[i] = t[i], y.stage = x.stage, y.status = x.status
    PROVE  Shows(m, u, a, y)
<1>1. a <= a /\ \A i \in a + 1 .. a : FALSE
    OBVIOUS
<1>2. ASSUME NEW s \in Stages
      PROVE  StageShown(m, u, a, s)
  <2>1. StatusAt(t, a, s, m.stages[s])
      BY DEF Shows, StageShown
  <2>2. StatusAt(u, a, s, m.stages[s])
      BY <1>1, <2>1, StatusKept
  <2>3. PICK k \in Nat : /\ NewestAt(t, a, s, k) /\ m.logs[s] = NewestChunks(k)
                         /\ m.logTruncated[s] <=> k > MaxStageLog
      BY DEF Shows, StageShown
  <2>4. NewestAt(u, a, s, k)
      BY <2>3, NewestSame
  <2> QED BY <2>2, <2>3, <2>4 DEF StageShown
<1>3. \A s \in Stages : FinalStatus(y, s) = FinalStatus(x, s)
    BY DEF FinalStatus
<1> QED BY <1>2, <1>3 DEF Shows

(* A trace belongs to where the execution is, whatever it has left to send. *)
LEMMA TraceSame ==
    ASSUME NEW t, NEW x, NEW y, TraceInv(t, x),
           y.pc = x.pc, y.stage = x.stage, y.outputs = x.outputs, y.status = x.status
    PROVE  TraceInv(t, y)
<1>1. \A s \in Stages : FinalStatus(y, s) = FinalStatus(x, s)
    BY DEF FinalStatus
<1> QED BY <1>1 DEF TraceInv

(* A message that moves from the queue to what was accepted.                *)
LEMMA QueueMoves ==
    ASSUME NEW s \in Seq(Messages), NEW q \in Seq(Messages), q # <<>>
    PROVE  /\ Append(s, Head(q)) \in Seq(Messages) /\ Tail(q) \in Seq(Messages)
           /\ Append(s, Head(q)) \o Tail(q) = s \o q
<1> DEFINE h == Head(q)
           r == Tail(q)
           k == Len(s)
           l == Len(q)
<1>1. k \in Nat /\ l \in Nat /\ l >= 1 /\ h = q[1] /\ h \in Messages
    OBVIOUS
<1>2. r \in Seq(Messages) /\ Len(r) = l - 1 /\ \A i \in 1 .. l - 1 : r[i] = q[i + 1]
    OBVIOUS
<1>3. /\ Append(s, h) \in Seq(Messages) /\ Len(Append(s, h)) = k + 1
      /\ \A i \in 1 .. k : Append(s, h)[i] = s[i]
      /\ Append(s, h)[k + 1] = h
    BY <1>1
<1> DEFINE a == Append(s, h)
<1>4. s \in Seq(Messages) /\ q \in Seq(Messages) /\ Len(s) = k /\ Len(q) = l
    OBVIOUS
<1>5. Joined(s \o q, s, q, k, l)
    BY <1>4, ConcatFacts, Zenon
<1> HIDE DEF h, r, k, l, a
<1>6. a \in Seq(Messages) /\ Len(a) = k + 1
    BY <1>3 DEF a
<1>7. Joined(a \o r, a, r, k + 1, l - 1)
    BY <1>2, <1>6, ConcatFacts, Zenon
<1>8. /\ a \o r \in Seq(Messages) /\ Len(a \o r) = k + l
      /\ s \o q \in Seq(Messages) /\ Len(s \o q) = k + l
  <2>1. k + 1 + (l - 1) = k + l
      BY <1>1
  <2> QED BY <1>5, <1>7, <2>1 DEF Joined
<1>9. ASSUME NEW i \in 1 .. k + l
      PROVE  (a \o r)[i] = (s \o q)[i]
  <2>1. CASE i \in 1 .. k
    <3>1. i \in 1 .. k + 1
        BY <1>1, <2>1
    <3>2. (a \o r)[i] = a[i] /\ (s \o q)[i] = s[i]
        BY <1>5, <1>7, <2>1, <3>1 DEF Joined
    <3>3. a[i] = s[i]
        BY <1>3, <2>1 DEF a
    <3> QED BY <3>2, <3>3
  <2>2. CASE i = k + 1
    <3>1. k + 1 \in 1 .. k + 1 /\ 1 \in 1 .. l
        BY <1>1
    <3>2. (a \o r)[k + 1] = a[k + 1] /\ (s \o q)[k + 1] = q[1]
        BY <1>5, <1>7, <3>1 DEF Joined
    <3> QED BY <1>1, <1>3, <2>2, <3>2 DEF a
  <2>3. CASE i > k + 1
    <3>1. PICK j \in 1 .. l - 1 : i = k + 1 + j /\ j + 1 \in 1 .. l /\ i = k + (j + 1)
      <4>1. i - k - 1 \in 1 .. l - 1 /\ i = k + 1 + (i - k - 1)
            /\ i - k - 1 + 1 \in 1 .. l /\ i = k + (i - k - 1 + 1)
          BY <1>1, <2>3
      <4> QED BY <4>1
    <3>2. (a \o r)[k + 1 + j] = r[j] /\ (s \o q)[k + (j + 1)] = q[j + 1]
        BY <1>5, <1>7, <3>1 DEF Joined
    <3> QED BY <1>2, <3>1, <3>2
  <2>4. i \in 1 .. k \/ i = k + 1 \/ i > k + 1
      BY <1>1
  <2> QED BY <2>1, <2>2, <2>3, <2>4
<1>10. a \o r = s \o q
  <2> DEFINE u == a \o r
             v == s \o q
  <2>1. /\ u \in Seq(Messages) /\ v \in Seq(Messages) /\ Len(u) = Len(v)
        /\ \A i \in 1 .. Len(u) : u[i] = v[i]
      BY <1>8, <1>9
  <2> HIDE DEF u, v
  <2>2. u = v
      BY <2>1
  <2> QED BY <2>2 DEF u, v
<1> QED BY <1>2, <1>6, <1>10 DEF a, h, r

(* sendMessage moves one, or drops it when nobody looks any more.           *)
LEMMA ShownSend ==
    ASSUME ScreenInv, ShownInv, SendMessage
    PROVE  ShownInv'
<1> DEFINE q == exec.queue
           h == Head(q)
<1>1. /\ q \in Seq(Messages) /\ q # <<>> /\ channel \in Seq(Messages)
      /\ emitted \in Seq(Messages) /\ Got \in Nat
    BY DEF ScreenInv, ScreenTypes, SendMessage, ShownInv, CarriedInv
<1>2. /\ exec' = [exec EXCEPT !.queue = Tail(q)]
      /\ waits' = waits /\ model' = model /\ main' = main
    BY DEF SendMessage, interfaceVars
<1>3. /\ exec'.queue = Tail(q) /\ exec'.pc = exec.pc /\ exec'.stage = exec.stage
      /\ exec'.outputs = exec.outputs /\ exec'.status = exec.status
    BY <1>2 DEF ScreenInv, ScreenTypes
<1>4. UnderWay' = UnderWay /\ UnderWay \in {0, 1}
    BY <1>2 DEF UnderWay
<1>5. CASE channel' = Append(channel, h) /\ emitted' = Append(emitted, h)
  <2> DEFINE e == Len(emitted)
             c == Len(channel)
  <2>1. h \in Messages
      BY <1>1
  <2>2. /\ e \in Nat /\ c \in Nat
        /\ Len(emitted') = e + 1 /\ Len(channel') = c + 1
        /\ \A i \in 1 .. e : emitted'[i] = emitted[i]
        /\ \A i \in 1 .. c : channel'[i] = channel[i]
        /\ emitted'[e + 1] = h /\ channel'[c + 1] = h
    <3> HIDE DEF h
    <3> QED BY <1>1, <1>5, <2>1
  <2> DEFINE w == UnderWay
             g == Got
  <2>3. g = e - c - w /\ w \in {0, 1} /\ g \in Nat
      BY <1>1, <1>4 DEF Got
  <2>4. Got' = e + 1 - (c + 1) - w
      BY <1>4, <2>2 DEF Got
  <2> HIDE DEF e, c, w, g
  <2>5. e + 1 - (c + 1) - w = g /\ g <= e
      BY <2>2, <2>3
  <2>6. Got' = Got
      BY <2>4, <2>5 DEF g
  <2>7. emitted' \in Seq(Messages) /\ emitted' \o Tail(q) = emitted \o q
      BY <1>1, <1>5, QueueMoves
  <2>8. CarriedInv'
    <3>1. \A j \in 1 .. c : channel[j] = emitted[e - c + j]
        BY DEF ShownInv, CarriedInv, e, c
    <3>2. ASSUME NEW j \in 1 .. c + 1
          PROVE  channel'[j] = emitted'[e + 1 - (c + 1) + j]
      <4>1. e + 1 - (c + 1) + j = e - c + j
          BY <2>2
      <4>2. CASE j \in 1 .. c
        <5>1. e - c + j \in 1 .. e
            BY <2>2, <2>3, <4>2
        <5> QED BY <2>2, <3>1, <4>1, <4>2, <5>1
      <4>3. CASE j = c + 1
        <5>1. e - c + (c + 1) = e + 1
            BY <2>2
        <5> QED BY <2>2, <4>1, <4>3, <5>1
      <4>4. j \in 1 .. c \/ j = c + 1
          BY <2>2
      <4> QED BY <4>2, <4>3, <4>4
    <3>3. w = 1 => waits[1] = emitted'[g + 1]
      <4>1. w = 1 => g + 1 \in 1 .. e
          BY <2>2, <2>3
      <4>2. w = 1 => waits[1] = emitted[g + 1]
          BY DEF ShownInv, CarriedInv, w, g
      <4> QED BY <2>2, <4>1, <4>2
    <3>4. Len(waits') = IF model'.completed THEN 0 ELSE 1
        BY <1>2 DEF ShownInv, CarriedInv
    <3>5. \A j \in 1 .. Len(channel') :
             channel'[j] = emitted'[Len(emitted') - Len(channel') + j]
        BY <2>2, <3>2
    <3>6. UnderWay' = 1 => waits'[1] = emitted'[Got' + 1]
        BY <1>2, <1>4, <2>6, <3>3 DEF w, g
    <3> QED BY <1>1, <2>6, <2>7, <3>4, <3>5, <3>6 DEF CarriedInv
  <2>9. Shows(model', emitted', Got', exec')
    <3>1. \A i \in 1 .. g : emitted'[i] = emitted[i]
        BY <2>2, <2>3, <2>5
    <3>2. Shows(model, emitted, g, exec)
        BY DEF ShownInv, g
    <3>3. Shows(model, emitted', g, exec')
        BY <1>3, <2>3, <3>1, <3>2, ShowsPrefix
    <3> QED BY <1>2, <2>6, <3>3 DEF g
  <2>10. main.pc = "interface" => TraceInv(emitted' \o exec'.queue, exec')
    <3>1. emitted' \o exec'.queue = emitted \o q
        BY <1>3, <2>7
    <3>2. main.pc = "interface" => TraceInv(emitted \o q, exec)
        BY DEF ShownInv, TracedInv
    <3> QED BY <1>3, <3>1, <3>2, TraceSame
  <2>11. TracedInv'
      BY <1>2, <1>3, <2>10 DEF ShownInv, TracedInv
  <2> QED BY <2>8, <2>9, <2>11 DEF ShownInv
<1>6. CASE interface_done /\ UNCHANGED <<channel, emitted>>
  <2>1. Got' = Got
      BY <1>4, <1>6 DEF Got
  <2>2. CarriedInv'
      BY <1>2, <1>4, <1>6, <2>1 DEF ShownInv, CarriedInv
  <2>3. Shows(model, emitted, Got, exec')
    <3>1. \A i \in 1 .. Got : emitted[i] = emitted[i]
        OBVIOUS
    <3> QED BY <1>1, <1>3, <3>1, ShowsPrefix DEF ShownInv
  <2>4. TracedInv'
      BY <1>2, <1>3, <1>6 DEF ShownInv, TracedInv, interface_done
  <2> QED BY <1>2, <1>6, <2>1, <2>2, <2>3, <2>4 DEF ShownInv
<1> QED BY <1>5, <1>6 DEF SendMessage

(* A command takes the oldest message of the channel.                       *)
LEMMA ShownTake ==
    ASSUME ScreenInv, ShownInv, NEW i \in DOMAIN waits, TakeMessage(i)
    PROVE  ShownInv'
<1> DEFINE h == Head(channel)
           e == Len(emitted)
           c == Len(channel)
<1>1. /\ i = 1 /\ Len(waits) = 1 /\ DOMAIN waits = {1} /\ waits # <<>>
      /\ waits = <<waits[1]>> /\ ~model.completed
    BY OneCommand DEF ShownInv
<1>2. /\ waits[1] = Waiting /\ channel # <<>> /\ waits' = [waits EXCEPT ![1] = h]
      /\ channel' = Tail(channel) /\ exec' = exec /\ emitted' = emitted
      /\ model' = model /\ main' = main
    BY <1>1 DEF TakeMessage
<1>3. /\ channel \in Seq(Messages) /\ emitted \in Seq(Messages) /\ Got \in Nat
      /\ \A j \in 1 .. c : channel[j] = emitted[e - c + j]
    BY DEF ScreenInv, ScreenTypes, ShownInv, CarriedInv
<1>4. /\ c \in Nat /\ c >= 1 /\ e \in Nat /\ h = channel[1] /\ h \in Messages
      /\ Len(channel') = c - 1 /\ \A j \in 1 .. c - 1 : channel'[j] = channel[j + 1]
    BY <1>2, <1>3
<1>5. h # Waiting
  <2>1. Waiting.kind = "waiting"
      BY DEF Waiting, Event
  <2>2. \A m \in Messages : m.kind # "waiting"
      BY DEF Messages, RunnerKinds
  <2> QED BY <1>4, <2>1, <2>2
<1>6. waits' = <<h>> /\ waits'[1] = h /\ Len(waits') = 1 /\ waits' # <<>>
  <2> HIDE DEF h
  <2>1. [<<waits[1]>> EXCEPT ![1] = h] = <<h>>
      OBVIOUS
  <2> QED BY <1>1, <1>2, <2>1
<1>7. UnderWay = 0 /\ UnderWay' = 1
    BY <1>1, <1>2, <1>5, <1>6 DEF UnderWay
<1>8. Got = e - c - 0 /\ Got' = e - (c - 1) - 1
    BY <1>2, <1>4, <1>7 DEF Got
<1> HIDE DEF h, e, c
<1>9. Got' = Got /\ Got + 1 = e - c + 1
    BY <1>4, <1>8
<1>10. CarriedInv'
  <2>1. \A j \in 1 .. c - 1 : channel'[j] = emitted[e - (c - 1) + j]
    <3> TAKE j \in 1 .. c - 1
    <3>1. j + 1 \in 1 .. c /\ e - (c - 1) + j = e - c + (j + 1)
        BY <1>4
    <3> QED BY <1>3, <1>4, <3>1
  <2>2. h = emitted[Got + 1]
    <3>1. 1 \in 1 .. c
        BY <1>4
    <3> QED BY <1>3, <1>4, <1>9, <3>1
  <2>3. \A j \in 1 .. Len(channel') :
           channel'[j] = emitted'[Len(emitted') - Len(channel') + j]
      BY <1>2, <1>4, <2>1 DEF e
  <2>4. UnderWay' = 1 => waits'[1] = emitted'[Got' + 1]
      BY <1>2, <1>6, <1>9, <2>2
  <2>5. Len(waits') = IF model'.completed THEN 0 ELSE 1
      BY <1>1, <1>2, <1>6
  <2>6. emitted' \in Seq(Messages) /\ Got' \in Nat
      BY <1>2, <1>3, <1>9
  <2> QED BY <2>3, <2>4, <2>5, <2>6 DEF CarriedInv
<1>11. TracedInv' /\ Shows(model', emitted', Got', exec')
    BY <1>2, <1>9 DEF ShownInv, TracedInv
<1> QED BY <1>10, <1>11 DEF ShownInv

(* The message that the command carried has been applied.                   *)
LEMMA ShownAdvances ==
    ASSUME ShownInv, emitted \in Seq(Messages), channel \in Seq(Messages),
           UnderWay = 1, UnderWay' = 0, Got \in Nat,
           exec' = exec, channel' = channel, emitted' = emitted, main' = main,
           Len(waits') = IF model'.completed THEN 0 ELSE 1,
           Shows(model', emitted, Got + 1, exec)
    PROVE  ShownInv'
<1>1. Got' = Got + 1
  <2> DEFINE e == Len(emitted)
             c == Len(channel)
  <2>1. Got = e - c - 1 /\ Got' = e - c - 0 /\ e \in Nat /\ c \in Nat
      BY DEF Got
  <2> HIDE DEF e, c
  <2>2. e - c - 0 = e - c - 1 + 1
      BY <2>1
  <2> QED BY <2>1, <2>2
<1>2. Got' \in Nat
    BY <1>1
<1>3. CarriedInv'
    BY <1>2 DEF ShownInv, CarriedInv
<1>4. TracedInv' /\ Shows(model', emitted', Got', exec')
    BY <1>1 DEF ShownInv, TracedInv
<1> QED BY <1>3, <1>4 DEF ShownInv

(* Update applies the next of the messages that were accepted.              *)
LEMMA ShownDeliver ==
    ASSUME ScreenInv, ShownInv, NEW i \in DOMAIN waits, Deliver(i)
    PROVE  ShownInv'
<1> DEFINE g == Got
           h == waits[1]
           e == Len(emitted)
           t == emitted \o exec.queue
<1>1. /\ i = 1 /\ Len(waits) = 1 /\ DOMAIN waits = {1} /\ waits # <<>>
      /\ waits = <<waits[1]>> /\ ~model.completed
    BY OneCommand DEF ShownInv
<1>2. /\ ui = "running" /\ h # Waiting
      /\ exec' = exec /\ channel' = channel /\ emitted' = emitted /\ main' = main
    BY <1>1 DEF Deliver
<1>3. /\ UnderWay = 1 /\ h = emitted[g + 1] /\ g \in Nat
      /\ emitted \in Seq(Messages) /\ channel \in Seq(Messages)
      /\ IsModel(model) /\ main.pc = "interface" /\ exec.queue \in Seq(Messages)
    BY <1>1, <1>2 DEF UnderWay, ShownInv, CarriedInv, ScreenInv, ScreenTypes, LeavingInv
<1>4. e \in Nat /\ g + 1 \in 1 .. e /\ g + 1 <= e /\ h \in Messages
  <2>1. g = e - Len(channel) - 1 /\ e \in Nat /\ Len(channel) \in Nat
      BY <1>3 DEF Got
  <2> HIDE DEF g, e
  <2>2. g + 1 \in 1 .. e /\ g + 1 <= e
      BY <1>3, <2>1
  <2> QED BY <1>3, <2>1, <2>2 DEF e
<1>5. /\ TraceInv(t, exec) /\ t \in Seq(Messages) /\ Len(t) \in Nat
      /\ e <= Len(t) /\ DOMAIN t = 1 .. Len(t)
      /\ \A j \in 1 .. e : t[j] = emitted[j]
  <2>1. TraceInv(t, exec)
      BY <1>3 DEF ShownInv, TracedInv
  <2> DEFINE q == exec.queue
             l == Len(exec.queue)
  <2>2. emitted \in Seq(Messages) /\ q \in Seq(Messages) /\ Len(emitted) = e /\ Len(q) = l
      BY <1>3
  <2>3. Joined(emitted \o q, emitted, q, e, l)
      BY <2>2, ConcatFacts, Zenon
  <2>4. l \in Nat
      BY <2>2
  <2> HIDE DEF q, l, e
  <2>5. e + l \in Nat /\ e <= e + l
      BY <1>4, <2>4
  <2>6. /\ emitted \o q \in Seq(Messages) /\ Len(emitted \o q) = e + l
        /\ DOMAIN (emitted \o q) = 1 .. e + l
        /\ \A j \in 1 .. e : (emitted \o q)[j] = emitted[j]
      BY <2>3 DEF Joined
  <2> QED BY <2>1, <2>5, <2>6 DEF q
<1> HIDE DEF t
<1>6. Numbered(emitted)
  <2> SUFFICES ASSUME NEW j \in 1 .. e, NEW s \in Stages, IsOutput(emitted[j], s)
               PROVE  NewestAt(emitted, j - 1, s, emitted[j].chunk - 1)
    <3>1. DOMAIN emitted = 1 .. e
        BY <1>3
    <3> QED BY <3>1 DEF Numbered
  <2> HIDE DEF e
  <2>1. j \in DOMAIN t /\ t[j] = emitted[j]
      BY <1>4, <1>5
  <2>2. NewestAt(t, j - 1, s, emitted[j].chunk - 1)
      BY <1>5, <2>1 DEF TraceInv, Numbered
  <2>3. j - 1 \in Nat /\ \A k \in 1 .. j - 1 : emitted[k] = t[k]
      BY <1>4, <1>5
  <2> QED BY <2>2, <2>3, NewestSame
<1>7. Shows(model, emitted, g, exec)
    BY DEF ShownInv
<1>8. RemoveAt(waits, i) = <<>>
  <2>1. RemoveAt(<<h>>, 1) = <<>>
      BY DEF RemoveAt
  <2> QED BY <1>1, <2>1
<1> HIDE DEF g, h
<1>9. CASE h.kind = "run_finished"
  <2>1. /\ model' = [model EXCEPT !.completed = TRUE, !.result = h.status,
                                  !.runError = h.error]
        /\ waits' = <<>>
      BY <1>1, <1>8, <1>9 DEF Deliver, h
  <2>2. g + 1 = Len(t) /\ exec.pc = "finished"
    <3>1. g + 1 \in DOMAIN t /\ t[g + 1].kind = "run_finished"
        BY <1>3, <1>4, <1>5, <1>9
    <3> QED BY <1>5, <3>1 DEF TraceInv
  <2>3. ASSUME NEW s \in Stages
        PROVE  StatusAt(emitted, g + 1, s, FinalStatus(exec, s))
    <3>1. StatusAt(t, g + 1, s, FinalStatus(exec, s))
        BY <1>5, <2>2 DEF TraceInv
    <3>2. /\ g + 1 \in Nat /\ g + 1 <= g + 1 /\ \A j \in g + 1 + 1 .. g + 1 : FALSE
          /\ \A j \in 1 .. g + 1 : emitted[j] = t[j]
        BY <1>3, <1>4, <1>5
    <3> QED BY <3>1, <3>2, StatusKept
  <2>4. Shows(model', emitted, g + 1, exec)
      BY <1>3, <1>7, <1>9, <2>1, <2>3, ShowsEnd
  <2>5. model'.completed
      BY <1>3, <2>1 DEF IsModel, ModelFields
  <2>6. UnderWay' = 0 /\ Len(waits') = 0
      BY <2>1 DEF UnderWay
  <2> QED BY <2>4, <2>5, <2>6, <1>2, <1>3, ShownAdvances DEF g
<1>10. CASE h.kind # "run_finished"
  <2>1. /\ model' = applyRunnerEvent(model, h)
        /\ waits' = <<>> \o waitForEvent(model')
      BY <1>1, <1>8, <1>10 DEF Deliver, h
  <2>2. h.kind \in RunnerKinds
      BY <1>4, <1>10 DEF Messages
  <2>3. IsModel(model') /\ ~model'.completed
      BY <1>1, <1>3, <2>1, <2>2, ApplyKeeps
  <2>4. waits' = <<Waiting>>
      BY <2>1, <2>3 DEF waitForEvent
  <2>5. Shows(model', emitted, g + 1, exec)
      BY <1>1, <1>3, <1>4, <1>6, <1>7, <2>1, <2>2, ShowsMore DEF e
  <2>6. UnderWay' = 0 /\ Len(waits') = 1
      BY <2>4 DEF UnderWay
  <2> QED BY <1>2, <1>3, <2>3, <2>5, <2>6, ShownAdvances DEF g
<1> QED BY <1>9, <1>10

(* Keys, the end of the interface and Run change nothing of it.             *)
LEMMA ShownFrame ==
    ASSUME ShownInv, exec' = exec, emitted' = emitted, channel' = channel, waits' = waits,
           main'.pc = "interface" => main.pc = "interface",
           model'.stages = model.stages, model'.logs = model.logs,
           model'.logTruncated = model.logTruncated, model'.completed = model.completed
    PROVE  ShownInv'
<1>1. UnderWay' = UnderWay /\ Got' = Got
    BY DEF UnderWay, Got
<1>2. CarriedInv'
    BY <1>1 DEF ShownInv, CarriedInv
<1>3. TracedInv'
    BY DEF ShownInv, TracedInv
<1>4. Shows(model', emitted, Got, exec)
    BY DEF ShownInv, Shows, StageShown
<1> QED BY <1>1, <1>2, <1>3, <1>4 DEF ShownInv

(* A key changes the selection or the cancellation, or leaves.              *)
LEMMA ShownKey ==
    ASSUME ScreenInv, ShownInv, Keyboard
    PROVE  ShownInv'
<1>1. exec' = exec /\ channel' = channel /\ emitted' = emitted /\ main' = main
    BY DEF Keyboard, PressQ, PressCtrlC, PressEnter, PressSelect, SelectStage, Press
<1>2. waits' = waits
  <2>1. waits \o <<>> = waits
      BY DEF ScreenInv, ScreenTypes
  <2> QED BY <2>1 DEF Keyboard, PressQ, PressCtrlC, PressEnter, PressSelect, SelectStage,
                      requestCancellation, leave, key_command
<1>3. /\ model'.stages = model.stages /\ model'.logs = model.logs
      /\ model'.logTruncated = model.logTruncated /\ model'.completed = model.completed
  <2>1. ASSUME NEW v
        PROVE  LET a == [model EXCEPT !.selected = v]
                   b == [model EXCEPT !.cancelling = TRUE]
               IN  /\ a.stages = model.stages /\ a.logs = model.logs
                   /\ a.logTruncated = model.logTruncated
                   /\ a.completed = model.completed
                   /\ b.stages = model.stages /\ b.logs = model.logs
                   /\ b.logTruncated = model.logTruncated
                   /\ b.completed = model.completed
      BY DEF ScreenInv, ScreenTypes, IsModel, ModelFields
  <2>2. \/ model' = model
        \/ model' = [model EXCEPT !.cancelling = TRUE]
        \/ \E v : model' = [model EXCEPT !.selected = v]
      BY DEF Keyboard, PressQ, PressCtrlC, PressEnter, PressSelect, SelectStage,
             requestCancellation, leave
  <2>3. CASE model' = model
      BY <2>3
  <2>4. CASE model' = [model EXCEPT !.cancelling = TRUE]
      BY <2>1, <2>4
  <2>5. CASE \E v : model' = [model EXCEPT !.selected = v]
    <3>1. PICK v : model' = [model EXCEPT !.selected = v]
        BY <2>5
    <3> QED BY <2>1, <3>1
  <2> QED BY <2>2, <2>3, <2>4, <2>5
<1> QED BY <1>1, <1>2, <1>3, ShownFrame

(* At the start nothing is shown.                                           *)
LEMMA ShownStarts == ScreenInit => ShownInv
<1> SUFFICES ASSUME ScreenInit PROVE ShownInv
    OBVIOUS
<1>1. /\ exec.pc = "between" /\ exec.stage = 1 /\ exec.outputs = 0
      /\ exec.queue = <<RunEvent>> /\ exec.status = "passed"
      /\ channel = <<>> /\ emitted = <<>> /\ model = NewModel
    BY DEF ScreenInit
<1>2. ~model.completed /\ waits = <<Waiting>>
    BY <1>1 DEF ScreenInit, NewModel, waitForEvent
<1>3. UnderWay = 0 /\ Got = 0
  <2>1. <<Waiting>>[1] = Waiting /\ Len(<<>>) = 0
      OBVIOUS
  <2>2. waits[1] = Waiting
      BY <1>2, <2>1
  <2>3. UnderWay = 0
      BY <2>2 DEF UnderWay
  <2> QED BY <1>1, <2>1, <2>3 DEF Got
<1>4. CarriedInv
  <2>1. <<>> \in Seq(Messages) /\ Len(<<>>) = 0 /\ Len(<<Waiting>>) = 1
      OBVIOUS
  <2> QED BY <1>1, <1>2, <1>3, <2>1 DEF CarriedInv
<1>5. TracedInv
  <2> DEFINE t == <<RunEvent>>
  <2>1. emitted \o exec.queue = t /\ DOMAIN t = 1 .. 1 /\ Len(t) = 1 /\ t[1] = RunEvent
      BY <1>1
  <2>2. \A i \in 1 .. 1 : t[i].kind = "run"
      BY <2>1, MessageTypes
  <2> HIDE DEF t
  <2>3. Numbered(t)
      BY <2>1, <2>2 DEF Numbered, IsOutput
  <2>4. \A i \in DOMAIN t : t[i].kind # "run_finished"
      BY <2>1, <2>2
  <2>5. \A s \in Stages : ~(s < 1) /\ NewestAt(t, 1, s, 0)
    <3> TAKE s \in Stages
    <3>1. ~(s < 1)
        BY DEF Stages
    <3>2. NewestAt(t, 1, s, 0)
        BY <2>2 DEF NewestAt, IsOutput
    <3> QED BY <3>1, <3>2
  <2>6. TraceInv(t, exec)
      BY <1>1, <2>1, <2>3, <2>4, <2>5 DEF TraceInv
  <2> QED BY <1>1, <2>1, <2>6 DEF TracedInv
<1>6. Shows(model, emitted, Got, exec)
  <2>1. /\ DOMAIN model.stages = Stages /\ DOMAIN model.logs = Stages
        /\ DOMAIN model.logTruncated = Stages
        /\ \A s \in Stages : /\ model.stages[s] = "waiting" /\ model.logs[s] = <<>>
                             /\ model.logTruncated[s] = FALSE
      BY <1>1 DEF NewModel
  <2>2. NewestChunks(0) = <<>> /\ ~(0 > MaxStageLog)
    <3>1. 0 < MaxStageLog
        BY ConsoleAssumption
    <3>2. NewestChunks(0) = [k \in 1 .. 0 |-> 0 - 0 + k]
        BY <3>1 DEF NewestChunks
    <3>3. [k \in 1 .. 0 |-> 0 - 0 + k] = <<>>
        OBVIOUS
    <3> QED BY <3>1, <3>2, <3>3, ConsoleAssumption
  <2>3. \A i \in 1 .. 0 : FALSE
      OBVIOUS
  <2>4. ASSUME NEW s \in Stages
        PROVE  StageShown(model, emitted, 0, s)
    <3>1. StatusAt(emitted, 0, s, "waiting")
        BY <2>3 DEF StatusAt
    <3>2. NewestAt(emitted, 0, s, 0)
        BY <2>3 DEF NewestAt
    <3>3. 0 \in Nat
        OBVIOUS
    <3> QED BY <2>1, <2>2, <3>1, <3>2, <3>3 DEF StageShown
  <2> QED BY <1>2, <1>3, <2>1, <2>3, <2>4 DEF Shows
<1> QED BY <1>4, <1>5, <1>6 DEF ShownInv

(* Every step keeps it.                                                     *)
LEMMA ShownKept == ScreenInv /\ ShownInv /\ [ScreenNext]_screenVars => ShownInv'
<1> SUFFICES ASSUME ScreenInv, ShownInv, [ScreenNext]_screenVars PROVE ShownInv'
    OBVIOUS
<1>1. CASE Signals
    BY <1>1, ShownFrame DEF Signals, ReceiveSignal, CancelParent, HandleSignal, interfaceVars
<1>2. CASE Execute
    BY <1>2, ShownExecute
<1>3. CASE SendMessage
    BY <1>3, ShownSend
<1>4. CASE Interface
    BY <1>4, ShownTake, ShownDeliver DEF Interface
<1>5. CASE Keyboard
    BY <1>5, ShownKey
<1>6. CASE InterfaceFails
    BY <1>6, ShownFrame DEF InterfaceFails
<1>7. CASE CloseInterface
    BY <1>7, ShownFrame DEF CloseInterface
<1>8. CASE Return
  <2>1. main'.pc = "returned"
      BY <1>8 DEF Return
  <2> QED BY <1>8, <2>1, ShownFrame DEF Return
<1>9. CASE Done \/ UNCHANGED screenVars
    BY <1>9, ShownFrame DEF Done, screenVars
<1> QED BY <1>1, <1>2, <1>3, <1>4, <1>5, <1>6, <1>7, <1>8, <1>9 DEF ScreenNext

(* The greatest of a set.                                                   *)
LEMMA MaxIs ==
    ASSUME NEW S, S \subseteq Int, NEW i \in S, \A j \in S : j <= i
    PROVE  Max(S) = i
<1>1. \A x \in S : (\A y \in S : x >= y) <=> x = i
    BY Z3
<1>2. Max(S) = CHOOSE x \in S : x = i
    BY <1>1 DEF Max
<1> QED BY <1>2

(* The screen shows what the execution said so far: the last status of each *)
(* stage and its newest output.  Messages pass through a channel and, one   *)
(* by one, through commands that run in goroutines of their own, for any    *)
(* length of the plan, capacity of the channel, room in a log and amount of *)
(* output; a run that the screen calls complete has an outcome for every    *)
(* stage, and one that passed shows no other.                               *)
THEOREM ConsoleScreenFollowsRunner == ScreenSpec => []ScreenFollowsRunner
<1>1. ScreenInv /\ ShownInv => ScreenFollowsRunner
  <2> SUFFICES ASSUME ScreenInv, ShownInv PROVE ScreenFollowsRunner
      OBVIOUS
  <2> DEFINE p == Applied
  <2>1. /\ waits \in Seq(Messages \cup {Waiting}) /\ emitted \in Seq(Messages)
        /\ channel \in Seq(Messages) /\ Got \in Nat
        /\ Shows(model, emitted, Got, exec)
      BY DEF ScreenInv, ScreenTypes, ShownInv, CarriedInv
  <2>2. Cardinality(Carried) = UnderWay
    <3>1. CASE waits = <<>>
      <4>1. Carried = {}
          BY <3>1 DEF Carried
      <4> QED BY <3>1, <4>1, FS_EmptySet DEF UnderWay
    <3>2. CASE waits # <<>>
      <4>1. 1 \in DOMAIN waits
          BY <2>1, <3>2
      <4>2. DOMAIN waits = {1}
          BY <4>1, OneCommand DEF ShownInv
      <4>3. Carried = IF waits[1] # Waiting THEN {1} ELSE {}
          BY <4>2 DEF Carried
      <4> QED BY <3>2, <4>3, FS_EmptySet, FS_Singleton DEF UnderWay
    <3> QED BY <3>1, <3>2
  <2>3. p = SubSeq(emitted, 1, Got)
      BY <2>2 DEF Applied, Got
  <2>4. /\ DOMAIN p = 1 .. Got
        /\ \A i \in 1 .. Got : p[i] = emitted[i] /\ p[i] \in Messages
    <3>1. Got <= Len(emitted)
      <4> DEFINE e == Len(emitted)
                 c == Len(channel)
      <4>1. e \in Nat /\ c \in Nat /\ UnderWay \in {0, 1} /\ Got = e - c - UnderWay
          BY <2>1 DEF UnderWay, Got
      <4> HIDE DEF e, c
      <4>2. Got <= e
          BY <4>1
      <4> QED BY <4>2 DEF e
    <3> QED BY <2>1, <2>3, <3>1
  <2> HIDE DEF p
  <2>5. ASSUME NEW s \in Stages
        PROVE  model.stages[s] = LastSaid(p, s)
    <3>1. StatusAt(emitted, Got, s, model.stages[s])
        BY <2>1 DEF Shows, StageShown
    <3>2. Notices(p, s) = {i \in 1 .. Got : IsNotice(emitted[i], s)}
        BY <2>4 DEF Notices, IsNotice
    <3>3. CASE model.stages[s] = "waiting" /\ \A i \in 1 .. Got : ~IsNotice(emitted[i], s)
        BY <3>2, <3>3 DEF LastSaid
    <3>4. ASSUME NEW i \in 1 .. Got, IsNotice(emitted[i], s),
                 model.stages[s] = Says(emitted[i]),
                 \A j \in i + 1 .. Got : ~IsNotice(emitted[j], s)
          PROVE  model.stages[s] = LastSaid(p, s)
      <4>1. /\ Notices(p, s) \subseteq Int /\ i \in Notices(p, s)
            /\ \A j \in Notices(p, s) : j <= i
        <5>1. \A j \in 1 .. Got : j <= i \/ j \in i + 1 .. Got
            BY <2>1
        <5> QED BY <3>2, <3>4, <5>1
      <4>2. Max(Notices(p, s)) = i /\ Notices(p, s) # {}
          BY <4>1, MaxIs
      <4> QED BY <2>4, <3>4, <4>2 DEF LastSaid
    <3> QED BY <3>1, <3>3, <3>4 DEF StatusAt
  <2>6. ASSUME NEW s \in Stages
        PROVE  /\ model.logs[s] = NewestChunks(LastChunk(p, s))
               /\ model.logTruncated[s] <=> LastChunk(p, s) > MaxStageLog
    <3>1. PICK n \in Nat : /\ NewestAt(emitted, Got, s, n)
                           /\ model.logs[s] = NewestChunks(n)
                           /\ model.logTruncated[s] <=> n > MaxStageLog
        BY <2>1 DEF Shows, StageShown
    <3> DEFINE C == {0} \cup {p[i].chunk : i \in OutputOf(p, s)}
    <3>2. OutputOf(p, s) = {i \in 1 .. Got : IsOutput(emitted[i], s)}
        BY <2>4 DEF OutputOf, IsOutput
    <3>3. \A i \in OutputOf(p, s) : p[i].chunk = emitted[i].chunk /\ p[i].chunk \in Nat
        BY <2>4, <3>2 DEF Messages
    <3>4. C \subseteq Int /\ n \in C /\ \A j \in C : j <= n
      <4>1. C \subseteq Int
          BY <3>3
      <4>2. n \in C
        <5>1. CASE n = 0
            BY <5>1
        <5>2. CASE n # 0
          <6>1. PICK i \in 1 .. Got : IsOutput(emitted[i], s) /\ emitted[i].chunk = n
              BY <3>1, <5>2 DEF NewestAt
          <6>2. i \in OutputOf(p, s) /\ p[i].chunk = n
              BY <3>2, <3>3, <6>1
          <6> QED BY <6>2
        <5> QED BY <5>1, <5>2
      <4>3. ASSUME NEW j \in C
            PROVE  j <= n
        <5>1. CASE j = 0
            BY <3>1, <5>1
        <5>2. CASE j # 0
          <6>1. PICK i \in OutputOf(p, s) : j = p[i].chunk
              BY <5>2
          <6>2. i \in 1 .. Got /\ IsOutput(emitted[i], s) /\ j = emitted[i].chunk
              BY <3>2, <3>3, <6>1
          <6> QED BY <3>1, <6>2 DEF NewestAt
        <5> QED BY <5>1, <5>2
      <4> QED BY <4>1, <4>2, <4>3
    <3> HIDE DEF C
    <3>5. Max(C) = n
        BY <3>4, MaxIs
    <3>6. LastChunk(p, s) = n
        BY <3>5 DEF LastChunk, C
    <3> QED BY <3>1, <3>6
  <2>7. model.completed <=> \E i \in DOMAIN p : p[i].kind = "run_finished"
      BY <2>1, <2>4 DEF Shows
  <2>8. ASSUME model.completed
        PROVE  /\ \A s \in Stages : model.stages[s] \notin {"waiting", "running"}
               /\ model.result = "passed" <=> \A s \in Stages : model.stages[s] = "passed"
    <3>1. /\ exec.pc = "finished" /\ model.result = exec.status
          /\ exec.status \in Statuses /\ exec.stage \in Stages
        BY <2>8 DEF ScreenInv, CompletedInv, ScreenTypes
    <3>2. exec.status = "passed" => exec.stage = PlanLength
        BY <3>1 DEF ShownInv, TracedInv
    <3>3. \A s \in Stages : model.stages[s] = FinalStatus(exec, s)
        BY <2>1, <2>8 DEF Shows
    <3>4. \A s \in Stages : model.stages[s] \notin {"waiting", "running"}
        BY <3>1, <3>3 DEF FinalStatus, Statuses
    <3>5. model.result = "passed" => \A s \in Stages : model.stages[s] = "passed"
      <4>1. \A s \in Stages : s < PlanLength \/ s = PlanLength
          BY ConsoleAssumption DEF Stages
      <4> QED BY <3>1, <3>2, <3>3, <4>1 DEF FinalStatus
    <3>6. (\A s \in Stages : model.stages[s] = "passed") => model.result = "passed"
      <4>1. exec.stage \in Nat /\ ~(exec.stage < exec.stage)
          BY <3>1 DEF Stages
      <4>2. FinalStatus(exec, exec.stage) = exec.status
          BY <4>1 DEF FinalStatus
      <4> QED BY <3>1, <3>3, <4>2
    <3> QED BY <3>4, <3>5, <3>6
  <2> QED BY <2>5, <2>6, <2>7, <2>8 DEF ScreenFollowsRunner, p
<1> QED BY <1>1, ScreenInvStarts, ScreenInvKept, ShownStarts, ShownKept, PTL DEF ScreenSpec

=============================================================================
