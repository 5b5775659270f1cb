---------------------------- MODULE RunnerProofs ----------------------------
(***************************************************************************)
(* What the stage runner promises, for every plan, every set of streams,    *)
(* every pipe capacity and every system call that may fail: a recorded      *)
(* stage is complete and quiet, the results fit the plan, and the           *)
(* observer's account of the run is in order.                               *)
(***************************************************************************)
EXTENDS Runner, FiniteSetTheorems, TLAPS

-----------------------------------------------------------------------------
(* The inductive invariant *)

(* The running goroutine is inside runStage.                                *)
Active == pc \in {"await", "drain", "killed"}

(* While the run goes on, every stage before the current one has passed.    *)
ControlInv ==
    /\ Active => index <= PlanLength
    /\ pc # "done" => /\ status = "passed"
                      /\ Len(stages) = index - 1
                      /\ \A i \in 1 .. Len(stages) : stages[i].status = "passed"
    /\ pc \in {"loop", "await"} => ~cancelled

(* A channel that has been received from tells what its goroutine saw: the  *)
(* readers are gone, and only then was the leader reaped.                   *)
ChannelInv ==
    /\ ~Active => \A s \in Streams : readers[s] \in {"idle", "done", "failed"}
    /\ Active /\ ~readersChannel => ReadersDone
    /\ Active /\ ~processChannel => reaped
    /\ reaped => ReadersDone /\ processes["leader"].state = "exited"
    /\ pc = "done" /\ cancelled => reaped

(* Once a reader has met the end of its stream nothing can be written.      *)
StreamEndInv ==
    \A s \in Streams :
        readers[s] = "done" => /\ captured[s] = written[s]
                               /\ \A p \in Processes : ~Holds(p)

StageInv == ControlInv /\ ChannelInv /\ StreamEndInv

(* What the observer can be called with.                                    *)
Emitted ==
    [kind : {"run-started"}]
    \cup [kind : {"stage-started", "stage-skipped", "cancellation-requested"},
          stage : Nat]
    \cup [kind : {"stage-finished"}, stage : Nat, status : Statuses]
    \cup [kind : {"stage-output"}, stage : Nat, stream : Streams,
          sequence : Nat, first : Nat, last : Nat]
    \cup [kind : {"run-finished"}, status : Statuses]

TerminalAt(i) == {k \in DOMAIN events : Terminal(events[k]) /\ events[k].stage = i}

OutputAt(i, s) ==
    {k \in DOMAIN events : /\ IsOutput(events[k])
                           /\ events[k].stage = i
                           /\ events[k].stream = s}

(* One end for each stage that is over, none for the others.                *)
TerminalInv ==
    \A i \in Stages : IF pc = "done" \/ i < index
                      THEN \E k \in DOMAIN events : TerminalAt(i) = {k}
                      ELSE TerminalAt(i) = {}

(* The results of a finished run: the part of ResultsMatchPlan without       *)
(* Cardinality.                                                             *)
StoppedAt(stop) ==
    /\ \A i \in Stages : i < stop => stages[i].status = "passed"
    /\ \A i \in Stages : i > stop => stages[i].status = "skipped"
    /\ IF stop \in Stages
       THEN /\ stages[stop].status = status
            /\ status \notin {"passed", "skipped"}
       ELSE status = "passed"

ResultInv ==
    pc = "done" => /\ Len(stages) = PlanLength
                   /\ \E stop \in 1 .. PlanLength + 1 : StoppedAt(stop)
                   /\ events # <<>>
                   /\ events[Len(events)] = RunFinished(status)

(* EventsFramed in two parts: the output of a stage is framed, and nothing  *)
(* follows the end of the run.                                              *)
OutputFramed ==
    \A k \in DOMAIN events :
        IsOutput(events[k]) =>
            /\ \E j \in 1 .. k - 1 :
                  events[j] = Event("stage-started", events[k].stage)
            /\ \A j \in 1 .. k - 1 :
                  Terminal(events[j]) => events[j].stage # events[k].stage

FrameInv ==
    /\ Active => \E j \in DOMAIN events : events[j] = Event("stage-started", index)
    /\ pc # "done" => \A k \in DOMAIN events : events[k].kind # "run-finished"
    /\ \A k \in DOMAIN events : events[k].kind = "run-finished" => k = Len(events)
    /\ OutputFramed

(* The run's counter is ahead of every event, and a chunk about to be       *)
(* emitted has a number of its own and ends where its buffer ends.          *)
CounterInv ==
    /\ \A k \in DOMAIN events :
          IsOutput(events[k]) => /\ events[k].sequence <= sequence
                                 /\ events[k].stage <= index
                                 /\ pc = "loop" => events[k].stage < index
    /\ \A s \in Streams : readers[s] = "emit" =>
          /\ chunk[s].sequence <= sequence
          /\ 1 <= chunk[s].first /\ chunk[s].first <= chunk[s].last
          /\ chunk[s].last = captured[s]
          /\ \A k \in DOMAIN events :
                IsOutput(events[k]) => events[k].sequence # chunk[s].sequence
          /\ \A t \in Streams :
                t # s /\ readers[t] = "emit" => chunk[t].sequence # chunk[s].sequence

(* How far the observer has been told of a stream of the current stage.     *)
Told(s) == IF readers[s] = "emit" THEN chunk[s].first - 1 ELSE captured[s]

ToldInv ==
    Active =>
        \A s \in Streams : \A k \in OutputAt(index, s) :
            /\ readers[s] = "emit" => events[k].sequence < chunk[s].sequence
            /\ events[k].last <= Told(s)
            /\ \/ events[k].last = Told(s)
               \/ \E m \in OutputAt(index, s) : k < m

AccountInv ==
    /\ events \in Seq(Emitted)
    /\ TerminalInv
    /\ ResultInv
    /\ FrameInv
    /\ CounterInv
    /\ ToldInv
    /\ StreamsInOrder

Inv == TypeOK /\ StageInv /\ AccountInv

-----------------------------------------------------------------------------
(* Results and events of the current stage's end *)

Results == [status : Statuses, output : [Streams -> Nat]]

(* appendSkipped fills the results up to the length of the plan.            *)
LEMMA SkippedResults ==
    ASSUME NEW rs \in Seq(Results), Len(rs) <= PlanLength
    PROVE  LET t == appendSkipped(rs)
           IN  /\ t \in Seq(Results)
               /\ Len(t) = PlanLength
               /\ \A i \in 1 .. Len(rs) : t[i] = rs[i]
               /\ \A i \in Len(rs) + 1 .. PlanLength : t[i].status = "skipped"
<1> DEFINE n == PlanLength - Len(rs)
           r == StageResult("skipped", NoOutput)
           f == [i \in 1 .. n |-> r]
<1>1. PlanLength \in Nat /\ Len(rs) \in Nat /\ n \in Nat
    BY RunnerAssumption
<1>2. r \in Results /\ r.status = "skipped"
    BY DEF StageResult, NoOutput, Results, Statuses
<1> HIDE DEF r
<1>3. f \in Seq(Results) /\ Len(f) = n /\ \A i \in 1 .. n : f[i] = r
  <2>1. \A m \in Nat : [1 .. m -> Results] \subseteq Seq(Results)
      OBVIOUS
  <2>2. f \in [1 .. n -> Results] /\ \A i \in 1 .. n : f[i] = r
      BY <1>2
  <2> HIDE DEF f, n
  <2>3. f \in Seq(Results) /\ DOMAIN f = 1 .. n
      BY <1>1, <2>1, <2>2
  <2>4. Len(f) = n
      BY <1>1, <2>3
  <2> QED BY <2>2, <2>3, <2>4
<1>4. appendSkipped(rs) = rs \o f
    BY DEF appendSkipped, r
<1> HIDE DEF f
<1>5. /\ rs \o f \in Seq(Results)
      /\ Len(rs \o f) = Len(rs) + Len(f)
      /\ \A i \in 1 .. Len(rs) : (rs \o f)[i] = rs[i]
      /\ \A i \in Len(rs) + 1 .. Len(rs) + Len(f) : (rs \o f)[i] = f[i - Len(rs)]
    BY <1>3
<1>6. \A i \in Len(rs) + 1 .. PlanLength : (rs \o f)[i] = r
    BY <1>1, <1>3, <1>5
<1> QED BY <1>1, <1>2, <1>3, <1>4, <1>5, <1>6

(* The constructors make events.                                            *)
LEMMA EventShapes ==
    /\ \A i \in Nat : \A k \in {"stage-started", "stage-skipped",
                                "cancellation-requested"} :
          Event(k, i) \in Emitted
    /\ \A i \in Nat, s \in Statuses : StageFinished(i, s) \in Emitted
    /\ \A s \in Statuses : RunFinished(s) \in Emitted
    /\ \A i \in Nat, s \in Streams,
          c \in [sequence : Nat, first : Nat, last : Nat] :
          StageOutput(i, s, c) \in Emitted
<1>1. \A i \in Nat : \A k \in {"stage-started", "stage-skipped",
                                "cancellation-requested"} :
          Event(k, i) \in Emitted
    BY DEF Event, Emitted
<1>2. \A i \in Nat, s \in Statuses : StageFinished(i, s) \in Emitted
    BY DEF StageFinished, Emitted
<1>3. \A s \in Statuses : RunFinished(s) \in Emitted
    BY DEF RunFinished, Emitted
<1>4. \A i \in Nat, s \in Streams,
          c \in [sequence : Nat, first : Nat, last : Nat] :
          StageOutput(i, s, c) \in Emitted
    BY DEF StageOutput, Emitted
<1> QED BY <1>1, <1>2, <1>3, <1>4

(* The elements of a concatenation and of an extended sequence.             *)
LEMMA ConcatShape ==
    ASSUME NEW S, NEW a \in Seq(S), NEW b \in Seq(S)
    PROVE  LET t == a \o b
           IN  /\ t \in Seq(S) /\ Len(t) = Len(a) + Len(b)
               /\ \A k \in 1 .. Len(a) : t[k] = a[k]
               /\ \A k \in Len(a) + 1 .. Len(a) + Len(b) : t[k] = b[k - Len(a)]
    OBVIOUS

(* The elements of a sequence with one more at its end.                     *)
LEMMA AppendShape ==
    ASSUME NEW S, NEW a \in Seq(S), NEW x \in S
    PROVE  LET t == Append(a, x)
           IN  /\ t \in Seq(S) /\ Len(a) \in Nat /\ Len(t) = Len(a) + 1
               /\ DOMAIN a = 1 .. Len(a) /\ DOMAIN t = 1 .. Len(a) + 1
               /\ \A k \in 1 .. Len(a) : t[k] = a[k]
               /\ t[Len(a) + 1] = x
    OBVIOUS

(* SkippedEvents is a sequence of events.                                   *)
LEMMA SkippedShape ==
    ASSUME NEW i \in 1 .. PlanLength
    PROVE  LET t == SkippedEvents(i + 1)
           IN  /\ t \in Seq(Emitted)
               /\ Len(t) = PlanLength - i
               /\ \A k \in 1 .. PlanLength - i : t[k] = Event("stage-skipped", i + k)
<1> DEFINE n == PlanLength - i
           t == SkippedEvents(i + 1)
<1>1. PlanLength \in Nat /\ i \in Nat /\ n \in Nat
    BY RunnerAssumption
<1>2. t = [k \in 1 .. n |-> Event("stage-skipped", i + k)]
  <2>1. PlanLength - (i + 1) + 1 = n
      BY <1>1
  <2>2. \A k \in 1 .. n : i + 1 + k - 1 = i + k
      BY <1>1
  <2>3. t = [k \in 1 .. PlanLength - (i + 1) + 1 |->
                Event("stage-skipped", i + 1 + k - 1)]
      BY DEF SkippedEvents
  <2> QED BY <2>1, <2>2, <2>3
<1>3. \A k \in 1 .. n : Event("stage-skipped", i + k) \in Emitted
    BY <1>1, EventShapes
<1>4. t \in [1 .. n -> Emitted]
    BY <1>2, <1>3
<1>5. \A m \in Nat : [1 .. m -> Emitted] \subseteq Seq(Emitted)
    OBVIOUS
<1> HIDE DEF t, n
<1>6. t \in Seq(Emitted) /\ DOMAIN t = 1 .. n
    BY <1>1, <1>4, <1>5
<1>7. Len(t) = n
    BY <1>1, <1>6
<1> QED BY <1>2, <1>6, <1>7 DEF t, n

(* The events of a run that stops at the current stage: one end for it and  *)
(* for every later stage, in the order of the plan, then the run's own.     *)
StopEvents(before, i, st) ==
    Append(Append(before, StageFinished(i, st)) \o SkippedEvents(i + 1),
           RunFinished(st))

EndsWithStop(t, before, i, st) ==
    /\ t \in Seq(Emitted)
    /\ Len(t) = Len(before) + 2 + (PlanLength - i)
    /\ \A k \in 1 .. Len(before) : t[k] = before[k]
    /\ \A k \in Len(before) + 1 .. Len(t) :
          /\ ~IsOutput(t[k])
          /\ Terminal(t[k]) <=> k < Len(t)
          /\ k < Len(t) => t[k].stage = i + (k - (Len(before) + 1))
          /\ t[k].kind = "run-finished" <=> k = Len(t)
    /\ t[Len(t)] = RunFinished(st)

(* The events that end a run: the end of its stage, the skipped ones, the   *)
(* end of the run.                                                          *)
LEMMA StopEventsShape ==
    ASSUME NEW before \in Seq(Emitted), NEW i \in 1 .. PlanLength,
           NEW st \in Statuses
    PROVE  EndsWithStop(StopEvents(before, i, st), before, i, st)
<1> DEFINE a == Append(before, StageFinished(i, st))
           b == SkippedEvents(i + 1)
           t == Append(a \o b, RunFinished(st))
           n == Len(before)
<1>1. PlanLength \in Nat /\ i \in Nat /\ n \in Nat /\ PlanLength - i \in Nat
    BY RunnerAssumption
<1>2. StageFinished(i, st) \in Emitted /\ RunFinished(st) \in Emitted
    BY <1>1, EventShapes
<1>3. /\ a \in Seq(Emitted) /\ Len(a) = n + 1
      /\ \A k \in 1 .. n : a[k] = before[k]
      /\ a[n + 1] = StageFinished(i, st)
    BY <1>1, <1>2
<1>4. /\ b \in Seq(Emitted) /\ Len(b) = PlanLength - i
      /\ \A k \in 1 .. PlanLength - i : b[k] = Event("stage-skipped", i + k)
    BY SkippedShape
<1> HIDE DEF a, b, n
<1> DEFINE c == a \o b
<1>5. /\ c \in Seq(Emitted) /\ Len(c) = n + 1 + (PlanLength - i)
      /\ \A k \in 1 .. n + 1 : c[k] = a[k]
      /\ \A k \in n + 2 .. n + 1 + (PlanLength - i) : c[k] = b[k - (n + 1)]
  <2>1. /\ c \in Seq(Emitted) /\ Len(c) = Len(a) + Len(b)
        /\ \A k \in 1 .. Len(a) : c[k] = a[k]
        /\ \A k \in Len(a) + 1 .. Len(a) + Len(b) : c[k] = b[k - Len(a)]
      BY <1>3, <1>4, ConcatShape
  <2>2. n + 1 + 1 = n + 2
      BY <1>1
  <2> HIDE DEF c
  <2> QED BY <1>3, <1>4, <2>1, <2>2
<1> HIDE DEF c
<1>6. /\ t \in Seq(Emitted) /\ Len(t) = Len(c) + 1
      /\ \A k \in 1 .. Len(c) : t[k] = c[k]
      /\ t[Len(c) + 1] = RunFinished(st)
  <2>1. t = Append(c, RunFinished(st))
      BY DEF c
  <2> HIDE DEF t
  <2> QED BY <1>2, <1>5, <2>1
<1> HIDE DEF t
<1>6a. Len(t) = n + 2 + (PlanLength - i)
    BY <1>1, <1>5, <1>6
<1>7. \A k \in 1 .. n : t[k] = before[k]
  <2> TAKE k \in 1 .. n
  <2>1. k \in 1 .. n + 1 /\ k \in 1 .. Len(c)
      BY <1>1, <1>5
  <2> QED BY <2>1, <1>3, <1>5, <1>6
<1>8. t[n + 1] = StageFinished(i, st)
  <2>1. n + 1 \in 1 .. n + 1 /\ n + 1 \in 1 .. Len(c)
      BY <1>1, <1>5
  <2> QED BY <2>1, <1>3, <1>5, <1>6
<1>9. \A k \in n + 2 .. n + 1 + (PlanLength - i) :
          t[k] = Event("stage-skipped", i + (k - (n + 1)))
  <2> TAKE k \in n + 2 .. n + 1 + (PlanLength - i)
  <2>1. k \in 1 .. Len(c) /\ k - (n + 1) \in 1 .. PlanLength - i
      BY <1>1, <1>5
  <2> QED BY <2>1, <1>4, <1>5, <1>6
<1>10. ASSUME NEW k \in n + 1 .. Len(t)
       PROVE  /\ ~IsOutput(t[k])
              /\ Terminal(t[k]) <=> k < Len(t)
              /\ k < Len(t) => t[k].stage = i + (k - (n + 1))
              /\ t[k].kind = "run-finished" <=> k = Len(t)
  <2>1. CASE k = n + 1
      BY <1>1, <1>6a, <1>8, <2>1 DEF StageFinished, IsOutput, Terminal
  <2>2. CASE k \in n + 2 .. n + 1 + (PlanLength - i)
    <3>1. t[k] = Event("stage-skipped", i + (k - (n + 1)))
        BY <1>9, <2>2
    <3>2. t[k].kind = "stage-skipped" /\ t[k].stage = i + (k - (n + 1))
        BY <3>1 DEF Event
    <3>3. k < Len(t) /\ k # Len(t)
        BY <1>1, <1>6a, <2>2
    <3> QED BY <3>2, <3>3 DEF IsOutput, Terminal
  <2>3. CASE k = Len(t)
      BY <1>1, <1>6, <1>6a, <2>3 DEF RunFinished, IsOutput, Terminal
  <2> QED BY <1>1, <1>6a, <2>1, <2>2, <2>3
<1>11. t[Len(t)] = RunFinished(st)
    BY <1>6
<1>12. t = StopEvents(before, i, st)
    BY DEF t, a, b, StopEvents
<1> QED BY <1>6, <1>6a, <1>7, <1>10, <1>11, <1>12 DEF n, EndsWithStop

-----------------------------------------------------------------------------
(* Types, and the invariant of one stage *)

(* stageStatus yields a status, and "cancelled" whenever the stage was.     *)
LEMMA StatusOfStage ==
    ASSUME TypeOK
    PROVE  /\ stageStatus \in Statuses \ {"skipped"}
           /\ cancelled => stageStatus = "cancelled"
<1> DEFINE failed == \E s \in Streams : readers[s] = "failed"
           w == CASE waitErr = "zero" -> "passed"
                  [] waitErr \in {"nonzero", "signal"} -> "failed"
                  [] OTHER -> "internal-error"
<1>1. w \in {"passed", "failed", "internal-error"}
  <2>1. CASE waitErr = "zero" BY <2>1
  <2>2. CASE waitErr \in {"nonzero", "signal"} BY <2>2
  <2>3. CASE waitErr # "zero" /\ waitErr \notin {"nonzero", "signal"} BY <2>3
  <2> QED BY <2>1, <2>2, <2>3
<1>2. (\A s \in Streams : readers[s] # "failed") <=> ~failed
    OBVIOUS
<1>3. stageStatus = CASE cancelled -> "cancelled"
                      [] ~cancelled /\ failed -> "internal-error"
                      [] ~cancelled /\ ~failed -> w
    BY <1>2 DEF stageStatus
<1> HIDE DEF w, failed
<1>4. CASE cancelled
    BY <1>3, <1>4 DEF Statuses
<1>5. CASE ~cancelled /\ failed
    BY <1>3, <1>5 DEF Statuses
<1>6. CASE ~cancelled /\ ~failed
    BY <1>1, <1>3, <1>6 DEF Statuses
<1> QED BY <1>4, <1>5, <1>6

(* The results and the control state when the current stage ends.           *)
LEMMA FinishStageResults ==
    ASSUME TypeOK, ControlInv, pc # "done", index <= PlanLength,
           NEW st \in Statuses \ {"skipped"}, NEW out \in [Streams -> Nat],
           NEW emitted, FinishStage(st, out, emitted)
    PROVE  /\ stages' \in Seq(Results)
           /\ st = "passed" =>
                 /\ pc' = "loop" /\ index' = index + 1 /\ status' = status
                 /\ Len(stages') = index
                 /\ \A i \in 1 .. Len(stages') : stages'[i].status = "passed"
                 /\ events' = Append(events \o emitted, StageFinished(index, st))
           /\ st # "passed" =>
                 /\ pc' = "done" /\ index' = index /\ status' = st
                 /\ Len(stages') = PlanLength
                 /\ StoppedAt(index)'
                 /\ events' = StopEvents(events \o emitted, index, st)
<1> DEFINE r == StageResult(st, out)
           rs == Append(stages, r)
<1>1. /\ PlanLength \in Nat /\ index \in 1 .. PlanLength /\ index \in Nat
      /\ stages \in Seq(Results) /\ Len(stages) = index - 1
      /\ \A i \in 1 .. Len(stages) : stages[i].status = "passed"
    BY RunnerAssumption DEF TypeOK, ControlInv, Results
<1>2. r \in Results /\ r.status = st
    BY DEF Results, StageResult
<1> HIDE DEF r
<1>3. /\ rs \in Seq(Results) /\ Len(rs) = index
      /\ \A i \in 1 .. index - 1 : rs[i].status = "passed"
      /\ rs[index].status = st
  <2>1. /\ rs \in Seq(Results) /\ Len(rs) = Len(stages) + 1
        /\ \A k \in 1 .. Len(stages) : rs[k] = stages[k]
        /\ rs[Len(stages) + 1] = r
      BY <1>1, <1>2, AppendShape
  <2> HIDE DEF rs
  <2>2. Len(stages) + 1 = index
      BY <1>1
  <2> QED BY <1>1, <1>2, <2>1, <2>2
<1>4. CASE st = "passed"
  <2>1. /\ stages' = rs /\ pc' = "loop" /\ index' = index + 1 /\ status' = status
        /\ events' = Append(events \o emitted, StageFinished(index, st))
      BY <1>4 DEF FinishStage, r
  <2> HIDE DEF rs
  <2>2. \A i \in 1 .. index : rs[i].status = "passed"
    <3> TAKE i \in 1 .. index
    <3>1. i = index \/ i \in 1 .. index - 1 BY <1>1
    <3> QED BY <1>3, <1>4, <3>1
  <2> QED BY <1>3, <1>4, <2>1, <2>2
<1>5. CASE st # "passed"
  <2>1. /\ stages' = appendSkipped(rs) /\ pc' = "done" /\ index' = index
        /\ status' = st
        /\ events' = StopEvents(events \o emitted, index, st)
      BY <1>5 DEF FinishStage, StopEvents, r
  <2> HIDE DEF rs
  <2>2. /\ stages' \in Seq(Results) /\ Len(stages') = PlanLength
        /\ \A i \in 1 .. index : stages'[i] = rs[i]
        /\ \A i \in index + 1 .. PlanLength : stages'[i].status = "skipped"
      BY <1>1, <1>3, <2>1, SkippedResults
  <2>3. \A i \in Stages : i < index => stages'[i].status = "passed"
    <3> TAKE i \in Stages
    <3> HAVE i < index
    <3>1. i \in 1 .. index /\ i \in 1 .. index - 1 BY <1>1 DEF Stages
    <3> QED BY <1>3, <2>2, <3>1
  <2>4. \A i \in Stages : i > index => stages'[i].status = "skipped"
    <3> TAKE i \in Stages
    <3> HAVE i > index
    <3>1. i \in index + 1 .. PlanLength BY <1>1 DEF Stages
    <3> QED BY <2>2, <3>1
  <2>5. index \in Stages /\ index \in 1 .. index
      BY <1>1 DEF Stages
  <2>6. stages'[index].status = status' /\ status' \notin {"passed", "skipped"}
      BY <1>3, <1>5, <2>1, <2>2, <2>5
  <2>7. StoppedAt(index)'
      BY <2>1, <2>3, <2>4, <2>5, <2>6 DEF StoppedAt, Stages
  <2> QED BY <1>5, <2>1, <2>2, <2>7
<1> QED BY <1>4, <1>5

(* The states of a process.                                                 *)
ProcessStates == [state : {"none", "running", "exited"}, traps : BOOLEAN,
                  holds : BOOLEAN, group : BOOLEAN]

(* A signal leaves every process what it was, or ends it.                   *)
LEMMA SignalledShape ==
    ASSUME TypeOK, NEW ended \in [Processes -> BOOLEAN]
    PROVE  /\ Signalled(ended) \in [Processes -> ProcessStates]
           /\ ExitAfter(ended) \in {"none", "zero", "nonzero", "signal"}
           /\ \A p \in Processes :
                 \/ Signalled(ended)[p] = processes[p]
                 \/ Signalled(ended)[p] = [processes[p] EXCEPT !.state = "exited"]
<1>1. \A p \in Processes : processes[p] \in ProcessStates
    BY DEF TypeOK, ProcessStates
<1>2. \A p \in Processes : [processes[p] EXCEPT !.state = "exited"] \in ProcessStates
    BY <1>1 DEF ProcessStates
<1>3. \A p \in Processes :
          \/ Signalled(ended)[p] = processes[p]
          \/ Signalled(ended)[p] = [processes[p] EXCEPT !.state = "exited"]
    BY DEF Signalled
<1>4. Signalled(ended) \in [Processes -> ProcessStates]
  <2>1. Signalled(ended) =
          [p \in Processes |-> IF InGroup(p) /\ ended[p]
               THEN [processes[p] EXCEPT !.state = "exited"] ELSE processes[p]]
      BY DEF Signalled
  <2> QED BY <1>1, <1>2, <2>1
<1>5. ExitAfter(ended) \in {"none", "zero", "nonzero", "signal"}
    BY DEF ExitAfter, TypeOK
<1> QED BY <1>3, <1>4, <1>5

(* Every step of the runner, its readers and its processes keeps the types. *)
LEMMA TypeKeeps ==
    ASSUME TypeOK, ControlInv, [Next]_vars
    PROVE  TypeOK'
<1> USE RunnerAssumption
<1>0. /\ processes \in [Processes -> ProcessStates]
      /\ readers \in [Streams -> {"idle", "read", "emit", "done", "failed"}]
      /\ captured \in [Streams -> Nat] /\ written \in [Streams -> Nat]
      /\ chunk \in [Streams -> [sequence : Nat, first : Nat, last : Nat]]
    BY DEF TypeOK, ProcessStates
<1>1. CASE UNCHANGED vars
    BY <1>1 DEF TypeOK, vars, runVars, awaitVars, readerVars, processVars
<1>2. ASSUME NEW st \in Statuses \ {"skipped"}, NEW out \in [Streams -> Nat],
             NEW emitted, FinishStage(st, out, emitted), pc # "done",
             index <= PlanLength,
             UNCHANGED <<ctxDone, awaitVars, readerVars, processVars>>
      PROVE  TypeOK'
  <2>1. /\ stages' \in Seq([status : Statuses, output : [Streams -> Nat]])
        /\ Len(stages') <= PlanLength
        /\ pc' \in {"loop", "done"} /\ index' \in 1 .. PlanLength + 1
        /\ status' \in Statuses \ {"skipped"}
    <3>1. /\ stages' \in Seq(Results)
          /\ \/ /\ pc' = "loop" /\ index' = index + 1 /\ status' = status
                /\ Len(stages') = index
             \/ /\ pc' = "done" /\ index' = index /\ status' = st
                /\ Len(stages') = PlanLength
        BY <1>2, FinishStageResults
    <3>2. index \in 1 .. PlanLength + 1 /\ status \in Statuses \ {"skipped"}
        BY DEF TypeOK
    <3>3. stages' \in Seq([status : Statuses, output : [Streams -> Nat]])
        BY <3>1 DEF Results
    <3> QED BY <1>2, <3>1, <3>2, <3>3
  <2> QED BY SMTT(30), <1>2, <2>1 DEF TypeOK, awaitVars, readerVars, processVars
<1>3. CASE FinishRun
    BY <1>3 DEF FinishRun, TypeOK, awaitVars, readerVars, processVars
<1>4. CASE CancelledBeforeStage
  <2>1. "cancelled" \in Statuses \ {"skipped"} /\ NoOutput \in [Streams -> Nat]
      BY DEF Statuses, NoOutput
  <2> QED BY <1>2, <1>4, <2>1 DEF CancelledBeforeStage
<1>5. CASE StartFails
  <2>1. "internal-error" \in Statuses \ {"skipped"} /\ NoOutput \in [Streams -> Nat]
      BY DEF Statuses, NoOutput
  <2> QED BY <1>2, <1>5, <2>1 DEF StartFails
<1>6. CASE \E traps \in BOOLEAN : StartStage(traps)
  <2>1. PICK traps \in BOOLEAN : StartStage(traps)
      BY <1>6
  <2>2. Process(traps) \in ProcessStates /\ NoProcess \in ProcessStates
      BY DEF Process, NoProcess, ProcessStates
  <2>3. processes' \in [Processes -> ProcessStates]
      BY <2>1, <2>2 DEF StartStage
  <2>4. readers' \in [Streams -> {"idle", "read", "emit", "done", "failed"}]
      BY <2>1 DEF StartStage
  <2>5. captured' \in [Streams -> Nat] /\ written' \in [Streams -> Nat]
      BY <2>1 DEF StartStage, NoOutput
  <2> QED BY <2>1, <2>3, <2>4, <2>5 DEF StartStage, TypeOK, ProcessStates
<1>7. CASE SelectProcess
    BY <1>7 DEF SelectProcess, TypeOK, runVars, readerVars, processVars
<1>8. CASE SelectReaders
    BY ZenonT(40), <1>8 DEF SelectReaders, TypeOK, runVars, readerVars, processVars
<1>9. CASE SelectCancel
  <2>1. terminateProcessTree \in [Processes -> BOOLEAN]
      BY DEF terminateProcessTree
  <2>2. processes' \in [Processes -> ProcessStates]
      /\ exit' \in {"none", "zero", "nonzero", "signal"}
      BY <1>9, <2>1, SignalledShape DEF SelectCancel
  <2> QED BY <1>9, <2>2 DEF SelectCancel, TypeOK, readerVars, ProcessStates
<1>10. CASE SelectTimer
  <2>1. killProcessTree \in [Processes -> BOOLEAN]
      BY DEF killProcessTree
  <2>2. processes' \in [Processes -> ProcessStates]
      /\ exit' \in {"none", "zero", "nonzero", "signal"}
      BY <1>10, <2>1, SignalledShape DEF SelectTimer
  <2> QED BY <1>10, <2>2 DEF SelectTimer, TypeOK, awaitVars, readerVars, ProcessStates
<1>11. CASE ReceiveAfterKill
    BY <1>11 DEF ReceiveAfterKill, TypeOK, runVars, readerVars, processVars
<1>12. CASE Collect
  <2>1. pc # "done" /\ index <= PlanLength
      BY <1>12 DEF Collect, ControlInv, Active
  <2>2. stageStatus \in Statuses \ {"skipped"} /\ captured \in [Streams -> Nat]
      BY StatusOfStage DEF TypeOK
  <2> QED BY <1>2, <1>12, <2>1, <2>2 DEF Collect
<1>13. CASE \E s \in Streams : ReadChunk(s)
  <2>1. PICK s \in Streams : ReadChunk(s)
      BY <1>13
  <2>2. PICK n \in captured[s] + 1 .. written[s] :
            /\ captured' = [captured EXCEPT ![s] = n]
            /\ chunk' = [chunk EXCEPT ![s] = [sequence |-> sequence + 1,
                                              first |-> captured[s] + 1, last |-> n]]
      BY <2>1 DEF ReadChunk
  <2>3. captured[s] \in Nat /\ written[s] \in Nat /\ n \in Nat
      BY SMTT(30) DEF TypeOK
  <2>4. captured' \in [Streams -> Nat]
      BY <1>0, <2>2, <2>3
  <2>5. chunk' \in [Streams -> [sequence : Nat, first : Nat, last : Nat]]
    <3>1. [sequence |-> sequence + 1, first |-> captured[s] + 1, last |-> n]
             \in [sequence : Nat, first : Nat, last : Nat]
        BY SMTT(30), <2>3 DEF TypeOK
    <3> QED BY <1>0, <2>2, <3>1
  <2>6. readers' \in [Streams -> {"idle", "read", "emit", "done", "failed"}]
      BY <2>1 DEF ReadChunk, TypeOK
  <2>7. sequence' \in Nat
      BY <2>1 DEF ReadChunk, TypeOK
  <2>8. UNCHANGED <<runVars, ctxDone, awaitVars, processVars>>
      BY <2>1 DEF ReadChunk
  <2>9. /\ pc' = pc /\ index' = index /\ stages' = stages /\ status' = status
        /\ ctxDone' = ctxDone /\ processChannel' = processChannel
        /\ readersChannel' = readersChannel /\ waitErr' = waitErr
        /\ cancelled' = cancelled /\ processes' = processes /\ exit' = exit
        /\ reaped' = reaped /\ written' = written
      BY <2>8 DEF runVars, awaitVars, processVars
  <2>10. /\ pc' \in {"loop", "await", "drain", "killed", "done"}
         /\ index' \in 1 .. PlanLength + 1
         /\ stages' \in Seq([status : Statuses, output : [Streams -> Nat]])
         /\ Len(stages') <= PlanLength
         /\ status' \in Statuses \ {"skipped"}
      BY <2>9 DEF TypeOK
  <2>11. /\ ctxDone' \in BOOLEAN /\ processChannel' \in BOOLEAN
         /\ readersChannel' \in BOOLEAN /\ cancelled' \in BOOLEAN /\ reaped' \in BOOLEAN
         /\ waitErr' \in {"none", "zero", "nonzero", "signal", "error"}
         /\ exit' \in {"none", "zero", "nonzero", "signal"}
         /\ written' \in [Streams -> Nat]
      BY <2>9 DEF TypeOK
  <2>12. processes' \in [Processes -> [state : {"none", "running", "exited"},
                                      traps : BOOLEAN, holds : BOOLEAN,
                                      group : BOOLEAN]]
      BY <2>9 DEF TypeOK
  <2> QED BY <2>4, <2>5, <2>6, <2>7, <2>10, <2>11, <2>12, Zenon DEF TypeOK
<1>14. CASE \E s \in Streams : EmitChunk(s)
    BY SMTT(30), <1>14 DEF EmitChunk, TypeOK, awaitVars, processVars, NoChunk
<1>15. CASE \E s \in Streams : ReadEOF(s) \/ ReadFails(s)
  <2>1. readers' \in [Streams -> {"idle", "read", "emit", "done", "failed"}]
      BY <1>15 DEF ReadEOF, ReadFails, TypeOK
  <2>2. UNCHANGED <<runVars, ctxDone, awaitVars, captured, chunk, sequence, processVars>>
      BY <1>15 DEF ReadEOF, ReadFails
  <2> QED BY <2>1, <2>2 DEF TypeOK, runVars, awaitVars, processVars
<1>16. CASE Reap
    BY <1>16 DEF Reap, TypeOK, runVars, awaitVars, readerVars
<1>17. CASE Cancel
    BY <1>17 DEF Cancel, TypeOK, runVars, awaitVars, readerVars, processVars
<1>18. CASE \E traps \in BOOLEAN : Spawn(traps)
  <2>1. PICK traps \in BOOLEAN : Spawn(traps)
      BY <1>18
  <2>2. [Process(traps) EXCEPT !.holds = processes["leader"].holds] \in ProcessStates
      BY DEF Process, ProcessStates, TypeOK, Processes
  <2>3. processes' \in [Processes -> ProcessStates]
      BY <2>1, <2>2 DEF Spawn, TypeOK, ProcessStates
  <2> QED BY <2>1, <2>3 DEF Spawn, TypeOK, ProcessStates, runVars, awaitVars, readerVars
<1>19. CASE \E p \in Processes, s \in Streams : Write(p, s)
  <2>1. written' \in [Streams -> Nat]
    <3>1. PICK p \in Processes, s \in Streams : Write(p, s)
        BY <1>19
    <3>2. written' = [written EXCEPT ![s] = @ + 1]
        BY <3>1 DEF Write
    <3> QED BY SMTT(30), <1>0, <3>2
  <2>2. UNCHANGED <<runVars, ctxDone, awaitVars, readerVars, processes, exit, reaped>>
      BY <1>19 DEF Write
  <2> QED BY <2>1, <2>2 DEF TypeOK, runVars, awaitVars, readerVars
<1>20. CASE \E p \in Processes : Redirect(p)
  <2>1. processes' \in [Processes -> ProcessStates]
    <3>1. PICK p \in Processes : Redirect(p)
        BY <1>20
    <3>2. [processes[p] EXCEPT !.holds = FALSE] \in ProcessStates
      <4>1. processes[p] \in ProcessStates BY <1>0
      <4> QED BY <4>1 DEF ProcessStates
    <3>3. processes' = [processes EXCEPT ![p] = [processes[p] EXCEPT !.holds = FALSE]]
        BY <1>0, <3>1 DEF Redirect
    <3> QED BY <1>0, <3>2, <3>3
  <2> QED BY SMTT(30), <1>20, <2>1 DEF Redirect, TypeOK, ProcessStates, runVars, awaitVars, readerVars
<1>21. CASE LeaveGroup
  <2>1. processes' \in [Processes -> ProcessStates]
    <3>1. "child" \in Processes /\ processes["child"] \in ProcessStates
        BY <1>0 DEF Processes
    <3>2. [processes["child"] EXCEPT !.group = FALSE] \in ProcessStates
        BY <3>1 DEF ProcessStates
    <3>3. processes' = [processes EXCEPT !["child"] =
                           [processes["child"] EXCEPT !.group = FALSE]]
        BY <1>0, <1>21, <3>1 DEF LeaveGroup
    <3> QED BY <1>0, <3>2, <3>3
  <2> QED BY SMTT(30), <1>21, <2>1 DEF LeaveGroup, TypeOK, ProcessStates, runVars, awaitVars, readerVars
<1>22. CASE \E p \in Processes, code \in {"zero", "nonzero"} : Exit(p, code)
  <2>1. processes' \in [Processes -> ProcessStates]
    <3>1. PICK p \in Processes, code \in {"zero", "nonzero"} : Exit(p, code)
        BY <1>22
    <3>2. [processes[p] EXCEPT !.state = "exited"] \in ProcessStates
      <4>1. processes[p] \in ProcessStates BY <1>0
      <4> QED BY <4>1 DEF ProcessStates
    <3>3. processes' = [processes EXCEPT ![p] = [processes[p] EXCEPT !.state = "exited"]]
        BY <1>0, <3>1 DEF Exit
    <3> QED BY <1>0, <3>2, <3>3
  <2> QED BY SMTT(30), <1>22, <2>1 DEF Exit, TypeOK, ProcessStates, runVars, awaitVars, readerVars
<1> QED BY <1>1, <1>3, <1>4, <1>5, <1>6, <1>7, <1>8, <1>9, <1>10, <1>11, <1>12,
           <1>13, <1>14, <1>15, <1>16, <1>17, <1>18, <1>19, <1>20, <1>21, <1>22
        DEF Next, Main, Reader, Environment, Finished

(* A step that only concerns the processes keeps the stage's invariant when *)
(* the leader does not come back and no pipe end appears.                   *)
LEMMA ProcessStepKeeps ==
    ASSUME StageInv,
           UNCHANGED <<runVars, awaitVars, readerVars, reaped, written>>,
           processes["leader"].state = "exited" =>
               processes'["leader"].state = "exited",
           (\A p \in Processes : ~Holds(p)) => \A p \in Processes : ~Holds(p)'
    PROVE  StageInv'
<1> USE DEF runVars, awaitVars, readerVars
<1>1. ControlInv'
    BY DEF StageInv, ControlInv, Active
<1>2. ReadersDone' = ReadersDone
    BY DEF ReadersDone
<1>3. ChannelInv'
    BY <1>2 DEF StageInv, ChannelInv, Active
<1>4. StreamEndInv'
  <2> SUFFICES ASSUME NEW s \in Streams, readers[s] = "done"
               PROVE  captured[s] = written[s] /\ \A p \in Processes : ~Holds(p)'
      BY DEF StreamEndInv
  <2> QED BY DEF StageInv, StreamEndInv
<1> QED BY <1>1, <1>3, <1>4 DEF StageInv

(* A signal, sent from inside runStage, keeps the stage's invariant.        *)
LEMMA SignalKeeps ==
    ASSUME TypeOK, StageInv, Active, NEW ended \in [Processes -> BOOLEAN],
           processes' = Signalled(ended),
           pc' \in {"drain", "killed"},
           UNCHANGED <<index, stages, status, processChannel, readersChannel,
                       readerVars, reaped, written>>
    PROVE  StageInv'
<1> USE DEF readerVars
<1>1. \A p \in Processes : \/ processes'[p] = processes[p]
                           \/ /\ processes'[p].state = "exited"
                              /\ processes'[p].holds = processes[p].holds
  <2> TAKE p \in Processes
  <2>1. processes[p] \in ProcessStates
      BY DEF TypeOK, ProcessStates
  <2>2. \/ processes'[p] = processes[p]
        \/ processes'[p] = [processes[p] EXCEPT !.state = "exited"]
      BY SignalledShape
  <2>3. /\ [processes[p] EXCEPT !.state = "exited"].state = "exited"
        /\ [processes[p] EXCEPT !.state = "exited"].holds = processes[p].holds
      BY <2>1 DEF ProcessStates
  <2> QED BY <2>2, <2>3
<1>2. ControlInv'
    BY DEF StageInv, ControlInv, Active
<1>3. ReadersDone' = ReadersDone
    BY DEF ReadersDone
<1>4. processes["leader"].state = "exited" => processes'["leader"].state = "exited"
    BY <1>1 DEF Processes
<1>5. ChannelInv'
    BY <1>3, <1>4 DEF StageInv, ChannelInv, Active
<1>6. \A p \in Processes : ~Holds(p) => ~Holds(p)'
    BY <1>1 DEF Holds, Running
<1>7. StreamEndInv'
  <2> SUFFICES ASSUME NEW s \in Streams, readers[s] = "done"
               PROVE  captured[s] = written[s] /\ \A p \in Processes : ~Holds(p)'
      BY DEF StreamEndInv
  <2> QED BY <1>6 DEF StageInv, StreamEndInv
<1> QED BY <1>2, <1>5, <1>7 DEF StageInv

(* The end of a stage keeps the stage's invariant: its readers are gone,    *)
(* and a cancelled stage has been reaped and stops the run.                 *)
LEMMA FinishKeepsStage ==
    ASSUME TypeOK, StageInv, pc # "done", index <= PlanLength,
           NEW st \in Statuses \ {"skipped"}, NEW out \in [Streams -> Nat],
           NEW emitted, FinishStage(st, out, emitted),
           \A s \in Streams : readers[s] \in {"idle", "done", "failed"},
           cancelled => st # "passed" /\ reaped,
           UNCHANGED <<awaitVars, readerVars, processVars>>
    PROVE  StageInv'
<1> USE DEF awaitVars, readerVars, processVars
<1>1. \/ /\ st = "passed" /\ pc' = "loop" /\ index' = index + 1 /\ status' = status
         /\ Len(stages') = index
         /\ \A i \in 1 .. Len(stages') : stages'[i].status = "passed"
      \/ pc' = "done" /\ index' = index
    BY FinishStageResults DEF StageInv
<1>2. ControlInv'
  <2>1. CASE pc' = "done"
      BY <2>1 DEF ControlInv, Active
  <2>2. CASE pc' = "loop"
    <3>1. status = "passed" /\ ~cancelled /\ index \in Nat
        BY <1>1, <2>2, RunnerAssumption DEF StageInv, ControlInv, TypeOK
    <3>2. Len(stages') = index' - 1
        BY <1>1, <2>2, <3>1
    <3> QED BY <1>1, <2>2, <3>1, <3>2 DEF ControlInv, Active
  <2> QED BY <1>1, <2>1, <2>2
<1>3. ReadersDone' = ReadersDone
    BY DEF ReadersDone
<1>4. ChannelInv'
    BY <1>1, <1>3 DEF StageInv, ChannelInv, Active
<1>5. StreamEndInv'
  <2>1. \A p \in Processes : Holds(p)' = Holds(p)
      BY DEF Holds, Running
  <2> SUFFICES ASSUME NEW s \in Streams, readers[s] = "done"
               PROVE  captured[s] = written[s] /\ \A p \in Processes : ~Holds(p)'
      BY DEF StreamEndInv
  <2> QED BY <2>1 DEF StageInv, StreamEndInv
<1> QED BY <1>2, <1>4, <1>5 DEF StageInv

(* Every step keeps the stage's invariant.                                  *)
LEMMA StageKeeps ==
    ASSUME TypeOK, StageInv, [Next]_vars
    PROVE  StageInv'
<1>0. /\ processes \in [Processes -> ProcessStates]
      /\ readers \in [Streams -> {"idle", "read", "emit", "done", "failed"}]
      /\ captured \in [Streams -> Nat] /\ written \in [Streams -> Nat]
      /\ "leader" \in Processes /\ "child" \in Processes
    BY DEF TypeOK, ProcessStates, Processes
<1>1. CASE UNCHANGED vars
  <2>1. UNCHANGED <<runVars, awaitVars, readerVars, reaped, written, processes>>
      BY <1>1 DEF vars, processVars
  <2>2. \A p \in Processes : Holds(p)' = Holds(p)
      BY <2>1 DEF Holds, Running
  <2> QED BY <2>1, <2>2, ProcessStepKeeps
<1>2. CASE FinishRun
  <2>1. pc = "loop" /\ pc' = "done" /\ UNCHANGED <<index, stages, status, awaitVars,
                                                   readerVars, processVars>>
      BY <1>2 DEF FinishRun
  <2>2. ~cancelled /\ ~Active
      BY <2>1 DEF StageInv, ControlInv, Active
  <2>3. ControlInv'
      BY <2>1, <2>2 DEF ControlInv, Active
  <2>4. ChannelInv'
      BY <2>1, <2>2 DEF StageInv, ChannelInv, Active, ReadersDone, awaitVars,
                        readerVars, processVars
  <2>5. StreamEndInv'
      BY <2>1 DEF StageInv, StreamEndInv, Holds, Running, readerVars, processVars
  <2> QED BY <2>3, <2>4, <2>5 DEF StageInv
<1>3. CASE CancelledBeforeStage
  <2>1. /\ pc # "done" /\ index <= PlanLength
        /\ \A s \in Streams : readers[s] \in {"idle", "done", "failed"}
        /\ ~cancelled
      BY <1>3 DEF CancelledBeforeStage, StageInv, ChannelInv, ControlInv, Active
  <2>2. "cancelled" \in Statuses \ {"skipped"} /\ NoOutput \in [Streams -> Nat]
      BY DEF Statuses, NoOutput
  <2> QED BY <1>3, <2>1, <2>2, FinishKeepsStage DEF CancelledBeforeStage
<1>4. CASE StartFails
  <2>1. /\ pc # "done" /\ index <= PlanLength
        /\ \A s \in Streams : readers[s] \in {"idle", "done", "failed"}
        /\ ~cancelled
      BY <1>4 DEF StartFails, StageInv, ChannelInv, ControlInv, Active
  <2>2. "internal-error" \in Statuses \ {"skipped"} /\ NoOutput \in [Streams -> Nat]
      BY DEF Statuses, NoOutput
  <2> QED BY <1>4, <2>1, <2>2, FinishKeepsStage DEF StartFails
<1>5. CASE \E traps \in BOOLEAN : StartStage(traps)
  <2>1. /\ pc = "loop" /\ pc' = "await" /\ index <= PlanLength
        /\ processChannel' /\ readersChannel' /\ ~cancelled' /\ ~reaped'
        /\ readers' = [s \in Streams |-> "read"]
        /\ UNCHANGED <<index, stages, status>>
      BY <1>5 DEF StartStage
  <2>2. ControlInv'
      BY <2>1 DEF StageInv, ControlInv, Active
  <2>3. ChannelInv'
      BY <2>1 DEF ChannelInv, Active
  <2>4. StreamEndInv'
      BY <2>1 DEF StreamEndInv
  <2> QED BY <2>2, <2>3, <2>4 DEF StageInv
<1>6. ASSUME UNCHANGED <<runVars, cancelled, readerVars, processVars>>,
             Active => \/ readersChannel' \/ ReadersDone,
             Active => \/ processChannel' \/ reaped
      PROVE  StageInv'
  <2> USE <1>6 DEF runVars, readerVars, processVars
  <2>1. ControlInv'
      BY DEF StageInv, ControlInv, Active
  <2>2. ReadersDone' = ReadersDone
      BY DEF ReadersDone
  <2>3. ChannelInv'
      BY <2>2 DEF StageInv, ChannelInv, Active
  <2>4. StreamEndInv'
      BY DEF StageInv, StreamEndInv, Holds, Running
  <2> QED BY <2>1, <2>3, <2>4 DEF StageInv
<1>7. CASE SelectProcess
  <2>1. /\ reaped
        /\ UNCHANGED <<runVars, cancelled, readersChannel, readerVars, processVars>>
      BY <1>7 DEF SelectProcess
  <2>2. Active => readersChannel' \/ ReadersDone
      BY <2>1 DEF StageInv, ChannelInv
  <2> QED BY <1>6, <2>1, <2>2
<1>8. CASE SelectReaders
  <2>1. /\ ReadersDone
        /\ UNCHANGED <<runVars, cancelled, processChannel, readerVars, processVars>>
      BY <1>8 DEF SelectReaders
  <2>2. Active => processChannel' \/ reaped
      BY <2>1 DEF StageInv, ChannelInv
  <2> QED BY <1>6, <2>1, <2>2
<1>9. CASE ReceiveAfterKill
  <2>1. /\ processChannel => reaped
        /\ readersChannel => ReadersDone
        /\ UNCHANGED <<runVars, cancelled, readerVars, processVars>>
      BY <1>9 DEF ReceiveAfterKill
  <2>2. Active => ReadersDone /\ reaped
      BY <2>1 DEF StageInv, ChannelInv
  <2> QED BY <1>6, <2>1, <2>2
<1>10. CASE SelectCancel
  <2>1. terminateProcessTree \in [Processes -> BOOLEAN]
      BY DEF terminateProcessTree
  <2>2. Active
      BY <1>10 DEF SelectCancel, Active
  <2> QED BY <1>10, <2>1, <2>2, SignalKeeps DEF SelectCancel
<1>11. CASE SelectTimer
  <2>1. killProcessTree \in [Processes -> BOOLEAN]
      BY DEF killProcessTree
  <2>2. Active
      BY <1>11 DEF SelectTimer, Active
  <2> QED BY <1>11, <2>1, <2>2, SignalKeeps DEF SelectTimer, awaitVars
<1>12. CASE Collect
  <2>1. Active /\ pc # "done" /\ reaped /\ ReadersDone
      BY <1>12 DEF Collect, Active, StageInv, ChannelInv
  <2>2. index <= PlanLength
      BY <2>1 DEF StageInv, ControlInv
  <2>3. \A s \in Streams : readers[s] \in {"idle", "done", "failed"}
      BY <2>1 DEF ReadersDone
  <2>4. /\ stageStatus \in Statuses \ {"skipped"} /\ captured \in [Streams -> Nat]
        /\ cancelled => stageStatus # "passed" /\ reaped
      BY <1>0, <2>1, StatusOfStage
  <2> QED BY <1>12, <2>1, <2>2, <2>3, <2>4, FinishKeepsStage DEF Collect
<1>13. ASSUME NEW s \in Streams, NEW r \in {"read", "emit", "done", "failed"},
              readers[s] \in {"read", "emit"},
              readers' = [readers EXCEPT ![s] = r],
              r = "done" => /\ captured'[s] = written[s]
                            /\ \A p \in Processes : ~Holds(p),
              \A t \in Streams : t # s => captured'[t] = captured[t],
              UNCHANGED <<pc, index, stages, status, awaitVars, processVars>>
       PROVE  StageInv'
  <2> USE <1>13 DEF awaitVars, processVars
  <2>1. Active /\ ~ReadersDone
      BY DEF StageInv, ChannelInv, ReadersDone
  <2>2. ControlInv'
      BY DEF StageInv, ControlInv, Active
  <2>3. ChannelInv'
      BY <2>1 DEF StageInv, ChannelInv, Active
  <2>4. \A p \in Processes : Holds(p)' = Holds(p)
      BY DEF Holds, Running
  <2>5. StreamEndInv'
    <3> SUFFICES ASSUME NEW t \in Streams, readers'[t] = "done"
                 PROVE  captured'[t] = written[t] /\ \A p \in Processes : ~Holds(p)
        BY <2>4 DEF StreamEndInv
    <3>1. CASE t = s
        BY <1>0, <3>1
    <3>2. CASE t # s
        BY <1>0, <3>2 DEF StageInv, StreamEndInv
    <3> QED BY <3>1, <3>2
  <2> QED BY <2>2, <2>3, <2>5 DEF StageInv
<1>14. CASE \E s \in Streams : ReadChunk(s)
  <2>1. PICK s \in Streams : ReadChunk(s)
      BY <1>14
  <2>2. \A t \in Streams : t # s => captured'[t] = captured[t]
      BY <1>0, <2>1 DEF ReadChunk
  <2> QED BY <1>13, <2>1, <2>2 DEF ReadChunk, runVars
<1>15. CASE \E s \in Streams : EmitChunk(s)
    BY <1>13, <1>15 DEF EmitChunk
<1>16. CASE \E s \in Streams : ReadEOF(s)
    BY <1>13, <1>16 DEF ReadEOF, runVars
<1>17. CASE \E s \in Streams : ReadFails(s)
    BY <1>13, <1>17 DEF ReadFails, runVars
<1>18. CASE Reap
  <2> USE DEF runVars, awaitVars, readerVars
  <2>1. /\ Active /\ ReadersDone /\ processes["leader"].state = "exited" /\ reaped'
        /\ UNCHANGED <<runVars, awaitVars, readerVars, processes, written>>
      BY <1>18 DEF Reap, Active
  <2>2. ControlInv'
      BY <2>1 DEF StageInv, ControlInv, Active
  <2>3. ReadersDone' = ReadersDone
      BY <2>1 DEF ReadersDone
  <2>4. ChannelInv'
      BY <2>1, <2>3 DEF StageInv, ChannelInv, Active
  <2>5. StreamEndInv'
      BY <2>1 DEF StageInv, StreamEndInv, Holds, Running
  <2> QED BY <2>2, <2>4, <2>5 DEF StageInv
<1>19. CASE Cancel
  <2>1. UNCHANGED <<runVars, awaitVars, readerVars, reaped, written, processes>>
      BY <1>19 DEF Cancel, processVars
  <2>2. \A p \in Processes : Holds(p)' = Holds(p)
      BY <2>1 DEF Holds, Running
  <2> QED BY <2>1, <2>2, ProcessStepKeeps
<1>20. CASE \E traps \in BOOLEAN : Spawn(traps)
  <2>1. PICK traps \in BOOLEAN : Spawn(traps)
      BY <1>20
  <2> DEFINE child == [Process(traps) EXCEPT !.holds = processes["leader"].holds]
  <2>2. child.holds = processes["leader"].holds
      BY DEF Process
  <2> HIDE DEF child
  <2>3. /\ processes' = [processes EXCEPT !["child"] = child]
        /\ processes["leader"].state = "running"
        /\ UNCHANGED <<runVars, awaitVars, readerVars, reaped, written>>
      BY <2>1 DEF Spawn, child, Running
  <2>4. Holds("child")' => Holds("leader")
      BY <1>0, <2>2, <2>3 DEF Holds, Running
  <2>5. Holds("leader")' = Holds("leader")
      BY <1>0, <2>3 DEF Holds, Running
  <2>6. (\A p \in Processes : ~Holds(p)) => \A p \in Processes : ~Holds(p)'
      BY <2>4, <2>5 DEF Processes
  <2>7. processes["leader"].state # "exited"
      BY <2>3
  <2> QED BY <2>3, <2>6, <2>7, ProcessStepKeeps
<1>21. CASE \E p \in Processes, s \in Streams : Write(p, s)
  <2> USE DEF runVars, awaitVars, readerVars
  <2>1. /\ \E p \in Processes : Holds(p)
        /\ UNCHANGED <<runVars, awaitVars, readerVars, reaped, processes>>
      BY <1>21 DEF Write
  <2>2. \A s \in Streams : readers[s] # "done"
      BY <2>1 DEF StageInv, StreamEndInv
  <2>3. ControlInv'
      BY <2>1 DEF StageInv, ControlInv, Active
  <2>4. ReadersDone' = ReadersDone
      BY <2>1 DEF ReadersDone
  <2>5. ChannelInv'
      BY <2>1, <2>4 DEF StageInv, ChannelInv, Active
  <2>6. StreamEndInv'
      BY <2>1, <2>2 DEF StreamEndInv
  <2> QED BY <2>3, <2>5, <2>6 DEF StageInv
<1>22. ASSUME NEW p \in Processes, NEW q \in ProcessStates,
              processes' = [processes EXCEPT ![p] = q],
              q.state \in {processes[p].state, "exited"},
              q.holds => processes[p].holds,
              UNCHANGED <<runVars, awaitVars, readerVars, reaped, written>>
       PROVE  StageInv'
  <2>1. \A o \in Processes : Holds(o)' => Holds(o)
      BY <1>0, <1>22 DEF Holds, Running
  <2>2. processes["leader"].state = "exited" =>
            processes'["leader"].state = "exited"
      BY <1>0, <1>22
  <2> QED BY <1>22, <2>1, <2>2, ProcessStepKeeps
<1>23. CASE \E p \in Processes : Redirect(p)
  <2>1. PICK p \in Processes : Redirect(p)
      BY <1>23
  <2> DEFINE q == [processes[p] EXCEPT !.holds = FALSE]
  <2>2. q \in ProcessStates /\ q.state = processes[p].state /\ ~q.holds
    <3>1. processes[p] \in ProcessStates BY <1>0
    <3> QED BY <3>1 DEF ProcessStates
  <2>3. processes' = [processes EXCEPT ![p] = q]
      BY <1>0, <2>1 DEF Redirect
  <2> HIDE DEF q
  <2> QED BY <1>22, <2>1, <2>2, <2>3 DEF Redirect
<1>24. CASE LeaveGroup
  <2> DEFINE q == [processes["child"] EXCEPT !.group = FALSE]
  <2>2. /\ q \in ProcessStates /\ q.state = processes["child"].state
        /\ q.holds = processes["child"].holds
    <3>1. processes["child"] \in ProcessStates BY <1>0
    <3> QED BY <3>1 DEF ProcessStates
  <2>3. processes' = [processes EXCEPT !["child"] = q]
      BY <1>0, <1>24 DEF LeaveGroup
  <2> HIDE DEF q
  <2> QED BY <1>0, <1>22, <1>24, <2>2, <2>3 DEF LeaveGroup
<1>25. CASE \E p \in Processes, code \in {"zero", "nonzero"} : Exit(p, code)
  <2>1. PICK p \in Processes, code \in {"zero", "nonzero"} : Exit(p, code)
      BY <1>25
  <2> DEFINE q == [processes[p] EXCEPT !.state = "exited"]
  <2>2. q \in ProcessStates /\ q.state = "exited" /\ q.holds = processes[p].holds
    <3>1. processes[p] \in ProcessStates BY <1>0
    <3> QED BY <3>1 DEF ProcessStates
  <2>3. processes' = [processes EXCEPT ![p] = q]
      BY <1>0, <2>1 DEF Exit
  <2> HIDE DEF q
  <2> QED BY <1>22, <2>1, <2>2, <2>3 DEF Exit
<1> QED BY <1>1, <1>2, <1>3, <1>4, <1>5, <1>7, <1>8, <1>9, <1>10, <1>11, <1>12,
           <1>14, <1>15, <1>16, <1>17, <1>18, <1>19, <1>20, <1>21, <1>23, <1>24,
           <1>25
        DEF Next, Main, Reader, Environment, Finished

-----------------------------------------------------------------------------
(* The observer's account *)

(* What the observer has been told is extended by events without output.    *)
QuietExtension ==
    /\ events' \in Seq(Emitted)
    /\ Len(events') >= Len(events)
    /\ \A k \in 1 .. Len(events) : events'[k] = events[k]
    /\ \A k \in Len(events) + 1 .. Len(events') : ~IsOutput(events'[k])

(* Such an extension concerns no output event and no order among them.      *)
LEMMA QuietKeepsOrder ==
    ASSUME events \in Seq(Emitted), QuietExtension
    PROVE  /\ \A k \in DOMAIN events' :
                 IsOutput(events'[k]) => k \in DOMAIN events /\ events'[k] = events[k]
           /\ \A i, s : OutputAt(i, s)' = OutputAt(i, s)
           /\ OutputFramed => OutputFramed'
           /\ StreamsInOrder => StreamsInOrder'
<1>1. /\ DOMAIN events = 1 .. Len(events) /\ Len(events) \in Nat
      /\ DOMAIN events' = 1 .. Len(events') /\ Len(events') \in Nat
      /\ Len(events') >= Len(events)
    BY DEF QuietExtension
<1>2. \A k \in DOMAIN events : k \in DOMAIN events' /\ events'[k] = events[k]
    BY <1>1 DEF QuietExtension
<1>3. \A k \in DOMAIN events' :
          IsOutput(events'[k]) => k \in DOMAIN events /\ events'[k] = events[k]
    BY <1>1 DEF QuietExtension
<1>4. \A i, s : OutputAt(i, s)' = OutputAt(i, s)
    BY <1>2, <1>3 DEF OutputAt, IsOutput
<1>5. ASSUME OutputFramed PROVE OutputFramed'
  <2> SUFFICES ASSUME NEW k \in DOMAIN events', IsOutput(events'[k])
               PROVE  /\ \E j \in 1 .. k - 1 :
                            events'[j] = Event("stage-started", events'[k].stage)
                      /\ \A j \in 1 .. k - 1 : Terminal(events'[j]) =>
                            events'[j].stage # events'[k].stage
      BY DEF OutputFramed, IsOutput, Terminal, Event
  <2>1. k \in DOMAIN events /\ events'[k] = events[k]
      BY <1>3
  <2>2. \A j \in 1 .. k - 1 : events'[j] = events[j]
      BY <1>1, <1>2, <2>1
  <2>3. /\ \E j \in 1 .. k - 1 : events[j] = Event("stage-started", events[k].stage)
        /\ \A j \in 1 .. k - 1 : Terminal(events[j]) =>
              events[j].stage # events[k].stage
      BY <1>5, <2>1 DEF OutputFramed
  <2> QED BY <2>1, <2>2, <2>3
<1>6. ASSUME StreamsInOrder PROVE StreamsInOrder'
  <2> SUFFICES ASSUME NEW k \in DOMAIN events', NEW l \in DOMAIN events', k < l,
                      IsOutput(events'[k]), IsOutput(events'[l])
               PROVE  /\ events'[k].sequence # events'[l].sequence
                      /\ /\ events'[k].stage = events'[l].stage
                         /\ events'[k].stream = events'[l].stream
                         => /\ events'[k].sequence < events'[l].sequence
                            /\ events'[k].last < events'[l].first
                            /\ events'[k].last + 1 = events'[l].first
                               \/ \E m \in k + 1 .. l - 1 :
                                     /\ IsOutput(events'[m])
                                     /\ events'[m].stage = events'[l].stage
                                     /\ events'[m].stream = events'[l].stream
      BY DEF StreamsInOrder, IsOutput
  <2>1. /\ k \in DOMAIN events /\ events'[k] = events[k]
        /\ l \in DOMAIN events /\ events'[l] = events[l]
      BY <1>3
  <2>2. \A m \in k + 1 .. l - 1 : events'[m] = events[m]
      BY <1>1, <1>2, <2>1
  <2>3. /\ events[k].sequence # events[l].sequence
        /\ /\ events[k].stage = events[l].stage
           /\ events[k].stream = events[l].stream
           => /\ events[k].sequence < events[l].sequence
              /\ events[k].last < events[l].first
              /\ events[k].last + 1 = events[l].first
                 \/ \E m \in k + 1 .. l - 1 :
                       /\ IsOutput(events[m])
                       /\ events[m].stage = events[l].stage
                       /\ events[m].stream = events[l].stream
      BY <1>6, <2>1 DEF StreamsInOrder
  <2> QED BY <2>1, <2>2, <2>3
<1> QED BY <1>3, <1>4, <1>5, <1>6

(* It keeps the numbering too, as long as no reader starts to emit.         *)
LEMMA QuietKeepsCounter ==
    ASSUME TypeOK, events \in Seq(Emitted), QuietExtension, CounterInv,
           UNCHANGED <<chunk, sequence>>,
           \A s \in Streams : readers'[s] = "emit" =>
               readers[s] = "emit" /\ captured'[s] = captured[s],
           index' \in {index, index + 1},
           pc' = "loop" => index' = index + 1
    PROVE  CounterInv'
<1>1. \A k \in DOMAIN events' :
          IsOutput(events'[k]) => k \in DOMAIN events /\ events'[k] = events[k]
    BY QuietKeepsOrder
<1>2. ASSUME NEW k \in DOMAIN events', IsOutput(events'[k])
      PROVE  /\ events'[k].sequence <= sequence'
             /\ events'[k].stage <= index'
             /\ pc' = "loop" => events'[k].stage < index'
  <2>1. k \in DOMAIN events /\ events'[k] = events[k]
      BY <1>1, <1>2
  <2>2. events[k].sequence <= sequence /\ events[k].stage <= index
      BY <1>2, <2>1 DEF CounterInv
  <2>3. events[k].stage \in Nat /\ index \in Nat
    <3>1. events[k] \in Emitted
        BY <2>1
    <3> QED BY <1>2, <2>1, <3>1, RunnerAssumption DEF Emitted, IsOutput, TypeOK
  <2> QED BY <2>1, <2>2, <2>3
<1>3. ASSUME NEW s \in Streams, readers'[s] = "emit"
      PROVE  /\ chunk'[s].sequence <= sequence'
             /\ 1 <= chunk'[s].first /\ chunk'[s].first <= chunk'[s].last
             /\ chunk'[s].last = captured'[s]
             /\ \A k \in DOMAIN events' :
                   IsOutput(events'[k]) => events'[k].sequence # chunk'[s].sequence
             /\ \A t \in Streams : t # s /\ readers'[t] = "emit" =>
                   chunk'[t].sequence # chunk'[s].sequence
  <2>1. readers[s] = "emit" /\ captured'[s] = captured[s]
      BY <1>3
  <2>2. /\ chunk[s].sequence <= sequence
        /\ 1 <= chunk[s].first /\ chunk[s].first <= chunk[s].last
        /\ chunk[s].last = captured[s]
        /\ \A k \in DOMAIN events :
              IsOutput(events[k]) => events[k].sequence # chunk[s].sequence
        /\ \A t \in Streams : t # s /\ readers[t] = "emit" =>
              chunk[t].sequence # chunk[s].sequence
      BY <2>1 DEF CounterInv
  <2>3. \A k \in DOMAIN events' :
            IsOutput(events'[k]) => events'[k].sequence # chunk[s].sequence
      BY <1>1, <2>2
  <2> QED BY <2>1, <2>2, <2>3
<1> QED BY <1>2, <1>3 DEF CounterInv, IsOutput

(* A step that tells the observer nothing and starts no chunk.              *)
LEMMA SilentKeepsAccount ==
    ASSUME TypeOK, StageInv, AccountInv,
           UNCHANGED <<index, stages, status, events, captured, chunk, sequence>>,
           pc' = pc \/ (Active /\ Active'),
           \A s \in Streams : readers'[s] = "emit" <=> readers[s] = "emit"
    PROVE  AccountInv'
<1>0. /\ events \in Seq(Emitted) /\ TerminalInv /\ ResultInv /\ FrameInv
      /\ CounterInv /\ ToldInv /\ StreamsInOrder
    BY DEF AccountInv
<1>1. /\ (pc' = "done") = (pc = "done") /\ (pc' = "loop") = (pc = "loop")
      /\ Active' = Active
    BY DEF Active
<1>2. QuietExtension
    BY <1>0 DEF QuietExtension
<1>3. /\ \A i, s : OutputAt(i, s)' = OutputAt(i, s)
      /\ OutputFramed' /\ StreamsInOrder'
    BY <1>0, <1>2, QuietKeepsOrder DEF FrameInv
<1>4. \A i : TerminalAt(i)' = TerminalAt(i)
    BY DEF TerminalAt, Terminal
<1>5. TerminalInv'
    BY <1>0, <1>1, <1>4 DEF TerminalInv
<1>6. ResultInv'
    BY <1>0, <1>1 DEF ResultInv, StoppedAt
<1>7. FrameInv'
    BY <1>0, <1>1, <1>3 DEF FrameInv
<1>8. CounterInv'
  <2>1. ASSUME NEW s \in Streams, readers'[s] = "emit"
        PROVE  /\ chunk'[s].sequence <= sequence'
               /\ 1 <= chunk'[s].first /\ chunk'[s].first <= chunk'[s].last
               /\ chunk'[s].last = captured'[s]
               /\ \A k \in DOMAIN events' :
                     IsOutput(events'[k]) => events'[k].sequence # chunk'[s].sequence
               /\ \A t \in Streams : t # s /\ readers'[t] = "emit" =>
                     chunk'[t].sequence # chunk'[s].sequence
      BY <1>0, <2>1 DEF CounterInv
  <2>2. \A k \in DOMAIN events' :
            IsOutput(events'[k]) => /\ events'[k].sequence <= sequence'
                                    /\ events'[k].stage <= index'
                                    /\ pc' = "loop" => events'[k].stage < index'
      BY <1>0, <1>1 DEF CounterInv
  <2> QED BY <2>1, <2>2 DEF CounterInv, IsOutput
<1>9. ToldInv'
  <2> SUFFICES ASSUME Active, NEW s \in Streams, NEW k \in OutputAt(index, s)
               PROVE  /\ readers'[s] = "emit" => events[k].sequence < chunk[s].sequence
                      /\ events[k].last <= Told(s)'
                      /\ \/ events[k].last = Told(s)'
                         \/ \E m \in OutputAt(index, s) : k < m
      BY <1>1, <1>3 DEF ToldInv
  <2>1. Told(s)' = Told(s)
      BY DEF Told
  <2> QED BY <1>0, <2>1 DEF ToldInv
<1> QED BY <1>0, <1>3, <1>5, <1>6, <1>7, <1>8, <1>9 DEF AccountInv

(* The observer is told of the start of a stage or of a cancellation.       *)
LEMMA NoticeKeepsAccount ==
    ASSUME TypeOK, StageInv, AccountInv, pc # "done", index <= PlanLength,
           Active',
           NEW kind \in {"stage-started", "cancellation-requested"},
           events' = Append(events, Event(kind, index)),
           ~Active => kind = "stage-started",
           UNCHANGED <<index, stages, status, chunk, sequence>>,
           \A s \in Streams : readers'[s] = "emit" => readers[s] = "emit",
           Active => UNCHANGED <<readers, captured>>
    PROVE  AccountInv'
<1> DEFINE e == Event(kind, index)
<1>0. /\ events \in Seq(Emitted) /\ TerminalInv /\ ResultInv /\ FrameInv
      /\ CounterInv /\ ToldInv /\ StreamsInOrder
    BY DEF AccountInv
<1>1. /\ e \in Emitted /\ e.kind = kind /\ ~IsOutput(e) /\ ~Terminal(e)
      /\ index \in Nat
  <2>1. index \in Nat
      BY RunnerAssumption DEF TypeOK
  <2>2. e \in Emitted
      BY <2>1, EventShapes
  <2> QED BY <2>1, <2>2 DEF Event, IsOutput, Terminal
<1> DEFINE n == Len(events)
<1>2. /\ events' \in Seq(Emitted) /\ n \in Nat /\ Len(events') = n + 1
      /\ DOMAIN events = 1 .. n /\ DOMAIN events' = 1 .. n + 1
      /\ \A k \in 1 .. n : events'[k] = events[k]
      /\ events'[n + 1] = e
    BY <1>0, <1>1, AppendShape
<1> HIDE DEF e, n
<1>3. QuietExtension
    BY <1>1, <1>2 DEF QuietExtension, n
<1>4. /\ \A i, s : OutputAt(i, s)' = OutputAt(i, s)
      /\ OutputFramed' /\ StreamsInOrder'
    BY <1>0, <1>3, QuietKeepsOrder DEF FrameInv
<1>5. TerminalInv'
  <2>1. \A i : TerminalAt(i)' = TerminalAt(i)
      BY <1>1, <1>2 DEF TerminalAt, Terminal
  <2> QED BY <1>0, <1>2, <2>1 DEF TerminalInv, Active
<1>6. ResultInv'
    BY DEF ResultInv, Active
<1>7. FrameInv'
  <2>1. \E j \in DOMAIN events' : events'[j] = Event("stage-started", index)
    <3>1. CASE Active
        BY <1>0, <1>2, <3>1 DEF FrameInv
    <3>2. CASE ~Active
        BY <1>2, <3>2 DEF e
    <3> QED BY <3>1, <3>2
  <2>2. \A k \in DOMAIN events' : events'[k].kind # "run-finished"
      BY <1>0, <1>1, <1>2 DEF FrameInv
  <2> QED BY <1>4, <2>1, <2>2 DEF FrameInv, Event
<1>8. CounterInv'
  <2>1. \A s \in Streams : readers'[s] = "emit" =>
            readers[s] = "emit" /\ captured'[s] = captured[s]
    <3>1. ~Active => \A s \in Streams : readers[s] # "emit"
        BY DEF StageInv, ChannelInv
    <3> QED BY <3>1
  <2>2. pc' # "loop"
      BY DEF Active
  <2> QED BY <1>0, <1>3, <2>1, <2>2, QuietKeepsCounter
<1>9. ToldInv'
  <2>1. CASE Active
    <3> SUFFICES ASSUME NEW s \in Streams, NEW k \in OutputAt(index, s)
                 PROVE  /\ readers'[s] = "emit" =>
                              events'[k].sequence < chunk[s].sequence
                        /\ events'[k].last <= Told(s)'
                        /\ \/ events'[k].last = Told(s)'
                           \/ \E m \in OutputAt(index, s) : k < m
        BY <1>4 DEF ToldInv
    <3>1. Told(s)' = Told(s)
        BY <2>1 DEF Told
    <3>2. events'[k] = events[k]
        BY <1>2 DEF OutputAt
    <3> QED BY <1>0, <2>1, <3>1, <3>2 DEF ToldInv
  <2>2. CASE ~Active
    <3>1. pc = "loop"
        BY <2>2 DEF TypeOK, Active
    <3>2. \A s \in Streams : OutputAt(index, s) = {}
      <4> SUFFICES ASSUME NEW k \in DOMAIN events, IsOutput(events[k]),
                          events[k].stage = index
                   PROVE  FALSE
          BY DEF OutputAt
      <4> QED BY <1>0, <1>1, <3>1 DEF CounterInv
    <3> QED BY <1>4, <3>2 DEF ToldInv
  <2> QED BY <2>1, <2>2
<1> QED BY <1>2, <1>4, <1>5, <1>6, <1>7, <1>8, <1>9 DEF AccountInv

(* The current stage ends: after what the observer already knows, before,   *)
(* come its end and, if the run stops here, those of the remaining stages.  *)
LEMMA FinishKeepsAccount ==
    ASSUME TypeOK, StageInv, AccountInv, pc # "done", index <= PlanLength,
           \A s \in Streams : readers[s] # "emit",
           NEW before \in Seq(Emitted), Len(before) >= Len(events),
           \A k \in 1 .. Len(events) : before[k] = events[k],
           \A k \in Len(events) + 1 .. Len(before) : before[k].kind = "stage-started",
           NEW st \in Statuses,
           \/ /\ st = "passed"
              /\ pc' = "loop" /\ index' = index + 1
              /\ events' = Append(before, StageFinished(index, st))
           \/ /\ pc' = "done" /\ index' = index /\ status' = st
              /\ Len(stages') = PlanLength
              /\ StoppedAt(index)'
              /\ events' = StopEvents(before, index, st),
           UNCHANGED readerVars
    PROVE  AccountInv'
<1> DEFINE n == Len(events)
           b == Len(before)
<1>0. /\ events \in Seq(Emitted) /\ TerminalInv /\ ResultInv /\ FrameInv
      /\ CounterInv /\ ToldInv /\ StreamsInOrder
    BY DEF AccountInv
<1>1. /\ index \in Nat /\ index \in 1 .. PlanLength /\ PlanLength \in Nat
      /\ n \in Nat /\ b \in Nat /\ n <= b
      /\ DOMAIN events = 1 .. n /\ DOMAIN before = 1 .. b
    BY <1>0, RunnerAssumption DEF TypeOK
<1>2. \A k \in 1 .. n : events[k].kind # "run-finished"
    BY <1>0, <1>1 DEF FrameInv
<1>3. \A k \in 1 .. b :
          /\ k > n => ~IsOutput(before[k]) /\ ~Terminal(before[k])
          /\ before[k].kind # "run-finished"
    BY <1>1, <1>2 DEF IsOutput, Terminal
(* both ways of ending, seen from before *)
<1>4. PICK stopped \in BOOLEAN :
        /\ stopped <=> pc' = "done"
        /\ events' \in Seq(Emitted) /\ Len(events') \in Nat
        /\ DOMAIN events' = 1 .. Len(events')
        /\ Len(events') = IF stopped THEN b + 2 + (PlanLength - index) ELSE b + 1
        /\ \A k \in 1 .. b : events'[k] = before[k]
        /\ \A k \in b + 1 .. Len(events') :
              /\ ~IsOutput(events'[k])
              /\ Terminal(events'[k]) <=> (stopped => k < Len(events'))
              /\ Terminal(events'[k]) => events'[k].stage = index + (k - (b + 1))
              /\ events'[k].kind = "run-finished" <=> (stopped /\ k = Len(events'))
  <2>1. CASE pc' = "done"
    <3>1. events' = StopEvents(before, index, st)
        BY <2>1
    <3>2. /\ events' \in Seq(Emitted)
          /\ Len(events') = b + 2 + (PlanLength - index)
          /\ \A k \in 1 .. b : events'[k] = before[k]
          /\ \A k \in b + 1 .. Len(events') :
                /\ ~IsOutput(events'[k])
                /\ Terminal(events'[k]) <=> k < Len(events')
                /\ k < Len(events') => events'[k].stage = index + (k - (b + 1))
                /\ events'[k].kind = "run-finished" <=> k = Len(events')
      <4>1. EndsWithStop(events', before, index, st)
          BY <1>1, <3>1, StopEventsShape
      <4> QED BY <4>1 DEF EndsWithStop
    <3>3. DOMAIN events' = 1 .. Len(events') /\ Len(events') \in Nat
        BY <3>2
    <3> HIDE DEF b
    <3> WITNESS TRUE \in BOOLEAN
    <3> QED BY <2>1, <3>2, <3>3
  <2>2. CASE pc' # "done"
    <3> DEFINE e == StageFinished(index, st)
    <3>1. /\ e \in Emitted /\ e.kind = "stage-finished" /\ e.stage = index
      <4>1. e \in Emitted
          BY <1>1, EventShapes
      <4> QED BY <4>1 DEF StageFinished
    <3>2. events' = Append(before, e)
        BY <2>2
    <3> HIDE DEF e
    <3>3. /\ events' \in Seq(Emitted) /\ Len(events') = b + 1
          /\ DOMAIN events' = 1 .. b + 1
          /\ \A k \in 1 .. b : events'[k] = before[k]
          /\ events'[b + 1] = e
        BY <3>1, <3>2, AppendShape
    <3> HIDE DEF b
    <3>4. \A k \in b + 1 .. Len(events') :
              /\ ~IsOutput(events'[k])
              /\ Terminal(events'[k])
              /\ events'[k].stage = index + (k - (b + 1))
              /\ events'[k].kind # "run-finished"
      <4> TAKE k \in b + 1 .. Len(events')
      <4>1. k = b + 1 /\ index + (k - (b + 1)) = index
          BY <1>1, <3>3
      <4> QED BY <3>1, <3>3, <4>1 DEF IsOutput, Terminal
    <3> WITNESS FALSE \in BOOLEAN
    <3> QED BY <1>1, <2>2, <3>3, <3>4
  <2> QED BY <2>1, <2>2
<1> HIDE DEF n, b
<1>5. QuietExtension
  <2>1. Len(events') >= Len(events)
      BY <1>1, <1>4 DEF n
  <2>2. \A k \in 1 .. Len(events) : events'[k] = events[k]
      BY <1>1, <1>4 DEF n
  <2>3. \A k \in Len(events) + 1 .. Len(events') : ~IsOutput(events'[k])
    <3> TAKE k \in Len(events) + 1 .. Len(events')
    <3>1. (k \in 1 .. b /\ k > n) \/ k \in b + 1 .. Len(events')
        BY <1>1, <1>4 DEF n
    <3> QED BY <1>3, <1>4, <3>1
  <2> QED BY <1>4, <2>1, <2>2, <2>3 DEF QuietExtension
<1>6. OutputFramed' /\ StreamsInOrder'
    BY <1>0, <1>5, QuietKeepsOrder DEF FrameInv
<1>7. ~Active' /\ (pc' = "loop" => index' = index + 1) /\ index' \in {index, index + 1}
    BY DEF Active
<1>8. CounterInv'
    BY <1>0, <1>5, <1>7, QuietKeepsCounter DEF readerVars
<1>9. ToldInv'
    BY <1>7 DEF ToldInv
<1>10. FrameInv'
  <2>1. \A k \in DOMAIN events' :
            events'[k].kind = "run-finished" <=> (pc' = "done" /\ k = Len(events'))
    <3> TAKE k \in DOMAIN events'
    <3>1. CASE k \in 1 .. b
        BY <1>1, <1>3, <1>4, <3>1
    <3>2. CASE k \in b + 1 .. Len(events')
        BY <1>4, <3>2
    <3> QED BY <1>1, <1>4, <3>1, <3>2
  <2> QED BY <1>6, <1>7, <2>1 DEF FrameInv
<1>11. ResultInv'
  <2> SUFFICES ASSUME pc' = "done"
               PROVE  /\ Len(stages') = PlanLength
                      /\ \E stop \in 1 .. PlanLength + 1 : StoppedAt(stop)'
                      /\ events' # <<>>
                      /\ events'[Len(events')] = RunFinished(status')
      BY DEF ResultInv, RunFinished
  <2>1. index \in 1 .. PlanLength + 1 /\ StoppedAt(index)'
      BY <1>1
  <2>2. \E stop \in 1 .. PlanLength + 1 : StoppedAt(stop)'
    <3>1. index' = index OBVIOUS
    <3> QED BY <2>1, <3>1
  <2>3. events'[Len(events')] = RunFinished(status')
    <3>1. EndsWithStop(events', before, index, st)
        BY <1>1, StopEventsShape
    <3>2. status' = st
        OBVIOUS
    <3> QED BY <3>1, <3>2 DEF EndsWithStop
  <2>4. events' # <<>>
      BY <1>1, <1>4
  <2> QED BY <2>2, <2>3, <2>4
<1>12. TerminalInv'
  <2>1. ASSUME NEW k \in 1 .. b, NEW i
        PROVE  Terminal(events'[k]) /\ events'[k].stage = i <=> k \in TerminalAt(i)
    <3>1. events'[k] = before[k]
        BY <1>4
    <3>2. CASE k \in 1 .. n
        BY <1>1, <3>1, <3>2 DEF TerminalAt, n
    <3>3. CASE k > n
        BY <1>1, <1>3, <3>1, <3>3 DEF TerminalAt
    <3> QED BY <1>1, <3>2, <3>3
  <2>2. ASSUME NEW i \in Stages, i < index
        PROVE  \E k \in DOMAIN events' : TerminalAt(i)' = {k}
    <3>1. PICK k \in DOMAIN events : TerminalAt(i) = {k}
        BY <1>0, <2>2 DEF TerminalInv
    <3>2. k \in DOMAIN events' /\ k \in 1 .. b
        BY <1>1, <1>4
    <3>3. \A l \in b + 1 .. Len(events') :
              Terminal(events'[l]) => events'[l].stage # i
      <4> TAKE l \in b + 1 .. Len(events')
      <4>1. i # index + (l - (b + 1))
          BY <1>1, <1>4, <2>2 DEF Stages
      <4> QED BY <1>4, <4>1
    <3>4. \A l \in DOMAIN events' :
              (Terminal(events'[l]) /\ events'[l].stage = i) <=> l = k
      <4> TAKE l \in DOMAIN events'
      <4>1. l \in 1 .. b \/ l \in b + 1 .. Len(events')
          BY <1>1, <1>4
      <4> QED BY <1>1, <2>1, <3>1, <3>2, <3>3, <4>1
    <3>5. TerminalAt(i)' = {k}
        BY <3>2, <3>4 DEF TerminalAt, Terminal
    <3> QED BY <3>2, <3>5
  <2>3. ASSUME NEW i \in Stages, i >= index
        PROVE  IF pc' = "done" \/ i = index
               THEN \E k \in DOMAIN events' : TerminalAt(i)' = {k}
               ELSE TerminalAt(i)' = {}
    <3> DEFINE k == b + 1 + (i - index)
    <3>1. TerminalAt(i) = {} /\ i \in Nat /\ i \in 1 .. PlanLength
      <4>1. i \in Nat /\ i \in 1 .. PlanLength /\ ~(i < index)
          BY <1>1, <2>3 DEF Stages
      <4> QED BY <1>0, <4>1 DEF TerminalInv, Stages
    <3>2. \A l \in b + 1 .. Len(events') :
              (Terminal(events'[l]) /\ events'[l].stage = i) <=> l = k
      <4> TAKE l \in b + 1 .. Len(events')
      <4>1. Terminal(events'[l]) => events'[l].stage = index + (l - (b + 1))
          BY <1>4
      <4>2. index + (l - (b + 1)) = i <=> l = k
          BY <1>1, <1>4, <3>1
      <4>3. l = k => Terminal(events'[l])
        <5>1. CASE pc' = "done"
          <6>1. l = k => l < Len(events')
              BY <1>1, <1>4, <3>1, <5>1
          <6> QED BY <1>4, <6>1
        <5>2. CASE pc' # "done"
            BY <1>4, <5>2
        <5> QED BY <5>1, <5>2
      <4> QED BY <4>1, <4>2, <4>3
    <3>3. k \in DOMAIN events' <=> (pc' = "done" \/ i = index)
        BY <1>1, <1>4, <2>3, <3>1
    <3>4. \A l \in DOMAIN events' :
              (Terminal(events'[l]) /\ events'[l].stage = i) <=> l = k
      <4> TAKE l \in DOMAIN events'
      <4>1. l \in 1 .. b \/ l \in b + 1 .. Len(events')
          BY <1>1, <1>4
      <4>2. ~(k \in 1 .. b)
          BY <1>1, <2>3, <3>1
      <4> HIDE DEF k
      <4> QED BY <2>1, <3>1, <3>2, <4>1, <4>2
    <3> HIDE DEF k
    <3>5. CASE k \in DOMAIN events'
      <4>1. TerminalAt(i)' = {k}
          BY <3>4, <3>5 DEF TerminalAt, Terminal
      <4> QED BY <3>3, <3>5, <4>1
    <3>6. CASE k \notin DOMAIN events'
      <4>1. TerminalAt(i)' = {}
          BY <3>4, <3>6 DEF TerminalAt, Terminal
      <4> QED BY <3>3, <3>6, <4>1
    <3> QED BY <3>5, <3>6
  <2> SUFFICES ASSUME NEW i \in Stages
               PROVE  IF pc' = "done" \/ i < index'
                      THEN \E k \in DOMAIN events' : TerminalAt(i)' = {k}
                      ELSE TerminalAt(i)' = {}
      BY DEF TerminalInv, Stages
  <2>4. i \in Nat BY DEF Stages
  <2>5. CASE i < index
    <3>1. i < index' BY <1>1, <1>7, <2>4, <2>5
    <3> QED BY <2>2, <2>5, <3>1
  <2>6. CASE i >= index
    <3>1. (pc' = "done" \/ i < index') <=> (pc' = "done" \/ i = index)
        BY <1>1, <1>7, <2>4, <2>6
    <3> QED BY <2>3, <2>6, <3>1
  <2> QED BY <1>1, <2>4, <2>5, <2>6
<1> QED BY <1>4, <1>6, <1>8, <1>9, <1>10, <1>11, <1>12 DEF AccountInv

(* The plan is exhausted: the run ends as passed.                           *)
LEMMA FinishRunKeepsAccount ==
    ASSUME TypeOK, StageInv, AccountInv, FinishRun
    PROVE  AccountInv'
<1> DEFINE e == RunFinished(status)
           n == Len(events)
<1>0. /\ events \in Seq(Emitted) /\ TerminalInv /\ ResultInv /\ FrameInv
      /\ CounterInv /\ ToldInv /\ StreamsInOrder
    BY DEF AccountInv
<1>1. /\ pc = "loop" /\ index > PlanLength /\ pc' = "done"
      /\ events' = Append(events, e)
      /\ UNCHANGED <<index, stages, status, readers, captured, chunk, sequence>>
    BY DEF FinishRun, readerVars
<1>2. /\ index = PlanLength + 1 /\ PlanLength \in Nat /\ status = "passed"
      /\ Len(stages) = PlanLength
      /\ \A i \in 1 .. PlanLength : stages[i].status = "passed"
    BY <1>1, RunnerAssumption DEF TypeOK, StageInv, ControlInv
<1>3. /\ e \in Emitted /\ e.kind = "run-finished" /\ ~IsOutput(e) /\ ~Terminal(e)
  <2>1. e \in Emitted
      BY EventShapes DEF TypeOK
  <2> QED BY <2>1 DEF RunFinished, IsOutput, Terminal
<1>4. /\ events' \in Seq(Emitted) /\ n \in Nat /\ Len(events') = n + 1
      /\ DOMAIN events = 1 .. n /\ DOMAIN events' = 1 .. n + 1
      /\ \A k \in 1 .. n : events'[k] = events[k]
      /\ events'[n + 1] = e
    BY <1>0, <1>1, <1>3, AppendShape
<1> HIDE DEF n
<1>5. QuietExtension
  <2> HIDE DEF e
  <2> QED BY <1>3, <1>4 DEF QuietExtension, n
<1>6. OutputFramed' /\ StreamsInOrder'
    BY <1>0, <1>5, QuietKeepsOrder DEF FrameInv
<1>7. CounterInv'
    BY <1>0, <1>1, <1>5, QuietKeepsCounter
<1>8. ToldInv'
    BY <1>1 DEF ToldInv, Active
<1>9. FrameInv'
  <2> HIDE DEF e
  <2>1. \A k \in DOMAIN events' : events'[k].kind = "run-finished" => k = Len(events')
      BY <1>0, <1>1, <1>3, <1>4 DEF FrameInv
  <2> QED BY <1>1, <1>6, <2>1 DEF FrameInv, Active
<1>10. TerminalInv'
  <2> HIDE DEF e
  <2>1. \A i : TerminalAt(i)' = TerminalAt(i)
      BY <1>3, <1>4 DEF TerminalAt, Terminal
  <2>2. \A i \in Stages : i < index
      BY <1>2 DEF Stages
  <2>3. \A i \in Stages : \E k \in DOMAIN events' : TerminalAt(i) = {k}
      BY <1>0, <1>4, <2>2 DEF TerminalInv
  <2> QED BY <1>1, <2>1, <2>3 DEF TerminalInv, Stages
<1>11. ResultInv'
  <2>1. StoppedAt(PlanLength + 1)'
      BY <1>1, <1>2 DEF StoppedAt, Stages
  <2>2. PlanLength + 1 \in 1 .. PlanLength + 1
      BY <1>2
  <2>3. events'[Len(events')] = RunFinished(status') /\ events' # <<>>
    <3>1. e = RunFinished(status')
        BY <1>1
    <3> HIDE DEF e
    <3> QED BY <1>4, <3>1
  <2>4. \E stop \in 1 .. PlanLength + 1 : StoppedAt(stop)'
      BY <2>1, <2>2
  <2> QED BY <1>1, <1>2, <2>3, <2>4 DEF ResultInv, RunFinished
<1> QED BY <1>4, <1>6, <1>7, <1>8, <1>9, <1>10, <1>11 DEF AccountInv

(* A chunk is read: its number is new, and it begins after all that the     *)
(* observer has been told of its stream.                                    *)
LEMMA ReadChunkKeepsAccount ==
    ASSUME TypeOK, StageInv, AccountInv, NEW s \in Streams, ReadChunk(s)
    PROVE  AccountInv'
<1>0. /\ events \in Seq(Emitted) /\ TerminalInv /\ ResultInv /\ FrameInv
      /\ CounterInv /\ ToldInv /\ StreamsInOrder
    BY DEF AccountInv
<1>1. PICK n \in captured[s] + 1 .. written[s] :
          /\ captured' = [captured EXCEPT ![s] = n]
          /\ chunk' = [chunk EXCEPT ![s] = [sequence |-> sequence + 1,
                                            first |-> captured[s] + 1, last |-> n]]
    BY DEF ReadChunk
<1>2. /\ readers[s] = "read" /\ sequence' = sequence + 1
      /\ readers' = [readers EXCEPT ![s] = "emit"]
      /\ UNCHANGED <<pc, index, stages, status, events>>
    BY DEF ReadChunk, runVars
<1>3. /\ captured[s] \in Nat /\ written[s] \in Nat /\ n \in Nat /\ n >= captured[s] + 1
      /\ sequence \in Nat
      /\ chunk \in [Streams -> [sequence : Nat, first : Nat, last : Nat]]
      /\ captured \in [Streams -> Nat] /\ DOMAIN readers = Streams
    BY DEF TypeOK
<1>4. /\ readers'[s] = "emit" /\ captured'[s] = n
      /\ chunk'[s].sequence = sequence + 1 /\ chunk'[s].first = captured[s] + 1
      /\ chunk'[s].last = n
      /\ \A t \in Streams : t # s => /\ readers'[t] = readers[t]
                                     /\ captured'[t] = captured[t]
                                     /\ chunk'[t] = chunk[t]
    BY <1>1, <1>2, <1>3
<1>5. \A k \in DOMAIN events : IsOutput(events[k]) =>
          /\ events[k].sequence \in Nat /\ events[k].last \in Nat
          /\ events[k].sequence <= sequence
  <2> TAKE k \in DOMAIN events
  <2>1. events[k] \in Emitted
      BY <1>0
  <2>2. IsOutput(events[k]) => events[k].sequence \in Nat /\ events[k].last \in Nat
      BY <2>1 DEF Emitted, IsOutput
  <2> QED BY <1>0, <2>2 DEF CounterInv
<1>6. QuietExtension
    BY <1>0, <1>2 DEF QuietExtension
<1>7. /\ \A i, t : OutputAt(i, t)' = OutputAt(i, t)
      /\ OutputFramed' /\ StreamsInOrder'
    BY <1>0, <1>6, QuietKeepsOrder DEF FrameInv
<1>8. TerminalInv'
  <2>1. \A i : TerminalAt(i)' = TerminalAt(i)
      BY <1>2 DEF TerminalAt, Terminal
  <2> QED BY <1>0, <1>2, <2>1 DEF TerminalInv
<1>9. ResultInv'
    BY <1>0, <1>2 DEF ResultInv, StoppedAt
<1>10. FrameInv'
    BY <1>0, <1>2, <1>7 DEF FrameInv, Active
<1>11. CounterInv'
  <2>1. \A k \in DOMAIN events' :
            IsOutput(events'[k]) => /\ events'[k].sequence <= sequence'
                                    /\ events'[k].stage <= index'
                                    /\ pc' = "loop" => events'[k].stage < index'
      BY <1>0, <1>2, <1>3, <1>5 DEF CounterInv
  <2>2. ASSUME NEW t \in Streams, readers'[t] = "emit"
        PROVE  /\ chunk'[t].sequence <= sequence'
               /\ 1 <= chunk'[t].first /\ chunk'[t].first <= chunk'[t].last
               /\ chunk'[t].last = captured'[t]
               /\ \A k \in DOMAIN events' :
                     IsOutput(events'[k]) => events'[k].sequence # chunk'[t].sequence
               /\ \A u \in Streams : u # t /\ readers'[u] = "emit" =>
                     chunk'[u].sequence # chunk'[t].sequence
    <3>1. \A u \in Streams : u # s /\ readers[u] = "emit" =>
              chunk[u].sequence <= sequence /\ chunk[u].sequence \in Nat
        BY <1>0, <1>3 DEF CounterInv
    <3>2. CASE t = s
        BY <1>2, <1>3, <1>4, <1>5, <3>1, <3>2
    <3>3. CASE t # s
      <4>1. readers[t] = "emit" /\ captured'[t] = captured[t] /\ chunk'[t] = chunk[t]
          BY <1>4, <2>2, <3>3
      <4>2. /\ chunk[t].sequence <= sequence
            /\ 1 <= chunk[t].first /\ chunk[t].first <= chunk[t].last
            /\ chunk[t].last = captured[t]
            /\ \A k \in DOMAIN events :
                  IsOutput(events[k]) => events[k].sequence # chunk[t].sequence
            /\ \A u \in Streams : u # t /\ readers[u] = "emit" =>
                  chunk[u].sequence # chunk[t].sequence
          BY <1>0, <4>1 DEF CounterInv
      <4>3. \A u \in Streams : u # t /\ readers'[u] = "emit" =>
                chunk'[u].sequence # chunk[t].sequence
        <5> TAKE u \in Streams
        <5>1. CASE u = s
            BY <1>3, <1>4, <3>1, <3>3, <4>1, <5>1
        <5>2. CASE u # s
            BY <1>4, <4>2, <5>2
        <5> QED BY <5>1, <5>2
      <4>4. chunk[t].sequence <= sequence'
          BY <1>2, <1>3, <3>1, <3>3, <4>1
      <4> QED BY <1>2, <4>1, <4>2, <4>3, <4>4
    <3> QED BY <3>2, <3>3
  <2> QED BY <2>1, <2>2 DEF CounterInv, IsOutput
<1>12. ToldInv'
  <2> SUFFICES ASSUME Active, NEW t \in Streams, NEW k \in OutputAt(index, t)
               PROVE  /\ readers'[t] = "emit" => events[k].sequence < chunk'[t].sequence
                      /\ events[k].last <= Told(t)'
                      /\ \/ events[k].last = Told(t)'
                         \/ \E m \in OutputAt(index, t) : k < m
      BY <1>2, <1>7 DEF ToldInv, Active
  <2>1. Told(t)' = Told(t)
      BY <1>2, <1>3, <1>4 DEF Told
  <2>2. /\ readers[t] = "emit" => events[k].sequence < chunk[t].sequence
        /\ events[k].last <= Told(t)
        /\ \/ events[k].last = Told(t)
           \/ \E m \in OutputAt(index, t) : k < m
      BY <1>0 DEF ToldInv
  <2>3. readers'[t] = "emit" => events[k].sequence < chunk'[t].sequence
    <3>1. CASE t = s
        BY <1>3, <1>4, <1>5, <3>1 DEF OutputAt
    <3>2. CASE t # s
        BY <1>4, <2>2, <3>2
    <3> QED BY <3>1, <3>2
  <2> QED BY <2>1, <2>2, <2>3
<1> QED BY <1>0, <1>2, <1>7, <1>8, <1>9, <1>10, <1>11, <1>12 DEF AccountInv

(* A chunk is emitted: it is the next one of its stream, it falls into the  *)
(* frame of the current stage, and its number has not been seen.            *)
LEMMA EmitChunkKeepsAccount ==
    ASSUME TypeOK, StageInv, AccountInv, NEW s \in Streams, EmitChunk(s)
    PROVE  AccountInv'
<1> DEFINE c == chunk[s]
           e == StageOutput(index, s, c)
           n == Len(events)
<1>0. /\ events \in Seq(Emitted) /\ TerminalInv /\ ResultInv /\ FrameInv
      /\ CounterInv /\ ToldInv /\ StreamsInOrder
    BY DEF AccountInv
<1>1. /\ readers[s] = "emit" /\ events' = Append(events, e)
      /\ chunk' = [chunk EXCEPT ![s] = NoChunk]
      /\ readers' = [readers EXCEPT ![s] = "read"]
      /\ UNCHANGED <<pc, index, stages, status, captured, sequence>>
    BY DEF EmitChunk
<1>2. /\ index \in Nat /\ index \in Stages /\ Active /\ pc \notin {"loop", "done"}
      /\ sequence \in Nat /\ captured[s] \in Nat
      /\ c \in [sequence : Nat, first : Nat, last : Nat]
      /\ DOMAIN readers = Streams /\ DOMAIN chunk = Streams
  <2>1. Active
      BY <1>1 DEF StageInv, ChannelInv
  <2>2. index \in Nat /\ index \in Stages
      BY <2>1, RunnerAssumption DEF TypeOK, StageInv, ControlInv, Stages
  <2>3. pc \notin {"loop", "done"}
      BY <2>1 DEF Active
  <2>4. /\ sequence \in Nat /\ captured \in [Streams -> Nat]
        /\ chunk \in [Streams -> [sequence : Nat, first : Nat, last : Nat]]
        /\ DOMAIN readers = Streams
      BY DEF TypeOK
  <2> QED BY <2>1, <2>2, <2>3, <2>4
<1>3. /\ c.sequence <= sequence /\ 1 <= c.first /\ c.first <= c.last
      /\ c.last = captured[s]
      /\ \A k \in DOMAIN events :
            IsOutput(events[k]) => events[k].sequence # c.sequence
      /\ \A t \in Streams : t # s /\ readers[t] = "emit" =>
            chunk[t].sequence # c.sequence
    BY <1>0, <1>1 DEF CounterInv
<1>4. \A k \in OutputAt(index, s) :
          /\ events[k].sequence < c.sequence
          /\ events[k].last <= c.first - 1
          /\ \/ events[k].last = c.first - 1
             \/ \E m \in OutputAt(index, s) : k < m
    BY <1>0, <1>1, <1>2 DEF ToldInv, Told
<1> HIDE DEF c
<1>5. /\ e \in Emitted /\ e.kind = "stage-output" /\ e.stage = index /\ e.stream = s
      /\ e.sequence = c.sequence /\ e.first = c.first /\ e.last = c.last
      /\ IsOutput(e) /\ ~Terminal(e)
  <2>1. e \in Emitted
      BY <1>2, EventShapes
  <2> QED BY <2>1 DEF StageOutput, IsOutput, Terminal
<1>6. /\ c.sequence \in Nat /\ c.first \in Nat /\ c.last \in Nat
    BY <1>2
<1>7. /\ events' \in Seq(Emitted) /\ n \in Nat /\ Len(events') = n + 1
      /\ DOMAIN events = 1 .. n /\ DOMAIN events' = 1 .. n + 1
      /\ \A k \in 1 .. n : events'[k] = events[k]
      /\ events'[n + 1] = e
    BY <1>0, <1>1, <1>5, AppendShape
<1> HIDE DEF e, n
<1>8. \A k \in DOMAIN events' : k = n + 1 \/ k \in DOMAIN events
    BY <1>7
<1>9. /\ readers'[s] = "read"
      /\ \A t \in Streams : t # s => readers'[t] = readers[t] /\ chunk'[t] = chunk[t]
    BY <1>1, <1>2
<1>10. \A k \in DOMAIN events : IsOutput(events[k]) =>
          /\ events[k].sequence \in Nat /\ events[k].last \in Nat
          /\ events[k].stage \in Nat
  <2> TAKE k \in DOMAIN events
  <2>1. events[k] \in Emitted
      BY <1>0
  <2> QED BY <2>1 DEF Emitted, IsOutput
<1>11. /\ OutputAt(index, s)' = OutputAt(index, s) \cup {n + 1}
       /\ \A t \in Streams : t # s => OutputAt(index, t)' = OutputAt(index, t)
  <2>1. \A t \in Streams, k \in DOMAIN events' :
            k \in OutputAt(index, t)' <=> k \in OutputAt(index, t) \/ (t = s /\ k = n + 1)
    <3> TAKE t \in Streams, k \in DOMAIN events'
    <3>1. k \in OutputAt(index, t)' <=> /\ IsOutput(events'[k])
                                        /\ events'[k].stage = index
                                        /\ events'[k].stream = t
        BY <1>1 DEF OutputAt, IsOutput
    <3>2. CASE k = n + 1
      <4>1. k \notin OutputAt(index, t)
          BY <1>7, <3>2 DEF OutputAt
      <4> QED BY <1>5, <1>7, <3>1, <3>2, <4>1
    <3>3. CASE k \in DOMAIN events
      <4>1. k # n + 1 /\ events'[k] = events[k]
          BY <1>7, <3>3
      <4> QED BY <3>1, <3>3, <4>1 DEF OutputAt
    <3> QED BY <1>8, <3>2, <3>3
  <2>2. \A t \in Streams : /\ OutputAt(index, t)' \subseteq DOMAIN events'
                           /\ OutputAt(index, t) \subseteq DOMAIN events'
      BY <1>7 DEF OutputAt
  <2>3. n + 1 \in DOMAIN events'
      BY <1>7
  <2> QED BY <2>1, <2>2, <2>3
<1>12. TerminalInv'
  <2>1. \A i : TerminalAt(i)' = TerminalAt(i)
      BY <1>5, <1>7 DEF TerminalAt, Terminal
  <2> QED BY <1>0, <1>1, <1>7, <2>1 DEF TerminalInv
<1>13. ResultInv'
    BY <1>1, <1>2 DEF ResultInv
<1>14. FrameInv'
  <2>1. PICK j \in DOMAIN events : events[j] = Event("stage-started", index)
      BY <1>0, <1>2 DEF FrameInv
  <2>2. \A k \in DOMAIN events' : events'[k].kind # "run-finished"
      BY <1>0, <1>2, <1>5, <1>7, <1>8 DEF FrameInv
  <2>3. OutputFramed'
    <3> SUFFICES ASSUME NEW k \in DOMAIN events', IsOutput(events'[k])
                 PROVE  /\ \E i \in 1 .. k - 1 :
                              events'[i] = Event("stage-started", events'[k].stage)
                        /\ \A i \in 1 .. k - 1 : Terminal(events'[i]) =>
                              events'[i].stage # events'[k].stage
        BY DEF OutputFramed, IsOutput, Terminal, Event
    <3>1. \A i \in 1 .. k - 1 : i \in DOMAIN events /\ events'[i] = events[i]
        BY <1>7
    <3>2. CASE k = n + 1
      <4>1. events'[k].stage = index /\ j \in 1 .. k - 1
          BY <1>5, <1>7, <3>2
      <4>2. TerminalAt(index) = {}
          BY <1>0, <1>2 DEF TerminalInv
      <4>3. \A i \in 1 .. k - 1 : Terminal(events[i]) => events[i].stage # index
          BY <3>1, <4>2 DEF TerminalAt
      <4> QED BY <2>1, <3>1, <4>1, <4>3
    <3>3. CASE k \in DOMAIN events
      <4>1. events'[k] = events[k]
          BY <1>7, <3>3
      <4>2. /\ \E i \in 1 .. k - 1 : events[i] = Event("stage-started", events[k].stage)
            /\ \A i \in 1 .. k - 1 : Terminal(events[i]) =>
                  events[i].stage # events[k].stage
          BY <1>0, <3>3, <4>1 DEF FrameInv, OutputFramed
      <4> QED BY <3>1, <4>1, <4>2
    <3> QED BY <1>8, <3>2, <3>3
  <2>4. \E i \in DOMAIN events' : events'[i] = Event("stage-started", index')
      BY <1>1, <1>7, <2>1
  <2> QED BY <2>2, <2>3, <2>4 DEF FrameInv, Event
<1>15. CounterInv'
  <2>1. ASSUME NEW k \in DOMAIN events', IsOutput(events'[k])
        PROVE  /\ events'[k].sequence <= sequence'
               /\ events'[k].stage <= index'
               /\ pc' = "loop" => events'[k].stage < index'
    <3>1. CASE k = n + 1
        BY <1>1, <1>2, <1>3, <1>5, <1>7, <3>1
    <3>2. CASE k \in DOMAIN events
        BY <1>0, <1>1, <1>7, <2>1, <3>2 DEF CounterInv
    <3> QED BY <1>8, <3>1, <3>2
  <2>2. ASSUME NEW t \in Streams, readers'[t] = "emit"
        PROVE  /\ chunk'[t].sequence <= sequence'
               /\ 1 <= chunk'[t].first /\ chunk'[t].first <= chunk'[t].last
               /\ chunk'[t].last = captured'[t]
               /\ \A k \in DOMAIN events' :
                     IsOutput(events'[k]) => events'[k].sequence # chunk'[t].sequence
               /\ \A u \in Streams : u # t /\ readers'[u] = "emit" =>
                     chunk'[u].sequence # chunk'[t].sequence
    <3>1. t # s /\ readers[t] = "emit" /\ chunk'[t] = chunk[t]
        BY <1>9, <2>2
    <3>2. /\ chunk[t].sequence <= sequence
          /\ 1 <= chunk[t].first /\ chunk[t].first <= chunk[t].last
          /\ chunk[t].last = captured[t]
          /\ \A k \in DOMAIN events :
                IsOutput(events[k]) => events[k].sequence # chunk[t].sequence
          /\ \A u \in Streams : u # t /\ readers[u] = "emit" =>
                chunk[u].sequence # chunk[t].sequence
        BY <1>0, <3>1 DEF CounterInv
    <3>3. \A k \in DOMAIN events' :
              IsOutput(events'[k]) => events'[k].sequence # chunk[t].sequence
        BY <1>3, <1>5, <1>7, <1>8, <3>1, <3>2
    <3>4. \A u \in Streams : u # t /\ readers'[u] = "emit" =>
              chunk'[u].sequence # chunk[t].sequence
        BY <1>9, <3>2
    <3> QED BY <1>1, <3>1, <3>2, <3>3, <3>4
  <2> QED BY <2>1, <2>2 DEF CounterInv, IsOutput
<1>16. ToldInv'
  <2> SUFFICES ASSUME NEW t \in Streams, NEW k \in OutputAt(index, t)'
               PROVE  /\ readers'[t] = "emit" =>
                            events'[k].sequence < chunk'[t].sequence
                      /\ events'[k].last <= Told(t)'
                      /\ \/ events'[k].last = Told(t)'
                         \/ \E m \in OutputAt(index, t)' : k < m
      BY <1>1 DEF ToldInv, OutputAt, IsOutput
  <2>1. CASE t = s
    <3>1. Told(s)' = captured[s]
        BY <1>1, <1>9 DEF Told
    <3>2. CASE k = n + 1
      <4>1. events'[k].last = captured[s]
          BY <1>3, <1>5, <1>7, <3>2
      <4> QED BY <1>2, <1>9, <2>1, <3>1, <4>1
    <3>3. CASE k \in OutputAt(index, s)
      <4>1. k \in DOMAIN events /\ events'[k] = events[k] /\ events[k].last \in Nat
          BY <1>7, <1>10, <3>3 DEF OutputAt
      <4>2. events[k].last <= captured[s]
        <5>1. events[k].last <= c.first - 1
            BY <1>4, <3>3
        <5> QED BY <1>3, <1>6, <4>1, <5>1
      <4>3. n + 1 \in OutputAt(index, s)' /\ k < n + 1
          BY <1>7, <1>11, <4>1
      <4> QED BY <1>9, <2>1, <3>1, <4>1, <4>2, <4>3
    <3> QED BY <1>11, <2>1, <3>2, <3>3
  <2>2. CASE t # s
    <3>1. k \in OutputAt(index, t) /\ events'[k] = events[k]
        BY <1>7, <1>11, <2>2 DEF OutputAt
    <3>2. Told(t)' = Told(t) /\ readers'[t] = readers[t] /\ chunk'[t] = chunk[t]
        BY <1>1, <1>9, <2>2 DEF Told
    <3>3. /\ readers[t] = "emit" => events[k].sequence < chunk[t].sequence
          /\ events[k].last <= Told(t)
          /\ \/ events[k].last = Told(t)
             \/ \E m \in OutputAt(index, t) : k < m
        BY <1>0, <1>2, <3>1 DEF ToldInv
    <3> QED BY <1>11, <2>2, <3>1, <3>2, <3>3
  <2> QED BY <2>1, <2>2
<1>17. StreamsInOrder'
  <2> SUFFICES ASSUME NEW k \in DOMAIN events', NEW l \in DOMAIN events', k < l,
                      IsOutput(events'[k]), IsOutput(events'[l])
               PROVE  /\ events'[k].sequence # events'[l].sequence
                      /\ /\ events'[k].stage = events'[l].stage
                         /\ events'[k].stream = events'[l].stream
                         => /\ events'[k].sequence < events'[l].sequence
                            /\ events'[k].last < events'[l].first
                            /\ events'[k].last + 1 = events'[l].first
                               \/ \E m \in k + 1 .. l - 1 :
                                     /\ IsOutput(events'[m])
                                     /\ events'[m].stage = events'[l].stage
                                     /\ events'[m].stream = events'[l].stream
      BY DEF StreamsInOrder, IsOutput
  <2>1. /\ k \in DOMAIN events /\ events'[k] = events[k]
        /\ \A m \in k + 1 .. l - 1 : m \in DOMAIN events /\ events'[m] = events[m]
      BY <1>7
  <2>2. CASE l = n + 1
    <3>1. events'[l] = e
        BY <1>7, <2>2
    <3>2. events[k].sequence # c.sequence
        BY <1>3, <2>1
    <3>3. ASSUME events[k].stage = index, events[k].stream = s
          PROVE  /\ events[k].sequence < c.sequence
                 /\ events[k].last < c.first
                 /\ events[k].last + 1 = c.first
                    \/ \E m \in k + 1 .. l - 1 :
                          /\ IsOutput(events[m])
                          /\ events[m].stage = index
                          /\ events[m].stream = s
      <4>1. k \in OutputAt(index, s) /\ events[k].last \in Nat
          BY <1>10, <2>1, <3>3 DEF OutputAt
      <4>2. CASE events[k].last = c.first - 1
          BY <1>4, <1>6, <4>1, <4>2
      <4>3. CASE \E m \in OutputAt(index, s) : k < m
        <5>1. PICK m \in OutputAt(index, s) : k < m
            BY <4>3
        <5>2. m \in k + 1 .. l - 1
            BY <1>7, <2>1, <2>2, <5>1 DEF OutputAt
        <5>3. events[k].sequence < c.sequence /\ events[k].last <= c.first - 1
            BY <1>4, <4>1
        <5>4. events[k].last < c.first
            BY <1>6, <4>1, <5>3
        <5> QED BY <5>1, <5>2, <5>3, <5>4 DEF OutputAt
      <4> QED BY <1>4, <4>1, <4>2, <4>3
    <3> QED BY <1>5, <2>1, <3>1, <3>2, <3>3
  <2>3. CASE l \in DOMAIN events
    <3>1. events'[l] = events[l]
        BY <1>7, <2>3
    <3>2. /\ events[k].sequence # events[l].sequence
          /\ /\ events[k].stage = events[l].stage
             /\ events[k].stream = events[l].stream
             => /\ events[k].sequence < events[l].sequence
                /\ events[k].last < events[l].first
                /\ events[k].last + 1 = events[l].first
                   \/ \E m \in k + 1 .. l - 1 :
                         /\ IsOutput(events[m])
                         /\ events[m].stage = events[l].stage
                         /\ events[m].stream = events[l].stream
        BY <1>0, <2>1, <2>3, <3>1 DEF StreamsInOrder
    <3> QED BY <2>1, <3>1, <3>2
  <2> QED BY <1>8, <2>2, <2>3
<1> QED BY <1>7, <1>12, <1>13, <1>14, <1>15, <1>16, <1>17 DEF AccountInv

(* Every step keeps the observer's account in order.                        *)
LEMMA AccountKeeps ==
    ASSUME TypeOK, StageInv, AccountInv, [Next]_vars
    PROVE  AccountInv'
<1>0. /\ events \in Seq(Emitted) /\ DOMAIN readers = Streams /\ index \in Nat
      /\ "cancelled" \in Statuses \ {"skipped"}
      /\ "internal-error" \in Statuses \ {"skipped"}
      /\ NoOutput \in [Streams -> Nat] /\ captured \in [Streams -> Nat]
    BY RunnerAssumption DEF AccountInv, TypeOK, Statuses, NoOutput
<1>1. ASSUME UNCHANGED <<runVars, readerVars>>
      PROVE  AccountInv'
    BY <1>1, SilentKeepsAccount DEF runVars, readerVars
<1>2. CASE UNCHANGED vars
    BY <1>1, <1>2 DEF vars
<1>3. CASE FinishRun
    BY <1>3, FinishRunKeepsAccount
<1>4. ASSUME NEW st \in Statuses \ {"skipped"}, NEW out \in [Streams -> Nat],
             NEW emitted \in {<<>>, <<Event("stage-started", index)>>},
             FinishStage(st, out, emitted), pc # "done", index <= PlanLength,
             \A s \in Streams : readers[s] # "emit",
             UNCHANGED readerVars
      PROVE  AccountInv'
  <2> DEFINE before == events \o emitted
  <2>1. /\ before \in Seq(Emitted) /\ Len(before) >= Len(events)
        /\ \A k \in 1 .. Len(events) : before[k] = events[k]
        /\ \A k \in Len(events) + 1 .. Len(before) : before[k].kind = "stage-started"
    <3>1. /\ emitted \in Seq(Emitted) /\ Len(emitted) \in Nat
          /\ \A k \in 1 .. Len(emitted) : emitted[k].kind = "stage-started"
      <4>1. CASE emitted = <<>>
          BY <4>1
      <4>2. CASE emitted = <<Event("stage-started", index)>>
        <5> DEFINE e == Event("stage-started", index)
        <5>1. e \in Emitted /\ e.kind = "stage-started"
          <6>1. e \in Emitted BY <1>0, EventShapes
          <6> QED BY <6>1 DEF Event
        <5> HIDE DEF e
        <5>2. emitted = <<e>> BY <4>2 DEF e
        <5> QED BY <5>1, <5>2
      <4> QED BY <1>4, <4>1, <4>2
    <3>2. /\ before \in Seq(Emitted) /\ Len(before) = Len(events) + Len(emitted)
          /\ \A k \in 1 .. Len(events) : before[k] = events[k]
          /\ \A k \in Len(events) + 1 .. Len(events) + Len(emitted) :
                before[k] = emitted[k - Len(events)]
        BY <1>0, <3>1, ConcatShape
    <3> HIDE DEF before
    <3>3. Len(events) \in Nat
        BY <1>0
    <3>4. \A k \in Len(events) + 1 .. Len(before) : before[k].kind = "stage-started"
      <4> TAKE k \in Len(events) + 1 .. Len(before)
      <4>1. /\ k - Len(events) \in 1 .. Len(emitted)
            /\ k \in Len(events) + 1 .. Len(events) + Len(emitted)
          BY <3>1, <3>2, <3>3
      <4> QED BY <3>1, <3>2, <4>1
    <3> QED BY <3>1, <3>2, <3>3, <3>4
  <2>2. \/ /\ st = "passed"
           /\ pc' = "loop" /\ index' = index + 1
           /\ events' = Append(before, StageFinished(index, st))
        \/ /\ pc' = "done" /\ index' = index /\ status' = st
           /\ Len(stages') = PlanLength
           /\ StoppedAt(index)'
           /\ events' = StopEvents(before, index, st)
      BY <1>4, FinishStageResults DEF StageInv
  <2> HIDE DEF before
  <2> QED BY <1>4, <2>1, <2>2, FinishKeepsAccount
<1>5. pc = "loop" => \A s \in Streams : readers[s] # "emit"
    BY DEF StageInv, ChannelInv, Active
<1>6. CASE CancelledBeforeStage
  <2>1. /\ pc = "loop" /\ pc # "done" /\ index <= PlanLength /\ UNCHANGED readerVars
        /\ FinishStage("cancelled", NoOutput, <<>>)
      BY <1>6 DEF CancelledBeforeStage
  <2> QED BY <1>0, <1>4, <1>5, <2>1
<1>7. CASE StartFails
  <2>1. /\ pc = "loop" /\ pc # "done" /\ index <= PlanLength /\ UNCHANGED readerVars
        /\ FinishStage("internal-error", NoOutput, <<Event("stage-started", index)>>)
      BY <1>7 DEF StartFails
  <2> QED BY <1>0, <1>4, <1>5, <2>1
<1>8. CASE Collect
  <2>1. /\ pc # "done" /\ Active /\ UNCHANGED readerVars /\ ReadersDone
        /\ FinishStage(stageStatus, captured, <<>>)
      BY <1>8 DEF Collect, Active, StageInv, ChannelInv
  <2>2. index <= PlanLength /\ stageStatus \in Statuses \ {"skipped"}
      BY <2>1, StatusOfStage DEF StageInv, ControlInv
  <2>3. \A s \in Streams : readers[s] # "emit"
      BY <2>1 DEF ReadersDone
  <2> QED BY <1>0, <1>4, <2>1, <2>2, <2>3
<1>9. CASE \E traps \in BOOLEAN : StartStage(traps)
  <2>1. /\ pc = "loop" /\ index <= PlanLength /\ pc' = "await"
        /\ events' = Append(events, Event("stage-started", index))
        /\ readers' = [s \in Streams |-> "read"]
        /\ UNCHANGED <<index, stages, status, chunk, sequence>>
      BY <1>9 DEF StartStage
  <2>2. Active' /\ ~Active /\ pc # "done"
      BY <2>1 DEF Active
  <2> QED BY <2>1, <2>2, NoticeKeepsAccount
<1>10. CASE SelectCancel
  <2>1. /\ pc = "await" /\ pc' = "drain"
        /\ events' = Append(events, Event("cancellation-requested", index))
        /\ UNCHANGED <<index, stages, status, readers, captured, chunk, sequence>>
      BY <1>10 DEF SelectCancel, readerVars
  <2>2. Active' /\ Active /\ pc # "done"
      BY <2>1 DEF Active
  <2>3. index <= PlanLength
      BY <2>2 DEF StageInv, ControlInv
  <2> QED BY <2>1, <2>2, <2>3, NoticeKeepsAccount
<1>11. CASE SelectTimer
  <2>1. /\ Active /\ Active'
        /\ UNCHANGED <<index, stages, status, events, readers, captured, chunk,
                       sequence>>
      BY <1>11 DEF SelectTimer, Active, readerVars
  <2> QED BY <2>1, SilentKeepsAccount
<1>12. CASE \E s \in Streams : ReadChunk(s)
    BY <1>12, ReadChunkKeepsAccount
<1>13. CASE \E s \in Streams : EmitChunk(s)
    BY <1>13, EmitChunkKeepsAccount
<1>14. CASE \E s \in Streams : ReadEOF(s) \/ ReadFails(s)
  <2>1. PICK s \in Streams : ReadEOF(s) \/ ReadFails(s)
      BY <1>14
  <2>2. /\ readers[s] = "read"
        /\ \E r \in {"done", "failed"} : readers' = [readers EXCEPT ![s] = r]
        /\ UNCHANGED <<runVars, captured, chunk, sequence>>
      BY <2>1 DEF ReadEOF, ReadFails
  <2>3. \A t \in Streams : readers'[t] = "emit" <=> readers[t] = "emit"
      BY <1>0, <2>2
  <2> QED BY <2>2, <2>3, SilentKeepsAccount DEF runVars
<1>15. CASE SelectProcess \/ SelectReaders \/ ReceiveAfterKill \/ Reap \/ Cancel
            \/ LeaveGroup
    BY <1>1, <1>15 DEF SelectProcess, SelectReaders, ReceiveAfterKill, Reap, Cancel,
                       LeaveGroup
<1>16. CASE \/ \E traps \in BOOLEAN : Spawn(traps)
            \/ \E p \in Processes, s \in Streams : Write(p, s)
            \/ \E p \in Processes : Redirect(p)
            \/ \E p \in Processes, code \in {"zero", "nonzero"} : Exit(p, code)
    BY <1>1, <1>16 DEF Spawn, Write, Redirect, Exit
<1> QED BY <1>2, <1>3, <1>6, <1>7, <1>8, <1>9, <1>10, <1>11, <1>12, <1>13, <1>14,
           <1>15, <1>16
        DEF Next, Main, Reader, Environment, Finished

-----------------------------------------------------------------------------
(* The theorems *)

(* A run begins in the invariant: nothing started, nothing told.            *)
LEMMA InitInv == Init => Inv
<1> SUFFICES ASSUME Init PROVE Inv
    OBVIOUS
<1> USE DEF Init
<1>1. TypeOK
  <2>1. /\ processes \in [Processes -> ProcessStates]
        /\ chunk \in [Streams -> [sequence : Nat, first : Nat, last : Nat]]
        /\ captured \in [Streams -> Nat] /\ written \in [Streams -> Nat]
        /\ readers \in [Streams -> {"idle", "read", "emit", "done", "failed"}]
      BY DEF NoProcess, ProcessStates, NoChunk, NoOutput
  <2>2. stages \in Seq([status : Statuses, output : [Streams -> Nat]])
        /\ Len(stages) <= PlanLength /\ index \in 1 .. PlanLength + 1
      BY RunnerAssumption
  <2> QED BY <2>1, <2>2 DEF TypeOK, ProcessStates, Statuses
<1>2. StageInv
    BY DEF StageInv, ControlInv, ChannelInv, StreamEndInv, Active, ReadersDone
<1> DEFINE e == [kind |-> "run-started"]
<1>3. e \in Emitted /\ e.kind = "run-started" /\ ~IsOutput(e) /\ ~Terminal(e)
    BY DEF Emitted, IsOutput, Terminal
<1>4. events = <<e>>
    OBVIOUS
<1> HIDE DEF e
<1>5. events \in Seq(Emitted) /\ DOMAIN events = {1} /\ events[1] = e
    BY <1>3, <1>4
<1>6. TerminalInv
  <2>1. \A i : TerminalAt(i) = {}
      BY <1>3, <1>5 DEF TerminalAt
  <2>2. \A i \in Stages : ~(i < index) /\ pc # "done"
      BY RunnerAssumption DEF Stages
  <2> QED BY <2>1, <2>2 DEF TerminalInv
<1>7. ResultInv
    BY DEF ResultInv
<1>8. \A k \in DOMAIN events : ~IsOutput(events[k]) /\ events[k].kind # "run-finished"
    BY <1>3, <1>5
<1>9. FrameInv
    BY <1>8 DEF FrameInv, OutputFramed, Active
<1>10. CounterInv
    BY <1>8 DEF CounterInv
<1>11. ToldInv
    BY DEF ToldInv, Active
<1>12. StreamsInOrder
    BY <1>8 DEF StreamsInOrder
<1>13. AccountInv
    BY <1>5, <1>6, <1>7, <1>9, <1>10, <1>11, <1>12 DEF AccountInv
<1> QED BY <1>1, <1>2, <1>13 DEF Inv

(* The invariant holds throughout every run.                                *)
LEMMA InvHolds == Spec => []Inv
<1>1. ASSUME Inv, [Next]_vars PROVE Inv'
  <2>1. TypeOK /\ StageInv /\ AccountInv /\ ControlInv
      BY <1>1 DEF Inv, StageInv
  <2> QED BY <1>1, <2>1, TypeKeeps, StageKeeps, AccountKeeps DEF Inv
<1> QED BY InitInv, <1>1, PTL DEF Spec

(* When a stage has been recorded (runner.go:282-293) its readers are gone, *)
(* and a reader that did not fail has captured every write of every process *)
(* of the stage, whatever was signalled, killed, spawned or redirected.     *)
THEOREM RunnerOutputComplete == Spec => []OutputComplete
<1>1. Inv => OutputComplete
  <2> SUFFICES ASSUME Inv, pc \in {"loop", "done"}, NEW s \in Streams
               PROVE  /\ readers[s] \in {"idle", "done", "failed"}
                      /\ readers[s] = "done" => captured[s] = written[s]
      BY DEF OutputComplete
  <2> QED BY DEF Inv, StageInv, ChannelInv, StreamEndInv, Active
<1> QED BY <1>1, InvHolds, PTL

(* A cancelled stage (runner.go:391-436) leaves no running leader and, if    *)
(* its streams were read to their end, no member of the process group with  *)
(* a pipe end.                                                              *)
THEOREM RunnerCancelledStageIsQuiet == Spec => []CancelledStageIsQuiet
<1>1. Inv => CancelledStageIsQuiet
  <2> SUFFICES ASSUME Inv, pc = "done", cancelled
               PROVE  /\ ~Running("leader")
                      /\ (\A s \in Streams : readers[s] = "done") =>
                            \A p \in Processes : ~(InGroup(p) /\ Holds(p))
      BY DEF CancelledStageIsQuiet
  <2>1. ~Running("leader")
      BY DEF Inv, StageInv, ChannelInv, Running
  <2>2. (\A s \in Streams : readers[s] = "done") => \A p \in Processes : ~Holds(p)
      BY RunnerAssumption DEF Inv, StageInv, StreamEndInv
  <2> QED BY <2>1, <2>2
<1> QED BY <1>1, InvHolds, PTL

(* A finished run (runner.go:89-155) has one result per plan entry, passed  *)
(* stages before the one that stopped it and skipped ones after it, and the *)
(* observer was told of exactly one end of every stage.                     *)
THEOREM RunnerResultsMatchPlan == Spec => []ResultsMatchPlan
<1>1. Inv => ResultsMatchPlan
  <2> SUFFICES ASSUME Inv, pc = "done"
               PROVE  ResultsMatchPlan
      BY DEF ResultsMatchPlan
  <2>1. /\ Len(stages) = PlanLength
        /\ \E stop \in 1 .. PlanLength + 1 : StoppedAt(stop)
        /\ events[Len(events)] = RunFinished(status)
      BY DEF Inv, AccountInv, ResultInv
  <2>2. \A i \in Stages : Cardinality(TerminalAt(i)) = 1
    <3> TAKE i \in Stages
    <3>1. PICK k \in DOMAIN events : TerminalAt(i) = {k}
        BY DEF Inv, AccountInv, TerminalInv
    <3> QED BY <3>1, FS_Singleton
  <2> QED BY <2>1, <2>2 DEF ResultsMatchPlan, StoppedAt, TerminalAt
<1> QED BY <1>1, InvHolds, PTL

(* What the observer is told (runner.go:230-293, 471-488) can be read from   *)
(* beginning to end: output between the start and the end of its stage,     *)
(* every stream without a gap, no number twice, nothing after the end.      *)
THEOREM RunnerEventsInOrder == Spec => []EventsInOrder
<1>1. Inv => EventsInOrder
  <2> SUFFICES ASSUME Inv PROVE EventsInOrder
      OBVIOUS
  <2>1. TypeOK /\ StreamsInOrder /\ FrameInv
      BY DEF Inv, AccountInv
  <2>2. EventsFramed
      BY <2>1 DEF FrameInv, OutputFramed, EventsFramed
  <2> QED BY <2>1, <2>2 DEF EventsInOrder
<1> QED BY <1>1, InvHolds, PTL

=============================================================================
