--------------------------- MODULE PipelineProofs ---------------------------
(***************************************************************************)
(* The evidence of CommandPipeline tells the truth, for every set of        *)
(* sessions, entities and envelopes and every policy: queue, motion and     *)
(* sessions can be read off it, and it records as attempted exactly what    *)
(* the policy admits.  The gateway in front of it is a refinement of it     *)
(* that tells its callers what was recorded; and the replay of the log of a *)
(* run rebuilds the run, and finds a record that was forged.                *)
(***************************************************************************)
EXTENDS Gateway, EvidenceReplay, WorldLemmas

-----------------------------------------------------------------------------
(* The inductive invariant.  Of the properties of CommandPipeline it keeps  *)
(* those that are inductive and puts others into a form without CHOOSE and  *)
(* Cardinality; it adds what the world knows of the evidence.               *)

LogInv ==
    /\ log = [records |-> log.records, head_digest |-> log.head_digest]
    /\ Records \in Seq({Records[i] : i \in DOMAIN Records})
    /\ author \in Seq(Sessions)
    /\ Len(author) = Len(Records)
    /\ Len(Records) <= MaxRecords

(* A session object keeps the identity it was created with.                 *)
IdentityInv ==
    /\ sessions \in [Sessions -> CommandSession]
    /\ \A s \in Sessions : /\ sessions[s].client_id = Identity[s].client_id
                           /\ sessions[s].session_id = Identity[s].session_id

EnvelopeInv == \A i \in DOMAIN Records : Entry(i).envelope \in Envelopes

(* The world knows the entity of an accepted record, and its high-water     *)
(* marks are not below it.                                                  *)
MarksInv ==
    \A i \in AcceptedRecords :
        LET c == Entry(i).envelope
        IN  /\ c.entity_id \in DOMAIN world.entities
            /\ c.sequence <= world.highest_sequence[c.entity_id]
            /\ c.target_tick <= world.latest_target_tick[c.entity_id]

OpenRecords ==
    {i \in AcceptedRecords : Entry(i).envelope.target_tick > world.tick_index}

OpenInv ==
    Queued(world) = {translate(Entry(i).envelope) : i \in OpenRecords}

DueRecords(e) ==
    {i \in AcceptedRecords : /\ Entry(i).envelope.entity_id = e
                             /\ Entry(i).envelope.target_tick <= world.tick_index}

(* The command an entity last executed is the newest due one of the log.    *)
ExecutedInv ==
    \A e \in DOMAIN world.entities :
        /\ DueRecords(e) = {} => world.entities[e].last_sequence = 0
        /\ DueRecords(e) # {} =>
              \E i \in DueRecords(e) :
                 /\ world.entities[e].velocity = Entry(i).envelope.velocity
                 /\ world.entities[e].last_sequence = Entry(i).envelope.sequence
        /\ \A i \in DueRecords(e) :
              Entry(i).envelope.sequence <= world.entities[e].last_sequence

(* What a session object had accepted before record n, and that m is the    *)
(* greatest of it.                                                          *)
AcceptedBefore(s, n) ==
    {Entry(i).envelope.sequence :
        i \in {j \in AcceptedRecords : j < n /\ author[j] = s}}

IsGreatest(m, S) == m \in S /\ \A k \in S : m >= k

SessionInv ==
    \A s \in Sessions :
        /\ \A n \in DOMAIN Records : author[n] = s =>
              IsGreatest(Entry(n).session_sequence_before,
                         {0} \cup AcceptedBefore(s, n))
        /\ IsGreatest(sessions[s].highest_accepted_sequence,
                      {0} \cup AcceptedBefore(s, Len(Records) + 1))

Inv ==
    /\ WorldInv(world)
    /\ LogInv
    /\ IdentityInv
    /\ EnvelopeInv
    /\ MarksInv
    /\ OpenInv
    /\ ExecutedInv
    /\ SessionInv
    /\ EntityOrderAcrossSessions
    /\ EvidenceReadsBack
    /\ AdmissionIsExact

-----------------------------------------------------------------------------
(* Sequences and numbers.                                                   *)

(* Append to a sequence whose elements have no common type of their own.    *)
LEMMA AppendUntyped ==
    ASSUME NEW q, q \in Seq({q[i] : i \in DOMAIN q}), NEW x
    PROVE  LET t == Append(q, x) IN
           /\ Len(q) \in Nat /\ DOMAIN q = 1 .. Len(q)
           /\ Len(t) = Len(q) + 1
           /\ DOMAIN t = 1 .. Len(q) + 1
           /\ \A i \in 1 .. Len(q) : t[i] = q[i]
           /\ t[Len(q) + 1] = x
           /\ t \in Seq({t[i] : i \in DOMAIN t})
<1> DEFINE S == {q[i] : i \in DOMAIN q}
           t == Append(q, x)
           n == Len(q)
<1>1. n \in Nat /\ DOMAIN q = 1 .. n /\ q \in Seq(S \cup {x})
  <2> HIDE DEF S
  <2>1. q \in Seq(S) BY DEF S
  <2> QED BY <2>1
<1>2. /\ Len(t) = n + 1 /\ DOMAIN t = 1 .. n + 1
      /\ \A i \in 1 .. n : t[i] = q[i]
      /\ t[n + 1] = x
      /\ t \in Seq(S \cup {x})
  <2> HIDE DEF S
  <2> QED BY <1>1
<1> HIDE DEF t, n
<1>3. S \cup {x} = {t[i] : i \in DOMAIN t}
  <2>1. \A i \in DOMAIN q : q[i] \in {t[k] : k \in DOMAIN t}
    <3> TAKE i \in DOMAIN q
    <3>1. i \in 1 .. n + 1 /\ t[i] = q[i]
      BY <1>1, <1>2
    <3> QED BY <1>2, <3>1
  <2>2. x \in {t[k] : k \in DOMAIN t}
    BY <1>1, <1>2
  <2>3. \A k \in DOMAIN t : t[k] \in S \cup {x}
    <3> TAKE k \in DOMAIN t
    <3>1. CASE k = n + 1
      BY <1>2, <3>1
    <3>2. CASE k # n + 1
      <4>1. k \in 1 .. n
        BY <1>1, <1>2, <3>2
      <4> QED BY <1>1, <1>2, <4>1
    <3> QED BY <3>1, <3>2
  <2> QED BY <2>1, <2>2, <2>3
<1> QED BY <1>1, <1>2, <1>3 DEF t, n

(* A number that is not below any element is the greatest once it is added. *)
LEMMA NewGreatest ==
    ASSUME NEW S, NEW m \in Nat, \A k \in {0} \cup S : m >= k
    PROVE  IsGreatest(m, {0} \cup (S \cup {m}))
BY DEF IsGreatest

(* Max is the greatest element where there is one.                          *)
LEMMA GreatestIsMax ==
    ASSUME NEW S \in SUBSET Nat, NEW m, IsGreatest(m, S)
    PROVE  m = Max(S)
<1>1. \A x, y \in S : x >= y /\ y >= x => x = y
  OBVIOUS
<1>2. m \in S /\ \A y \in S : m >= y
  BY DEF IsGreatest
<1>3. Max(S) \in S /\ \A y \in S : Max(S) >= y
  BY <1>2 DEF Max
<1> QED BY <1>1, <1>2, <1>3

(* A set counted through an injective image in the queue.                   *)
LEMMA QueueCounts ==
    ASSUME NEW q, Len(q) \in Nat, DOMAIN q = 1 .. Len(q),
           \A k, l \in DOMAIN q : q[k] = q[l] => k = l,
           NEW O, NEW f \in [O -> {q[k] : k \in DOMAIN q}],
           \A i, j \in O : f[i] = f[j] => i = j,
           \A k \in DOMAIN q : \E i \in O : f[i] = q[k]
    PROVE  IsFiniteSet(O) /\ Cardinality(O) = Len(q)
<1> DEFINE Q == {q[k] : k \in DOMAIN q}
           n == Len(q)
           at == [k \in 1 .. n |-> CHOOSE i \in O : f[i] = q[k]]
<1>1. \A k \in 1 .. n : at[k] \in O /\ f[at[k]] = q[k]
  OBVIOUS
<1>2. at \in [1 .. n -> O]
  BY <1>1
<1>3. \A k, l \in 1 .. n : at[k] = at[l] => k = l
  BY <1>1
<1>4. \A i \in O : \E k \in 1 .. n : at[k] = i
  <2> TAKE i \in O
  <2>1. PICK k \in 1 .. n : f[i] = q[k]
    OBVIOUS
  <2> QED BY <1>1, <2>1
<1> HIDE DEF at
<1>5. at \in Bijection(1 .. n, O)
  BY <1>2, <1>3, <1>4 DEF Bijection, Injection, Surjection, IsInjective
<1>6. ExistsBijection(1 .. n, O)
  BY <1>5 DEF ExistsBijection
<1> QED BY <1>6, FS_NatBijection, FS_CountingElements

-----------------------------------------------------------------------------
(* Consequences of the invariant.                                           *)

(* The limits of the policy and of the log are numbers.                     *)
LEMMA PolicyBounds ==
    /\ MaximumFutureTicks \in Nat /\ MaxRecords \in Nat
    /\ MaxRecords <= UInt64Max
    /\ MaxCommandVelocity \in Int
BY PolicyAssumption, Bounds DEF UInt64, Int64

(* The fields of an envelope are numbers, and its translation a command.    *)
LEMMA EnvelopeFacts ==
    ASSUME NEW c \in Envelopes
    PROVE  /\ translate(c) \in VelocityCommand
           /\ translate(c).target_tick = c.target_tick
           /\ translate(c).entity_id = c.entity_id
           /\ translate(c).sequence = c.sequence
           /\ translate(c).velocity = c.velocity
           /\ c.target_tick \in Nat /\ c.sequence \in Nat
           /\ c.sequence \in UInt64 /\ c.target_tick \in UInt64
           /\ c.entity_id \in EntityIds /\ c.entity_id \in Nat
           /\ c.velocity \in Vector
<1>1. c \in CommandEnvelope
  BY PipelineAssumption
<1>2. /\ c.target_tick \in UInt64 /\ c.sequence \in UInt64
      /\ c.entity_id \in EntityIds /\ c.velocity \in Vector
  BY <1>1 DEF CommandEnvelope
<1> QED BY <1>2, Bounds DEF translate, VelocityCommand

(* The types that the proofs below read off the invariant.                  *)
LEMMA InvFacts ==
    ASSUME Inv
    PROVE  /\ Len(Records) \in Nat /\ DOMAIN Records = 1 .. Len(Records)
           /\ AcceptedRecords \subseteq 1 .. Len(Records)
           /\ world.tick_index \in Nat /\ world.tick_index \in UInt64
           /\ Len(world.pending) \in Nat
           /\ DOMAIN world.pending = 1 .. Len(world.pending)
           /\ \A i \in AcceptedRecords : Entry(i).envelope \in Envelopes
           /\ \A s \in Sessions :
                 /\ sessions[s].highest_accepted_sequence \in Nat
                 /\ sessions[s].highest_accepted_sequence \in UInt64
<1>1. Len(Records) \in Nat /\ DOMAIN Records = 1 .. Len(Records)
  BY AppendUntyped DEF Inv, LogInv
<1>2. /\ world.tick_index \in UInt64 /\ world.pending \in Seq(VelocityCommand)
  BY DEF Inv, WorldInv, IsWorld
<1>3. \A s \in Sessions : sessions[s].highest_accepted_sequence \in UInt64
  BY DEF Inv, IdentityInv, CommandSession
<1>4. AcceptedRecords \subseteq DOMAIN Records
  BY DEF AcceptedRecords
<1>5. /\ world.tick_index \in Nat
      /\ Len(world.pending) \in Nat
      /\ DOMAIN world.pending = 1 .. Len(world.pending)
  <2>1. world.tick_index \in Nat
    BY <1>2, Bounds
  <2>2. PICK q \in Seq(VelocityCommand) : q = world.pending
    BY <1>2
  <2>3. Len(q) \in Nat /\ DOMAIN q = 1 .. Len(q)
    OBVIOUS
  <2> QED BY <2>1, <2>2, <2>3
<1>6. \A i \in AcceptedRecords : Entry(i).envelope \in Envelopes
  BY <1>4 DEF Inv, EnvelopeInv
<1>7. \A s \in Sessions : sessions[s].highest_accepted_sequence \in Nat
  BY <1>3, Bounds
<1>8. AcceptedRecords \subseteq 1 .. Len(Records)
  BY <1>1, <1>4
<1> QED BY <1>1, <1>2, <1>3, <1>5, <1>6, <1>7, <1>8

(* No two accepted records hold the same number for the same entity.        *)
LEMMA AcceptedDistinct ==
    ASSUME Inv, NEW i \in AcceptedRecords, NEW j \in AcceptedRecords,
           Entry(i).envelope.entity_id = Entry(j).envelope.entity_id,
           Entry(i).envelope.sequence = Entry(j).envelope.sequence
    PROVE  i = j
<1>1. /\ i \in Nat /\ j \in Nat
      /\ Entry(i).envelope.sequence \in Nat
      /\ Entry(j).envelope.sequence \in Nat
  BY InvFacts, EnvelopeFacts
<1>2. ~(i < j) /\ ~(j < i)
  BY <1>1 DEF Inv, EntityOrderAcrossSessions
<1> QED BY <1>1, <1>2

(* The queue holds exactly the open records, each once.                     *)
LEMMA QueueFollows ==
    ASSUME Inv
    PROVE  QueueMatchesEvidence /\ Len(world.pending) <= Len(Records)
<1> DEFINE q == world.pending
           f == [i \in OpenRecords |-> translate(Entry(i).envelope)]
<1>1. \A k, l \in DOMAIN q : q[k] = q[l] => k = l
  BY UniqueSequence DEF Inv
<1>2. {q[k] : k \in DOMAIN q} = {translate(Entry(i).envelope) : i \in OpenRecords}
  BY DEF Inv, OpenInv, Queued
<1>3. \A i, j \in OpenRecords : f[i] = f[j] => i = j
  <2> SUFFICES ASSUME NEW i \in OpenRecords, NEW j \in OpenRecords, f[i] = f[j]
               PROVE  i = j
    OBVIOUS
  <2>1. i \in AcceptedRecords /\ j \in AcceptedRecords
    BY DEF OpenRecords
  <2>2. translate(Entry(i).envelope) = translate(Entry(j).envelope)
    OBVIOUS
  <2> QED BY <2>1, <2>2, InvFacts, EnvelopeFacts, AcceptedDistinct
<1>4. IsFiniteSet(OpenRecords) /\ Cardinality(OpenRecords) = Len(q)
  <2>1. f \in [OpenRecords -> {q[k] : k \in DOMAIN q}]
    BY <1>2
  <2>2. \A k \in DOMAIN q : \E i \in OpenRecords : f[i] = q[k]
    BY <1>2
  <2>3. Len(q) \in Nat /\ DOMAIN q = 1 .. Len(q)
    BY InvFacts
  <2> HIDE DEF q, f
  <2> QED BY <1>1, <1>3, <2>1, <2>2, <2>3, QueueCounts
<1>5. Len(q) <= Len(Records)
  <2>1. OpenRecords \in SUBSET (1 .. Len(Records))
    BY InvFacts DEF OpenRecords
  <2>2. PICK n \in Nat : n = Len(Records)
    BY InvFacts
  <2>3. IsFiniteSet(1 .. n) /\ Cardinality(1 .. n) = n
    BY FS_Interval
  <2>4. Cardinality(OpenRecords) <= Cardinality(1 .. n)
    BY <2>1, <2>2, <2>3, FS_Subset
  <2> QED BY <1>4, <2>2, <2>3, <2>4
<1>6. QueueMatchesEvidence
  BY <1>2, <1>4 DEF QueueMatchesEvidence, OpenRecords
<1> QED BY <1>5, <1>6

(* Motion: the newest due record is unique, so that any is the chosen one.  *)
LEMMA MotionFollows ==
    ASSUME Inv
    PROVE  MotionIsEvidenced
<1> SUFFICES ASSUME NEW e \in DOMAIN world.entities
             PROVE  IF DueRecords(e) = {}
                    THEN world.entities[e].last_sequence = 0
                    ELSE LET newest == CHOOSE i \in DueRecords(e) :
                                         \A j \in DueRecords(e) :
                                           Entry(i).envelope.sequence
                                             >= Entry(j).envelope.sequence
                         IN  /\ world.entities[e].velocity
                                  = Entry(newest).envelope.velocity
                             /\ world.entities[e].last_sequence
                                  = Entry(newest).envelope.sequence
  BY DEF MotionIsEvidenced, DueRecords
<1>1. CASE DueRecords(e) = {}
  BY <1>1 DEF Inv, ExecutedInv
<1>2. CASE DueRecords(e) # {}
  <2> DEFINE N(i) == \A j \in DueRecords(e) : Entry(i).envelope.sequence
                                                >= Entry(j).envelope.sequence
             newest == CHOOSE i \in DueRecords(e) : N(i)
  <2>1. PICK i \in DueRecords(e) :
           /\ world.entities[e].velocity = Entry(i).envelope.velocity
           /\ world.entities[e].last_sequence = Entry(i).envelope.sequence
    BY <1>2 DEF Inv, ExecutedInv
  <2>2. \A j \in DueRecords(e) :
           Entry(j).envelope.sequence <= Entry(i).envelope.sequence
    BY <2>1 DEF Inv, ExecutedInv
  <2>3. \A j \in DueRecords(e) : /\ Entry(j).envelope.sequence \in Nat
                                 /\ Entry(j).envelope.entity_id = e
                                 /\ j \in AcceptedRecords
    BY InvFacts, EnvelopeFacts DEF DueRecords
  <2>4. N(i)
    BY <2>2, <2>3
  <2>5. newest \in DueRecords(e) /\ N(newest)
    BY <2>4
  <2> HIDE DEF newest
  <2>6. Entry(newest).envelope.sequence = Entry(i).envelope.sequence
    BY <2>2, <2>3, <2>5
  <2>7. newest = i
    BY <2>3, <2>5, <2>6, AcceptedDistinct
  <2> QED BY <1>2, <2>1, <2>7 DEF newest
<1> QED BY <1>1, <1>2

(* Sessions: the greatest element is Max.                                   *)
LEMMA SessionsFollow ==
    ASSUME Inv
    PROVE  SessionFollowsEvidence
<1>1. \A s \in Sessions : \A n : {0} \cup AcceptedBefore(s, n) \in SUBSET Nat
  BY InvFacts, EnvelopeFacts DEF AcceptedBefore
<1>2. \A s \in Sessions :
         /\ \A n \in DOMAIN Records : author[n] = s =>
               Entry(n).session_sequence_before
                 = Max({0} \cup AcceptedBefore(s, n))
         /\ sessions[s].highest_accepted_sequence
              = Max({0} \cup AcceptedBefore(s, Len(Records) + 1))
  BY <1>1, GreatestIsMax DEF Inv, SessionInv
<1> QED BY <1>2 DEF SessionFollowsEvidence, AcceptedBefore

(* The invariant implies the properties of CommandPipeline.                 *)
LEMMA InvImplies ==
    ASSUME Inv
    PROVE  EvidenceAgrees /\ AdmissionIsExact
<1>1. TypeOK
  BY DEF Inv, WorldInv, LogInv, IdentityInv, TypeOK
<1>2. NoLogicError
  BY LoopDoesNotThrow DEF Inv, NoLogicError
<1> QED BY <1>1, <1>2, QueueFollows, MotionFollows, SessionsFollow
        DEF Inv, EvidenceAgrees

-----------------------------------------------------------------------------
(* The three outcomes of a submission: a full log throws and nothing is     *)
(* touched, or a record is appended and the command refused or accepted.    *)

Admitted(s, cmd) == evaluate(cmd, sessions[s], world.tick_index) = "none"

Appended(s, cmd, en) ==
    /\ ~log_is_full(log)
    /\ log' = append(log, en)
    /\ author' = Append(author, s)
    /\ en.envelope = cmd
    /\ en.observed_tick = world.tick_index
    /\ en.session_sequence_before = sessions[s].highest_accepted_sequence
    /\ en.pending_commands_before = Len(world.pending)
    /\ en.queue_outcome # "not_attempted" <=> Admitted(s, cmd)

AcceptStep(s, cmd, en) ==
    /\ Appended(s, cmd, en)
    /\ Admitted(s, cmd)
    /\ queue_velocity_result(world, translate(cmd)) = "accepted"
    /\ en.rejection_code = "none"
    /\ en.queue_outcome = "accepted"
    /\ en.session_sequence_after = cmd.sequence
    /\ en.pending_commands_after
         = Len(queue_velocity(world, translate(cmd)).pending)
    /\ world' = queue_velocity(world, translate(cmd))
    /\ sessions' = [sessions EXCEPT
                      ![s] = commit_accepted_sequence(sessions[s], cmd.sequence)]

RefuseStep(s, cmd, en) ==
    /\ Appended(s, cmd, en)
    /\ en.rejection_code # "none"
    /\ en.queue_outcome # "accepted"
    /\ en.queue_outcome # "not_attempted" =>
          en.rejection_code = command_rejection_from_queue_result(en.queue_outcome)
    /\ en.session_sequence_after = en.session_sequence_before
    /\ en.pending_commands_after = en.pending_commands_before
    /\ UNCHANGED <<world, sessions>>

(* A submission is refused by a full log, is accepted, or is refused and    *)
(* recorded with its reason.                                                *)
LEMMA SubmitCases ==
    ASSUME Inv, NEW s \in Sessions, NEW cmd \in Envelopes, Submit(s, cmd)
    PROVE  \/ UNCHANGED vars
           \/ \E en : AcceptStep(s, cmd, en) \/ RefuseStep(s, cmd, en)
<1> DEFINE S == sessions[s]
           c == translate(cmd)
           admission == evaluate(cmd, S, world.tick_index)
           queued == queue_velocity_result(world, c)
           outcome == IF admission # "none" THEN "not_attempted" ELSE queued
           code == IF admission # "none" THEN admission
                   ELSE command_rejection_from_queue_result(queued)
           w2 == IF admission # "none" THEN world ELSE queue_velocity(world, c)
           s2 == IF code = "none" THEN commit_accepted_sequence(S, cmd.sequence)
                 ELSE S
           en == [world_fingerprint_before |-> fingerprint_world_state(world),
                  observed_tick |-> world.tick_index,
                  envelope |-> cmd,
                  session_sequence_before |-> S.highest_accepted_sequence,
                  session_sequence_after |-> s2.highest_accepted_sequence,
                  pending_commands_before |-> Len(world.pending),
                  pending_commands_after |-> Len(w2.pending),
                  rejection_code |-> code,
                  queue_outcome |-> outcome]
           r == submit(S, world, log, cmd)
<1>1. /\ world' = r.world
      /\ sessions' = [sessions EXCEPT ![s] = r.session]
      /\ log' = r.log
      /\ author' = IF r.code = "length_error" THEN author ELSE Append(author, s)
  BY DEF Submit
<1>2. [sessions EXCEPT ![s] = S] = sessions
  BY DEF Inv, IdentityInv
<1>3. /\ log_is_full(log) =>
            r = [session |-> S, world |-> world, log |-> log,
                 code |-> "length_error"]
      /\ ~log_is_full(log) =>
            r = [session |-> s2, world |-> w2, log |-> append(log, en),
                 code |-> code]
  BY DEF submit
<1>4. /\ queued \in {"accepted", "stale_tick", "unknown_entity",
                     "sequence_not_increasing", "target_tick_regression",
                     "velocity_out_of_range"}
  BY DEF queue_velocity_result
<1>5. /\ command_rejection_from_queue_result(queued) = "none"
            <=> queued = "accepted"
      /\ command_rejection_from_queue_result(queued) # "length_error"
  <2> HIDE DEF queued
  <2> QED BY <1>4 DEF command_rejection_from_queue_result, QueueRejection
<1>6. admission # "length_error"
  BY DEF evaluate, validate
<1>7. queued # "accepted" => queue_velocity(world, c) = world
  BY DEF queue_velocity
<1>8. /\ (commit_accepted_sequence(S, cmd.sequence)).highest_accepted_sequence
           = cmd.sequence
  <2>1. S \in CommandSession
    BY DEF Inv, IdentityInv
  <2> QED BY <2>1 DEF commit_accepted_sequence, CommandSession
<1>9. /\ en.observed_tick = world.tick_index
      /\ en.envelope = cmd
      /\ en.session_sequence_before = S.highest_accepted_sequence
      /\ en.session_sequence_after = s2.highest_accepted_sequence
      /\ en.pending_commands_before = Len(world.pending)
      /\ en.pending_commands_after = Len(w2.pending)
      /\ en.rejection_code = code
      /\ en.queue_outcome = outcome
  <2> HIDE DEF s2, w2, code, outcome, S, c
  <2> QED OBVIOUS
<1> HIDE DEF r, en, queued, admission, S
<1>10. CASE log_is_full(log)
  BY <1>1, <1>2, <1>3, <1>10 DEF vars
<1>11. CASE ~log_is_full(log)
  <2>1. r.session = s2 /\ r.world = w2 /\ r.log = append(log, en) /\ r.code = code
    <3> HIDE DEF s2, w2, code, outcome
    <3> QED BY <1>3, <1>11
  <2>2. code # "length_error"
    BY <1>5, <1>6
  <2>3. Appended(s, cmd, en)
    <3>1. outcome # "not_attempted" <=> admission = "none"
      BY <1>4
    <3> HIDE DEF outcome, code, s2, w2
    <3> QED BY <1>1, <1>9, <1>11, <2>1, <2>2, <3>1
            DEF Appended, Admitted, admission, S
  <2>4. CASE admission = "none" /\ queued = "accepted"
    <3>1. /\ code = "none" /\ outcome = "accepted"
          /\ w2 = queue_velocity(world, c)
          /\ s2 = commit_accepted_sequence(S, cmd.sequence)
      BY <1>5, <2>4
    <3> HIDE DEF outcome, code, s2, w2
    <3>2. AcceptStep(s, cmd, en)
      BY <1>1, <1>8, <1>9, <2>1, <2>3, <2>4, <3>1
         DEF AcceptStep, Admitted, admission, S, queued
    <3> QED BY <3>2
  <2>5. CASE ~(admission = "none" /\ queued = "accepted")
    <3>1. /\ code # "none" /\ outcome # "accepted"
          /\ w2 = world /\ s2 = S
          /\ outcome # "not_attempted" =>
                code = command_rejection_from_queue_result(outcome)
      BY <1>4, <1>5, <1>7, <2>5
    <3> HIDE DEF outcome, code, s2, w2
    <3>2. RefuseStep(s, cmd, en)
      BY <1>1, <1>2, <1>9, <2>1, <2>3, <3>1 DEF RefuseStep
    <3> QED BY <3>2
  <2> QED BY <2>4, <2>5
<1> QED BY <1>10, <1>11

(* The checks of validator and session, in their order, admit exactly what  *)
(* the policy allows.                                                       *)
LEMMA AdmittedIsAdmissible ==
    ASSUME Inv, NEW s \in Sessions, NEW cmd \in Envelopes, NEW en,
           Appended(s, cmd, en)
    PROVE  Admitted(s, cmd) <=> Admissible(en, s)
<1> DEFINE S == sessions[s]
           h == S.highest_accepted_sequence
           t == world.tick_index
<1>1. /\ S.client_id = Identity[s].client_id /\ S.client_id # 0
      /\ S.session_id = Identity[s].session_id /\ S.session_id # 0
  BY PipelineAssumption DEF Inv, IdentityInv
<1>2. h \in Nat /\ t \in Nat
  BY InvFacts
<1>3. /\ cmd.sequence \in Nat /\ cmd.sequence <= UInt64Max
      /\ cmd.target_tick \in Nat /\ cmd.velocity \in Vector
  BY EnvelopeFacts, Bounds DEF UInt64
<1>4. /\ en.envelope = cmd /\ en.observed_tick = t
      /\ en.session_sequence_before = h
  BY DEF Appended
<1> HIDE DEF S, h, t
<1>5. cmd.sequence \in h + 1 .. UInt64Max <=> /\ cmd.sequence # 0
                                              /\ cmd.sequence # h
                                              /\ ~(cmd.sequence < h)
  BY <1>2, <1>3, Bounds
<1>6. cmd.target_tick \in t + 1 .. t + MaximumFutureTicks <=>
         ~(cmd.target_tick <= t) /\ ~(cmd.target_tick - t > MaximumFutureTicks)
  BY <1>2, <1>3, PolicyBounds
<1>7. command_velocity_is_valid(cmd.velocity) <=>
         \A a \in Axis : cmd.velocity[a] \in -MaxCommandVelocity .. MaxCommandVelocity
  <2>1. \A a \in Axis : cmd.velocity[a] \in Int
    BY <1>3, Bounds DEF Vector
  <2> QED BY <2>1, PolicyBounds
          DEF command_velocity_is_valid, within_symmetric_limit
<1>8. validate(cmd, S, t) = "none" <=>
         /\ cmd.schema_version = "v1" /\ cmd.type = "set_velocity"
         /\ cmd.client_id # 0 /\ cmd.session_id # 0
         /\ cmd.client_id = S.client_id /\ cmd.session_id = S.session_id
         /\ cmd.sequence # 0
         /\ ~(cmd.target_tick <= t) /\ ~(cmd.target_tick - t > MaximumFutureTicks)
         /\ command_velocity_is_valid(cmd.velocity)
  BY DEF validate
<1>9. Admitted(s, cmd) <=> /\ validate(cmd, S, t) = "none"
                           /\ cmd.sequence # h /\ ~(cmd.sequence < h)
  BY DEF Admitted, evaluate, S, t, h
<1>10. Admissible(en, s) <=>
         /\ cmd.schema_version = "v1" /\ cmd.type = "set_velocity"
         /\ cmd.client_id = S.client_id /\ cmd.session_id = S.session_id
         /\ cmd.sequence \in h + 1 .. UInt64Max
         /\ cmd.target_tick \in t + 1 .. t + MaximumFutureTicks
         /\ \A a \in Axis :
               cmd.velocity[a] \in -MaxCommandVelocity .. MaxCommandVelocity
  BY <1>1, <1>4 DEF Admissible
<1> QED BY <1>1, <1>5, <1>6, <1>7, <1>8, <1>9, <1>10

(* What appending a record does to log, authors and the record numbers.     *)
LEMMA AppendedFacts ==
    ASSUME Inv, NEW s \in Sessions, NEW cmd \in Envelopes, NEW en,
           Appended(s, cmd, en), NEW n \in Nat, n = Len(Records)
    PROVE  /\ LogInv'
           /\ Len(Records)' = n + 1
           /\ DOMAIN Records' = 1 .. n + 1
           /\ \A i \in 1 .. n : /\ Records'[i] = Records[i]
                                /\ Entry(i)' = Entry(i)
                                /\ author'[i] = author[i]
           /\ Entry(n + 1)' = en
           /\ author'[n + 1] = s
           /\ en.rejection_code = "none" =>
                 AcceptedRecords' = AcceptedRecords \cup {n + 1}
           /\ en.rejection_code # "none" => AcceptedRecords' = AcceptedRecords
           /\ verify_command_evidence_chain(Records, log.head_digest)'
<1> DEFINE rec == [ordinal |-> n, previous_record_digest |-> log.head_digest,
                   entry |-> en]
<1>1. /\ log' = [records |-> Append(Records, rec),
                 head_digest |-> digest_command_evidence(rec)]
      /\ author' = Append(author, s)
      /\ n # MaxRecords
  BY DEF Appended, append, log_is_full, Records
<1>2. /\ rec.ordinal = n /\ rec.previous_record_digest = log.head_digest
      /\ rec.entry = en
  OBVIOUS
<1> HIDE DEF rec
<1>3. Records' = Append(Records, rec) /\ log.head_digest' = digest_command_evidence(rec)
  BY <1>1 DEF Records
<1>4. /\ n \in Nat /\ DOMAIN Records = 1 .. n
      /\ Len(Records') = n + 1
      /\ DOMAIN Records' = 1 .. n + 1
      /\ \A i \in 1 .. n : Records'[i] = Records[i]
      /\ Records'[n + 1] = rec
      /\ Records' \in Seq({Records'[i] : i \in DOMAIN Records'})
  BY <1>3, AppendUntyped DEF Inv, LogInv
<1>5. /\ author' \in Seq(Sessions) /\ Len(author') = n + 1
      /\ \A i \in 1 .. n : author'[i] = author[i]
      /\ author'[n + 1] = s
  <2>1. author \in Seq(Sessions) /\ Len(author) = n
    BY DEF Inv, LogInv
  <2> QED BY <1>1, <2>1
<1>6. LogInv'
  <2>1. n <= MaxRecords
    BY DEF Inv, LogInv
  <2>2. n + 1 <= MaxRecords
    BY <1>1, <1>4, <2>1, PolicyBounds
  <2>3. log' = [records |-> log'.records, head_digest |-> log'.head_digest]
    BY <1>1
  <2> QED BY <1>4, <1>5, <2>2, <2>3 DEF LogInv
<1>7. /\ \A i \in 1 .. n : Entry(i)' = Entry(i)
      /\ Entry(n + 1)' = en
  BY <1>2, <1>4 DEF Entry
<1>8. /\ en.rejection_code = "none" =>
            AcceptedRecords' = AcceptedRecords \cup {n + 1}
      /\ en.rejection_code # "none" => AcceptedRecords' = AcceptedRecords
  <2>1. AcceptedRecords' = {i \in 1 .. n + 1 : Entry(i)'.rejection_code = "none"}
    BY <1>4 DEF AcceptedRecords
  <2>2. AcceptedRecords = {i \in 1 .. n : Entry(i).rejection_code = "none"}
    BY <1>4 DEF AcceptedRecords
  <2>3. \A i : i \in 1 .. n + 1 <=> i \in 1 .. n \/ i = n + 1
    BY <1>4
  <2> QED BY <1>7, <2>1, <2>2, <2>3
<1>9. verify_command_evidence_chain(Records, log.head_digest)'
  <2> DEFINE P(i) == IF i = 0 THEN InitialDigest
                     ELSE digest_command_evidence(Records[i])
             Q(i) == IF i = 0 THEN InitialDigest
                     ELSE digest_command_evidence(Records'[i])
  <2>1. /\ \A i \in 1 .. n : /\ Records[i].ordinal = i - 1
                             /\ Records[i].previous_record_digest = P(i - 1)
        /\ P(n) = log.head_digest
    BY <1>4 DEF Inv, EvidenceReadsBack, verify_command_evidence_chain
  <2>2. \A i \in 0 .. n : Q(i) = P(i)
    <3>1. \A i \in 0 .. n : i = 0 \/ i \in 1 .. n
      BY <1>4
    <3> QED BY <1>4, <3>1
  <2>3. Q(n + 1) = log'.head_digest
    BY <1>3, <1>4
  <2> HIDE DEF P, Q
  <2>4. \A i \in 1 .. n + 1 : /\ Records'[i].ordinal = i - 1
                             /\ Records'[i].previous_record_digest = Q(i - 1)
    <3> TAKE i \in 1 .. n + 1
    <3>1. CASE i = n + 1
      <4>1. i - 1 = n /\ n \in 0 .. n
        BY <1>4, <3>1
      <4> QED BY <1>2, <1>4, <2>1, <2>2, <3>1, <4>1
    <3>2. CASE i # n + 1
      <4>1. i \in 1 .. n /\ i - 1 \in 0 .. n
        BY <1>4, <3>2
      <4> QED BY <1>4, <2>1, <2>2, <4>1
    <3> QED BY <3>1, <3>2
  <2> QED BY <1>4, <2>3, <2>4 DEF verify_command_evidence_chain, Q
<1> QED BY <1>4, <1>5, <1>6, <1>7, <1>8, <1>9

(* What holds of a new record whatever its outcome.                         *)
LEMMA AppendedKeeps ==
    ASSUME Inv, NEW s \in Sessions, NEW cmd \in Envelopes, NEW en,
           Appended(s, cmd, en), NEW n \in Nat, n = Len(Records)
    PROVE  /\ EnvelopeInv'
           /\ AdmissionIsExact'
           /\ \A x \in Sessions : \A m \in 1 .. n + 1 :
                 AcceptedBefore(x, m)' = AcceptedBefore(x, m)
           /\ \A x \in Sessions : x # s \/ en.rejection_code # "none" =>
                 AcceptedBefore(x, n + 2)' = AcceptedBefore(x, n + 1)
           /\ en.rejection_code = "none" =>
                 AcceptedBefore(s, n + 2)'
                   = AcceptedBefore(s, n + 1) \cup {cmd.sequence}
<1>1. /\ DOMAIN Records = 1 .. n
      /\ DOMAIN Records' = 1 .. n + 1
      /\ \A i \in 1 .. n : /\ Entry(i)' = Entry(i)
                           /\ author'[i] = author[i]
      /\ Entry(n + 1)' = en
      /\ author'[n + 1] = s
      /\ AcceptedRecords \subseteq 1 .. n
      /\ en.rejection_code = "none" =>
            AcceptedRecords' = AcceptedRecords \cup {n + 1}
      /\ en.rejection_code # "none" => AcceptedRecords' = AcceptedRecords
  BY AppendedFacts, InvFacts
<1>2. \A i : i \in 1 .. n + 1 <=> i \in 1 .. n \/ i = n + 1
  OBVIOUS
<1>3. en.envelope = cmd
  BY DEF Appended
<1>4. EnvelopeInv'
  BY <1>1, <1>2, <1>3 DEF EnvelopeInv, Inv
<1>5. AdmissionIsExact'
  <2>1. en.queue_outcome # "not_attempted" <=> Admissible(en, s)
    BY AdmittedIsAdmissible DEF Appended
  <2>2. \A i \in 1 .. n : Entry(i).queue_outcome # "not_attempted"
                            <=> Admissible(Entry(i), author[i])
    BY <1>1 DEF Inv, AdmissionIsExact
  <2>3. \A i \in 1 .. n + 1 : Entry(i)'.queue_outcome # "not_attempted"
                                <=> Admissible(Entry(i)', author'[i])
    BY <1>1, <1>2, <2>1, <2>2
  <2> QED BY <1>1, <2>3 DEF AdmissionIsExact, Admissible
<1>6. \A x \in Sessions : \A m \in 1 .. n + 1 :
         AcceptedBefore(x, m)' = AcceptedBefore(x, m)
  <2> TAKE x \in Sessions
  <2> TAKE m \in 1 .. n + 1
  <2>1. {j \in AcceptedRecords' : j < m /\ author'[j] = x}
          = {j \in AcceptedRecords : j < m /\ author[j] = x}
    <3>1. ~(n + 1 < m)
      OBVIOUS
    <3> QED BY <1>1, <3>1
  <2>2. \A j \in AcceptedRecords : Entry(j)' = Entry(j)
    BY <1>1
  <2> QED BY <2>1, <2>2 DEF AcceptedBefore
<1>7. ASSUME NEW x \in Sessions, x # s \/ en.rejection_code # "none"
      PROVE  AcceptedBefore(x, n + 2)' = AcceptedBefore(x, n + 1)
  <2>1. {j \in AcceptedRecords' : j < n + 2 /\ author'[j] = x}
          = {j \in AcceptedRecords : j < n + 1 /\ author[j] = x}
    <3>1. \A j \in 1 .. n : j < n + 2 /\ j < n + 1
      OBVIOUS
    <3> QED BY <1>1, <1>7, <3>1
  <2>2. \A j \in AcceptedRecords : Entry(j)' = Entry(j)
    BY <1>1
  <2> QED BY <2>1, <2>2 DEF AcceptedBefore
<1>8. ASSUME en.rejection_code = "none"
      PROVE  AcceptedBefore(s, n + 2)'
               = AcceptedBefore(s, n + 1) \cup {cmd.sequence}
  <2>1. {j \in AcceptedRecords' : j < n + 2 /\ author'[j] = s}
          = {j \in AcceptedRecords : j < n + 1 /\ author[j] = s} \cup {n + 1}
    <3>1. \A j \in 1 .. n : j < n + 2 /\ j < n + 1
      OBVIOUS
    <3>2. n + 1 < n + 2
      OBVIOUS
    <3> QED BY <1>1, <1>8, <3>1, <3>2
  <2>2. \A j \in AcceptedRecords : Entry(j)' = Entry(j)
    BY <1>1
  <2>3. Entry(n + 1)'.envelope.sequence = cmd.sequence
    BY <1>1, <1>3
  <2> QED BY <2>1, <2>2, <2>3 DEF AcceptedBefore
<1> QED BY <1>4, <1>5, <1>6, <1>7, <1>8

(* The story of the sessions goes on, given the greatest number of each.    *)
LEMMA AppendedSessions ==
    ASSUME Inv, NEW s \in Sessions, NEW cmd \in Envelopes, NEW en,
           Appended(s, cmd, en), NEW n \in Nat, n = Len(Records),
           \A x \in Sessions :
              IsGreatest(sessions'[x].highest_accepted_sequence,
                         {0} \cup AcceptedBefore(x, n + 2)')
    PROVE  SessionInv'
<1>1. /\ Len(Records)' = n + 1
      /\ DOMAIN Records = 1 .. n
      /\ DOMAIN Records' = 1 .. n + 1
      /\ \A i \in 1 .. n : Entry(i)' = Entry(i) /\ author'[i] = author[i]
      /\ Entry(n + 1)' = en
      /\ author'[n + 1] = s
  BY AppendedFacts, InvFacts
<1>2. \A x \in Sessions : \A m \in 1 .. n + 1 :
         AcceptedBefore(x, m)' = AcceptedBefore(x, m)
  BY AppendedKeeps
<1> SUFFICES ASSUME NEW x \in Sessions
             PROVE  /\ \A m \in DOMAIN Records' : author'[m] = x =>
                          IsGreatest(Entry(m)'.session_sequence_before,
                                     {0} \cup AcceptedBefore(x, m)')
                    /\ IsGreatest(sessions'[x].highest_accepted_sequence,
                                  {0} \cup AcceptedBefore(x, Len(Records) + 1)')
  BY DEF SessionInv, IsGreatest
<1>3. AcceptedBefore(x, Len(Records) + 1)' = AcceptedBefore(x, n + 2)'
  <2>1. Len(Records)' + 1 = n + 2
    BY <1>1
  <2> QED BY <2>1 DEF AcceptedBefore
<1>4. ASSUME NEW m \in 1 .. n + 1, author'[m] = x
      PROVE  IsGreatest(Entry(m)'.session_sequence_before,
                        {0} \cup AcceptedBefore(x, m))
  <2>1. CASE m = n + 1
    <3>1. x = s /\ Entry(m)'.session_sequence_before
                     = sessions[s].highest_accepted_sequence
      BY <1>1, <1>4, <2>1 DEF Appended
    <3> QED BY <2>1, <3>1 DEF Inv, SessionInv
  <2>2. CASE m # n + 1
    <3>1. m \in 1 .. n
      BY <2>2
    <3> QED BY <1>1, <1>4, <3>1 DEF Inv, SessionInv
  <2> QED BY <2>1, <2>2
<1> QED BY <1>1, <1>2, <1>3, <1>4

-----------------------------------------------------------------------------
(* Every step keeps the invariant.                                          *)

(* A refused command leaves a record and nothing else.                      *)
LEMMA RefuseKeepsInv ==
    ASSUME Inv, NEW s \in Sessions, NEW cmd \in Envelopes, NEW en,
           RefuseStep(s, cmd, en)
    PROVE  Inv'
<1>1. PICK n \in Nat : n = Len(Records)
  BY InvFacts
<1>2. Appended(s, cmd, en) /\ en.rejection_code # "none"
      /\ world' = world /\ sessions' = sessions
  BY DEF RefuseStep
<1>3. /\ LogInv'
      /\ DOMAIN Records = 1 .. n
      /\ DOMAIN Records' = 1 .. n + 1
      /\ \A i \in 1 .. n : Records'[i] = Records[i] /\ Entry(i)' = Entry(i)
      /\ Entry(n + 1)' = en
      /\ AcceptedRecords' = AcceptedRecords
      /\ verify_command_evidence_chain(Records, log.head_digest)'
  BY <1>1, <1>2, AppendedFacts, InvFacts
<1>4. \A i \in AcceptedRecords : i \in 1 .. n /\ Entry(i)' = Entry(i)
  BY <1>1, <1>3, InvFacts
<1>5. EnvelopeInv' /\ AdmissionIsExact'
  BY <1>1, <1>2, AppendedKeeps
<1>6. SessionInv'
  <2>1. \A x \in Sessions :
           AcceptedBefore(x, n + 2)' = AcceptedBefore(x, n + 1)
    BY <1>1, <1>2, AppendedKeeps
  <2>2. \A x \in Sessions :
           IsGreatest(sessions'[x].highest_accepted_sequence,
                      {0} \cup AcceptedBefore(x, n + 2)')
    BY <1>1, <1>2, <2>1 DEF Inv, SessionInv
  <2> QED BY <1>1, <1>2, <2>2, AppendedSessions
<1>7. WorldInv(world)' /\ IdentityInv'
  BY <1>2 DEF Inv, IdentityInv
<1>8. MarksInv'
  BY <1>2, <1>3, <1>4 DEF Inv, MarksInv
<1>9. OpenRecords' = OpenRecords
  BY <1>2, <1>3, <1>4 DEF OpenRecords
<1>10. OpenInv'
  <2>1. \A i \in OpenRecords : Entry(i)' = Entry(i)
    BY <1>4 DEF OpenRecords
  <2> QED BY <1>2, <1>9, <2>1 DEF Inv, OpenInv
<1>11. ExecutedInv'
  <2>1. \A e \in DOMAIN world.entities :
           /\ DueRecords(e)' = DueRecords(e)
           /\ \A i \in DueRecords(e) : Entry(i)' = Entry(i)
    BY <1>2, <1>3, <1>4 DEF DueRecords
  <2> QED BY <1>2, <2>1 DEF Inv, ExecutedInv
<1>12. EntityOrderAcrossSessions'
  BY <1>3, <1>4 DEF Inv, EntityOrderAcrossSessions
<1>13. EvidenceReadsBack'
  <2>1. validate_record_invariants(Records'[n + 1])
    <3>1. Records'[n + 1].entry = en
      BY <1>3 DEF Entry
    <3> QED BY <3>1 DEF validate_record_invariants, RefuseStep
  <2>2. \A i \in 1 .. n : validate_record_invariants(Records'[i])
    BY <1>3 DEF Inv, EvidenceReadsBack
  <2>3. \A i \in 1 .. n + 1 : validate_record_invariants(Records'[i])
    BY <2>1, <2>2
  <2> QED BY <1>3, <2>3 DEF EvidenceReadsBack, validate_record_invariants
<1> QED BY <1>3, <1>5, <1>6, <1>7, <1>8, <1>10, <1>11, <1>12, <1>13 DEF Inv

(* An accepted command leaves a record, joins the queue and raises the      *)
(* marks of its entity and the sequence of its session.                     *)
LEMMA AcceptKeepsInv ==
    ASSUME Inv, NEW s \in Sessions, NEW cmd \in Envelopes, NEW en,
           AcceptStep(s, cmd, en)
    PROVE  Inv'
<1> DEFINE c == translate(cmd)
           f == cmd.entity_id
           S == sessions[s]
<1>1. PICK n \in Nat : n = Len(Records)
  BY InvFacts
<1>2. /\ Appended(s, cmd, en) /\ en.rejection_code = "none"
      /\ world' = queue_velocity(world, c)
      /\ queue_velocity_result(world, c) = "accepted"
      /\ sessions' = [sessions EXCEPT
                        ![s] = commit_accepted_sequence(S, cmd.sequence)]
      /\ en.envelope = cmd
  BY DEF AcceptStep, Appended
<1>3. /\ LogInv'
      /\ DOMAIN Records = 1 .. n
      /\ DOMAIN Records' = 1 .. n + 1
      /\ \A i \in 1 .. n : Records'[i] = Records[i] /\ Entry(i)' = Entry(i)
      /\ Entry(n + 1)' = en
      /\ AcceptedRecords' = AcceptedRecords \cup {n + 1}
      /\ verify_command_evidence_chain(Records, log.head_digest)'
  BY <1>1, <1>2, AppendedFacts, InvFacts
<1>4. \A i \in AcceptedRecords : /\ i \in 1 .. n /\ Entry(i)' = Entry(i)
                                 /\ Entry(i).envelope \in Envelopes
  BY <1>1, <1>3, InvFacts
<1>5. EnvelopeInv' /\ AdmissionIsExact'
  BY <1>1, <1>2, AppendedKeeps
<1>6. /\ c \in VelocityCommand
      /\ c.target_tick = cmd.target_tick /\ c.entity_id = f
      /\ c.sequence = cmd.sequence
      /\ cmd.sequence \in Nat /\ cmd.target_tick \in Nat
      /\ cmd.sequence \in UInt64
  BY EnvelopeFacts
<1>7. WorldInv(world)
  BY DEF Inv
<1>8. /\ world'.tick_index = world.tick_index
      /\ world'.entities = world.entities
      /\ world'.highest_sequence
           = [world.highest_sequence EXCEPT ![f] = cmd.sequence]
      /\ world'.latest_target_tick
           = [world.latest_target_tick EXCEPT ![f] = cmd.target_tick]
      /\ Len(world'.pending) = Len(world.pending) + 1
      /\ Queued(world') = Queued(world) \cup {c}
  <2> HIDE DEF c, f
  <2>1. /\ c \in VelocityCommand
        /\ queue_velocity_result(world, c) = "accepted"
        /\ world' = queue_velocity(world, c)
        /\ c.entity_id = f /\ c.sequence = cmd.sequence
        /\ c.target_tick = cmd.target_tick
    BY <1>2, <1>6
  <2>2. /\ world'.tick_index = world.tick_index
        /\ world'.entities = world.entities
        /\ world'.highest_sequence
             = [world.highest_sequence EXCEPT ![c.entity_id] = c.sequence]
        /\ world'.latest_target_tick
             = [world.latest_target_tick EXCEPT ![c.entity_id] = c.target_tick]
        /\ Len(world'.pending) = Len(world.pending) + 1
        /\ Queued(world') = Queued(world) \cup {c}
    BY <1>7, <2>1, QueueVelocityMembers
  <2>3. /\ world'.highest_sequence
             = [world.highest_sequence EXCEPT ![f] = cmd.sequence]
        /\ world'.latest_target_tick
             = [world.latest_target_tick EXCEPT ![f] = cmd.target_tick]
    BY <2>1, <2>2
  <2> QED BY <2>2, <2>3
<1>9. /\ ~(cmd.target_tick <= world.tick_index)
      /\ f \in DOMAIN world.entities
      /\ ~(cmd.sequence <= world.highest_sequence[f])
      /\ ~(cmd.target_tick < world.latest_target_tick[f])
  <2> HIDE DEF c
  <2> QED BY <1>2, <1>6 DEF queue_velocity_result
<1> HIDE DEF c
<1>10. WorldInv(world)'
  BY <1>2, <1>6, <1>7, QueueVelocityInv
<1>11. /\ S \in CommandSession
       /\ sessions'[s] = [S EXCEPT !.highest_accepted_sequence = cmd.sequence]
       /\ \A x \in Sessions : x # s => sessions'[x] = sessions[x]
  BY <1>2 DEF Inv, IdentityInv, commit_accepted_sequence
<1>12. IdentityInv'
  <2>1. /\ sessions'[s] \in CommandSession
        /\ sessions'[s].client_id = S.client_id
        /\ sessions'[s].session_id = S.session_id
    BY <1>6, <1>11 DEF CommandSession
  <2>2. sessions' \in [Sessions -> CommandSession]
    BY <1>2, <1>11, <2>1 DEF Inv, IdentityInv
  <2>3. ASSUME NEW x \in Sessions
        PROVE  /\ sessions'[x].client_id = Identity[x].client_id
               /\ sessions'[x].session_id = Identity[x].session_id
    <3>1. CASE x = s
      BY <2>1, <3>1 DEF Inv, IdentityInv
    <3>2. CASE x # s
      BY <1>11, <3>2 DEF Inv, IdentityInv
    <3> QED BY <3>1, <3>2
  <2> QED BY <2>2, <2>3 DEF IdentityInv
<1>13. /\ world.tick_index \in Nat
       /\ DOMAIN world.highest_sequence = DOMAIN world.entities
       /\ DOMAIN world.latest_target_tick = DOMAIN world.entities
       /\ \A e \in DOMAIN world.entities :
             /\ world.highest_sequence[e] \in Nat
             /\ world.latest_target_tick[e] \in Nat
  BY <1>7, Bounds DEF WorldInv, IsWorld, IsEntityMap, SameKeys
<1>14. \A i \in AcceptedRecords :
          /\ Entry(i).envelope.entity_id \in DOMAIN world.entities
          /\ Entry(i).envelope.sequence \in Nat
          /\ Entry(i).envelope.target_tick \in Nat
          /\ Entry(i).envelope.sequence
               <= world.highest_sequence[Entry(i).envelope.entity_id]
          /\ Entry(i).envelope.target_tick
               <= world.latest_target_tick[Entry(i).envelope.entity_id]
  BY <1>4, EnvelopeFacts DEF Inv, MarksInv
<1>15. \A i \in AcceptedRecords : Entry(i).envelope.entity_id = f =>
          /\ Entry(i).envelope.sequence < cmd.sequence
          /\ Entry(i).envelope.target_tick <= cmd.target_tick
  BY <1>6, <1>9, <1>13, <1>14
<1>16. MarksInv'
  <2>1. ASSUME NEW i \in AcceptedRecords
        PROVE  LET d == Entry(i).envelope
               IN  /\ d.entity_id \in DOMAIN world'.entities
                   /\ d.sequence <= world'.highest_sequence[d.entity_id]
                   /\ d.target_tick <= world'.latest_target_tick[d.entity_id]
    <3>1. CASE Entry(i).envelope.entity_id = f
      BY <1>6, <1>8, <1>9, <1>13, <1>14, <1>15, <3>1
    <3>2. CASE Entry(i).envelope.entity_id # f
      BY <1>8, <1>13, <1>14, <3>2
    <3> QED BY <3>1, <3>2
  <2>2. /\ f \in DOMAIN world'.entities
        /\ cmd.sequence <= world'.highest_sequence[f]
        /\ cmd.target_tick <= world'.latest_target_tick[f]
    BY <1>6, <1>8, <1>9, <1>13
  <2>3. ASSUME NEW i \in AcceptedRecords'
        PROVE  LET d == Entry(i)'.envelope
               IN  /\ d.entity_id \in DOMAIN world'.entities
                   /\ d.sequence <= world'.highest_sequence[d.entity_id]
                   /\ d.target_tick <= world'.latest_target_tick[d.entity_id]
    BY <1>2, <1>3, <1>4, <2>1, <2>2
  <2> QED BY <2>3 DEF MarksInv
<1>17. OpenRecords' = OpenRecords \cup {n + 1}
  <2>1. cmd.target_tick > world.tick_index
    BY <1>6, <1>9, <1>13
  <2> QED BY <1>2, <1>3, <1>4, <1>8, <2>1 DEF OpenRecords
<1>18. OpenInv'
  <2>1. \A i \in OpenRecords : Entry(i)' = Entry(i)
    BY <1>4 DEF OpenRecords
  <2>2. translate(Entry(n + 1)'.envelope) = c
    BY <1>2, <1>3 DEF c
  <2>3. {translate(Entry(i)'.envelope) : i \in OpenRecords'}
          = {translate(Entry(i).envelope) : i \in OpenRecords} \cup {c}
    BY <1>17, <2>1, <2>2
  <2>4. Queued(world) = {translate(Entry(i).envelope) : i \in OpenRecords}
    BY DEF Inv, OpenInv
  <2>5. Queued(world') = {translate(Entry(i)'.envelope) : i \in OpenRecords'}
    BY <1>8, <2>3, <2>4
  <2> QED BY <2>5 DEF OpenInv
<1>19. ExecutedInv'
  <2>1. ~(cmd.target_tick <= world.tick_index)
    BY <1>9
  <2>2. \A e \in DOMAIN world.entities :
           /\ DueRecords(e)' = DueRecords(e)
           /\ \A i \in DueRecords(e) : Entry(i)' = Entry(i)
    BY <1>2, <1>3, <1>4, <1>8, <2>1 DEF DueRecords
  <2> QED BY <1>8, <2>2 DEF Inv, ExecutedInv
<1>20. SessionInv'
  <2> DEFINE h == S.highest_accepted_sequence
  <2>1. cmd.sequence > h
    <3>1. cmd.sequence # h /\ ~(cmd.sequence < h)
      BY DEF AcceptStep, Admitted, evaluate
    <3>2. h \in Nat
      BY InvFacts
    <3> QED BY <1>6, <3>1, <3>2
  <2>2. ASSUME NEW x \in Sessions
        PROVE  IsGreatest(sessions'[x].highest_accepted_sequence,
                          {0} \cup AcceptedBefore(x, n + 2)')
    <3>1. IsGreatest(sessions[x].highest_accepted_sequence,
                     {0} \cup AcceptedBefore(x, n + 1))
      BY <1>1 DEF Inv, SessionInv
    <3>2. CASE x # s
      <4>1. AcceptedBefore(x, n + 2)' = AcceptedBefore(x, n + 1)
        BY <1>1, <1>2, <3>2, AppendedKeeps
      <4> QED BY <1>11, <3>1, <3>2, <4>1
    <3>3. CASE x = s
      <4>1. AcceptedBefore(s, n + 2)'
              = AcceptedBefore(s, n + 1) \cup {cmd.sequence}
        BY <1>1, <1>2, AppendedKeeps
      <4>2. sessions'[s].highest_accepted_sequence = cmd.sequence
        BY <1>11 DEF CommandSession
      <4>3. h \in Nat /\ \A k \in {0} \cup AcceptedBefore(s, n + 1) :
                             k \in Nat /\ h >= k
        <5>1. h \in Nat
          BY InvFacts
        <5>2. \A k \in AcceptedBefore(s, n + 1) : k \in Nat
          BY <1>14 DEF AcceptedBefore
        <5> QED BY <3>1, <3>3, <5>1, <5>2 DEF IsGreatest
      <4>4. \A k \in {0} \cup AcceptedBefore(s, n + 1) : cmd.sequence >= k
        BY <1>6, <2>1, <4>3
      <4>5. IsGreatest(cmd.sequence,
                       {0} \cup (AcceptedBefore(s, n + 1) \cup {cmd.sequence}))
        BY <1>6, <4>4, NewGreatest
      <4>6. IsGreatest(sessions'[s].highest_accepted_sequence,
                       {0} \cup AcceptedBefore(s, n + 2)')
        BY <4>1, <4>2, <4>5
      <4> QED BY <3>3, <4>6, Zenon
    <3> QED BY <3>2, <3>3
  <2> QED BY <1>1, <1>2, <2>2, AppendedSessions
<1>21. EntityOrderAcrossSessions'
  <2> SUFFICES ASSUME NEW i \in AcceptedRecords', NEW j \in AcceptedRecords', i < j,
                      Entry(i)'.envelope.entity_id = Entry(j)'.envelope.entity_id
               PROVE  /\ Entry(i)'.envelope.sequence < Entry(j)'.envelope.sequence
                      /\ Entry(i)'.envelope.target_tick
                           <= Entry(j)'.envelope.target_tick
    BY DEF EntityOrderAcrossSessions
  <2>1. i \in AcceptedRecords
    <3>1. i # n + 1
      BY <1>3, <1>4
    <3> QED BY <1>3, <3>1
  <2>2. CASE j = n + 1
    BY <1>2, <1>3, <1>4, <1>15, <2>1, <2>2
  <2>3. CASE j # n + 1
    <3>1. j \in AcceptedRecords
      BY <1>3, <2>3
    <3> QED BY <1>4, <2>1, <3>1 DEF Inv, EntityOrderAcrossSessions
  <2> QED BY <2>2, <2>3
<1>22. EvidenceReadsBack'
  <2>1. validate_record_invariants(Records'[n + 1])
    <3>1. Records'[n + 1].entry = en
      BY <1>3 DEF Entry
    <3>2. /\ en.queue_outcome = "accepted"
          /\ en.session_sequence_after = cmd.sequence
          /\ en.session_sequence_before = S.highest_accepted_sequence
          /\ en.pending_commands_before = Len(world.pending)
          /\ en.pending_commands_after = Len(world.pending) + 1
      BY <1>2, <1>8 DEF AcceptStep, Appended, c
    <3>3. cmd.sequence > S.highest_accepted_sequence
      <4>1. /\ cmd.sequence # S.highest_accepted_sequence
            /\ ~(cmd.sequence < S.highest_accepted_sequence)
        BY DEF AcceptStep, Admitted, evaluate
      <4>2. S.highest_accepted_sequence \in Nat
        BY InvFacts
      <4> QED BY <1>6, <4>1, <4>2
    <3>4. Len(world.pending) # UInt64Max
      <4>1. Len(world.pending) \in Nat /\ Len(world.pending) <= n
        BY <1>1, InvFacts, QueueFollows
      <4>2. n # MaxRecords /\ n <= MaxRecords
        BY <1>1, <1>2 DEF Appended, log_is_full, Records, Inv, LogInv
      <4> HIDE DEF S
      <4>3. PICK p \in Nat : p = Len(world.pending)
        BY <4>1
      <4> QED BY <4>1, <4>2, <4>3, PolicyBounds, Bounds
    <3>5. command_rejection_from_queue_result("accepted") = "none"
      BY DEF command_rejection_from_queue_result, QueueRejection
    <3> QED BY <1>2, <3>1, <3>2, <3>3, <3>4, <3>5
            DEF validate_record_invariants
  <2>2. \A i \in 1 .. n : validate_record_invariants(Records'[i])
    BY <1>3 DEF Inv, EvidenceReadsBack
  <2>3. \A i \in 1 .. n + 1 : validate_record_invariants(Records'[i])
    BY <2>1, <2>2
  <2> QED BY <1>3, <2>3 DEF EvidenceReadsBack, validate_record_invariants
<1> QED BY <1>3, <1>5, <1>10, <1>12, <1>16, <1>18, <1>19, <1>20, <1>21, <1>22
        DEF Inv

(* A new entity has no record, no command and no mark above its tick.       *)
LEMMA AddEntityKeepsInv ==
    ASSUME Inv, NEW e \in EntityIds, NEW p \in Positions, NEW v \in Velocities,
           AddEntity(e, p, v)
    PROVE  Inv'
<1>1. world' = add_entity(world, e, p, v) /\ UNCHANGED <<sessions, log, author>>
  BY DEF AddEntity
<1>2. /\ Records' = Records /\ AcceptedRecords' = AcceptedRecords
      /\ \A i : Entry(i)' = Entry(i)
  BY <1>1 DEF Records, AcceptedRecords, Entry
<1>3. /\ LogInv' /\ IdentityInv' /\ EnvelopeInv'
      /\ EntityOrderAcrossSessions' /\ EvidenceReadsBack' /\ AdmissionIsExact'
  BY ZenonT(40), <1>1, <1>2 DEF Inv, LogInv, IdentityInv, EnvelopeInv,
       EntityOrderAcrossSessions, EvidenceReadsBack,
       verify_command_evidence_chain, validate_record_invariants,
       AdmissionIsExact, Admissible
<1>4. SessionInv'
  <2>1. \A x, n : AcceptedBefore(x, n)' = AcceptedBefore(x, n)
    BY <1>1, <1>2 DEF AcceptedBefore
  <2> QED BY <1>1, <1>2, <2>1 DEF Inv, SessionInv, IsGreatest
<1>5. WorldInv(world) /\ WorldInv(world)'
  BY <1>1, AddEntityInv, PipelineAssumption DEF Inv
<1>6. CASE add_entity_result(world, e, p, v) # "added"
  <2>1. world' = world
    BY <1>1, <1>6 DEF add_entity
  <2>2. MarksInv' /\ OpenRecords' = OpenRecords
    BY <1>2, <2>1 DEF Inv, MarksInv, OpenRecords
  <2>3. OpenInv'
    BY <1>2, <2>1, <2>2 DEF Inv, OpenInv
  <2>4. ExecutedInv'
    <3>1. \A f : DueRecords(f)' = DueRecords(f)
      BY <1>2, <2>1 DEF DueRecords
    <3> QED BY <1>2, <2>1, <3>1 DEF Inv, ExecutedInv
  <2> QED BY <1>3, <1>4, <1>5, <2>2, <2>3, <2>4 DEF Inv
<1>7. CASE add_entity_result(world, e, p, v) = "added"
  <2>1. e \notin DOMAIN world.entities
    BY <1>7 DEF add_entity_result
  <2>2. /\ DOMAIN world.highest_sequence = DOMAIN world.entities
        /\ DOMAIN world.latest_target_tick = DOMAIN world.entities
        /\ world = [tick_index |-> world.tick_index, elapsed |-> world.elapsed,
                    entities |-> world.entities,
                    highest_sequence |-> world.highest_sequence,
                    latest_target_tick |-> world.latest_target_tick,
                    pending |-> world.pending]
    BY <1>5 DEF WorldInv, IsWorld, SameKeys
  <2>3. /\ world'.tick_index = world.tick_index
        /\ world'.pending = world.pending
        /\ DOMAIN world'.entities = DOMAIN world.entities \cup {e}
        /\ world'.entities[e].last_sequence = 0
        /\ \A f \in DOMAIN world.entities :
              /\ world'.entities[f] = world.entities[f]
              /\ world'.highest_sequence[f] = world.highest_sequence[f]
              /\ world'.latest_target_tick[f] = world.latest_target_tick[f]
    BY <1>1, <1>7, <2>1, <2>2 DEF add_entity, Emplace
  <2>4. \A i \in AcceptedRecords :
           Entry(i).envelope.entity_id \in DOMAIN world.entities
    BY DEF Inv, MarksInv
  <2>5. MarksInv'
    BY <1>2, <2>3 DEF Inv, MarksInv
  <2>6. OpenInv'
    <3>1. OpenRecords' = OpenRecords /\ Queued(world') = Queued(world)
      BY <1>2, <2>3 DEF OpenRecords, Queued
    <3> QED BY <1>2, <3>1 DEF Inv, OpenInv
  <2>7. ExecutedInv'
    <3>1. \A f : DueRecords(f)' = DueRecords(f)
      BY <1>2, <2>3 DEF DueRecords
    <3>2. DueRecords(e) = {}
      BY <2>1, <2>4 DEF DueRecords
    <3>3. ASSUME NEW f \in DOMAIN world.entities
          PROVE  /\ DueRecords(f) = {} => world'.entities[f].last_sequence = 0
                 /\ DueRecords(f) # {} =>
                       \E i \in DueRecords(f) :
                          /\ world'.entities[f].velocity
                               = Entry(i).envelope.velocity
                          /\ world'.entities[f].last_sequence
                               = Entry(i).envelope.sequence
                 /\ \A i \in DueRecords(f) :
                       Entry(i).envelope.sequence
                         <= world'.entities[f].last_sequence
      BY <2>3 DEF Inv, ExecutedInv
    <3> QED BY <1>2, <2>3, <3>1, <3>2, <3>3 DEF ExecutedInv
  <2> QED BY <1>3, <1>4, <1>5, <2>5, <2>6, <2>7 DEF Inv
<1> QED BY <1>6, <1>7

(* A tick takes the records that come due out of the queue, and the newest  *)
(* of them per entity into force.                                           *)
LEMMA AdvanceKeepsInv ==
    ASSUME Inv, Advance
    PROVE  Inv'
<1>1. world' = advance(world) /\ UNCHANGED <<sessions, log, author>>
  BY DEF Advance
<1>2. /\ Records' = Records /\ AcceptedRecords' = AcceptedRecords
      /\ \A i : Entry(i)' = Entry(i)
  BY <1>1 DEF Records, AcceptedRecords, Entry
<1>3. /\ LogInv' /\ IdentityInv' /\ EnvelopeInv'
      /\ EntityOrderAcrossSessions' /\ EvidenceReadsBack' /\ AdmissionIsExact'
  BY ZenonT(40), <1>1, <1>2 DEF Inv, LogInv, IdentityInv, EnvelopeInv,
       EntityOrderAcrossSessions, EvidenceReadsBack,
       verify_command_evidence_chain, validate_record_invariants,
       AdmissionIsExact, Admissible
<1>4. SessionInv'
  <2>1. \A x, n : AcceptedBefore(x, n)' = AcceptedBefore(x, n)
    BY <1>1, <1>2 DEF AcceptedBefore
  <2> QED BY <1>1, <1>2, <2>1 DEF Inv, SessionInv, IsGreatest
<1>5. WorldInv(world) /\ WorldInv(world)'
  BY <1>1, AdvanceInv DEF Inv
<1>6. CASE advance_result(world) # "advanced"
  <2>1. world' = world
    BY <1>1, <1>6 DEF advance
  <2>2. MarksInv' /\ OpenRecords' = OpenRecords
    BY <1>2, <2>1 DEF Inv, MarksInv, OpenRecords
  <2>3. OpenInv'
    BY <1>2, <2>1, <2>2 DEF Inv, OpenInv
  <2>4. ExecutedInv'
    <3>1. \A f : DueRecords(f)' = DueRecords(f)
      BY <1>2, <2>1 DEF DueRecords
    <3> QED BY <1>2, <2>1, <3>1 DEF Inv, ExecutedInv
  <2> QED BY <1>3, <1>4, <1>5, <2>2, <2>3, <2>4 DEF Inv
<1>7. CASE advance_result(world) = "advanced"
  <2> DEFINE u == world.tick_index + 1
             q == world.pending
  <2>1. /\ world'.tick_index = u
        /\ DOMAIN world'.entities = DOMAIN world.entities
        /\ \A e \in DOMAIN world.entities :
              /\ world'.entities[e].velocity = Commanded(world, e).velocity
              /\ world'.entities[e].last_sequence
                   = Commanded(world, e).last_sequence
        /\ world'.highest_sequence = world.highest_sequence
        /\ world'.latest_target_tick = world.latest_target_tick
        /\ Queued(world') = {c \in Queued(world) : c.target_tick > u}
    BY <1>1, <1>5, <1>7, AdvanceMembers
  <2>2. world.tick_index \in Nat
    BY InvFacts
  <2>3. \A i \in AcceptedRecords :
           /\ Entry(i).envelope.target_tick \in Nat
           /\ Entry(i).envelope.sequence \in Nat
           /\ translate(Entry(i).envelope).target_tick
                = Entry(i).envelope.target_tick
           /\ translate(Entry(i).envelope).entity_id
                = Entry(i).envelope.entity_id
           /\ translate(Entry(i).envelope).sequence = Entry(i).envelope.sequence
           /\ translate(Entry(i).envelope).velocity = Entry(i).envelope.velocity
    BY InvFacts, EnvelopeFacts
  <2>4. MarksInv'
    BY <1>2, <2>1 DEF Inv, MarksInv
  <2>5. OpenRecords' = {i \in OpenRecords : Entry(i).envelope.target_tick > u}
    BY <1>2, <2>1, <2>2, <2>3 DEF OpenRecords
  <2>6. OpenInv'
    <3>1. \A i \in OpenRecords : translate(Entry(i).envelope).target_tick
                                   = Entry(i).envelope.target_tick
      BY <2>3 DEF OpenRecords
    <3>2. Queued(world) = {translate(Entry(i).envelope) : i \in OpenRecords}
      BY DEF Inv, OpenInv
    <3>3. Queued(world') = {translate(Entry(i).envelope) : i \in OpenRecords'}
      BY <2>1, <2>5, <3>1, <3>2
    <3> QED BY <1>2, <3>3 DEF OpenInv
  <2>7. ASSUME NEW e \in DOMAIN world.entities
        PROVE  /\ DueRecords(e)' = {} => world'.entities[e].last_sequence = 0
               /\ DueRecords(e)' # {} =>
                     \E i \in DueRecords(e)' :
                        /\ world'.entities[e].velocity
                             = Entry(i).envelope.velocity
                        /\ world'.entities[e].last_sequence
                             = Entry(i).envelope.sequence
               /\ \A i \in DueRecords(e)' :
                     Entry(i).envelope.sequence
                       <= world'.entities[e].last_sequence
    <3> DEFINE now == {i \in AcceptedRecords :
                         /\ Entry(i).envelope.entity_id = e
                         /\ Entry(i).envelope.target_tick = u}
    <3>1. DueRecords(e)' = DueRecords(e) \cup now
      BY <1>2, <2>1, <2>2, <2>3 DEF DueRecords
    <3>2. /\ DueRecords(e) = {} => world.entities[e].last_sequence = 0
          /\ DueRecords(e) # {} =>
                \E i \in DueRecords(e) :
                   /\ world.entities[e].velocity = Entry(i).envelope.velocity
                   /\ world.entities[e].last_sequence
                        = Entry(i).envelope.sequence
          /\ \A i \in DueRecords(e) :
                Entry(i).envelope.sequence <= world.entities[e].last_sequence
      BY DEF Inv, ExecutedInv
    <3>3. \A i \in now : \E k \in DOMAIN q : q[k] = translate(Entry(i).envelope)
      <4>1. now \subseteq OpenRecords
        BY <2>2 DEF OpenRecords
      <4> QED BY <4>1 DEF Inv, OpenInv, Queued
    <3>4. \A k \in DOMAIN q : q[k].entity_id = e /\ q[k].target_tick = u =>
             \E i \in now : q[k] = translate(Entry(i).envelope)
      <4> SUFFICES ASSUME NEW k \in DOMAIN q, q[k].entity_id = e,
                          q[k].target_tick = u
                   PROVE  \E i \in now : q[k] = translate(Entry(i).envelope)
        OBVIOUS
      <4>1. PICK i \in OpenRecords : q[k] = translate(Entry(i).envelope)
        BY DEF Inv, OpenInv, Queued
      <4>2. i \in now
        BY <2>3, <4>1 DEF OpenRecords
      <4> QED BY <4>1, <4>2
    <3>5. \/ /\ \A k \in DOMAIN q : ~(q[k].entity_id = e /\ q[k].target_tick = u)
             /\ Commanded(world, e) = world.entities[e]
          \/ \E k \in DOMAIN q :
                /\ q[k].entity_id = e /\ q[k].target_tick = u
                /\ Commanded(world, e).velocity = q[k].velocity
                /\ Commanded(world, e).last_sequence = q[k].sequence
                /\ \A j \in DOMAIN q :
                      q[j].entity_id = e /\ q[j].target_tick = u
                      => q[j].sequence <= q[k].sequence
      BY <1>5, CommandedNewest
    <3>6. CASE \A k \in DOMAIN q : ~(q[k].entity_id = e /\ q[k].target_tick = u)
      <4>1. now = {}
        BY <2>3, <3>3, <3>6
      <4>2. Commanded(world, e) = world.entities[e]
        BY <3>5, <3>6
      <4> QED BY <2>1, <3>1, <3>2, <4>1, <4>2
    <3>7. CASE ~\A k \in DOMAIN q : ~(q[k].entity_id = e /\ q[k].target_tick = u)
      <4>1. PICK k \in DOMAIN q :
               /\ q[k].entity_id = e /\ q[k].target_tick = u
               /\ Commanded(world, e).velocity = q[k].velocity
               /\ Commanded(world, e).last_sequence = q[k].sequence
               /\ \A j \in DOMAIN q :
                     q[j].entity_id = e /\ q[j].target_tick = u
                     => q[j].sequence <= q[k].sequence
        BY <3>5, <3>7
      <4>2. PICK i \in now : q[k] = translate(Entry(i).envelope)
        BY <3>4, <4>1
      <4>3. i \in AcceptedRecords
        OBVIOUS
      <4>4. /\ world'.entities[e].velocity = Entry(i).envelope.velocity
            /\ world'.entities[e].last_sequence = Entry(i).envelope.sequence
            /\ q[k].sequence = Entry(i).envelope.sequence
        BY <2>1, <2>3, <4>1, <4>2, <4>3
      <4>5. \A j \in now : Entry(j).envelope.sequence <= Entry(i).envelope.sequence
        <5> SUFFICES ASSUME NEW j \in now
                     PROVE  Entry(j).envelope.sequence <= Entry(i).envelope.sequence
          OBVIOUS
        <5>1. PICK l \in DOMAIN q : q[l] = translate(Entry(j).envelope)
          BY <3>3
        <5>2. /\ q[l].entity_id = e /\ q[l].target_tick = u
              /\ q[l].sequence = Entry(j).envelope.sequence
          BY <2>3, <5>1
        <5> QED BY <4>1, <4>4, <5>2
      <4>6. \A j \in DueRecords(e) :
               Entry(j).envelope.sequence <= Entry(i).envelope.sequence
        <5> SUFFICES ASSUME NEW j \in DueRecords(e)
                     PROVE  Entry(j).envelope.sequence <= Entry(i).envelope.sequence
          OBVIOUS
        <5>1. world.entities[e].last_sequence < q[k].sequence
          BY <1>5, <4>1 DEF WorldInv, QueueInv, CommandInv
        <5>2. Entry(j).envelope.sequence <= world.entities[e].last_sequence
          BY <3>2
        <5>3. /\ Entry(j).envelope.sequence \in Nat
              /\ Entry(i).envelope.sequence \in Nat
          BY <2>3, <4>3 DEF DueRecords
        <5>4. world.entities[e].last_sequence \in Nat
          BY <1>5, Bounds DEF WorldInv, IsWorld, IsEntityMap, StoredEntity
        <5> QED BY <4>4, <5>1, <5>2, <5>3, <5>4
      <4> HIDE DEF now
      <4> QED BY <3>1, <4>2, <4>4, <4>5, <4>6
    <3> QED BY <3>6, <3>7
  <2>8. ExecutedInv'
    BY <1>2, <2>1, <2>7 DEF ExecutedInv
  <2> QED BY <1>3, <1>4, <1>5, <2>4, <2>6, <2>8 DEF Inv
<1> QED BY <1>6, <1>7

-----------------------------------------------------------------------------
(* Theorems.                                                                *)

(* The invariant holds from the start.                                      *)
LEMMA InitInv == Init => Inv
<1> SUFFICES ASSUME Init PROVE Inv
  OBVIOUS
<1>1. /\ world = NewWorld /\ log = EmptyLog /\ author = <<>>
      /\ sessions = [s \in Sessions |-> NewSession(s)]
  BY DEF Init
<1>2. /\ Records = <<>> /\ AcceptedRecords = {} /\ log.head_digest = InitialDigest
  BY <1>1 DEF EmptyLog, Records, AcceptedRecords
<1>3. /\ world.entities = NoEntities /\ world.pending = <<>>
      /\ DOMAIN world.entities = {}
  BY <1>1 DEF NewWorld, NoEntities
<1>4. WorldInv(world)
  BY <1>1, NewWorldInv
<1>5. LogInv
  BY <1>1, <1>2, PolicyBounds DEF LogInv, EmptyLog
<1>6. IdentityInv
  BY <1>1, PipelineAssumption, Bounds DEF IdentityInv, NewSession, CommandSession
<1>7. EnvelopeInv /\ MarksInv /\ EntityOrderAcrossSessions /\ AdmissionIsExact
  BY <1>2 DEF EnvelopeInv, MarksInv, EntityOrderAcrossSessions, AdmissionIsExact
<1>8. OpenInv
  BY <1>2, <1>3 DEF OpenInv, OpenRecords, Queued
<1>9. ExecutedInv
  BY <1>3 DEF ExecutedInv
<1>10. SessionInv
  <2>1. \A s \in Sessions : AcceptedBefore(s, Len(Records) + 1) = {}
    BY <1>2 DEF AcceptedBefore
  <2>2. \A s \in Sessions : sessions[s].highest_accepted_sequence = 0
    BY <1>1 DEF NewSession
  <2> QED BY <1>2, <2>1, <2>2 DEF SessionInv, IsGreatest
<1>11. EvidenceReadsBack
  BY <1>2 DEF EvidenceReadsBack, verify_command_evidence_chain
<1> QED BY <1>4, <1>5, <1>6, <1>7, <1>8, <1>9, <1>10, <1>11 DEF Inv

(* Every step of the pipeline keeps it.                                     *)
LEMMA NextKeepsInv == Inv /\ [Next]_vars => Inv'
<1> SUFFICES ASSUME Inv, [Next]_vars
             PROVE  Inv'
  OBVIOUS
<1>1. CASE UNCHANGED vars
  <2>1. /\ world' = world /\ sessions' = sessions /\ log' = log
        /\ author' = author
    BY <1>1 DEF vars
  <2>2. /\ Records' = Records /\ AcceptedRecords' = AcceptedRecords
        /\ \A i : Entry(i)' = Entry(i)
    BY <2>1 DEF Records, AcceptedRecords, Entry
  <2>3. /\ \A f : DueRecords(f)' = DueRecords(f)
        /\ OpenRecords' = OpenRecords
        /\ \A x, n : AcceptedBefore(x, n)' = AcceptedBefore(x, n)
    BY <2>1, <2>2 DEF DueRecords, OpenRecords, AcceptedBefore
  <2>4. /\ WorldInv(world)' /\ LogInv' /\ IdentityInv' /\ EnvelopeInv' /\ MarksInv'
        /\ EntityOrderAcrossSessions' /\ EvidenceReadsBack' /\ AdmissionIsExact'
    BY ZenonT(40), <2>1, <2>2 DEF Inv, LogInv, IdentityInv, EnvelopeInv, MarksInv,
         EntityOrderAcrossSessions, EvidenceReadsBack,
         verify_command_evidence_chain, validate_record_invariants,
         AdmissionIsExact, Admissible
  <2>5. OpenInv'
    BY <2>1, <2>2, <2>3 DEF Inv, OpenInv
  <2>6. ExecutedInv'
    BY <2>1, <2>2, <2>3 DEF Inv, ExecutedInv
  <2>7. SessionInv'
    BY <2>1, <2>2, <2>3 DEF Inv, SessionInv, IsGreatest
  <2> QED BY <2>4, <2>5, <2>6, <2>7 DEF Inv
<1>2. ASSUME NEW s \in Sessions, NEW cmd \in Envelopes, Submit(s, cmd)
      PROVE  Inv'
  BY <1>1, <1>2, SubmitCases, AcceptKeepsInv, RefuseKeepsInv
<1>3. ASSUME NEW e \in EntityIds, NEW p \in Positions, NEW v \in Velocities,
             AddEntity(e, p, v)
      PROVE  Inv'
  BY <1>3, AddEntityKeepsInv
<1>4. CASE Advance
  BY <1>4, AdvanceKeepsInv
<1> QED BY <1>1, <1>2, <1>3, <1>4 DEF Next

(* So it holds in every state.                                              *)
LEMMA InvHolds == Spec => []Inv
BY InitInv, NextKeepsInv, PTL DEF Spec

(* However clients, sessions and hosts interleave, queue, motion and        *)
(* session protection can be read off the evidence, and the evidence reads  *)
(* back (authoritative_command_pipeline.cpp, command_evidence.cpp).         *)
THEOREM PipelineEvidenceAgrees == Spec => []EvidenceAgrees
<1>1. Inv => EvidenceAgrees
  BY InvImplies
<1> QED BY <1>1, InvHolds, PTL

(* The world is asked exactly about the commands the policy allows, however *)
(* the checks are ordered (command_validator.cpp, command_session.cpp).     *)
THEOREM PipelineAdmissionIsExact == Spec => []AdmissionIsExact
<1>1. Inv => AdmissionIsExact
  BY InvImplies
<1> QED BY <1>1, InvHolds, PTL

-----------------------------------------------------------------------------
(* The gateway.                                                             *)

(* What a step of the gateway does to the pipeline.                         *)
PipelineStep(s, cmd) ==
    /\ Submit(s, cmd)
    /\ result' = IF log_is_full(log) THEN result
                 ELSE command_submission(submit(sessions[s], world, log, cmd).code)

(* A frame is one submission to the pipeline, or none.                      *)
LEMMA GatewayCases ==
    ASSUME NEW s, NEW decoded, GatewaySubmit(s, decoded)
    PROVE  \/ /\ decoded.error # "none" /\ result'.parse_error # "none"
              /\ UNCHANGED vars
           \/ decoded.error = "none" /\ PipelineStep(s, from_wire(decoded.envelope))
<1>1. CASE decoded.error # "none"
  BY <1>1 DEF GatewaySubmit, parse_rejection
<1>2. CASE decoded.error = "none"
  BY <1>2 DEF GatewaySubmit, PipelineStep
<1> QED BY <1>1, <1>2

(* A submission adds one record, the one the caller is told of, or the log  *)
(* is full and nothing happens.                                             *)
LEMMA PipelineStepFacts ==
    ASSUME NEW s, NEW cmd, PipelineStep(s, cmd)
    PROVE  \/ /\ log_is_full(log) /\ log' = log /\ result' = result
           \/ \E en : /\ ~log_is_full(log) /\ log' = append(log, en) /\ en.envelope = cmd
                      /\ result' = command_submission(en.rejection_code)
<1> DEFINE r == submit(sessions[s], world, log, cmd)
<1>1. log' = r.log /\ result' = IF log_is_full(log) THEN result ELSE command_submission(r.code)
  BY DEF PipelineStep, Submit
<1>2. CASE log_is_full(log)
  <2>1. r.log = log
    BY <1>2 DEF submit
  <2> QED BY <1>1, <1>2, <2>1
<1>3. CASE ~log_is_full(log)
  <2>1. \E en : r.log = append(log, en) /\ en.envelope = cmd /\ en.rejection_code = r.code
    BY <1>3 DEF submit
  <2> QED BY <1>1, <1>3, <2>1
<1> QED BY <1>2, <1>3

(* The evidence is a sequence, and its last record is what the caller of    *)
(* the last submission was told.                                            *)
ToldInv ==
    /\ Records \in Seq({Records[i] : i \in DOMAIN Records})
    /\ ToldWhatIsRecorded

(* What arrived whole, in the order of the records.                         *)
ArrivedInv ==
    /\ intact \in Seq(Envelopes)
    /\ Len(intact) = Len(Records)
    /\ \A i \in DOMAIN Records : Entry(i).envelope = intact[i]

(* A new record: the ones before it stay.                                   *)
LEMMA RecordAppended ==
    ASSUME ToldInv, NEW en, log' = append(log, en)
    PROVE  /\ Len(Records) \in Nat /\ DOMAIN Records = 1 .. Len(Records)
           /\ Len(Records') = Len(Records) + 1
           /\ DOMAIN Records' = 1 .. Len(Records) + 1
           /\ Records' # <<>>
           /\ Records' \in Seq({Records'[i] : i \in DOMAIN Records'})
           /\ \A i \in 1 .. Len(Records) : Records'[i] = Records[i]
           /\ Records'[Len(Records) + 1].entry = en
<1> DEFINE rec == [ordinal |-> Len(log.records),
                   previous_record_digest |-> log.head_digest, entry |-> en]
<1>1. log' = [records |-> Append(Records, rec),
              head_digest |-> digest_command_evidence(rec)]
  BY DEF append, Records
<1>2. rec.entry = en
  OBVIOUS
<1> HIDE DEF rec
<1>3. Records' = Append(Records, rec)
  BY <1>1 DEF Records
<1>4. /\ Len(Records) \in Nat /\ DOMAIN Records = 1 .. Len(Records)
      /\ Len(Records') = Len(Records) + 1
      /\ DOMAIN Records' = 1 .. Len(Records) + 1
      /\ \A i \in 1 .. Len(Records) : Records'[i] = Records[i]
      /\ Records'[Len(Records) + 1] = rec
      /\ Records' \in Seq({Records'[i] : i \in DOMAIN Records'})
  BY <1>3, AppendUntyped DEF ToldInv
<1>5. Records' # <<>>
  <2>1. 1 \in DOMAIN Records'
    BY <1>4
  <2> QED BY <2>1
<1>6. Records'[Len(Records) + 1].entry = en
  BY <1>2, <1>4
<1> QED BY <1>4, <1>5, <1>6

(* A frame that arrived, whatever was made of it, leaves caller and         *)
(* evidence in agreement.                                                   *)
LEMMA SubmitTells ==
    ASSUME ToldInv, NEW s, NEW decoded, GatewaySubmit(s, decoded)
    PROVE  ToldInv'
<1>1. ASSUME UNCHANGED vars, result'.parse_error # "none"
      PROVE  ToldInv'
  <2>1. Records' = Records
    BY <1>1 DEF vars, Records
  <2>2. ToldWhatIsRecorded'
    BY <1>1 DEF ToldWhatIsRecorded
  <2> QED BY <2>1, <2>2 DEF ToldInv
<1>2. ASSUME NEW cmd, PipelineStep(s, cmd)
      PROVE  ToldInv'
  <2>1. ASSUME log' = log, result' = result
        PROVE  ToldInv'
    BY <2>1 DEF ToldInv, ToldWhatIsRecorded, Records, Entry
  <2>2. ASSUME NEW en, log' = append(log, en),
               result' = command_submission(en.rejection_code)
        PROVE  ToldInv'
    <3>1. result'.command_result = en.rejection_code
      BY <2>2 DEF command_submission
    <3>2. /\ Records' # <<>> /\ Records'[Len(Records')].entry = en
          /\ Records' \in Seq({Records'[i] : i \in DOMAIN Records'})
      <4>1. /\ Len(Records') = Len(Records) + 1
            /\ Records'[Len(Records) + 1].entry = en
            /\ Records' # <<>>
            /\ Records' \in Seq({Records'[i] : i \in DOMAIN Records'})
        BY <2>2, RecordAppended
      <4> QED BY Zenon, <4>1
    <3> QED BY <3>1, <3>2 DEF ToldInv, ToldWhatIsRecorded, Entry
  <2> QED BY <1>2, <2>1, <2>2, PipelineStepFacts
<1> QED BY <1>1, <1>2, GatewayCases

(* It holds at the start, and what the host does has no part in it.         *)
LEMMA ToldHolds == GatewaySpec => []ToldInv
<1>1. GatewayInit => ToldInv
  <2> SUFFICES ASSUME GatewayInit PROVE ToldInv
    OBVIOUS
  <2>1. Records = <<>> /\ result.parse_error = "nothing_submitted"
    BY DEF GatewayInit, Init, EmptyLog, Records, parse_rejection
  <2> QED BY <2>1 DEF ToldInv, ToldWhatIsRecorded
<1>2. ToldInv /\ [GatewayNext]_gatewayVars => ToldInv'
  <2> SUFFICES ASSUME ToldInv, [GatewayNext]_gatewayVars PROVE ToldInv'
    OBVIOUS
  <2>1. ASSUME NEW s, NEW cmd, DeliverIntact(s, cmd)
        PROVE  ToldInv'
    BY <2>1, SubmitTells DEF DeliverIntact
  <2>2. ASSUME NEW s, NEW cmd, DeliverDamaged(s, cmd)
        PROVE  ToldInv'
    BY <2>2, SubmitTells DEF DeliverDamaged
  <2>3. ASSUME log' = log, result' = result
        PROVE  ToldInv'
    BY <2>3 DEF ToldInv, ToldWhatIsRecorded, Records, Entry
  <2>4. ASSUME NEW e, NEW p, NEW v, GatewayAddEntity(e, p, v)
        PROVE  ToldInv'
    BY <2>3, <2>4 DEF GatewayAddEntity, AddEntity
  <2>5. CASE GatewayAdvance
    BY <2>3, <2>5 DEF GatewayAdvance, Advance
  <2>6. CASE UNCHANGED gatewayVars
    BY <2>3, <2>6 DEF gatewayVars, vars
  <2> QED BY <2>1, <2>2, <2>4, <2>5, <2>6 DEF GatewayNext
<1> QED BY <1>1, <1>2, PTL DEF GatewaySpec

(* Whatever frames arrive and whatever the decoder makes of them, a caller  *)
(* is told what the last record of the evidence says, also when the log was *)
(* full or the world has moved on (authoritative_command_gateway.cpp).      *)
THEOREM GatewayTellsWhatIsRecorded == GatewaySpec => []ToldWhatIsRecorded
<1>1. ToldInv => ToldWhatIsRecorded
  BY DEF ToldInv
<1> QED BY <1>1, ToldHolds, PTL

(* The sessions and envelopes of a behaviour are those of its workload.     *)
WorkloadInv == workload \in Workloads

(* No step changes the workload.                                            *)
LEMMA WorkloadHolds == GatewaySpec => []WorkloadInv
<1>1. GatewayInit => WorkloadInv
  BY DEF GatewayInit, WorkloadInv
<1>2. WorkloadInv /\ [GatewayNext]_gatewayVars => WorkloadInv'
  BY DEF GatewayNext, DeliverIntact, DeliverDamaged, GatewayAddEntity, GatewayAdvance,
         gatewayVars, WorkloadInv
<1> QED BY <1>1, <1>2, PTL DEF GatewaySpec

(* A frame that arrives as it was encoded submits its command, and one that *)
(* was damaged submits none.                                                *)
LEMMA FrameCases ==
    ASSUME FramesReadBack, DamageIsRefused, WorkloadInv
    PROVE  /\ \A s \in workload.sessions, cmd \in workload.envelopes :
                 DeliverIntact(s, cmd) =>
                    /\ s \in Sessions /\ cmd \in Envelopes
                    /\ PipelineStep(s, cmd)
                    /\ intact' = IF log_is_full(log) THEN intact ELSE Append(intact, cmd)
           /\ \A s \in workload.sessions, cmd \in workload.damaged :
                 DeliverDamaged(s, cmd) => UNCHANGED <<vars, intact>>
<1>1. /\ workload.sessions \subseteq Sessions
      /\ workload.envelopes \subseteq Envelopes
  BY GatewayAssumption DEF WorkloadInv
<1>2. ASSUME NEW s \in workload.sessions, NEW cmd \in workload.envelopes,
             DeliverIntact(s, cmd)
      PROVE  /\ s \in Sessions /\ cmd \in Envelopes
             /\ PipelineStep(s, cmd)
             /\ intact' = IF log_is_full(log) THEN intact ELSE Append(intact, cmd)
  <2>1. s \in Sessions /\ cmd \in Envelopes
    BY <1>1
  <2>2. DecodedIntact[cmd].error = "none" /\ from_wire(DecodedIntact[cmd].envelope) = cmd
    BY <2>1 DEF FramesReadBack
  <2>3. /\ GatewaySubmit(s, DecodedIntact[cmd])
        /\ intact' = IF log_is_full(log) THEN intact ELSE Append(intact, cmd)
    BY <1>2 DEF DeliverIntact
  <2>4. PipelineStep(s, from_wire(DecodedIntact[cmd].envelope))
    BY <2>2, <2>3, GatewayCases
  <2> QED BY <2>1, <2>2, <2>3, <2>4
<1>3. ASSUME NEW s \in workload.sessions, NEW cmd \in workload.damaged,
             DeliverDamaged(s, cmd)
      PROVE  UNCHANGED <<vars, intact>>
  <2>1. PICK decoded \in DecodedDamaged[cmd] : GatewaySubmit(s, decoded)
    BY <1>3 DEF DeliverDamaged
  <2>2. decoded.error # "none"
    BY <2>1 DEF DamageIsRefused, WorkloadInv
  <2>3. UNCHANGED vars
    BY <2>1, <2>2, GatewayCases
  <2> QED BY <1>3, <2>3 DEF DeliverDamaged
<1> QED BY <1>2, <1>3

(* Behind the bytes there is the pipeline: every behaviour of the gateway   *)
(* is one of CommandPipeline, with a stutter where a frame was refused.     *)
LEMMA GatewayStep ==
    ASSUME FramesReadBack, DamageIsRefused, WorkloadInv, [GatewayNext]_gatewayVars
    PROVE  [Next]_vars
<1>1. ASSUME NEW s \in workload.sessions, NEW cmd \in workload.envelopes,
             DeliverIntact(s, cmd)
      PROVE  Next
  <2>1. s \in Sessions /\ cmd \in Envelopes /\ Submit(s, cmd)
    BY <1>1, FrameCases DEF PipelineStep
  <2> QED BY <2>1 DEF Next
<1>2. ASSUME NEW s \in workload.sessions, NEW cmd \in workload.damaged,
             DeliverDamaged(s, cmd)
      PROVE  UNCHANGED vars
  BY <1>2, FrameCases
<1>3. ASSUME NEW e \in workload.entities, NEW p \in Positions, NEW v \in Velocities,
             GatewayAddEntity(e, p, v)
      PROVE  Next
  <2>1. e \in EntityIds
    BY GatewayAssumption DEF WorkloadInv
  <2> QED BY <1>3, <2>1 DEF GatewayAddEntity, Next
<1>4. CASE GatewayAdvance
  BY <1>4 DEF GatewayAdvance, Next
<1>5. CASE UNCHANGED gatewayVars
  BY <1>5 DEF gatewayVars
<1> QED BY <1>1, <1>2, <1>3, <1>4, <1>5 DEF GatewayNext

(* The gateway implements the pipeline as far as the codec reads back what  *)
(* it wrote and notices damage: a frame of either kind is one submission of *)
(* its command or none, on the sessions and envelopes of the pipeline       *)
(* (authoritative_command_gateway.cpp:81-99).                               *)
THEOREM GatewayImplementsPipeline ==
    ASSUME FramesReadBack, DamageIsRefused PROVE GatewaySpec => Spec
<1>1. GatewayInit => Init
  BY DEF GatewayInit
<1>2. WorkloadInv /\ [GatewayNext]_gatewayVars => [Next]_vars
  BY GatewayStep
<1> QED BY <1>1, <1>2, WorkloadHolds, PTL DEF GatewaySpec, Spec

(* With its first conjuncts the evidence is what arrived.                   *)
LEMMA ArrivedReads ==
    ASSUME ToldInv, ArrivedInv PROVE EvidenceIsWhatArrived
<1>1. /\ Len(Records) \in Nat /\ DOMAIN Records = 1 .. Len(Records)
      /\ DOMAIN intact = 1 .. Len(intact)
  BY DEF ToldInv, ArrivedInv
<1>2. intact = [i \in DOMAIN intact |-> intact[i]]
  BY DEF ArrivedInv
<1>3. [i \in DOMAIN Records |-> Entry(i).envelope] = intact
  BY <1>1, <1>2 DEF ArrivedInv
<1> QED BY <1>3 DEF EvidenceIsWhatArrived, ToldInv

(* A position of a sequence that grew is an earlier one or the new one.     *)
LEMMA UpToNext ==
    ASSUME NEW n \in Nat, NEW i \in 1 .. n + 1 PROVE i \in 1 .. n \/ i = n + 1
OBVIOUS

(* A whole frame is recorded behind the earlier ones, or the log is full    *)
(* and nothing is.                                                          *)
LEMMA ArrivalRecorded ==
    ASSUME ToldInv, ArrivedInv, NEW s, NEW cmd \in Envelopes, PipelineStep(s, cmd),
           intact' = IF log_is_full(log) THEN intact ELSE Append(intact, cmd)
    PROVE  ArrivedInv'
<1>1. CASE log_is_full(log)
  <2>1. log' = log /\ intact' = intact
    BY <1>1, PipelineStepFacts
  <2> QED BY <2>1 DEF ArrivedInv, Records, Entry
<1>2. CASE ~log_is_full(log)
  <2> DEFINE n == Len(Records)
  <2>1. PICK en : log' = append(log, en) /\ en.envelope = cmd
    BY <1>2, PipelineStepFacts
  <2>2. /\ n \in Nat /\ DOMAIN Records = 1 .. n
        /\ Len(Records') = n + 1 /\ DOMAIN Records' = 1 .. n + 1
        /\ \A i \in 1 .. n : Records'[i] = Records[i]
        /\ Records'[n + 1].entry = en
    BY <2>1, RecordAppended
  <2>3. intact' = Append(intact, cmd) /\ Len(intact) = n /\ intact \in Seq(Envelopes)
    BY <1>2 DEF ArrivedInv
  <2>4. \A i \in 1 .. n : Records[i].entry.envelope = intact[i]
    BY <2>2 DEF ArrivedInv, Entry
  <2> HIDE DEF n
  <2>5. /\ intact' \in Seq(Envelopes) /\ Len(intact') = n + 1
        /\ \A i \in 1 .. n : intact'[i] = intact[i]
        /\ intact'[n + 1] = cmd
    BY <2>2, <2>3
  <2>6. ASSUME NEW i \in 1 .. n + 1
        PROVE  Records'[i].entry.envelope = intact'[i]
    <3> i \in 1 .. n \/ i = n + 1
      BY <2>2, UpToNext
    <3>1. CASE i \in 1 .. n
      BY <2>2, <2>4, <2>5, <3>1
    <3>2. CASE i = n + 1
      BY <2>1, <2>2, <2>5, <3>2
    <3> QED BY <3>1, <3>2
  <2> QED BY <2>2, <2>5, <2>6 DEF ArrivedInv, Entry
<1> QED BY <1>1, <1>2

(* Every step keeps it.                                                     *)
LEMMA ArrivedStep ==
    ASSUME FramesReadBack, DamageIsRefused, WorkloadInv, ToldInv, ArrivedInv,
           [GatewayNext]_gatewayVars
    PROVE  ArrivedInv'
<1>1. ASSUME NEW s \in workload.sessions, NEW cmd \in workload.envelopes,
             DeliverIntact(s, cmd)
      PROVE  ArrivedInv'
  <2>1. /\ cmd \in Envelopes /\ PipelineStep(s, cmd)
        /\ intact' = IF log_is_full(log) THEN intact ELSE Append(intact, cmd)
    BY <1>1, FrameCases
  <2> QED BY <2>1, ArrivalRecorded
<1>2. ASSUME log' = log, intact' = intact
      PROVE  ArrivedInv'
  BY <1>2 DEF ArrivedInv, Records, Entry
<1>3. ASSUME NEW s \in workload.sessions, NEW cmd \in workload.damaged,
             DeliverDamaged(s, cmd)
      PROVE  ArrivedInv'
  <2>1. UNCHANGED <<vars, intact>>
    BY <1>3, FrameCases
  <2> QED BY <1>2, <2>1 DEF vars
<1>4. ASSUME NEW e, NEW p, NEW v, GatewayAddEntity(e, p, v)
      PROVE  ArrivedInv'
  BY <1>2, <1>4 DEF GatewayAddEntity, AddEntity
<1>5. CASE GatewayAdvance
  BY <1>2, <1>5 DEF GatewayAdvance, Advance
<1>6. CASE UNCHANGED gatewayVars
  BY <1>2, <1>6 DEF gatewayVars, vars
<1> QED BY <1>1, <1>3, <1>4, <1>5, <1>6 DEF GatewayNext

(* The evidence is exactly what arrived whole, in the order of arrival, and *)
(* the caller is told what it says, as far as the codec reads back what it  *)
(* wrote and notices damage (authoritative_command_gateway.cpp:81-99).      *)
THEOREM GatewayEvidenceIsWhatArrived ==
    ASSUME FramesReadBack, DamageIsRefused PROVE GatewaySpec => []EvidenceIsWhatArrived
<1>1. GatewayInit => ArrivedInv
  <2> SUFFICES ASSUME GatewayInit PROVE ArrivedInv
    OBVIOUS
  <2>1. Records = <<>> /\ intact = <<>>
    BY DEF GatewayInit, Init, EmptyLog, Records
  <2> QED BY <2>1 DEF ArrivedInv
<1>2. WorkloadInv /\ ToldInv /\ ArrivedInv /\ [GatewayNext]_gatewayVars => ArrivedInv'
  BY ArrivedStep
<1>3. ToldInv /\ ArrivedInv => EvidenceIsWhatArrived
  BY ArrivedReads
<1> QED BY <1>1, <1>2, <1>3, WorkloadHolds, ToldHolds, PTL DEF GatewaySpec

(* So what the pipeline promises holds behind the gateway too, for every    *)
(* way frames arrive, are damaged and are interleaved with the host.        *)
THEOREM GatewayEvidenceAgrees ==
    ASSUME FramesReadBack, DamageIsRefused
    PROVE  GatewaySpec => [](EvidenceAgrees /\ AdmissionIsExact)
BY GatewayImplementsPipeline, PipelineEvidenceAgrees, PipelineAdmissionIsExact, PTL

-----------------------------------------------------------------------------
(* The replay.  Its three loops are recursive functions; that there are     *)
(* such functions is proved once, for a round that says which loop it is of.*)

Round(loop, x, n) ==
    CASE loop.of = "advance" ->
           IF ~x.ok THEN x
           ELSE [ok |-> advance_result(x.world) = "advanced", world |-> advance(x.world)]
      [] loop.of = "replay" -> ReplayRecord(x, loop.records[n], loop.budget)
      [] loop.of = "append" -> append(x, loop.entries[n])

IsLoop(f, loop, base) ==
    f = [n \in Nat |-> IF n = 0 THEN base ELSE Round(loop, f[n - 1], n)]

(* Induction: a set with 0 and every successor has all numbers.             *)
LEMMA NatSets ==
    ASSUME NEW P, 0 \in P, \A n \in Nat : n \in P => n + 1 \in P
    PROVE  Nat \subseteq P
<1> SUFFICES ASSUME Nat \ P # {} PROVE FALSE
  OBVIOUS
<1>1. PICK m \in Nat \ P : \A k \in Nat \ P : m <= k
  BY LeastNat
<1>2. m # 0 /\ m \in Nat
  OBVIOUS
<1>3. m - 1 \in Nat /\ (m - 1) + 1 = m /\ ~(m <= m - 1)
  BY <1>2
<1>4. m - 1 \in P
  BY <1>1, <1>3
<1> QED BY <1>1, <1>3, <1>4

(* A loop has values whatever its rounds do.                                *)
LEMMA LoopExists == ASSUME NEW loop, NEW base PROVE \E f : IsLoop(f, loop, base)
<1> DEFINE Start(g, n) == g = [i \in 0 .. n |-> IF i = 0 THEN base
                                               ELSE Round(loop, g[i - 1], i)]
<1>1. ASSUME NEW n \in Nat, NEW g, Start(g, n)
      PROVE  /\ g[0] = base /\ DOMAIN g = 0 .. n
             /\ \A i \in 1 .. n : g[i] = Round(loop, g[i - 1], i)
  <2>1. 0 \in 0 .. n /\ \A i \in 1 .. n : i \in 0 .. n /\ i # 0
    OBVIOUS
  <2> QED BY <1>1, <2>1
<1>2. \A n \in Nat : \E g : Start(g, n)
  <2> DEFINE P == {n \in Nat : \E g : Start(g, n)}
  <2>1. 0 \in P
    <3> DEFINE g == [i \in 0 .. 0 |-> base]
    <3>1. \A i \in 0 .. 0 : i = 0
      OBVIOUS
    <3>2. g = [i \in 0 .. 0 |-> IF i = 0 THEN base ELSE Round(loop, g[i - 1], i)]
      BY <3>1
    <3> QED BY <3>2
  <2>2. ASSUME NEW n \in Nat, n \in P
        PROVE  n + 1 \in P
    <3>1. PICK g : Start(g, n)
      BY <2>2
    <3> DEFINE h == [i \in 0 .. n + 1 |-> IF i <= n THEN g[i] ELSE Round(loop, g[n], n + 1)]
    <3>2. ASSUME NEW i \in 0 .. n + 1
          PROVE  h[i] = IF i = 0 THEN base ELSE Round(loop, h[i - 1], i)
      <4>1. CASE i = 0
        BY <4>1, <3>1, <1>1
      <4>2. CASE i # 0 /\ i <= n
        <5>1. /\ i \in 1 .. n /\ i - 1 \in 0 .. n + 1 /\ i - 1 <= n /\ i \in 0 .. n + 1
          BY <4>2
        <5>2. g[i] = Round(loop, g[i - 1], i)
          BY <3>1, <1>1, <5>1
        <5>3. h[i] = g[i] /\ h[i - 1] = g[i - 1]
          BY <5>1
        <5> HIDE DEF h
        <5> QED BY <4>2, <5>2, <5>3
      <4>3. CASE i = n + 1
        <5>1. /\ i # 0 /\ ~(i <= n) /\ i - 1 = n /\ n \in 0 .. n + 1 /\ n <= n
          BY <4>3
        <5>2. h[i] = Round(loop, g[n], n + 1) /\ h[n] = g[n]
          BY <5>1
        <5> HIDE DEF h
        <5> QED BY <4>3, <5>1, <5>2
      <4>4. i = 0 \/ (i # 0 /\ i <= n) \/ i = n + 1
        OBVIOUS
      <4> QED BY <4>1, <4>2, <4>3, <4>4
    <3>3. h = [i \in 0 .. n + 1 |-> h[i]]
      OBVIOUS
    <3> HIDE DEF h
    <3>4. Start(h, n + 1)
      BY <3>2, <3>3
    <3> QED BY <3>4
  <2> HIDE DEF P
  <2>3. Nat \subseteq P
    BY <2>1, <2>2, NatSets
  <2> QED BY <2>3 DEF P
<1> DEFINE Agree(i) == \A n, m \in Nat : \A g, h : Start(g, n) /\ Start(h, m) =>
                          (i <= n /\ i <= m => g[i] = h[i])
<1>3. \A i \in Nat : Agree(i)
  <2> DEFINE P == {i \in Nat : Agree(i)}
  <2>1. Agree(0)
    BY <1>1
  <2>2. ASSUME NEW i \in Nat, Agree(i)
        PROVE  Agree(i + 1)
    <3> HIDE DEF Start
    <3> SUFFICES ASSUME NEW n \in Nat, NEW m \in Nat, NEW g, NEW h, Start(g, n), Start(h, m),
                        i + 1 <= n, i + 1 <= m
                 PROVE  g[i + 1] = h[i + 1]
      OBVIOUS
    <3>1. /\ i <= n /\ i <= m /\ i + 1 \in 1 .. n /\ i + 1 \in 1 .. m /\ (i + 1) - 1 = i
      <4>1. \A x, y, z \in Nat : x + 1 <= y /\ x + 1 <= z =>
               /\ x <= y /\ x <= z /\ x + 1 \in 1 .. y /\ x + 1 \in 1 .. z
               /\ (x + 1) - 1 = x
        OBVIOUS
      <4> QED BY Zenon, <4>1
    <3>2. g[i] = h[i]
      BY <2>2, <3>1
    <3>3. /\ \A k \in 1 .. n : g[k] = Round(loop, g[k - 1], k)
          /\ \A k \in 1 .. m : h[k] = Round(loop, h[k - 1], k)
      BY <1>1
    <3> QED BY <3>1, <3>2, <3>3
  <2>3. 0 \in P /\ \A i \in Nat : i \in P => i + 1 \in P
    <3> HIDE DEF Agree
    <3> QED BY <2>1, <2>2
  <2> HIDE DEF P
  <2>4. Nat \subseteq P
    BY <2>3, NatSets
  <2> QED BY <2>4 DEF P
<1> DEFINE a(n) == CHOOSE g : Start(g, n)
           f == [n \in Nat |-> a(n)[n]]
<1> HIDE DEF Start
<1>4. \A n \in Nat : Start(a(n), n)
  BY <1>2
<1> HIDE DEF a
<1>5. ASSUME NEW n \in Nat
      PROVE  f[n] = IF n = 0 THEN base ELSE Round(loop, f[n - 1], n)
  <2>1. CASE n = 0
    BY <2>1, <1>1, <1>4
  <2>2. CASE n # 0
    <3>1. n - 1 \in Nat /\ n \in 1 .. n /\ n - 1 <= n /\ n - 1 <= n - 1
      BY <2>2
    <3>2. a(n)[n] = Round(loop, a(n)[n - 1], n)
      BY <1>1, <1>4, <3>1
    <3>3. a(n)[n - 1] = a(n - 1)[n - 1]
      BY <1>3, <1>4, <3>1
    <3>4. f[n] = a(n)[n] /\ f[n - 1] = a(n - 1)[n - 1]
      BY <3>1
    <3> QED BY <2>2, <3>2, <3>3, <3>4
  <2> QED BY <2>1, <2>2
<1>6. f = [n \in Nat |-> f[n]]
  OBVIOUS
<1> HIDE DEF f
<1>7. IsLoop(f, loop, base)
  BY <1>5, <1>6 DEF IsLoop
<1> QED BY <1>7

(* The advances of a replayed step, one at a time.                          *)
LEMMA AdvanceSteps ==
    ASSUME NEW w
    PROVE  /\ AdvanceTimes(w, 0) = [ok |-> TRUE, world |-> w]
           /\ \A n \in Nat : AdvanceTimes(w, n + 1) =
                 IF ~AdvanceTimes(w, n).ok THEN AdvanceTimes(w, n)
                 ELSE [ok |-> advance_result(AdvanceTimes(w, n).world) = "advanced",
                       world |-> advance(AdvanceTimes(w, n).world)]
<1> DEFINE base == [ok |-> TRUE, world |-> w]
           loop == [of |-> "advance"]
           next(x) == IF ~x.ok THEN x
                      ELSE [ok |-> advance_result(x.world) = "advanced",
                            world |-> advance(x.world)]
           Values(g) == g = [k \in Nat |-> IF k = 0 THEN [ok |-> TRUE, world |-> w]
                             ELSE IF ~g[k - 1].ok THEN g[k - 1]
                             ELSE [ok |-> advance_result(g[k - 1].world) = "advanced",
                                   world |-> advance(g[k - 1].world)]]
           c == CHOOSE g : Values(g)
<1>1. \A x, n : Round(loop, x, n) = next(x)
  BY DEF Round
<1>2. \E g : Values(g)
  <2>1. PICK f : IsLoop(f, loop, base)
    <3> HIDE DEF loop, base
    <3> QED BY Zenon, LoopExists
  <2>2. f = [n \in Nat |-> IF n = 0 THEN base ELSE next(f[n - 1])]
    <3> HIDE DEF next, base, loop
    <3> QED BY <1>1, <2>1 DEF IsLoop
  <2>3. Values(f)
    BY Zenon, <2>2
  <2> QED BY <2>3
<1>3. Values(c)
  <2> HIDE DEF Values
  <2> QED BY Zenon, <1>2
<1>4. \A n : AdvanceTimes(w, n) = c[n]
  BY DEF AdvanceTimes
<1> HIDE DEF c
<1>5. c = [n \in Nat |-> IF n = 0 THEN base ELSE next(c[n - 1])]
  BY Zenon, <1>3
<1> HIDE DEF Values
<1>6. c[0] = base
  <2> HIDE DEF base, next
  <2> QED BY <1>5
<1>7. ASSUME NEW n \in Nat
      PROVE  c[n + 1] = next(c[n])
  <2>1. n + 1 \in Nat /\ n + 1 # 0 /\ (n + 1) - 1 = n
    OBVIOUS
  <2> HIDE DEF base, next
  <2> QED BY <1>5, <2>1
<1>8. \A n \in Nat : AdvanceTimes(w, n + 1) = next(AdvanceTimes(w, n))
  <2> HIDE DEF next
  <2> QED BY <1>4, <1>7
<1> QED BY Zenon, <1>4, <1>6, <1>8

(* The records that are replayed, one at a time.                            *)
LEMMA ReplaySteps ==
    ASSUME NEW start, NEW records, NEW budget
    PROVE  /\ Replaying(start, records, budget)[0] = start
           /\ \A k \in Nat : Replaying(start, records, budget)[k + 1] =
                 ReplayRecord(Replaying(start, records, budget)[k], records[k + 1], budget)
<1> DEFINE loop == [of |-> "replay", records |-> records, budget |-> budget]
           Values(g) == g = [k \in Nat |-> IF k = 0 THEN start
                             ELSE ReplayRecord(g[k - 1], records[k], budget)]
           c == CHOOSE g : Values(g)
<1>1. \A x, n : Round(loop, x, n) = ReplayRecord(x, records[n], budget)
  BY DEF Round
<1>2. \E g : Values(g)
  <2>1. PICK f : IsLoop(f, loop, start)
    <3> HIDE DEF loop
    <3> QED BY Zenon, LoopExists
  <2>2. Values(f)
    <3> HIDE DEF loop
    <3> QED BY <1>1, <2>1 DEF IsLoop
  <2> QED BY <2>2
<1>3. Values(c)
  <2> HIDE DEF Values
  <2> QED BY Zenon, <1>2
<1>4. Replaying(start, records, budget) = c
  BY DEF Replaying
<1> HIDE DEF c
<1>5. c[0] = start
  BY <1>3
<1>6. ASSUME NEW k \in Nat
      PROVE  c[k + 1] = ReplayRecord(c[k], records[k + 1], budget)
  <2>1. k + 1 \in Nat /\ k + 1 # 0 /\ (k + 1) - 1 = k
    OBVIOUS
  <2> QED BY <1>3, <2>1
<1> QED BY Zenon, <1>4, <1>5, <1>6

(* The entries that are chained anew, one at a time.                        *)
LEMMA RechainSteps ==
    ASSUME NEW entries
    PROVE  /\ Rechaining(entries)[0] = EmptyLog
           /\ \A k \in Nat : Rechaining(entries)[k + 1] =
                 append(Rechaining(entries)[k], entries[k + 1])
<1> DEFINE loop == [of |-> "append", entries |-> entries]
           Values(g) == g = [k \in Nat |-> IF k = 0 THEN EmptyLog
                             ELSE append(g[k - 1], entries[k])]
           c == CHOOSE g : Values(g)
<1>1. \A x, n : Round(loop, x, n) = append(x, entries[n])
  BY DEF Round
<1>2. \E g : Values(g)
  <2>1. PICK f : IsLoop(f, loop, EmptyLog)
    <3> HIDE DEF loop
    <3> QED BY Zenon, LoopExists
  <2>2. Values(f)
    <3> HIDE DEF loop
    <3> QED BY <1>1, <2>1 DEF IsLoop
  <2> QED BY <2>2
<1>3. Values(c)
  <2> HIDE DEF Values
  <2> QED BY Zenon, <1>2
<1>4. Rechaining(entries) = c
  BY DEF Rechaining
<1> HIDE DEF c
<1>5. c[0] = EmptyLog
  BY <1>3
<1>6. ASSUME NEW k \in Nat
      PROVE  c[k + 1] = append(c[k], entries[k + 1])
  <2>1. k + 1 \in Nat /\ k + 1 # 0 /\ (k + 1) - 1 = k
    OBVIOUS
  <2> QED BY <1>3, <2>1
<1> QED BY Zenon, <1>4, <1>5, <1>6

-----------------------------------------------------------------------------
(* Worlds, by their fields.                                                 *)

WorldShape(w) ==
    /\ w = [tick_index |-> w.tick_index, elapsed |-> w.elapsed,
            entities |-> w.entities,
            highest_sequence |-> w.highest_sequence,
            latest_target_tick |-> w.latest_target_tick,
            pending |-> w.pending]
    /\ w.tick_index \in UInt64

(* A tick that happens raises the index by one, one that throws leaves no   *)
(* trace.                                                                   *)
LEMMA AdvanceOnce ==
    ASSUME NEW w, WorldShape(w)
    PROVE  /\ WorldShape(advance(w))
           /\ advance_result(w) = "advanced" =>
                 advance(w).tick_index = w.tick_index + 1
           /\ advance_result(w) # "advanced" => advance(w) = w
<1>1. CASE advance_result(w) # "advanced"
  BY <1>1 DEF advance
<1>2. CASE advance_result(w) = "advanced"
  <2> DEFINE t == advance(w)
             kept == Keep(w.pending, {i \in DOMAIN w.pending :
                                w.pending[i].target_tick # w.tick_index + 1})
             moved == [e \in DOMAIN w.entities |-> integrate(Commanded(w, e))]
  <2>1. t = [w EXCEPT !.tick_index = w.tick_index + 1,
                      !.elapsed = w.elapsed + TickDuration,
                      !.entities = moved, !.pending = kept]
    BY <1>2 DEF advance
  <2>2. w.tick_index # UInt64Max
    BY <1>2 DEF advance_result, clock_overflows
  <2>3. w.tick_index + 1 \in UInt64
    <3>1. w.tick_index \in Nat /\ w.tick_index <= UInt64Max /\ UInt64Max \in Nat
      BY Bounds DEF WorldShape, UInt64
    <3> QED BY <2>2, <3>1 DEF UInt64
  <2> HIDE DEF t, kept, moved
  <2>4. t = [tick_index |-> w.tick_index + 1, elapsed |-> w.elapsed + TickDuration,
             entities |-> moved, highest_sequence |-> w.highest_sequence,
             latest_target_tick |-> w.latest_target_tick, pending |-> kept]
    BY <2>1 DEF WorldShape
  <2>5. WorldShape(t) /\ t.tick_index = w.tick_index + 1
    BY <2>3, <2>4 DEF WorldShape
  <2> QED BY <1>2, <2>5 DEF t
<1> QED BY <1>1, <1>2

(* A submission moves no clock.                                             *)
LEMMA QueueShape ==
    ASSUME NEW w, WorldShape(w), NEW c
    PROVE  /\ WorldShape(queue_velocity(w, c))
           /\ queue_velocity(w, c).tick_index = w.tick_index
<1>1. CASE queue_velocity_result(w, c) # "accepted"
  BY <1>1 DEF queue_velocity
<1>2. CASE queue_velocity_result(w, c) = "accepted"
  <2> DEFINE t == queue_velocity(w, c)
             marks == [w.highest_sequence EXCEPT ![c.entity_id] = c.sequence]
             ticks == [w.latest_target_tick EXCEPT ![c.entity_id] = c.target_tick]
             queue == sort(Append(w.pending, c))
  <2>1. t = [tick_index |-> w.tick_index, elapsed |-> w.elapsed,
             entities |-> w.entities, highest_sequence |-> marks,
             latest_target_tick |-> ticks, pending |-> queue]
    <3>1. t = [w EXCEPT !.highest_sequence = marks, !.latest_target_tick = ticks,
                        !.pending = queue]
      BY <1>2 DEF queue_velocity
    <3> HIDE DEF t, marks, ticks, queue
    <3> QED BY <3>1 DEF WorldShape
  <2> HIDE DEF t, marks, ticks, queue
  <2>2. WorldShape(t) /\ t.tick_index = w.tick_index
    BY <2>1 DEF WorldShape
  <2> QED BY <2>2 DEF t
<1> QED BY <1>1, <1>2

(* Advances that all happened moved the index by their number.              *)
LEMMA AdvanceCount ==
    ASSUME NEW w, WorldShape(w), NEW n \in Nat, AdvanceTimes(w, n).ok
    PROVE  /\ WorldShape(AdvanceTimes(w, n).world)
           /\ AdvanceTimes(w, n).world.tick_index = w.tick_index + n
<1> DEFINE a(k) == AdvanceTimes(w, k)
           Good(k) == a(k).ok => /\ WorldShape(a(k).world)
                                 /\ a(k).world.tick_index = w.tick_index + k
           P == {k \in Nat : Good(k)}
<1>1. w.tick_index \in Nat
  BY Bounds DEF WorldShape
<1>2. Good(0)
  <2>1. a(0).world = w
    BY AdvanceSteps
  <2>2. w.tick_index + 0 = w.tick_index
    BY <1>1
  <2> HIDE DEF a
  <2> QED BY <2>1, <2>2
<1>3. ASSUME NEW k \in Nat, Good(k)
      PROVE  Good(k + 1)
  <2>1. a(k + 1) = IF ~a(k).ok THEN a(k)
                   ELSE [ok |-> advance_result(a(k).world) = "advanced",
                         world |-> advance(a(k).world)]
    BY AdvanceSteps
  <2> HIDE DEF a
  <2> SUFFICES ASSUME a(k + 1).ok
               PROVE  /\ WorldShape(a(k + 1).world)
                      /\ a(k + 1).world.tick_index = w.tick_index + (k + 1)
    OBVIOUS
  <2>2. CASE ~a(k).ok
    BY <2>1, <2>2
  <2>3. CASE a(k).ok
    <3>1. /\ a(k + 1).world = advance(a(k).world)
          /\ a(k + 1).ok = (advance_result(a(k).world) = "advanced")
      BY <2>1, <2>3
    <3>2. advance_result(a(k).world) = "advanced"
      BY <3>1
    <3>3. WorldShape(a(k).world) /\ a(k).world.tick_index = w.tick_index + k
      BY <1>3, <2>3
    <3>4. WorldShape(advance(a(k).world))
          /\ advance(a(k).world).tick_index = (w.tick_index + k) + 1
      BY <3>2, <3>3, AdvanceOnce
    <3>5. (w.tick_index + k) + 1 = w.tick_index + (k + 1)
      BY <1>1
    <3> QED BY <3>1, <3>4, <3>5
  <2> QED BY <2>2, <2>3
<1> HIDE DEF Good
<1>4. 0 \in P /\ \A k \in Nat : k \in P => k + 1 \in P
  BY <1>2, <1>3
<1> HIDE DEF P
<1>5. Nat \subseteq P
  BY <1>4, NatSets
<1>6. Good(n)
  BY <1>5 DEF P
<1> QED BY <1>6 DEF Good

-----------------------------------------------------------------------------
(* One record of the replay.                                                *)

ReplayShape(st) ==
    st = [code |-> st.code, processed_records |-> st.processed_records,
          performed_tick_advances |-> st.performed_tick_advances,
          session |-> st.session, world |-> st.world, log |-> st.log]

Required(st, record) == record.entry.observed_tick - st.world.tick_index
Moved(st, record) == AdvanceTimes(st.world, Required(st, record))
Resubmitted(st, record) ==
    submit(st.session, Moved(st, record).world, st.log, record.entry.envelope)

(* Every check of the loop lets the record through.                         *)
PassesReplay(st, record, budget) ==
    LET en == record.entry
        w == Moved(st, record).world
    IN  /\ ~tick_regressed(en, st.world)
        /\ ~budget_exceeded(Required(st, record), budget, st.performed_tick_advances)
        /\ Moved(st, record).ok
        /\ st.session.highest_accepted_sequence = en.session_sequence_before
        /\ Len(w.pending) = en.pending_commands_before
        /\ fingerprint_world_state(w) = en.world_fingerprint_before
        /\ ~record_differs(Resubmitted(st, record).log, st.processed_records + 1, record)

(* The state of the replay after the ticks.                                 *)
LEMMA ReplayTicked ==
    ASSUME NEW st, ReplayShape(st), NEW x, NEW y
    PROVE  [st EXCEPT !.world = x, !.performed_tick_advances = y]
             = [code |-> st.code, processed_records |-> st.processed_records,
                performed_tick_advances |-> y, session |-> st.session,
                world |-> x, log |-> st.log]
<1> PICK a, b, c, d, e, f :
       /\ a = st.code /\ b = st.processed_records /\ c = st.performed_tick_advances
       /\ d = st.session /\ e = st.world /\ f = st.log
  OBVIOUS
<1>1. st = [code |-> a, processed_records |-> b, performed_tick_advances |-> c,
            session |-> d, world |-> e, log |-> f]
  BY DEF ReplayShape
<1>2. PICK p : p = [st EXCEPT !.world = x]
  OBVIOUS
<1>3. p = [code |-> a, processed_records |-> b, performed_tick_advances |-> c,
           session |-> d, world |-> x, log |-> f]
  BY <1>1, <1>2
<1>4. [st EXCEPT !.world = x, !.performed_tick_advances = y]
        = [p EXCEPT !.performed_tick_advances = y]
  BY <1>2, Zenon
<1>5. [p EXCEPT !.performed_tick_advances = y]
        = [code |-> a, processed_records |-> b, performed_tick_advances |-> y,
           session |-> d, world |-> x, log |-> f]
  BY <1>3
<1> QED BY Zenon, <1>4, <1>5

(* A record passes and is submitted again, or the replay ends with it.      *)
LEMMA ReplayCases ==
    ASSUME NEW st, ReplayShape(st), st.code = "verified", NEW record, NEW budget
    PROVE  LET next == ReplayRecord(st, record, budget)
               r == Resubmitted(st, record)
           IN  /\ PassesReplay(st, record, budget) =>
                     next = [code |-> "verified",
                             processed_records |-> st.processed_records + 1,
                             performed_tick_advances |->
                                st.performed_tick_advances + Required(st, record),
                             session |-> r.session, world |-> r.world, log |-> r.log]
               /\ ~PassesReplay(st, record, budget) =>
                     /\ next.code # "verified"
                     /\ next.processed_records = st.processed_records
               /\ /\ ~tick_regressed(record.entry, st.world)
                  /\ budget_exceeded(Required(st, record), budget,
                                     st.performed_tick_advances)
                  => next = [st EXCEPT !.code = "tick_advance_limit_exceeded"]
<1> DEFINE en == record.entry
           required == Required(st, record)
           moved == Moved(st, record)
           r == Resubmitted(st, record)
           st2 == [st EXCEPT !.world = moved.world,
                             !.performed_tick_advances = @ + required]
           st3 == [st2 EXCEPT !.session = r.session, !.world = r.world, !.log = r.log]
           next == ReplayRecord(st, record, budget)
           exceeded == budget_exceeded(required, budget, st.performed_tick_advances)
           differs == record_differs(r.log, st.processed_records + 1, record)
<1>1. /\ st2.session = st.session /\ st2.world = moved.world /\ st2.log = st.log
      /\ st2.processed_records = st.processed_records
      /\ st2 = [code |-> "verified", processed_records |-> st.processed_records,
                performed_tick_advances |-> st.performed_tick_advances + required,
                session |-> st.session, world |-> moved.world, log |-> st.log]
  <2> DEFINE total == st.performed_tick_advances + required
             w == moved.world
             q == [st EXCEPT !.world = w, !.performed_tick_advances = total]
  <2>1. st2 = q
    BY Zenon
  <2>2. q = [code |-> st.code, processed_records |-> st.processed_records,
             performed_tick_advances |-> total, session |-> st.session,
             world |-> w, log |-> st.log]
    <3> HIDE DEF total, w
    <3> QED BY Zenon, ReplayTicked
  <2> HIDE DEF q, st2, total, w
  <2>3. st2 = [code |-> "verified", processed_records |-> st.processed_records,
               performed_tick_advances |-> total, session |-> st.session,
               world |-> w, log |-> st.log]
    BY Zenon, <2>1, <2>2
  <2> QED BY <2>3 DEF total, w
<1>2. /\ st3.log = r.log /\ st3.processed_records = st.processed_records
      /\ st3 = [code |-> "verified", processed_records |-> st.processed_records,
                performed_tick_advances |-> st.performed_tick_advances + required,
                session |-> r.session, world |-> r.world, log |-> r.log]
  <2> DEFINE total == st.performed_tick_advances + required
             w == moved.world
  <2> HIDE DEF total, w, r
  <2>1. st2 = [code |-> "verified", processed_records |-> st.processed_records,
               performed_tick_advances |-> total,
               session |-> st.session, world |-> w, log |-> st.log]
    BY Zenon, <1>1 DEF total, w
  <2> HIDE DEF st2
  <2>2. ReplayShape(st2) /\ st2.code = "verified"
        /\ st2.processed_records = st.processed_records
        /\ st2.performed_tick_advances = total
    BY <2>1 DEF ReplayShape
  <2>3. st3 = [code |-> st2.code, processed_records |-> st2.processed_records,
               performed_tick_advances |-> st2.performed_tick_advances,
               session |-> r.session, world |-> r.world, log |-> r.log]
    <3> PICK x, y, z, a, b, c, d, e, f :
           /\ x = r.session /\ y = r.world /\ z = r.log
           /\ a = st2.code /\ b = st2.processed_records
           /\ c = st2.performed_tick_advances
           /\ d = st2.session /\ e = st2.world /\ f = st2.log
      OBVIOUS
    <3>1. st2 = [code |-> a, processed_records |-> b, performed_tick_advances |-> c,
                 session |-> d, world |-> e, log |-> f]
      BY <2>2 DEF ReplayShape
    <3>2. PICK p : p = [st2 EXCEPT !.session = x]
      OBVIOUS
    <3>3. p = [code |-> a, processed_records |-> b, performed_tick_advances |-> c,
               session |-> x, world |-> e, log |-> f]
      BY <3>1, <3>2
    <3>4. PICK q : q = [p EXCEPT !.world = y]
      OBVIOUS
    <3>5. q = [code |-> a, processed_records |-> b, performed_tick_advances |-> c,
               session |-> x, world |-> y, log |-> f]
      BY <3>3, <3>4
    <3>6. st3 = [q EXCEPT !.log = z]
      BY <3>2, <3>4, Zenon
    <3>7. [q EXCEPT !.log = z]
            = [code |-> a, processed_records |-> b, performed_tick_advances |-> c,
               session |-> x, world |-> y, log |-> z]
      BY <3>5
    <3> QED BY Zenon, <3>6, <3>7
  <2> HIDE DEF st3
  <2>4. st3 = [code |-> "verified", processed_records |-> st.processed_records,
               performed_tick_advances |-> total,
               session |-> r.session, world |-> r.world, log |-> r.log]
    BY Zenon, <2>2, <2>3
  <2> QED BY <2>4 DEF total
<1>3. next = IF tick_regressed(en, st.world)
               THEN [st EXCEPT !.code = "observed_tick_regression"]
             ELSE IF exceeded
               THEN [st EXCEPT !.code = "tick_advance_limit_exceeded"]
             ELSE IF ~moved.ok
               THEN [st EXCEPT !.code = "simulation_advance_failed",
                               !.world = moved.world]
             ELSE IF st.session.highest_accepted_sequence # en.session_sequence_before
               THEN [st2 EXCEPT !.code = "session_state_mismatch"]
             ELSE IF Len(moved.world.pending) # en.pending_commands_before
               THEN [st2 EXCEPT !.code = "pending_command_count_mismatch"]
             ELSE IF fingerprint_world_state(moved.world) # en.world_fingerprint_before
               THEN [st2 EXCEPT !.code = "world_state_mismatch"]
             ELSE IF differs
               THEN [st3 EXCEPT !.code = "submission_record_mismatch"]
             ELSE [st3 EXCEPT !.processed_records = @ + 1]
  <2>1. r = submit(st2.session, st2.world, st2.log, en.envelope)
    <3> HIDE DEF st2, moved
    <3> QED BY <1>1 DEF Resubmitted, moved
  <2>2. differs = record_differs(st3.log, st.processed_records + 1, record)
    <3> HIDE DEF st3, r
    <3> QED BY <1>2
  <2> DEFINE again == submit(st2.session, st2.world, st2.log, en.envelope)
             last == [st2 EXCEPT !.session = again.session, !.world = again.world,
                                 !.log = again.log]
  <2>3. next = IF st.code # "verified" THEN st
             ELSE IF tick_regressed(en, st.world)
               THEN [st EXCEPT !.code = "observed_tick_regression"]
             ELSE IF exceeded
               THEN [st EXCEPT !.code = "tick_advance_limit_exceeded"]
             ELSE IF ~moved.ok
               THEN [st EXCEPT !.code = "simulation_advance_failed",
                               !.world = moved.world]
             ELSE IF st.session.highest_accepted_sequence # en.session_sequence_before
               THEN [st2 EXCEPT !.code = "session_state_mismatch"]
             ELSE IF Len(st2.world.pending) # en.pending_commands_before
               THEN [st2 EXCEPT !.code = "pending_command_count_mismatch"]
             ELSE IF fingerprint_world_state(st2.world) # en.world_fingerprint_before
               THEN [st2 EXCEPT !.code = "world_state_mismatch"]
             ELSE IF record_differs(last.log, st.processed_records + 1, record)
               THEN [last EXCEPT !.code = "submission_record_mismatch"]
             ELSE [last EXCEPT !.processed_records = @ + 1]
    BY Zenon DEF ReplayRecord, Required, Moved
  <2>4. again = r
    BY Zenon, <2>1
  <2> HIDE DEF again, r
  <2>5. last = st3
    BY Zenon, <2>4
  <2> HIDE DEF next, exceeded, moved, st2, st3, last, differs, en
  <2> QED BY <1>1, <2>2, <2>3, <2>5
<1>4. PassesReplay(st, record, budget)
         = (/\ ~tick_regressed(en, st.world) /\ ~exceeded /\ moved.ok
            /\ st.session.highest_accepted_sequence = en.session_sequence_before
            /\ Len(moved.world.pending) = en.pending_commands_before
            /\ fingerprint_world_state(moved.world) = en.world_fingerprint_before
            /\ ~differs)
  BY Zenon DEF PassesReplay
<1> HIDE DEF en, required, moved, r, st2, st3, next, exceeded, differs
<1>5. PassesReplay(st, record, budget) =>
         next = [code |-> "verified",
                 processed_records |-> st.processed_records + 1,
                 performed_tick_advances |-> st.performed_tick_advances + required,
                 session |-> r.session, world |-> r.world, log |-> r.log]
  BY <1>2, <1>3, <1>4
<1>6. ~PassesReplay(st, record, budget) =>
         next.code # "verified" /\ next.processed_records = st.processed_records
  BY <1>1, <1>2, <1>3, <1>4 DEF ReplayShape
<1>7. ~tick_regressed(en, st.world) /\ exceeded =>
         next = [st EXCEPT !.code = "tick_advance_limit_exceeded"]
  BY <1>3
<1> QED BY Zenon, <1>5, <1>6, <1>7 DEF en, required, r, next, exceeded

(* What is replayed after k records depends on these records only.          *)
LEMMA ReplayAgrees ==
    ASSUME NEW start, NEW p, NEW q, NEW budget, NEW n \in Nat,
           \A j \in 1 .. n : p[j] = q[j]
    PROVE  \A k \in 0 .. n :
              Replaying(start, p, budget)[k] = Replaying(start, q, budget)[k]
<1> DEFINE a(k) == Replaying(start, p, budget)[k]
           b(k) == Replaying(start, q, budget)[k]
           P == {k \in Nat : k <= n => a(k) = b(k)}
<1>1. 0 \in P
  BY ReplaySteps
<1>2. ASSUME NEW k \in Nat, k \in P
      PROVE  k + 1 \in P
  <2> SUFFICES ASSUME k + 1 <= n PROVE a(k + 1) = b(k + 1)
    OBVIOUS
  <2>1. k <= n /\ k + 1 \in 1 .. n
    OBVIOUS
  <2>2. a(k) = b(k) /\ p[k + 1] = q[k + 1]
    BY <1>2, <2>1
  <2>3. /\ a(k + 1) = ReplayRecord(a(k), p[k + 1], budget)
        /\ b(k + 1) = ReplayRecord(b(k), q[k + 1], budget)
    <3>1. \A i \in Nat : a(i + 1) = ReplayRecord(a(i), p[i + 1], budget)
      BY ReplaySteps
    <3>2. \A i \in Nat : b(i + 1) = ReplayRecord(b(i), q[i + 1], budget)
      BY ReplaySteps
    <3> QED BY Zenon, <3>1, <3>2
  <2> HIDE DEF a, b, P
  <2> QED BY Zenon, <2>2, <2>3
<1> HIDE DEF P
<1>3. Nat \subseteq P
  BY <1>1, <1>2, NatSets
<1> QED BY <1>3 DEF P

(* Once the replay has returned nothing more is replayed.                   *)
LEMMA ReplayStops ==
    ASSUME NEW start, NEW records, NEW budget, NEW k \in Nat,
           Replaying(start, records, budget)[k].code # "verified"
    PROVE  \A m \in Nat : Replaying(start, records, budget)[k + m]
                            = Replaying(start, records, budget)[k]
<1> DEFINE a(i) == Replaying(start, records, budget)[i]
           P == {i \in Nat : a(k + i) = a(k)}
<1>1. 0 \in P
  <2>1. k + 0 = k
    OBVIOUS
  <2> QED BY <2>1
<1>2. ASSUME NEW i \in Nat, i \in P
      PROVE  i + 1 \in P
  <2>1. k + i \in Nat /\ (k + i) + 1 = k + (i + 1)
    OBVIOUS
  <2>2. a(k + i) = a(k) /\ a(k).code # "verified"
    BY <1>2
  <2>3. a((k + i) + 1) = ReplayRecord(a(k + i), records[(k + i) + 1], budget)
    <3>1. \A j \in Nat : a(j + 1) = ReplayRecord(a(j), records[j + 1], budget)
      BY ReplaySteps
    <3> QED BY Zenon, <2>1, <3>1
  <2> HIDE DEF a
  <2>4. a((k + i) + 1) = a(k)
    BY Zenon, <2>2, <2>3 DEF ReplayRecord
  <2> QED BY <2>1, <2>4
<1> HIDE DEF P
<1>3. Nat \subseteq P
  BY <1>1, <1>2, NatSets
<1> QED BY <1>3 DEF P

-----------------------------------------------------------------------------
(* Logs and their chains.                                                   *)

(* A log of k records whose chain verifies.                                 *)
ChainedLog(l, k) ==
    /\ l = [records |-> l.records, head_digest |-> l.head_digest]
    /\ l.records \in Seq({l.records[j] : j \in DOMAIN l.records})
    /\ Len(l.records) = k /\ DOMAIN l.records = 1 .. k
    /\ verify_command_evidence_chain(l.records, l.head_digest)

RecordOf(l, entry) ==
    [ordinal |-> Len(l.records), previous_record_digest |-> l.head_digest,
     entry |-> entry]

(* append adds a record with the entry to the chain and changes no other.   *)
LEMMA ChainGrows ==
    ASSUME NEW n \in Nat, NEW l, ChainedLog(l, n), NEW entry
    PROVE  LET t == append(l, entry) IN
           /\ ChainedLog(t, n + 1)
           /\ \A i \in 1 .. n : t.records[i] = l.records[i]
           /\ t.records[n + 1] = RecordOf(l, entry)
           /\ t.records = Append(l.records, RecordOf(l, entry))
<1> DEFINE t == append(l, entry)
           rec == RecordOf(l, entry)
           q == l.records
<1>1. t = [records |-> Append(q, rec), head_digest |-> digest_command_evidence(rec)]
  BY DEF append, RecordOf
<1>2. rec.ordinal = n /\ rec.previous_record_digest = l.head_digest
  BY DEF RecordOf, ChainedLog
<1>3. /\ q \in Seq({q[j] : j \in DOMAIN q}) /\ Len(q) = n
      /\ verify_command_evidence_chain(q, l.head_digest)
  BY DEF ChainedLog
<1> HIDE DEF t, rec, q
<1>4. /\ t.records = Append(q, rec) /\ t.head_digest = digest_command_evidence(rec)
      /\ t = [records |-> t.records, head_digest |-> t.head_digest]
  BY <1>1
<1>5. /\ DOMAIN q = 1 .. n
      /\ Len(t.records) = n + 1 /\ DOMAIN t.records = 1 .. n + 1
      /\ \A i \in 1 .. n : t.records[i] = q[i]
      /\ t.records[n + 1] = rec
      /\ t.records \in Seq({t.records[i] : i \in DOMAIN t.records})
  BY <1>3, <1>4, AppendUntyped
<1>6. verify_command_evidence_chain(t.records, t.head_digest)
  <2> DEFINE P(i) == IF i = 0 THEN InitialDigest ELSE digest_command_evidence(q[i])
             Q(i) == IF i = 0 THEN InitialDigest
                     ELSE digest_command_evidence(t.records[i])
  <2>1. /\ \A i \in 1 .. n : /\ q[i].ordinal = i - 1
                             /\ q[i].previous_record_digest = P(i - 1)
        /\ P(n) = l.head_digest
    BY <1>3, <1>5 DEF verify_command_evidence_chain
  <2>2. \A i \in 0 .. n : Q(i) = P(i)
    <3>1. \A i \in 0 .. n : i = 0 \/ i \in 1 .. n
      OBVIOUS
    <3> QED BY <1>5, <3>1
  <2>3. Q(n + 1) = t.head_digest
    BY <1>4, <1>5
  <2> HIDE DEF P, Q
  <2>4. \A i \in 1 .. n + 1 : /\ t.records[i].ordinal = i - 1
                             /\ t.records[i].previous_record_digest = Q(i - 1)
    <3> TAKE i \in 1 .. n + 1
    <3>1. CASE i = n + 1
      <4>1. i - 1 = n /\ n \in 0 .. n
        BY <3>1
      <4> QED BY <1>2, <1>5, <2>1, <2>2, <3>1, <4>1
    <3>2. CASE i # n + 1
      <4>1. i \in 1 .. n /\ i - 1 \in 0 .. n
        BY <3>2
      <4> QED BY <1>5, <2>1, <2>2, <4>1
    <3> QED BY <3>1, <3>2
  <2> QED BY <1>5, <2>3, <2>4 DEF verify_command_evidence_chain, Q
<1>7. ChainedLog(t, n + 1)
  BY <1>4, <1>5, <1>6 DEF ChainedLog
<1> QED BY <1>4, <1>5, <1>7 DEF t, rec, q

(* Rebuilding a chain over any entries: it verifies, and every record has   *)
(* its entry and stays what it is when the next ones come.                  *)
LEMMA RechainedLogs ==
    ASSUME NEW entries, NEW n \in Nat
    PROVE  /\ ChainedLog(Rechaining(entries)[n], n)
           /\ \A j \in 1 .. n : /\ Rechaining(entries)[n].records[j].entry = entries[j]
                                /\ Rechaining(entries)[n].records[j]
                                     = Rechaining(entries)[j].records[j]
<1> DEFINE a(k) == Rechaining(entries)[k]
           Good(k) == /\ ChainedLog(a(k), k)
                      /\ \A j \in 1 .. k : /\ a(k).records[j].entry = entries[j]
                                           /\ a(k).records[j] = a(j).records[j]
           P == {k \in Nat : Good(k)}
<1>1. Good(0)
  <2>1. a(0) = EmptyLog
    BY RechainSteps
  <2> HIDE DEF a
  <2>2. a(0).records = <<>> /\ a(0).head_digest = InitialDigest
    BY <2>1 DEF EmptyLog
  <2>3. verify_command_evidence_chain(a(0).records, a(0).head_digest)
    BY <2>2 DEF verify_command_evidence_chain
  <2>4. ChainedLog(a(0), 0)
    <3>1. a(0) = [records |-> a(0).records, head_digest |-> a(0).head_digest]
      BY <2>1 DEF EmptyLog
    <3>2. /\ a(0).records \in Seq({a(0).records[j] : j \in DOMAIN a(0).records})
          /\ Len(a(0).records) = 0 /\ DOMAIN a(0).records = 1 .. 0
      <4>1. \A q : q = <<>> => /\ q \in Seq({q[j] : j \in DOMAIN q})
                              /\ Len(q) = 0 /\ DOMAIN q = 1 .. 0
        OBVIOUS
      <4> QED BY Zenon, <2>2, <4>1
    <3> QED BY Zenon, <2>3, <3>1, <3>2 DEF ChainedLog
  <2> QED BY <2>4
<1>2. ASSUME NEW k \in Nat, Good(k)
      PROVE  Good(k + 1)
  <2>1. a(k + 1) = append(a(k), entries[k + 1])
    BY Zenon, RechainSteps
  <2> HIDE DEF a
  <2>2. ChainedLog(a(k), k)
    BY <1>2
  <2>3. /\ ChainedLog(append(a(k), entries[k + 1]), k + 1)
        /\ \A i \in 1 .. k :
              append(a(k), entries[k + 1]).records[i] = a(k).records[i]
        /\ append(a(k), entries[k + 1]).records[k + 1]
              = RecordOf(a(k), entries[k + 1])
    BY <2>2, ChainGrows
  <2>4. /\ ChainedLog(a(k + 1), k + 1)
        /\ \A i \in 1 .. k : a(k + 1).records[i] = a(k).records[i]
        /\ a(k + 1).records[k + 1].entry = entries[k + 1]
    BY <2>1, <2>3 DEF RecordOf
  <2>5. ASSUME NEW j \in 1 .. k + 1
        PROVE  /\ a(k + 1).records[j].entry = entries[j]
               /\ a(k + 1).records[j] = a(j).records[j]
    <3>1. j \in 1 .. k \/ j = k + 1
      OBVIOUS
    <3>2. CASE j \in 1 .. k
      BY <1>2, <2>4, <3>2
    <3>3. CASE j = k + 1
      BY <2>4, <3>3
    <3> QED BY <3>1, <3>2, <3>3
  <2> QED BY <2>4, <2>5
<1> HIDE DEF Good
<1>3. 0 \in P /\ \A k \in Nat : k \in P => k + 1 \in P
  BY <1>1, <1>2
<1> HIDE DEF P
<1>4. n \in P
  BY <1>3, NatSets
<1> QED BY <1>4 DEF P, Good

(* A chain over the first k entries depends on these entries only.          *)
LEMMA RechainAgrees ==
    ASSUME NEW p, NEW q, NEW n \in Nat, \A j \in 1 .. n : p[j] = q[j]
    PROVE  \A k \in 0 .. n : Rechaining(p)[k] = Rechaining(q)[k]
<1> DEFINE a(k) == Rechaining(p)[k]
           b(k) == Rechaining(q)[k]
           P == {k \in Nat : k <= n => a(k) = b(k)}
<1>1. 0 \in P
  BY RechainSteps
<1>2. ASSUME NEW k \in Nat, k \in P
      PROVE  k + 1 \in P
  <2> SUFFICES ASSUME k + 1 <= n PROVE a(k + 1) = b(k + 1)
    OBVIOUS
  <2>1. k <= n /\ k + 1 \in 1 .. n
    OBVIOUS
  <2>2. a(k) = b(k) /\ p[k + 1] = q[k + 1]
    BY <1>2, <2>1
  <2>3. /\ a(k + 1) = append(a(k), p[k + 1])
        /\ b(k + 1) = append(b(k), q[k + 1])
    BY Zenon, RechainSteps
  <2> HIDE DEF a, b, P
  <2> QED BY Zenon, <2>2, <2>3
<1> HIDE DEF P
<1>3. Nat \subseteq P
  BY <1>1, <1>2, NatSets
<1> QED BY <1>3 DEF P

(* What the replay needs to know of an entry of the pipeline.               *)
EntryShape(en) ==
    en = [world_fingerprint_before |-> en.world_fingerprint_before,
          observed_tick |-> en.observed_tick, envelope |-> en.envelope,
          session_sequence_before |-> en.session_sequence_before,
          session_sequence_after |-> en.session_sequence_after,
          pending_commands_before |-> en.pending_commands_before,
          pending_commands_after |-> en.pending_commands_after,
          rejection_code |-> en.rejection_code, queue_outcome |-> en.queue_outcome]

Tells(en, s, w, cmd) ==
    /\ EntryShape(en)
    /\ en.world_fingerprint_before = fingerprint_world_state(w)
    /\ en.observed_tick = w.tick_index
    /\ en.envelope = cmd
    /\ en.session_sequence_before = s.highest_accepted_sequence
    /\ en.pending_commands_before = Len(w.pending)

LeavesEntry(s, w, l, cmd) ==
    \E en : Tells(en, s, w, cmd) /\ submit(s, w, l, cmd).log = append(l, en)

(* A submission that finds room in the log leaves one such entry.           *)
LEMMA SubmitShape ==
    ASSUME NEW s, NEW w, WorldShape(w), NEW l, ~log_is_full(l), NEW cmd
    PROVE  /\ WorldShape(submit(s, w, l, cmd).world)
           /\ submit(s, w, l, cmd).world.tick_index = w.tick_index
           /\ LeavesEntry(s, w, l, cmd)
<1> DEFINE admission == evaluate(cmd, s, w.tick_index)
           queued == queue_velocity_result(w, translate(cmd))
           outcome == IF admission # "none" THEN "not_attempted" ELSE queued
           code == IF admission # "none" THEN admission
                   ELSE command_rejection_from_queue_result(queued)
           w2 == IF admission # "none" THEN w ELSE queue_velocity(w, translate(cmd))
           s2 == IF code = "none" THEN commit_accepted_sequence(s, cmd.sequence)
                 ELSE s
           en == [world_fingerprint_before |-> fingerprint_world_state(w),
                  observed_tick |-> w.tick_index,
                  envelope |-> cmd,
                  session_sequence_before |-> s.highest_accepted_sequence,
                  session_sequence_after |-> s2.highest_accepted_sequence,
                  pending_commands_before |-> Len(w.pending),
                  pending_commands_after |-> Len(w2.pending),
                  rejection_code |-> code,
                  queue_outcome |-> outcome]
           r == submit(s, w, l, cmd)
<1>1. r = [session |-> s2, world |-> w2, log |-> append(l, en), code |-> code]
  BY Zenon DEF submit
<1>2. Tells(en, s, w, cmd)
  <2> HIDE DEF admission, queued, outcome, code, w2, s2
  <2> QED BY DEF Tells, EntryShape
<1>3. WorldShape(w2) /\ w2.tick_index = w.tick_index
  <2>1. CASE admission # "none"
    BY <2>1
  <2>2. CASE admission = "none"
    <3>1. w2 = queue_velocity(w, translate(cmd))
      BY <2>2
    <3> HIDE DEF w2
    <3> QED BY <3>1, QueueShape
  <2> QED BY <2>1, <2>2
<1> HIDE DEF en, r, w2, s2, code
<1>4. r.world = w2 /\ r.log = append(l, en)
  BY <1>1
<1> QED BY <1>2, <1>3, <1>4 DEF r, LeavesEntry

-----------------------------------------------------------------------------
(* The replay of the log of a live run, record by record.                   *)

At(records, budget, k) ==
    Replaying(ReplayStart(NewSession(Session), InitialWorld), records, budget)[k]

(* The replay got to the end of the records, with the session, the log and  *)
(* the world, but for the ticks since, of the run.                          *)
Reached(st, n, s, l, w, needed) ==
    /\ ReplayShape(st)
    /\ st.code = "verified" /\ st.processed_records = n
    /\ st.performed_tick_advances = needed
    /\ st.session = s /\ st.log = l
    /\ WorldShape(st.world)
    /\ st.world.tick_index = InitialWorld.tick_index + needed
    /\ AdvanceTimes(st.world, w.tick_index - st.world.tick_index)
         = [ok |-> TRUE, world |-> w]

Limited(st, budget) ==
    /\ st.code = "tick_advance_limit_exceeded"
    /\ st.performed_tick_advances <= budget

ReplayedSoFar(n, s, l, w, needed, budget) ==
    LET st == At(l.records, budget, n)
    IN  /\ needed > budget => Limited(st, budget)
        /\ ~(needed > budget) => Reached(st, n, s, l, w, needed)

(* One more submission: the record passes every check of the replay, unless *)
(* the ticks up to it exceed the budget.                                    *)
LEMMA ReplayFollowsSubmit ==
    ASSUME NEW n \in Nat, NEW l, ChainedLog(l, n), NEW s, NEW w, WorldShape(w),
           NEW cmd, NEW en, Tells(en, s, w, cmd),
           NEW r, r = submit(s, w, l, cmd), r.log = append(l, en),
           WorldShape(r.world), r.world.tick_index = w.tick_index,
           NEW needed \in Nat, InitialWorld.tick_index \in Nat,
           InitialWorld.tick_index + needed <= w.tick_index,
           NEW budget \in Nat, ReplayedSoFar(n, s, l, w, needed, budget)
    PROVE  ReplayedSoFar(n + 1, r.session, r.log, r.world,
                         w.tick_index - InitialWorld.tick_index, budget)
<1> DEFINE now == w.tick_index - InitialWorld.tick_index
           rec == RecordOf(l, en)
           st == At(l.records, budget, n)
           next == At(r.log.records, budget, n + 1)
           t0 == InitialWorld.tick_index
           t == w.tick_index
<1>1. /\ r.log.records = Append(l.records, rec)
      /\ \A j \in 1 .. n : r.log.records[j] = l.records[j]
      /\ r.log.records[n + 1] = rec
      /\ ChainedLog(r.log, n + 1)
  BY ChainGrows
<1>2. rec.entry = en
  BY DEF RecordOf
<1>3. At(r.log.records, budget, n) = st
  <2>1. \A k \in 0 .. n : At(r.log.records, budget, k) = At(l.records, budget, k)
    <3> DEFINE p == r.log.records
               q == l.records
               start == ReplayStart(NewSession(Session), InitialWorld)
    <3>1. \A j \in 1 .. n : p[j] = q[j]
      BY <1>1
    <3> HIDE DEF p, q, start
    <3>2. \A k \in 0 .. n : Replaying(start, p, budget)[k] = Replaying(start, q, budget)[k]
      BY <3>1, ReplayAgrees
    <3> QED BY Zenon, <3>2 DEF At, p, q, start
  <2>2. n \in 0 .. n
    OBVIOUS
  <2> QED BY <2>1, <2>2
<1>4. next = ReplayRecord(st, rec, budget)
  <2>1. \A k \in Nat : At(r.log.records, budget, k + 1)
           = ReplayRecord(At(r.log.records, budget, k), r.log.records[k + 1], budget)
    BY ReplaySteps DEF At
  <2> QED BY <1>1, <1>3, <2>1
<1>5. t \in Nat
  BY Bounds DEF WorldShape
<1>6. now \in Nat /\ needed <= now
  BY <1>5
<1> HIDE DEF now, rec, st, next
<1>7. CASE needed > budget
  <2>1. Limited(st, budget)
    BY <1>7 DEF ReplayedSoFar, st
  <2>2. next = st
    BY <1>4, <2>1 DEF Limited, ReplayRecord
  <2>3. now > budget
    BY <1>6, <1>7
  <2> QED BY <2>1, <2>2, <2>3 DEF ReplayedSoFar, next, now
<1>8. CASE ~(needed > budget)
  <2>1. /\ ReplayShape(st)
        /\ st.code = "verified" /\ st.processed_records = n
        /\ st.performed_tick_advances = needed
        /\ st.session = s /\ st.log = l
        /\ st.world.tick_index = t0 + needed
        /\ AdvanceTimes(st.world, t - st.world.tick_index) = [ok |-> TRUE, world |-> w]
    BY <1>8 DEF ReplayedSoFar, Reached, st
  <2>2. Required(st, rec) = now - needed
    <3>1. Required(st, rec) = t - (t0 + needed)
      BY <1>2, <2>1 DEF Required, Tells
    <3> QED BY <1>5, <3>1 DEF now
  <2>3. Moved(st, rec).ok = TRUE /\ Moved(st, rec).world = w
    <3>1. Moved(st, rec) = AdvanceTimes(st.world, t - st.world.tick_index)
      BY <1>2 DEF Moved, Required, Tells
    <3> QED BY <2>1, <3>1
  <2>4. Resubmitted(st, rec) = r
    BY <1>2, <2>1, <2>3 DEF Resubmitted, Tells
  <2>5. ~tick_regressed(rec.entry, st.world)
    <3>1. rec.entry.observed_tick = t
      BY <1>2 DEF Tells
    <3> QED BY <1>5, <2>1, <3>1 DEF tick_regressed
  <2>6. budget_exceeded(Required(st, rec), budget, st.performed_tick_advances)
          <=> now > budget
    BY <1>6, <2>1, <2>2 DEF budget_exceeded
  <2>7. CASE now > budget
    <3>1. next = [st EXCEPT !.code = "tick_advance_limit_exceeded"]
      BY <1>4, <2>1, <2>5, <2>6, <2>7, ReplayCases
    <3>2. Limited(next, budget)
      <4>1. next.code = "tick_advance_limit_exceeded"
            /\ next.performed_tick_advances = needed
        BY <2>1, <3>1 DEF ReplayShape
      <4> QED BY <1>8, <4>1 DEF Limited
    <3> QED BY <2>7, <3>2 DEF ReplayedSoFar, next, now
  <2>8. CASE ~(now > budget)
    <3>1. PassesReplay(st, rec, budget)
      <4>1. ~record_differs(r.log, n + 1, rec)
        <5>1. Len(r.log.records) = n + 1
          BY <1>1 DEF ChainedLog
        <5>2. Last(r.log.records) = rec
          BY <1>1, <5>1 DEF Last
        <5> QED BY <5>1, <5>2 DEF record_differs
      <4>2. /\ s.highest_accepted_sequence = rec.entry.session_sequence_before
            /\ Len(w.pending) = rec.entry.pending_commands_before
            /\ fingerprint_world_state(w) = rec.entry.world_fingerprint_before
        BY <1>2 DEF Tells
      <4> QED BY <2>1, <2>3, <2>4, <2>5, <2>6, <2>8, <4>1, <4>2 DEF PassesReplay
    <3>2. next = [code |-> "verified", processed_records |-> n + 1,
                  performed_tick_advances |-> needed + (now - needed),
                  session |-> r.session, world |-> r.world, log |-> r.log]
      BY <1>4, <2>1, <2>2, <2>4, <3>1, ReplayCases
    <3>3. needed + (now - needed) = now
      BY <1>6
    <3>4. AdvanceTimes(r.world, r.world.tick_index - r.world.tick_index)
            = [ok |-> TRUE, world |-> r.world]
      <4>1. r.world.tick_index - r.world.tick_index = 0
        BY <1>5
      <4> QED BY <4>1, AdvanceSteps
    <3>5. r.world.tick_index = t0 + now
      BY <1>5 DEF now
    <3>6. next = [code |-> "verified", processed_records |-> n + 1,
                  performed_tick_advances |-> now,
                  session |-> r.session, world |-> r.world, log |-> r.log]
      BY <3>2, <3>3
    <3>7. Reached(next, n + 1, r.session, r.log, r.world, now)
      <4>1. ReplayShape(next) /\ next.code = "verified"
            /\ next.processed_records = n + 1 /\ next.performed_tick_advances = now
            /\ next.session = r.session /\ next.log = r.log /\ next.world = r.world
        BY <3>6 DEF ReplayShape
      <4> QED BY <3>4, <3>5, <4>1 DEF Reached
    <3> QED BY <2>8, <3>7 DEF ReplayedSoFar, next, now
  <2> QED BY <2>7, <2>8
<1> QED BY <1>7, <1>8

(* A record was replayed, and the replay goes on.                           *)
Passed(st, k) ==
    /\ ReplayShape(st)
    /\ st.code = "verified" /\ st.processed_records = k
    /\ WorldShape(st.world)

EntriesOf(l) == [i \in DOMAIN l.records |-> l.records[i].entry]

NewestTick(l) ==
    IF l.records = <<>> THEN 0
    ELSE Last(l.records).entry.observed_tick - InitialWorld.tick_index

(* The inductive invariant of the live run, on its world, session and log:  *)
(* the log is the chain over its entries, and replaying it gets to the end  *)
(* whatever the budget, unless the budget is spent, passing every record.   *)
Live(w, s, l) ==
    LET n == Len(l.records)
    IN  /\ WorldShape(w)
        /\ ChainedLog(l, n)
        /\ l = Rechaining(EntriesOf(l))[n]
        /\ \A i \in 1 .. n : /\ EntryShape(l.records[i].entry)
                             /\ l.records[i].entry.observed_tick \in UInt64
        /\ NewestTick(l) \in Nat
        /\ InitialWorld.tick_index + NewestTick(l) <= w.tick_index
        /\ \A budget \in Budgets \cup {UInt64Max} :
              ReplayedSoFar(n, s, l, w, NewestTick(l), budget)
        /\ \A k \in 0 .. n : Passed(At(l.records, UInt64Max, k), k)

(* The constants the replay is given.                                       *)
LEMMA BudgetsAreNat == /\ \A budget \in Budgets \cup {UInt64Max} : budget \in Nat
                       /\ UInt64Max \in Nat
                       /\ WorldShape(InitialWorld) /\ InitialWorld.tick_index \in Nat
<1>1. UInt64 \subseteq Nat /\ UInt64Max \in Nat
  BY Bounds
<1>2. WorldShape(InitialWorld)
  BY ReplayAssumption DEF WorldShape, IsWorld
<1> QED BY <1>1, <1>2, ReplayAssumption DEF WorldShape

(* The chain over the entries of a longer log.                              *)
LEMMA EntriesGrow ==
    ASSUME NEW n \in Nat, NEW l, ChainedLog(l, n), l = Rechaining(EntriesOf(l))[n],
           NEW en
    PROVE  append(l, en) = Rechaining(EntriesOf(append(l, en)))[n + 1]
<1> DEFINE t == append(l, en)
           p == EntriesOf(t)
           q == EntriesOf(l)
<1>1. /\ ChainedLog(t, n + 1)
      /\ \A i \in 1 .. n : t.records[i] = l.records[i]
      /\ t.records[n + 1] = RecordOf(l, en)
  BY ChainGrows
<1>2. DOMAIN l.records = 1 .. n /\ DOMAIN t.records = 1 .. n + 1
  BY <1>1 DEF ChainedLog
<1> HIDE DEF t
<1>3. /\ \A j \in 1 .. n : p[j] = q[j]
      /\ p[n + 1] = en
  <2>1. \A j \in 1 .. n : j \in 1 .. n + 1
    OBVIOUS
  <2>2. n + 1 \in 1 .. n + 1
    OBVIOUS
  <2> QED BY <1>1, <1>2, <2>1, <2>2 DEF EntriesOf, RecordOf
<1> HIDE DEF p, q
<1>4. \A k \in 0 .. n : Rechaining(p)[k] = Rechaining(q)[k]
  BY <1>3, RechainAgrees
<1>5. Rechaining(p)[n] = l
  BY <1>4 DEF q
<1>6. Rechaining(p)[n + 1] = append(Rechaining(p)[n], p[n + 1])
  BY Zenon, RechainSteps
<1> QED BY <1>3, <1>5, <1>6 DEF t, p

(* It holds of the world and the session the run starts with.               *)
LEMMA LiveStart == Live(InitialWorld, NewSession(Session), EmptyLog)
<1> DEFINE l == EmptyLog
           w == InitialWorld
           s == NewSession(Session)
<1>1. /\ l.records = <<>> /\ Len(l.records) = 0
      /\ l = Rechaining(EntriesOf(l))[0]
      /\ ChainedLog(l, 0)
  BY RechainSteps, RechainedLogs DEF EmptyLog
<1>2. NewestTick(l) = 0
  BY <1>1 DEF NewestTick
<1>3. \A budget : At(l.records, budget, 0) = ReplayStart(s, w)
  BY ReplaySteps DEF At
<1> HIDE DEF l
<1>4. w.tick_index - w.tick_index = 0 /\ w.tick_index + 0 = w.tick_index
      /\ w.tick_index <= w.tick_index
  BY BudgetsAreNat
<1> DEFINE st == ReplayStart(s, w)
<1>6. /\ ReplayShape(st) /\ st.code = "verified" /\ st.processed_records = 0
      /\ st.performed_tick_advances = 0 /\ st.session = s /\ st.world = w
      /\ st.log = l
  BY DEF ReplayShape, ReplayStart, l
<1> HIDE DEF st, s, w
<1>7. AdvanceTimes(w, 0) = [ok |-> TRUE, world |-> w]
  BY AdvanceSteps
<1>8. Reached(st, 0, s, l, w, 0)
  BY <1>4, <1>6, <1>7, BudgetsAreNat DEF Reached, w
<1>9. ASSUME NEW budget \in Budgets \cup {UInt64Max}
      PROVE  ReplayedSoFar(0, s, l, w, 0, budget)
  <2>1. budget \in Nat
    BY BudgetsAreNat
  <2>2. ~(0 > budget)
    BY <2>1
  <2> QED BY <1>3, <1>8, <2>2 DEF ReplayedSoFar, st, s, w
<1>10. \A k \in 0 .. 0 : Passed(At(l.records, UInt64Max, k), k)
  <2>1. \A k \in 0 .. 0 : k = 0
    OBVIOUS
  <2> QED BY <1>3, <1>6, <2>1, BudgetsAreNat DEF Passed, st, s, w
<1>11. \A i \in 1 .. 0 : FALSE
  OBVIOUS
<1>12. Live(w, s, l)
  BY <1>1, <1>2, <1>4, <1>9, <1>10, <1>11, BudgetsAreNat DEF Live, w
<1> QED BY <1>12 DEF w, s, l

(* A tick of the live world is one more tick after the replay.              *)
LEMMA LiveAdvance ==
    ASSUME NEW w, NEW s, NEW l, Live(w, s, l)
    PROVE  Live(advance(w), s, l)
<1> DEFINE n == Len(l.records)
           v == advance(w)
           needed == NewestTick(l)
<1>1. CASE advance_result(w) # "advanced"
  BY <1>1, AdvanceOnce DEF Live
<1>2. CASE advance_result(w) = "advanced"
  <2>1. WorldShape(w)
    BY DEF Live
  <2>2. WorldShape(v) /\ v.tick_index = w.tick_index + 1 /\ w.tick_index \in Nat
    BY <1>2, <2>1, AdvanceOnce, Bounds DEF WorldShape
  <2>3. needed \in Nat /\ InitialWorld.tick_index + needed <= w.tick_index
    BY DEF Live
  <2>4. InitialWorld.tick_index + needed <= v.tick_index
    BY <2>2, <2>3, BudgetsAreNat
  <2>5. ASSUME NEW st, Reached(st, n, s, l, w, needed)
        PROVE  Reached(st, n, s, l, v, needed)
    <3> DEFINE d == w.tick_index - st.world.tick_index
               after == AdvanceTimes(st.world, d)
    <3>1. st.world.tick_index = InitialWorld.tick_index + needed
      BY <2>5 DEF Reached
    <3>2. d \in Nat /\ v.tick_index - st.world.tick_index = d + 1
      BY <2>2, <2>3, <3>1, BudgetsAreNat
    <3>3. after = [ok |-> TRUE, world |-> w]
      BY <2>5 DEF Reached
    <3> HIDE DEF d
    <3>4. AdvanceTimes(st.world, d + 1)
            = IF ~after.ok THEN after
              ELSE [ok |-> advance_result(after.world) = "advanced",
                    world |-> advance(after.world)]
      BY Zenon, <3>2, AdvanceSteps
    <3> HIDE DEF after, v
    <3>5. after.ok = TRUE /\ after.world = w
      BY <3>3
    <3>6. AdvanceTimes(st.world, d + 1) = [ok |-> TRUE, world |-> advance(w)]
      <4>1. AdvanceTimes(st.world, d + 1)
              = [ok |-> advance_result(w) = "advanced", world |-> advance(w)]
        BY <3>4, <3>5
      <4>2. (advance_result(w) = "advanced") = TRUE
        BY <1>2
      <4> QED BY Zenon, <4>1, <4>2
    <3> QED BY <2>5, <3>2, <3>6 DEF Reached, v
  <2>6. ASSUME NEW budget \in Budgets \cup {UInt64Max}
        PROVE  ReplayedSoFar(n, s, l, v, needed, budget)
    <3>1. ReplayedSoFar(n, s, l, w, needed, budget)
      BY DEF Live
    <3> HIDE DEF n, v, needed
    <3> QED BY <2>5, <3>1 DEF ReplayedSoFar
  <2> HIDE DEF v
  <2>7. Live(v, s, l)
    BY <2>2, <2>4, <2>6 DEF Live
  <2> QED BY <2>7 DEF v
<1> QED BY <1>1, <1>2

(* So is a submission.                                                      *)
LEMMA LiveSubmit ==
    ASSUME NEW w, NEW s, NEW l, Live(w, s, l), ~log_is_full(l), NEW cmd
    PROVE  LET r == submit(s, w, l, cmd) IN Live(r.world, r.session, r.log)
<1> DEFINE n == Len(l.records)
           r == submit(s, w, l, cmd)
           needed == NewestTick(l)
           now == w.tick_index - InitialWorld.tick_index
<1>1. /\ WorldShape(w) /\ ChainedLog(l, n) /\ l = Rechaining(EntriesOf(l))[n]
      /\ needed \in Nat /\ InitialWorld.tick_index + needed <= w.tick_index
  BY DEF Live
<1>2. n \in Nat
  BY <1>1 DEF ChainedLog
<1>3. WorldShape(r.world) /\ r.world.tick_index = w.tick_index
  BY <1>1, SubmitShape
<1>4. PICK en : Tells(en, s, w, cmd) /\ r.log = append(l, en)
  <2>1. LeavesEntry(s, w, l, cmd)
    BY <1>1, SubmitShape
  <2> QED BY Zenon, <2>1 DEF LeavesEntry
<1> HIDE DEF r
<1>5. w.tick_index \in Nat /\ w.tick_index \in UInt64 /\ InitialWorld.tick_index \in Nat
  BY <1>1, Bounds, BudgetsAreNat DEF WorldShape
<1>6. now \in Nat /\ InitialWorld.tick_index + now <= w.tick_index /\ needed <= now
      /\ now <= UInt64Max
  <2>1. w.tick_index <= UInt64Max /\ UInt64Max \in Nat
    BY <1>5, BudgetsAreNat DEF UInt64
  <2> QED BY <1>1, <1>5, <2>1
<1> HIDE DEF n
<1>7. /\ ChainedLog(r.log, n + 1)
      /\ \A i \in 1 .. n : r.log.records[i] = l.records[i]
      /\ r.log.records[n + 1] = RecordOf(l, en)
  BY <1>1, <1>2, <1>4, ChainGrows
<1>8. Len(r.log.records) = n + 1
  BY <1>7 DEF ChainedLog
<1>9. r.log = Rechaining(EntriesOf(r.log))[n + 1]
  BY <1>1, <1>2, <1>4, EntriesGrow
<1>10. r.log.records[n + 1].entry = en
  BY <1>7 DEF RecordOf
<1>11. NewestTick(r.log) = now
  <2>1. r.log.records # <<>>
    BY <1>2, <1>8
  <2>2. Last(r.log.records).entry = en
    BY <1>8, <1>10 DEF Last
  <2> QED BY <1>4, <2>1, <2>2 DEF NewestTick, Tells
<1> HIDE DEF now, needed
<1>12. ASSUME NEW budget \in Budgets \cup {UInt64Max}
       PROVE  ReplayedSoFar(n + 1, r.session, r.log, r.world, now, budget)
  <2>1. budget \in Nat
    BY BudgetsAreNat
  <2>2. ReplayedSoFar(n, s, l, w, needed, budget)
    BY DEF Live, n, needed
  <2> QED BY <1>1, <1>2, <1>3, <1>4, <1>5, <2>1, <2>2, ReplayFollowsSubmit DEF r, now
<1>13. ASSUME NEW k \in 0 .. n + 1
       PROVE  Passed(At(r.log.records, UInt64Max, k), k)
  <2>1. CASE k = n + 1
    <3>1. ReplayedSoFar(n + 1, r.session, r.log, r.world, now, UInt64Max)
      BY <1>12
    <3>2. ~(now > UInt64Max)
      BY <1>6, BudgetsAreNat
    <3> QED BY <2>1, <3>1, <3>2 DEF ReplayedSoFar, Reached, Passed
  <2>2. CASE k # n + 1
    <3>1. k \in 0 .. n
      BY <1>2, <2>2
    <3>2. Passed(At(l.records, UInt64Max, k), k)
      BY <3>1 DEF Live, n
    <3>3. At(r.log.records, UInt64Max, k) = At(l.records, UInt64Max, k)
      <4> DEFINE p == r.log.records
                 q == l.records
                 start == ReplayStart(NewSession(Session), InitialWorld)
      <4>1. \A j \in 1 .. n : p[j] = q[j]
        BY <1>7
      <4> HIDE DEF p, q, start
      <4>2. \A i \in 0 .. n : Replaying(start, p, UInt64Max)[i]
                                = Replaying(start, q, UInt64Max)[i]
        BY <1>2, <4>1, ReplayAgrees
      <4> QED BY Zenon, <3>1, <4>2 DEF At, p, q, start
    <3> QED BY <3>2, <3>3
  <2> QED BY <2>1, <2>2
<1>14. ASSUME NEW i \in 1 .. n + 1
       PROVE  /\ EntryShape(r.log.records[i].entry)
              /\ r.log.records[i].entry.observed_tick \in UInt64
  <2>1. CASE i = n + 1
    BY <1>4, <1>5, <1>10, <2>1 DEF Tells
  <2>2. CASE i # n + 1
    <3>1. i \in 1 .. n
      BY <1>2, <2>2
    <3> QED BY <1>7, <3>1 DEF Live, n
  <2> QED BY <2>1, <2>2
<1>15. Live(r.world, r.session, r.log)
  BY <1>3, <1>6, <1>7, <1>8, <1>9, <1>11, <1>12, <1>13, <1>14 DEF Live
<1> QED BY <1>15 DEF r

LiveInv ==
    /\ sessions = [s \in Sessions |-> sessions[s]]
    /\ Live(world, sessions[Session], log)

(* It holds at the start, and every step of the live run keeps it.          *)
LEMMA LiveHolds == LiveSpec => []LiveInv
<1>1. LiveInit => LiveInv
  <2> SUFFICES ASSUME LiveInit PROVE LiveInv
    OBVIOUS
  <2>1. sessions = [s \in Sessions |-> NewSession(s)] /\ Session \in Sessions
    BY ReplayAssumption DEF LiveInit
  <2>2. /\ world = InitialWorld /\ sessions[Session] = NewSession(Session)
        /\ log = EmptyLog
    BY <2>1 DEF LiveInit
  <2>3. sessions = [s \in Sessions |-> sessions[s]]
    BY <2>1
  <2> QED BY <2>2, <2>3, LiveStart DEF LiveInv
<1>2. LiveInv /\ [LiveNext]_vars => LiveInv'
  <2> SUFFICES ASSUME LiveInv, [LiveNext]_vars PROVE LiveInv'
    OBVIOUS
  <2>1. ASSUME NEW cmd, Submit(Session, cmd)
        PROVE  LiveInv'
    <3> DEFINE r == submit(sessions[Session], world, log, cmd)
    <3>1. /\ world' = r.world /\ sessions' = [sessions EXCEPT ![Session] = r.session]
          /\ log' = r.log
      BY <2>1 DEF Submit
    <3>2. Session \in DOMAIN sessions
      BY ReplayAssumption DEF LiveInv
    <3>3. CASE log_is_full(log)
      <4>1. r.world = world /\ r.session = sessions[Session] /\ r.log = log
        BY <3>3 DEF submit
      <4> HIDE DEF r
      <4>2. sessions' = sessions
        BY <3>1, <4>1 DEF LiveInv
      <4> QED BY <3>1, <4>1, <4>2 DEF LiveInv
    <3>4. CASE ~log_is_full(log)
      <4>1. Live(r.world, r.session, r.log)
        BY <3>4, LiveSubmit DEF LiveInv
      <4> HIDE DEF r
      <4>2. /\ sessions'[Session] = r.session
            /\ sessions' = [s \in Sessions |-> sessions'[s]]
        BY <3>1, <3>2 DEF LiveInv
      <4> QED BY <3>1, <4>1, <4>2 DEF LiveInv
    <3> QED BY <3>3, <3>4
  <2>2. ASSUME Advance
        PROVE  LiveInv'
    BY <2>2, LiveAdvance DEF Advance, LiveInv
  <2>3. ASSUME UNCHANGED vars
        PROVE  LiveInv'
    BY <2>3 DEF vars, LiveInv
  <2> QED BY <2>1, <2>2, <2>3 DEF LiveNext
<1> QED BY <1>1, <1>2, PTL DEF LiveSpec

(* Replaying what the run logged, when the chain verifies.                  *)
LEMMA ReplayedIsAt ==
    ASSUME NEW n, NEW l, ChainedLog(l, n), NEW budget
    PROVE  Replayed(l, budget) = At(l.records, budget, n)
<1>1. verify_command_evidence_chain(l.records, l.head_digest) /\ Len(l.records) = n
  BY DEF ChainedLog
<1> QED BY Zenon, <1>1 DEF Replayed, replay, At

(* Replaying the log of a live run, with any budget of ticks, is refused    *)
(* for the budget alone, and otherwise rebuilds the session, the evidence   *)
(* and the world of the run, however it ended, whatever ticks failed and    *)
(* whatever was refused in it (command_evidence_replay.cpp:42-222).         *)
THEOREM ReplayReproducesTheRun == LiveSpec => []ReplayReproduces
<1>1. LiveInv => ReplayReproduces
  <2> SUFFICES ASSUME LiveInv, NEW budget \in Budgets \cup {UInt64Max}
               PROVE  LET needed == NewestTick(log)
                          r == Replayed(log, budget)
                      IN  /\ r.performed_tick_advances <= budget
                          /\ IF needed > budget
                             THEN r.code = "tick_advance_limit_exceeded"
                             ELSE /\ r.code = "verified"
                                  /\ r.processed_records = Len(Records)
                                  /\ r.session = sessions[Session]
                                  /\ r.log = log
                                  /\ AdvanceTimes(r.world,
                                        world.tick_index - r.world.tick_index)
                                       = [ok |-> TRUE, world |-> world]
    BY Zenon DEF ReplayReproduces, Reproduces, NewestTick, Records
  <2> DEFINE needed == NewestTick(log)
             r == Replayed(log, budget)
             n == Len(log.records)
  <2>1. ChainedLog(log, n)
        /\ ReplayedSoFar(n, sessions[Session], log, world, needed, budget)
        /\ needed \in Nat
    BY DEF LiveInv, Live
  <2>2. r = At(log.records, budget, n)
    BY <2>1, ReplayedIsAt
  <2>3. budget \in Nat
    BY BudgetsAreNat
  <2> HIDE DEF needed, r, n
  <2>4. CASE needed > budget
    <3>1. Limited(r, budget)
      BY <2>1, <2>2, <2>4 DEF ReplayedSoFar
    <3> QED BY <2>4, <3>1 DEF Limited, needed, r
  <2>5. CASE ~(needed > budget)
    <3>1. Reached(r, n, sessions[Session], log, world, needed)
      BY <2>1, <2>2, <2>5 DEF ReplayedSoFar
    <3>2. r.performed_tick_advances <= budget
      BY <2>1, <2>3, <2>5, <3>1 DEF Reached
    <3> QED BY <2>5, <3>1, <3>2 DEF Reached, needed, r, n, Records
  <2> QED BY <2>4, <2>5
<1> QED BY <1>1, LiveHolds, PTL

-----------------------------------------------------------------------------
(* Forged records.                                                          *)

(* What was not sent is put in, and not both the tick and the fingerprint.  *)
Forged(en, original) ==
    /\ en # original
    /\ en.envelope = original.envelope
    /\ en.observed_tick \in Nat
    /\ \/ en.observed_tick = original.observed_tick
       \/ en.world_fingerprint_before = original.world_fingerprint_before

(* Each of the forgeries that are tried is one.                             *)
LEMMA ForgeriesAreForged ==
    ASSUME NEW original, EntryShape(original), original.observed_tick \in UInt64,
           world.tick_index \in Nat, NEW en \in Forgeries(original)
    PROVE  Forged(en, original)
<1>1. /\ "observed_tick" \in DOMAIN original /\ "envelope" \in DOMAIN original
      /\ "world_fingerprint_before" \in DOMAIN original
  BY DEF EntryShape
<1>2. original.observed_tick \in Nat
  BY Bounds
<1>3. ASSUME NEW t \in 0 .. world.tick_index + 1, en = [original EXCEPT !.observed_tick = t]
      PROVE  /\ en.envelope = original.envelope /\ en.observed_tick \in Nat
             /\ en.world_fingerprint_before = original.world_fingerprint_before
  BY <1>1, <1>3
<1> DEFINE ticks == {[original EXCEPT !.observed_tick = t] :
                        t \in 0 .. world.tick_index + 1}
           before == {[original EXCEPT !.session_sequence_before = n] : n \in 0 .. 2}
           after == {[original EXCEPT !.session_sequence_after = n] : n \in 0 .. 2}
           pending == {[original EXCEPT !.pending_commands_before = n] : n \in 0 .. 2}
           left == {[original EXCEPT !.pending_commands_after = n] : n \in 0 .. 2}
           outcomes == {[original EXCEPT !.rejection_code = QueueRejection[q],
                                         !.queue_outcome = q] :
                           q \in DOMAIN QueueRejection}
           others == {[original EXCEPT !.rejection_code = "duplicate_sequence",
                                       !.queue_outcome = "not_attempted"],
                      [original EXCEPT !.world_fingerprint_before =
                                          fingerprint_world_state(world)]}
           same(e) == e.envelope = original.envelope
                      /\ e.observed_tick = original.observed_tick
<1>4. /\ en \in UNION {ticks, before, after, pending, left, outcomes, others}
      /\ en # original
  <2>1. Forgeries(original)
          = (UNION {ticks, before, after, pending, left, outcomes, others}) \ {original}
    BY DEF Forgeries
  <2> HIDE DEF ticks, before, after, pending, left, outcomes, others
  <2>2. en \in Forgeries(original)
    OBVIOUS
  <2> QED BY Zenon, <2>1, <2>2
<1>5. \A e \in before : same(e)
  BY <1>1
<1>6. \A e \in after : same(e)
  BY <1>1
<1>7. \A e \in pending : same(e)
  BY <1>1
<1>8. \A e \in left : same(e)
  BY <1>1
<1>9. \A e \in outcomes : same(e)
  BY <1>1
<1>10. \A e \in others : same(e)
  BY <1>1
<1>11. CASE en \in ticks
  <2>1. PICK t \in 0 .. world.tick_index + 1 : en = [original EXCEPT !.observed_tick = t]
    BY <1>11
  <2> HIDE DEF ticks, before, after, pending, left, outcomes, others
  <2> QED BY <1>3, <1>4, <2>1 DEF Forged
<1> HIDE DEF ticks, before, after, pending, left, outcomes, others
<1>12. CASE en \notin ticks
  <2>1. same(en)
    BY <1>4, <1>5, <1>6, <1>7, <1>8, <1>9, <1>10, <1>12
  <2> QED BY <1>2, <1>4, <2>1 DEF Forged
<1> QED BY <1>11, <1>12

(* The fingerprint tells the tick.                                          *)
LEMMA FingerprintTellsTick ==
    ASSUME NEW v, NEW w, fingerprint_world_state(v) = fingerprint_world_state(w)
    PROVE  v.tick_index = w.tick_index
<1>1. encode_world_state(v) = encode_world_state(w)
  BY DEF fingerprint_world_state
<1>2. encode_world_state(v)[1] = v.tick_index /\ encode_world_state(w)[1] = w.tick_index
  BY DEF encode_world_state
<1> QED BY <1>1, <1>2

(* Two records that pass at one place of the replay cannot differ by such a *)
(* forgery: the tick is bound by the fingerprint, the rest by the record    *)
(* that the submission leaves.                                              *)
LEMMA ForgeryFails ==
    ASSUME NEW st, ReplayShape(st), WorldShape(st.world), NEW budget,
           NEW record, record.entry.observed_tick \in Nat,
           PassesReplay(st, record, budget),
           NEW forged, Forged(forged.entry, record.entry)
    PROVE  ~PassesReplay(st, forged, budget)
<1> SUFFICES ASSUME PassesReplay(st, forged, budget) PROVE FALSE
  OBVIOUS
<1> DEFINE E == record.entry
           F == forged.entry
           t == st.world.tick_index
<1>1. t \in Nat /\ E.observed_tick \in Nat /\ F.observed_tick \in Nat
  BY Bounds DEF WorldShape, Forged
<1>2. E.observed_tick = F.observed_tick
  <2>1. CASE E.world_fingerprint_before = F.world_fingerprint_before
    <3>1. Required(st, record) \in Nat /\ Required(st, forged) \in Nat
          /\ t + Required(st, record) = E.observed_tick
          /\ t + Required(st, forged) = F.observed_tick
      BY <1>1 DEF PassesReplay, tick_regressed, Required
    <3>2. Moved(st, record).ok /\ Moved(st, forged).ok
      BY DEF PassesReplay
    <3>3. /\ Moved(st, record).world.tick_index = t + Required(st, record)
          /\ Moved(st, forged).world.tick_index = t + Required(st, forged)
      BY <3>1, <3>2, AdvanceCount DEF Moved
    <3>4. fingerprint_world_state(Moved(st, record).world)
            = fingerprint_world_state(Moved(st, forged).world)
      BY <2>1 DEF PassesReplay
    <3> QED BY <3>1, <3>3, <3>4, FingerprintTellsTick
  <2> QED BY <2>1 DEF Forged
<1>3. Resubmitted(st, record) = Resubmitted(st, forged)
  <2>1. Required(st, record) = Required(st, forged) /\ E.envelope = F.envelope
    BY <1>2 DEF Required, Forged
  <2> QED BY <2>1 DEF Resubmitted, Moved
<1>4. record = forged
  BY <1>3 DEF PassesReplay, record_differs
<1> QED BY <1>4 DEF Forged

(* The log that is chained anew over the entries, one of them forged.       *)
Tampered(t, l, n, i, en) ==
    /\ ChainedLog(t, n)
    /\ \A j \in 1 .. i - 1 : t.records[j] = l.records[j]
    /\ t.records[i].entry = en

(* It verifies as a chain and agrees with the log up to the forged record.  *)
LEMMA ForgedLog ==
    ASSUME NEW n \in Nat, NEW l, ChainedLog(l, n), l = Rechaining(EntriesOf(l))[n],
           NEW i \in 1 .. n, NEW en
    PROVE  Tampered(Rechained([EntriesOf(l) EXCEPT ![i] = en]), l, n, i, en)
<1> DEFINE p == EntriesOf(l)
           q == [p EXCEPT ![i] = en]
           S == {q[j] : j \in 1 .. n}
<1>1. p = [j \in 1 .. n |-> l.records[j].entry]
  BY DEF EntriesOf, ChainedLog
<1> HIDE DEF p
<1>2. /\ q = [j \in 1 .. n |-> q[j]] /\ q[i] = en
      /\ \A j \in 1 .. i - 1 : q[j] = p[j]
  BY <1>1
<1> HIDE DEF q
<1>3. Len(q) = n
  <2>1. q \in [1 .. n -> S]
    BY <1>2
  <2> HIDE DEF S
  <2> QED BY <2>1
<1> DEFINE t == Rechaining(q)[n]
<1>4. /\ ChainedLog(t, n)
      /\ \A j \in 1 .. n : /\ t.records[j].entry = q[j]
                           /\ t.records[j] = Rechaining(q)[j].records[j]
  BY RechainedLogs
<1>5. \A j \in 1 .. n : l.records[j] = Rechaining(p)[j].records[j]
  <2>1. \A j \in 1 .. n : Rechaining(p)[n].records[j] = Rechaining(p)[j].records[j]
    BY RechainedLogs
  <2> QED BY <2>1 DEF p
<1>6. \A j \in 0 .. i - 1 : Rechaining(q)[j] = Rechaining(p)[j]
  <2>1. PICK m \in Nat : m = i - 1
    OBVIOUS
  <2>2. \A j \in 1 .. m : q[j] = p[j]
    BY <1>2, <2>1
  <2>3. \A j \in 0 .. m : Rechaining(q)[j] = Rechaining(p)[j]
    BY <2>2, RechainAgrees
  <2> QED BY <2>1, <2>3
<1> HIDE DEF t
<1>7. \A j \in 1 .. i - 1 : t.records[j] = l.records[j]
  <2> TAKE j \in 1 .. i - 1
  <2>1. j \in 1 .. n /\ j \in 0 .. i - 1
    OBVIOUS
  <2> QED BY <1>4, <1>5, <1>6, <2>1
<1>8. t.records[i].entry = en
  BY <1>2, <1>4
<1>9. Rechained(q) = t
  BY <1>3 DEF Rechained, t
<1>10. Tampered(t, l, n, i, en)
  BY <1>4, <1>7, <1>8 DEF Tampered
<1> QED BY Zenon, <1>9, <1>10 DEF q, p

(* A forged outcome in any one record of the log of a live run is found at  *)
(* that record, even when the chain and its head were computed anew over    *)
(* it (command_evidence_replay.cpp:69-222).                                 *)
THEOREM ReplayFindsForgery == LiveSpec => []ForgeryDetected
<1>1. LiveInv => ForgeryDetected
  <2> SUFFICES ASSUME LiveInv, NEW i \in DOMAIN Records, NEW en \in Forgeries(Entry(i))
               PROVE  LET r == Replayed(Rechained([Entries EXCEPT ![i] = en]), UInt64Max)
                      IN  r.code # "verified" /\ r.processed_records = i - 1
    BY Zenon DEF ForgeryDetected, StoppedAt
  <2> DEFINE n == Len(log.records)
             l == log
             t == Rechained([EntriesOf(l) EXCEPT ![i] = en])
             r == Replayed(t, UInt64Max)
             at(k) == At(l.records, UInt64Max, k)
             found(k) == At(t.records, UInt64Max, k)
             record == l.records[i]
             forged == t.records[i]
  <2>1. /\ ChainedLog(l, n) /\ l = Rechaining(EntriesOf(l))[n]
        /\ WorldShape(world)
        /\ \A k \in 1 .. n : /\ EntryShape(l.records[k].entry)
                             /\ l.records[k].entry.observed_tick \in UInt64
        /\ \A k \in 0 .. n : Passed(at(k), k)
    BY DEF LiveInv, Live
  <2>2. n \in Nat /\ i \in 1 .. n /\ Entry(i) = record.entry
    BY <2>1 DEF ChainedLog, Records, Entry
  <2>3. Entries = EntriesOf(l)
    BY DEF Entries, EntriesOf, Records
  <2>4. Forged(en, record.entry)
    <3>1. world.tick_index \in Nat
      BY <2>1, Bounds DEF WorldShape
    <3>2. EntryShape(record.entry) /\ record.entry.observed_tick \in UInt64
      BY <2>1, <2>2
    <3> HIDE DEF record
    <3> QED BY <2>2, <3>1, <3>2, ForgeriesAreForged
  <2> HIDE DEF n, l
  <2>5. /\ ChainedLog(t, n)
        /\ \A j \in 1 .. i - 1 : t.records[j] = l.records[j]
        /\ forged.entry = en
    <3>1. ChainedLog(l, n) /\ l = Rechaining(EntriesOf(l))[n] /\ n \in Nat
          /\ i \in 1 .. n
      BY <2>1, <2>2
    <3>2. Tampered(t, l, n, i, en)
      BY <3>1, ForgedLog
    <3> HIDE DEF t
    <3> QED BY <3>2 DEF Tampered
  <2>6. r = found(n)
    <3> HIDE DEF t
    <3> QED BY <2>5, ReplayedIsAt
  <2>7. i - 1 \in Nat /\ (i - 1) + 1 = i /\ i - 1 \in 0 .. n /\ i \in 0 .. n
        /\ n - i \in Nat /\ i + (n - i) = n /\ i - 1 \in 0 .. i - 1 /\ i \in Nat
    BY <2>2
  <2> HIDE DEF t
  <2>8. found(i - 1) = at(i - 1)
    <3> DEFINE p == t.records
               q == l.records
               start == ReplayStart(NewSession(Session), InitialWorld)
    <3>1. \A j \in 1 .. i - 1 : p[j] = q[j]
      BY <2>5
    <3> HIDE DEF p, q, start
    <3>2. \A k \in 0 .. i - 1 : Replaying(start, p, UInt64Max)[k]
                                  = Replaying(start, q, UInt64Max)[k]
      BY <2>7, <3>1, ReplayAgrees
    <3> QED BY Zenon, <2>7, <3>2 DEF At, p, q, start
  <2>9. /\ at(i) = ReplayRecord(at(i - 1), record, UInt64Max)
        /\ found(i) = ReplayRecord(at(i - 1), forged, UInt64Max)
    <3>1. \A k \in Nat : at(k + 1) = ReplayRecord(at(k), l.records[k + 1], UInt64Max)
      BY ReplaySteps DEF At
    <3>2. \A k \in Nat : found(k + 1)
                           = ReplayRecord(found(k), t.records[k + 1], UInt64Max)
      BY ReplaySteps DEF At
    <3> HIDE DEF at, found
    <3>3. at((i - 1) + 1) = ReplayRecord(at(i - 1), l.records[(i - 1) + 1], UInt64Max)
      BY Zenon, <2>7, <3>1
    <3>4. found((i - 1) + 1)
            = ReplayRecord(found(i - 1), t.records[(i - 1) + 1], UInt64Max)
      BY Zenon, <2>7, <3>2
    <3> QED BY Zenon, <2>7, <2>8, <3>3, <3>4
  <2>10. found(n) = found(i + (n - i))
    BY Zenon, <2>7
  <2> DEFINE st == at(i - 1)
  <2>11. Passed(st, i - 1) /\ at(i).code = "verified"
    <3>1. Passed(at(i - 1), i - 1) /\ Passed(at(i), i)
      BY Zenon, <2>1, <2>7
    <3> HIDE DEF at
    <3> QED BY <3>1 DEF Passed
  <2>12. record.entry.observed_tick \in Nat
    BY <2>1, <2>2, Bounds
  <2> HIDE DEF at, st, record, forged
  <2>13. ReplayShape(st) /\ st.code = "verified" /\ st.processed_records = i - 1
         /\ WorldShape(st.world)
    BY <2>11 DEF Passed
  <2>14. at(i) = ReplayRecord(st, record, UInt64Max)
         /\ found(i) = ReplayRecord(st, forged, UInt64Max)
    BY Zenon, <2>9 DEF st
  <2>15. PassesReplay(st, record, UInt64Max)
    BY <2>11, <2>13, <2>14, ReplayCases
  <2>16. Forged(forged.entry, record.entry)
    BY <2>4, <2>5
  <2>17. ~PassesReplay(st, forged, UInt64Max)
    BY <2>12, <2>13, <2>15, <2>16, ForgeryFails
  <2> HIDE DEF found
  <2>18. found(i).code # "verified" /\ found(i).processed_records = i - 1
    BY <2>13, <2>14, <2>17, ReplayCases
  <2>19. found(i + (n - i)) = found(i)
    <3> DEFINE start == ReplayStart(NewSession(Session), InitialWorld)
               p == t.records
    <3> HIDE DEF start, p
    <3>1. \A k : found(k) = Replaying(start, p, UInt64Max)[k]
      BY Zenon DEF found, At, start, p
    <3>2. Replaying(start, p, UInt64Max)[i].code # "verified"
      BY Zenon, <2>18, <3>1
    <3>3. Replaying(start, p, UInt64Max)[i + (n - i)] = Replaying(start, p, UInt64Max)[i]
      <4>1. i \in Nat /\ n - i \in Nat
        BY <2>7
      <4>2. \A m \in Nat : Replaying(start, p, UInt64Max)[i + m]
                              = Replaying(start, p, UInt64Max)[i]
        BY <3>2, <4>1, ReplayStops
      <4> QED BY Zenon, <4>1, <4>2
    <3> QED BY Zenon, <3>1, <3>3
  <2>20. r.code # "verified" /\ r.processed_records = i - 1
    BY Zenon, <2>6, <2>10, <2>18, <2>19
  <2> QED BY Zenon, <2>3, <2>20 DEF r, t, l
<1> QED BY <1>1, LiveHolds, PTL

=============================================================================
