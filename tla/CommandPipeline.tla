-------------------------- MODULE CommandPipeline --------------------------
(***************************************************************************)
(* Several command sessions share one pipeline and one world, which the     *)
(* host advances and populates between submissions.  A session object may   *)
(* carry the identity of another one: the code does not forbid a host to    *)
(* create a fresh CommandSession for a client that reconnects, and its      *)
(* sequence protection then starts from zero.                               *)
(***************************************************************************)
EXTENDS CommandModel

CONSTANTS
    Sessions,   \* CommandSession objects of the host
    Identity,   \* session |-> [client_id, session_id] it was created with
    Envelopes,  \* envelopes that may arrive
    Positions,  \* positions and velocities the host
    Velocities  \*   creates entities with

ASSUME PipelineAssumption ==
    /\ Identity \in [Sessions -> [client_id : UInt64 \ {0},
                                  session_id : UInt64 \ {0}]]
    /\ Envelopes \subseteq CommandEnvelope
    /\ Positions \subseteq Vector
    /\ Velocities \subseteq Vector

VARIABLES
    world,     \* the simulation world
    sessions,  \* session object |-> its state
    log,       \* evidence_ of the pipeline
    author     \* history: the session object behind each evidence record

vars == <<world, sessions, log, author>>

NewSession(s) ==
    [client_id |-> Identity[s].client_id,
     session_id |-> Identity[s].session_id,
     highest_accepted_sequence |-> 0]

Init ==
    /\ world = NewWorld
    /\ sessions = [s \in Sessions |-> NewSession(s)]
    /\ log = EmptyLog
    /\ author = <<>>

Submit(s, cmd) ==
    LET r == submit(sessions[s], world, log, cmd)
    IN  /\ world' = r.world
        /\ sessions' = [sessions EXCEPT ![s] = r.session]
        /\ log' = r.log
        /\ author' = IF r.code = "length_error" THEN author
                     ELSE Append(author, s)

AddEntity(e, p, v) ==
    /\ world' = add_entity(world, e, p, v)
    /\ UNCHANGED <<sessions, log, author>>

Advance ==
    /\ world' = advance(world)
    /\ UNCHANGED <<sessions, log, author>>

Next ==
    \/ \E s \in Sessions, cmd \in Envelopes : Submit(s, cmd)
    \/ \E e \in EntityIds, p \in Positions, v \in Velocities :
          AddEntity(e, p, v)
    \/ Advance

Spec == Init /\ [][Next]_vars

-----------------------------------------------------------------------------
(* Invariants.                                                              *)

Records == log.records
Entry(i) == Records[i].entry
AcceptedRecords == {i \in DOMAIN Records : Entry(i).rejection_code = "none"}

(* Sessions, world and log have their types, and every record its author.   *)
TypeOK ==
    /\ IsWorld(world)
    /\ sessions \in [Sessions -> CommandSession]
    /\ Len(Records) = Len(author)
    /\ Len(Records) <= MaxRecords
    /\ author \in Seq(Sessions)

(* Whatever sessions and hosts do, the log the pipeline holds verifies and  *)
(* every record of it passes the checks of decode_command_evidence, so an   *)
(* archive written from it can be read back.                                *)
EvidenceReadsBack ==
    /\ verify_command_evidence_chain(Records, log.head_digest)
    /\ \A i \in DOMAIN Records : validate_record_invariants(Records[i])

(* The queue of the world holds exactly the accepted commands of the        *)
(* evidence that are not due yet: none lost, none invented, none repeated.  *)
QueueMatchesEvidence ==
    LET open == {i \in AcceptedRecords :
                    Entry(i).envelope.target_tick > world.tick_index}
    IN  /\ {world.pending[k] : k \in DOMAIN world.pending}
             = {translate(Entry(i).envelope) : i \in open}
        /\ Len(world.pending) = Cardinality(open)

(* The velocity an entity moves with is either the one it was created with, *)
(* no command of the evidence having come due for it, or that of the newest *)
(* accepted command of the evidence that is due.                            *)
MotionIsEvidenced ==
    \A e \in DOMAIN world.entities :
        LET due == {i \in AcceptedRecords :
                       /\ Entry(i).envelope.entity_id = e
                       /\ Entry(i).envelope.target_tick <= world.tick_index}
        IN  IF due = {}
            THEN world.entities[e].last_sequence = 0
            ELSE LET newest == CHOOSE i \in due : \A j \in due :
                                   Entry(i).envelope.sequence
                                     >= Entry(j).envelope.sequence
                 IN  /\ world.entities[e].velocity
                          = Entry(newest).envelope.velocity
                     /\ world.entities[e].last_sequence
                          = Entry(newest).envelope.sequence

(* The evidence tells the story of every session object: its sequence       *)
(* before a record is the greatest it had accepted until then, and its      *)
(* present one the greatest it ever accepted.  So one object never accepts  *)
(* a sequence number twice, whatever other sessions do in between.          *)
SessionFollowsEvidence ==
    \A s \in Sessions :
        LET acceptedBefore(n) ==
                {Entry(i).envelope.sequence :
                    i \in {j \in AcceptedRecords : j < n /\ author[j] = s}}
        IN  /\ \A n \in DOMAIN Records : author[n] = s =>
                  Entry(n).session_sequence_before
                    = Max({0} \cup acceptedBefore(n))
            /\ sessions[s].highest_accepted_sequence
                 = Max({0} \cup acceptedBefore(Len(Records) + 1))

(* Even when two session objects carry the same identity, no entity takes   *)
(* the same sequence number twice, and the target ticks and sequence        *)
(* numbers an entity accepts rise together across all sessions.             *)
EntityOrderAcrossSessions ==
    \A i, j \in AcceptedRecords :
        i < j /\ Entry(i).envelope.entity_id = Entry(j).envelope.entity_id =>
            /\ Entry(i).envelope.sequence < Entry(j).envelope.sequence
            /\ Entry(i).envelope.target_tick <= Entry(j).envelope.target_tick

(* The logic_error of World::advance is unreachable through the pipeline.   *)
NoLogicError == ~LoopThrows(world)

(* However clients, sessions and hosts interleave, queue, motion, sessions  *)
(* and evidence tell the same story: each can be read off the evidence.     *)
EvidenceAgrees ==
    /\ TypeOK
    /\ EvidenceReadsBack
    /\ QueueMatchesEvidence
    /\ MotionIsEvidenced
    /\ SessionFollowsEvidence
    /\ EntityOrderAcrossSessions
    /\ NoLogicError

(* A command reaches the world if and only if it is admissible by the       *)
(* policy, stated here without the order of the checks: it is well formed,  *)
(* carries the identity of the session it arrives on, aims at a tick in     *)
(* the window, asks for a legal velocity and is newer than all the session  *)
(* accepted before.                                                         *)
Admissible(en, s) ==
    LET c == en.envelope
    IN  /\ c.schema_version = "v1" /\ c.type = "set_velocity"
        /\ c.client_id = Identity[s].client_id
        /\ c.session_id = Identity[s].session_id
        /\ c.sequence \in en.session_sequence_before + 1 .. UInt64Max
        /\ c.target_tick \in en.observed_tick + 1
                              .. en.observed_tick + MaximumFutureTicks
        /\ \A a \in Axis :
              c.velocity[a] \in -MaxCommandVelocity .. MaxCommandVelocity

AdmissionIsExact ==
    \A i \in DOMAIN Records :
        Entry(i).queue_outcome # "not_attempted"
          <=> Admissible(Entry(i), author[i])
=============================================================================
