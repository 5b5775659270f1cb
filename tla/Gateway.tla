------------------------------- MODULE Gateway -------------------------------
(***************************************************************************)
(* AuthoritativeCommandGateway: bytes become envelopes, and envelopes go    *)
(* through the pipeline of CommandPipeline.tla.  A client encodes an        *)
(* envelope with encode_command_frame; what the gateway is given may be     *)
(* that frame, or one that was cut, extended or changed on the way, or that *)
(* a peer of another version made.                                          *)
(***************************************************************************)
EXTENDS CommandPipeline

CONSTANTS
    ByteBase, U16Width, U32Width, U64Width, DigestWidth,
    MaximumFrameSize,  \* limits_.maximum_frame_size
    Damaged(_),        \* what may arrive in place of a frame
    Workloads          \* bounds: who sends what and how much of it, and
                       \* which frames may be damaged

C == INSTANCE FrameCodec

(* The integers of the codec are those of the pipeline, and the check of    *)
(* the constructor.                                                         *)
ASSUME GatewayAssumption ==
    /\ UInt64Max = C!U64Max /\ Int64Max = C!I64Max
    /\ MaximumFrameSize >= C!frame_header_size
    /\ \A load \in Workloads :
          /\ load.sessions \subseteq Sessions
          /\ load.entities \subseteq EntityIds
          /\ load.envelopes \subseteq Envelopes
          /\ load.damaged \subseteq Envelopes
          /\ load.records \in 0 .. MaxRecords

VARIABLES
    workload,  \* the one of Workloads that this behaviour stays within
    intact,    \* history: envelopes whose frames arrived as they were encoded
    result     \* ProtocolSubmissionResult of the last call that returned

gatewayVars == <<vars, workload, intact, result>>

(* An envelope as it is on the wire, and back.                              *)
on_wire(cmd) ==
    [schema_version |-> IF cmd.schema_version = "v1" THEN 1 ELSE 2,
     type |-> IF cmd.type = "set_velocity" THEN 1 ELSE 2,
     client_id |-> cmd.client_id, session_id |-> cmd.session_id,
     sequence |-> cmd.sequence, target_tick |-> cmd.target_tick,
     entity_id |-> cmd.entity_id,
     velocity_x |-> cmd.velocity["x"], velocity_y |-> cmd.velocity["y"]]

from_wire(e) ==
    [schema_version |-> IF e.schema_version = 1 THEN "v1" ELSE "other",
     type |-> IF e.type = 1 THEN "set_velocity" ELSE "other",
     client_id |-> e.client_id, session_id |-> e.session_id,
     sequence |-> e.sequence, target_tick |-> e.target_tick,
     entity_id |-> e.entity_id,
     velocity |-> [a \in Axis |-> IF a = "x" THEN e.velocity_x
                                  ELSE e.velocity_y]]

Frame(cmd) == C!encode_command_frame(on_wire(cmd))

Decoded(bytes) == C!decode_command_frame(bytes, MaximumFrameSize)

(* What decode_command_frame makes of the frame of a command when it is     *)
(* intact and when it is not; bytes matter to the gateway in no other way.  *)
DecodedIntact == [cmd \in Envelopes |-> Decoded(Frame(cmd))]

DecodedDamaged ==
    [cmd \in UNION {load.damaged : load \in Workloads} |->
        {Decoded(bytes) : bytes \in Damaged(Frame(cmd))}]

(* What the codec is relied on for: a frame that arrives as it was encoded  *)
(* brings its command, and the damage that may be done to one is noticed.   *)
FramesReadBack ==
    \A cmd \in Envelopes : /\ DecodedIntact[cmd].error = "none"
                           /\ from_wire(DecodedIntact[cmd].envelope) = cmd
DamageIsRefused ==
    \A load \in Workloads : \A cmd \in load.damaged :
        \A decoded \in DecodedDamaged[cmd] : decoded.error # "none"

(* ProtocolSubmissionResult: a parse error, or the code of a submission.    *)
(* A full log throws length_error, and nothing is returned.                 *)
parse_rejection(code) == [parse_error |-> code, command_result |-> "none_given"]
command_submission(code) == [parse_error |-> "none", command_result |-> code]

GatewaySubmit(s, decoded) ==
    IF decoded.error # "none"
    THEN /\ result' = parse_rejection(decoded.error)
         /\ UNCHANGED vars
    ELSE LET cmd == from_wire(decoded.envelope)
         IN  /\ Submit(s, cmd)
             /\ result' = IF log_is_full(log) THEN result
                          ELSE command_submission(
                                 submit(sessions[s], world, log, cmd).code)

(* The evidence has room for a record within the bounds of the workload,    *)
(* or the workload is one that goes on when the log is full.                *)
WithinBounds == Len(log.records) < workload.records \/ workload.records = MaxRecords

(* A frame arrives on the session of its client or on another one.          *)
DeliverIntact(s, cmd) ==
    /\ WithinBounds
    /\ GatewaySubmit(s, DecodedIntact[cmd])
    /\ intact' = IF log_is_full(log) THEN intact ELSE Append(intact, cmd)
    /\ UNCHANGED workload

DeliverDamaged(s, cmd) ==
    /\ WithinBounds
    /\ \E decoded \in DecodedDamaged[cmd] : GatewaySubmit(s, decoded)
    /\ UNCHANGED <<workload, intact>>

GatewayAddEntity(e, p, v) == AddEntity(e, p, v) /\ UNCHANGED <<workload, intact, result>>
GatewayAdvance == Advance /\ UNCHANGED <<workload, intact, result>>

GatewayInit ==
    /\ Init
    /\ workload \in Workloads
    /\ intact = <<>>
    /\ result = parse_rejection("nothing_submitted")

GatewayNext ==
    \/ \E s \in workload.sessions, cmd \in workload.envelopes :
          DeliverIntact(s, cmd)
    \/ \E s \in workload.sessions, cmd \in workload.damaged :
          DeliverDamaged(s, cmd)
    \/ \E e \in workload.entities, p \in Positions, v \in Velocities :
          GatewayAddEntity(e, p, v)
    \/ GatewayAdvance

GatewaySpec == GatewayInit /\ [][GatewayNext]_gatewayVars

-----------------------------------------------------------------------------
(* Properties.                                                              *)

(* What the caller is told is what the evidence says: the code of a parsed  *)
(* submission is that of the last record, also after frames that were       *)
(* refused in between and after the world has moved on.                     *)
ToldWhatIsRecorded ==
    result.parse_error = "none" =>
        /\ Records # <<>>
        /\ Entry(Len(Records)).rejection_code = result.command_result

(* The evidence is exactly what arrived whole, in the order of arrival:     *)
(* fields, signs and bounds survive the bytes, and a frame that was cut,    *)
(* extended or changed in its header leaves no record, whatever is          *)
(* delivered before and after it; and the caller is told what the evidence  *)
(* says (authoritative_command_gateway.cpp:81-99).                          *)
EvidenceIsWhatArrived ==
    /\ [i \in DOMAIN Records |-> Entry(i).envelope] = intact
    /\ ToldWhatIsRecorded
=============================================================================
