----------------------------- MODULE StreamParser -----------------------------
(***************************************************************************)
(* FrameStreamParser and the strict frame parser it shares its header       *)
(* decoder with.  A host cuts the byte stream of a peer into chunks, pushes *)
(* them, and may call finish and reset at any time.  push is modelled one   *)
(* half of a loop iteration at a time, with its locals as variables.        *)
(*                                                                          *)
(* The sixteen header bytes are scaled to three cells, one for each group   *)
(* of fields that is checked together: what identifies the protocol (magic, *)
(* version, header size), the frame size, and the message type with the     *)
(* flags.  A cell is a number; 0 is the good value of the first and third.  *)
(***************************************************************************)
EXTENDS Naturals, Sequences

CONSTANTS
    MaximumFrameSize,  \* limits_.maximum_frame_size
    PeerStreams        \* the byte streams a peer may send

HeaderSize == 3

ASSUME StreamParserAssumption ==
    /\ MaximumFrameSize \in Nat
    /\ MaximumFrameSize >= HeaderSize
    /\ PeerStreams \subseteq Seq(Nat)

VARIABLES
    \* FrameStreamParser
    buffer,    \* buffer_
    header,    \* frame_size of current_header_, 0 when it is empty
    failure,   \* failure_, "none" when it is empty
    \* locals of push
    pc,        \* "idle", or "push" inside the loop
    input,     \* bytes from offset on
    frames,    \* frames decoded by this call
    \* the host
    stream,    \* what the peer still has to send
    seen,      \* bytes pushed into a parser that had not failed, since reset
    delivered, \* frames returned by push since reset
    result     \* what the last call returned

vars == <<buffer, header, failure, pc, input, frames, stream, seen, delivered, result>>

-----------------------------------------------------------------------------
(* frame_parser.cpp *)

ParseErrors ==
    {"truncated_header", "invalid_magic", "unsupported_protocol_version",
     "invalid_header_size", "frame_too_small", "frame_too_large",
     "reserved_flags_set", "unknown_message_type", "truncated_frame",
     "trailing_data"}

\* Mutant: the flags are looked at before the sizes.
header_error_flags_first(bytes) ==
    IF Len(bytes) < HeaderSize THEN "truncated_header"
    ELSE IF bytes[1] = 1 THEN "invalid_magic"
    ELSE IF bytes[1] = 2 THEN "unsupported_protocol_version"
    ELSE IF bytes[1] # 0 THEN "invalid_header_size"
    ELSE IF bytes[3] \in {1, 3} THEN "reserved_flags_set"
    ELSE IF bytes[2] < HeaderSize THEN "frame_too_small"
    ELSE IF bytes[2] > MaximumFrameSize THEN "frame_too_large"
    ELSE IF bytes[3] # 0 THEN "unknown_message_type"
    ELSE "none"

\* decode_frame_header: the first check that fails names the error.
header_error(bytes) ==
    IF Len(bytes) < HeaderSize THEN "truncated_header"
    ELSE IF bytes[1] = 1 THEN "invalid_magic"
    ELSE IF bytes[1] = 2 THEN "unsupported_protocol_version"
    ELSE IF bytes[1] # 0 THEN "invalid_header_size"
    ELSE IF bytes[2] < HeaderSize THEN "frame_too_small"
    ELSE IF bytes[2] > MaximumFrameSize THEN "frame_too_large"
    ELSE IF bytes[3] \in {1, 3} THEN "reserved_flags_set"
    ELSE IF bytes[3] # 0 THEN "unknown_message_type"
    ELSE "none"

frame_error(bytes) ==
    LET e == header_error(bytes)
    IN  IF e # "none" THEN e
        ELSE IF Len(bytes) < bytes[2] THEN "truncated_frame"
        ELSE IF Len(bytes) > bytes[2] THEN "trailing_data"
        ELSE "none"

-----------------------------------------------------------------------------
(* FrameStreamParser *)

Least(a, b) == IF a <= b THEN a ELSE b

\* The first n bytes of the input, n capped by what is there.
Take(n) == SubSeq(input, 1, Least(n, Len(input)))

Rest(n) == SubSeq(input, Least(n, Len(input)) + 1, Len(input))

Init ==
    /\ buffer = <<>>
    /\ header = 0
    /\ failure = "none"
    /\ pc = "idle"
    /\ input = <<>>
    /\ frames = <<>>
    /\ stream \in PeerStreams
    /\ seen = <<>>
    /\ delivered = <<>>
    /\ result = "none"

\* The next n bytes of the stream arrive and the host pushes them.
Push(n) ==
    /\ pc = "idle"
    /\ n <= Len(stream)
    /\ stream' = SubSeq(stream, n + 1, Len(stream))
    /\ IF failure # "none"
       THEN /\ result' = failure
            /\ UNCHANGED <<pc, input, frames, seen>>
       ELSE /\ pc' = "push"
            /\ input' = SubSeq(stream, 1, n)
            /\ frames' = <<>>
            /\ seen' = seen \o SubSeq(stream, 1, n)
            /\ result' = "none"
    /\ UNCHANGED <<buffer, header, failure, delivered>>

\* return frames
Return ==
    /\ pc' = "idle"
    /\ input' = <<>>
    /\ delivered' = delivered \o frames
    /\ frames' = <<>>
    /\ result' = "frames"
    /\ UNCHANGED <<failure, stream, seen>>

\* return fail(code): the frames of this call are dropped
fail(code) ==
    /\ failure' = code
    /\ pc' = "idle"
    /\ input' = <<>>
    /\ frames' = <<>>
    /\ result' = code
    /\ UNCHANGED <<stream, seen, delivered>>

LoopEnds ==
    /\ pc = "push"
    /\ input = <<>>
    /\ header = 0
    /\ Return
    /\ UNCHANGED <<buffer, header>>

ReadHeader ==
    /\ pc = "push"
    /\ input # <<>>
    /\ header = 0
    /\ LET required == HeaderSize - Len(buffer)
           filled == buffer \o Take(required)
       IN  /\ buffer' = filled
           /\ IF Len(filled) < HeaderSize
              THEN Return /\ UNCHANGED header
              ELSE IF header_error(filled) # "none"
              THEN fail(header_error(filled)) /\ UNCHANGED header
              ELSE /\ header' = filled[2]
                   /\ input' = Rest(required)
                   /\ UNCHANGED <<failure, pc, frames, stream, seen, delivered, result>>

ReadFrame ==
    /\ pc = "push"
    /\ header # 0
    /\ LET required == header - Len(buffer)
           filled == buffer \o Take(required)
       IN  IF Len(filled) < header
           THEN Return /\ buffer' = filled /\ UNCHANGED header
           ELSE IF frame_error(filled) # "none"
           THEN fail(frame_error(filled)) /\ buffer' = filled /\ UNCHANGED header
           ELSE /\ frames' = Append(frames, filled)
                /\ input' = Rest(required)
                /\ buffer' = <<>>
                /\ header' = 0
                /\ UNCHANGED <<failure, pc, stream, seen, delivered, result>>

Finish ==
    /\ pc = "idle"
    /\ LET code == IF failure # "none" THEN failure
                   ELSE IF buffer = <<>> THEN "none"
                   ELSE IF Len(buffer) < HeaderSize THEN "truncated_header"
                   ELSE "truncated_frame"
       IN  /\ failure' = code
           /\ result' = IF code = "none" THEN "finished" ELSE code
    /\ UNCHANGED <<buffer, header, pc, input, frames, stream, seen, delivered>>

\* Mutant: the pending header survives.
ResetKeepsHeader ==
    /\ pc = "idle"
    /\ buffer' = <<>>
    /\ failure' = "none"
    /\ seen' = <<>>
    /\ delivered' = <<>>
    /\ result' = "none"
    /\ UNCHANGED <<header, pc, input, frames, stream>>

Reset ==
    /\ pc = "idle"
    /\ buffer' = <<>>
    /\ header' = 0
    /\ failure' = "none"
    /\ seen' = <<>>
    /\ delivered' = <<>>
    /\ result' = "none"
    /\ UNCHANGED <<pc, input, frames, stream>>

Next ==
    \/ \E n \in 0 .. Len(stream) : Push(n)
    \/ LoopEnds
    \/ ReadHeader
    \/ ReadFrame
    \/ Finish
    \/ Reset

Spec == Init /\ [][Next]_vars

-----------------------------------------------------------------------------
(* Properties *)

\* Every variable has its type.
TypeOK ==
    /\ buffer \in Seq(Nat)
    /\ header \in {0} \cup HeaderSize .. MaximumFrameSize
    /\ failure \in ParseErrors \cup {"none"}
    /\ pc \in {"idle", "push"}
    /\ input \in Seq(Nat) /\ (pc = "idle" => input = <<>>)
    /\ frames \in Seq(Seq(Nat))
    /\ stream \in Seq(Nat)
    /\ seen \in Seq(Nat)
    /\ delivered \in Seq(Seq(Nat))
    /\ result \in ParseErrors \cup {"none", "frames", "finished"}

\* The buffer never outgrows what was declared and checked: before the header
\* is decoded it holds less than a header, afterwards less than the frame size
\* the header declared, which is within the limit (stream_parser.cpp:34-77).
\* While it has a header and has not failed, the buffer begins with it.
BufferBounded ==
    /\ failure = "none" /\ header = 0 => Len(buffer) < HeaderSize
    /\ header # 0 =>
          /\ Len(buffer) \in HeaderSize .. header
          /\ pc = "idle" => Len(buffer) < header
          /\ header_error(buffer) = "none"
          /\ buffer[2] = header
    /\ Len(buffer) <= MaximumFrameSize

\* The rejection order of docs/protocol.md:134-141: the faults a header may
\* have, the first of which is its error.
Documented(h) ==
    << [code |-> "invalid_magic", fault |-> h[1] = 1],
       [code |-> "unsupported_protocol_version", fault |-> h[1] = 2],
       [code |-> "invalid_header_size", fault |-> h[1] > 2],
       [code |-> "frame_too_small", fault |-> h[2] < HeaderSize],
       [code |-> "frame_too_large", fault |-> h[2] > MaximumFrameSize],
       [code |-> "reserved_flags_set", fault |-> h[3] \in {1, 3}],
       [code |-> "unknown_message_type", fault |-> h[3] # 0],
       [code |-> "none", fault |-> TRUE] >>

DocumentedError(h) ==
    LET d == Documented(h)
        first == CHOOSE i \in DOMAIN d : d[i].fault /\ \A j \in 1 .. i - 1 : ~d[j].fault
    IN  d[first].code

\* The reference parser sees the whole stream s at once.  At a position there
\* is a frame when a header without fault and all that it declares follow.
From(s, at) == SubSeq(s, at + 1, Len(s))

HeaderFault(rest) == IF Len(rest) < HeaderSize THEN "none" ELSE DocumentedError(rest)

FrameAt(s, at) ==
    /\ at + HeaderSize <= Len(s)
    /\ DocumentedError(From(s, at)) = "none"
    /\ at + s[at + 2] <= Len(s)

\* Where the first k frames end; the last position is repeated when there are
\* fewer.
CutPoints(s) ==
    LET at[k \in Nat] == IF k = 0 THEN 0
                         ELSE IF FrameAt(s, at[k - 1]) THEN at[k - 1] + s[at[k - 1] + 2]
                         ELSE at[k - 1]
    IN  at

Truncation(rest) ==
    IF Len(rest) < HeaderSize THEN "truncated_header" ELSE "truncated_frame"

\* Between calls the parser has done what parsing the pushed bytes in one go
\* would do, with the documented rejection order: the same frames and remainder,
\* and the same error.  Only frames that share a chunk with the error are
\* missing, and finish succeeds at frame boundaries only
\* (stream_parser.cpp:23-118).
ReassemblyExact ==
    pc = "idle" =>
        LET at == CutPoints(seen)
        IN  \E n \in 0 .. Len(seen) :
              LET rest == From(seen, at[n])
              IN  /\ \A k \in 0 .. n - 1 : FrameAt(seen, at[k])
                  /\ ~FrameAt(seen, at[n])
                  /\ Len(delivered) <= n
                  /\ \A k \in 1 .. Len(delivered) :
                        delivered[k] = SubSeq(seen, at[k - 1] + 1, at[k])
                  /\ result = "finished" => rest = <<>>
                  /\ IF failure = "none"
                     THEN /\ Len(delivered) = n /\ buffer = rest
                          /\ HeaderFault(rest) = "none"
                     ELSE failure = IF HeaderFault(rest) # "none" THEN HeaderFault(rest)
                                    ELSE Truncation(rest)

\* What the compatibility document says (docs/protocol-compatibility.md:81-82):
\* each concatenated frame is emitted, independently of the others.
FramesIndependent ==
    pc = "idle" => ~FrameAt(seen, CutPoints(seen)[Len(delivered)])

=============================================================================
