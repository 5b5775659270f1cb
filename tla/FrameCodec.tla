------------------------------ MODULE FrameCodec ------------------------------
(***************************************************************************)
(* A command envelope in a frame, field by field.  StreamParser.tla models  *)
(* the same header scaled to three cells; here the fields have bytes, so    *)
(* that a frame can be damaged at any of them.                              *)
(***************************************************************************)
EXTENDS EvidenceCodec

frame_magic == <<84, 73, 67, 75>>
protocol_version == 1
command_envelope_type == 1

HeaderLayout ==
    << U16("version"), U16("header_size"), U32("frame_size"),
       U16("message_type"), U16("flags") >>

HeaderPlaces == Places(HeaderLayout)

frame_header_size == Len(frame_magic) + SizeOf(HeaderLayout)
(* A payload behind a header that fits it.                                  *)
Framed(payload) ==
    Bytes(frame_magic)
      \o Encode(HeaderLayout,
                [version |-> protocol_version,
                 header_size |-> frame_header_size,
                 frame_size |-> frame_header_size + Len(payload),
                 message_type |-> command_envelope_type, flags |-> 0])
      \o payload

encode_command_frame(envelope) == Framed(encode_command_envelope(envelope))

decode_frame_header(bytes, maximum_frame_size) ==
    LET h == Decode(HeaderPlaces, SubSeq(bytes, 5, frame_header_size))
        refused(code) == [error |-> code, frame_size |-> 0]
    IN  IF Len(bytes) < frame_header_size THEN refused("truncated_header")
        ELSE IF SubSeq(bytes, 1, 4) # Bytes(frame_magic)
        THEN refused("invalid_magic")
        ELSE IF h.version # protocol_version
        THEN refused("unsupported_protocol_version")
        ELSE IF h.header_size # frame_header_size
        THEN refused("invalid_header_size")
        ELSE IF h.frame_size < frame_header_size THEN refused("frame_too_small")
        ELSE IF h.frame_size > maximum_frame_size THEN refused("frame_too_large")
        ELSE IF h.flags # 0 THEN refused("reserved_flags_set")
        ELSE IF h.message_type # command_envelope_type
        THEN refused("unknown_message_type")
        ELSE [error |-> "none", frame_size |-> h.frame_size]

(* Mutant: what follows the frame is ignored.                               *)
frame_size_prefix(declared, size) ==
    IF size < declared THEN "truncated_frame" ELSE "none"

frame_size_error(declared, size) ==
    IF size < declared THEN "truncated_frame"
    ELSE IF size > declared THEN "trailing_data"
    ELSE "none"

parse_frame(bytes, maximum_frame_size) ==
    LET h == decode_frame_header(bytes, maximum_frame_size)
        error == IF h.error # "none" THEN h.error
                 ELSE frame_size_error(h.frame_size, Len(bytes))
    IN  [error |-> error,
         payload |-> IF error # "none" THEN <<>>
                     ELSE SubSeq(bytes, frame_header_size + 1, h.frame_size)]

decode_command_frame(bytes, maximum_frame_size) ==
    LET f == parse_frame(bytes, maximum_frame_size)
    IN  IF f.error # "none" THEN [error |-> f.error]
        ELSE decode_command_envelope(f.payload)
=============================================================================
