-------------------------- MODULE StreamParserProofs --------------------------
(***************************************************************************)
(* The stream parser's buffer is bounded, its second parse cannot fail, and *)
(* what it delivers does not depend on how the stream was cut, for every    *)
(* limit and every stream.                                                  *)
(***************************************************************************)
EXTENDS StreamParser, Integers, FiniteSetTheorems, SequenceTheorems, WellFoundedInduction, TLAPS

\* What Return, the checks of ReadHeader and the loop rely on: inside push the
\* parser has not failed, and the buffer is bounded.
Inv == TypeOK /\ BufferBounded /\ (pc = "push" => failure = "none")

\* A header that passes declares a frame size within the limits, and whether
\* it passes depends on its own cells only.
LEMMA HeaderFacts ==
    ASSUME NEW b \in Seq(Nat), NEW t \in Seq(Nat), Len(b) >= HeaderSize
    PROVE  /\ header_error(b \o t) = header_error(b)
           /\ (b \o t)[2] = b[2]
           /\ header_error(b) \in ParseErrors \cup {"none"}
           /\ header_error(b) = "none" => b[2] \in HeaderSize .. MaximumFrameSize
<1> DEFINE c == b \o t
<1>1. Len(c) >= HeaderSize /\ c[1] = b[1] /\ c[2] = b[2] /\ c[3] = b[3]
  BY DEF HeaderSize
<1>2. Len(b) \in Nat /\ Len(c) \in Nat /\ b[1] \in Nat /\ b[2] \in Nat /\ b[3] \in Nat
  BY DEF HeaderSize
<1>3. ~(Len(b) < HeaderSize) /\ ~(Len(c) < HeaderSize)
  BY <1>1, <1>2 DEF HeaderSize
<1>4. header_error(c) = header_error(b)
  <2> HIDE DEF c
  <2> QED BY <1>1, <1>3 DEF header_error
<1>5. header_error(b) \in ParseErrors \cup {"none"}
  BY <1>3 DEF header_error, ParseErrors
<1>6. ASSUME header_error(b) = "none" PROVE b[2] \in HeaderSize .. MaximumFrameSize
  <2>1. ~(b[2] < HeaderSize) /\ ~(b[2] > MaximumFrameSize)
    BY <1>3, <1>6 DEF header_error
  <2> QED BY <1>2, <2>1, StreamParserAssumption DEF HeaderSize
<1> QED BY <1>1, <1>4, <1>5, <1>6

\* A prefix of the input and the rest of it are sequences of bytes.
LEMMA TakeFacts ==
    ASSUME input \in Seq(Nat), NEW n \in Nat
    PROVE  /\ Take(n) \in Seq(Nat)
           /\ Rest(n) \in Seq(Nat)
           /\ Len(Take(n)) = Least(n, Len(input))
           /\ Len(Take(n)) <= n
BY DEF Take, Rest, Least

\* A new parser satisfies the invariant.
LEMMA InitInv == Init => Inv
BY StreamParserAssumption
   DEF Init, Inv, TypeOK, BufferBounded, ParseErrors, HeaderSize

\* Entering push keeps it; a failed parser consumes nothing.
LEMMA PushInv == ASSUME Inv, NEW n \in 0 .. Len(stream), Push(n) PROVE Inv'
<1>1. stream \in Seq(Nat) /\ seen \in Seq(Nat) /\ n \in Nat /\ n <= Len(stream)
  BY DEF Inv, TypeOK
<1> DEFINE pushed == SubSeq(stream, 1, n)
           later == SubSeq(stream, n + 1, Len(stream))
<1>2. pushed \in Seq(Nat)
  BY <1>1
<1>3. later \in Seq(Nat)
  BY <1>1
<1>4. stream' = later
  BY DEF Push
<1>5. CASE failure # "none"
  <2>1. result' = failure /\ UNCHANGED <<pc, input, frames, seen, buffer, header, failure, delivered>>
    BY <1>5 DEF Push
  <2>2. TypeOK'
    <3> HIDE DEF later
    <3> QED BY <2>1, <1>3, <1>4 DEF TypeOK, Inv
  <2> QED BY <2>1, <2>2 DEF Inv, BufferBounded
<1>6. CASE failure = "none"
  <2>1. /\ pc' = "push" /\ input' = pushed /\ frames' = <<>> /\ seen' = seen \o pushed
        /\ result' = "none" /\ UNCHANGED <<buffer, header, failure, delivered>>
    BY <1>6 DEF Push
  <2> HIDE DEF later, pushed
  <2>2. TypeOK'
    BY <2>1, <1>1, <1>2, <1>3, <1>4 DEF TypeOK, Inv
  <2>3. BufferBounded'
    BY <2>1 DEF Inv, BufferBounded
  <2> QED BY <2>1, <2>2, <2>3, <1>6 DEF Inv
<1> QED BY <1>5, <1>6

\* Leaving the loop at a frame boundary keeps it.
LEMMA LoopEndsInv == ASSUME Inv, LoopEnds PROVE Inv'
<1> USE DEF Inv, LoopEnds, Return
<1>1. delivered \o frames \in Seq(Seq(Nat))
  BY DEF TypeOK
<1>2. TypeOK'
  BY <1>1 DEF TypeOK
<1>3. BufferBounded'
  BY DEF BufferBounded, header_error
<1> QED BY <1>2, <1>3

\* The header half of an iteration keeps it: the buffer gets at most a header,
\* and a header that is kept has passed every check.
LEMMA ReadHeaderInv == ASSUME Inv, ReadHeader PROVE Inv'
<1> DEFINE required == HeaderSize - Len(buffer)
           filled == buffer \o Take(required)
<1>1. /\ buffer \in Seq(Nat) /\ input \in Seq(Nat) /\ frames \in Seq(Seq(Nat))
      /\ delivered \in Seq(Seq(Nat)) /\ header = 0 /\ failure = "none" /\ pc = "push"
      /\ Len(buffer) < HeaderSize
  BY DEF Inv, TypeOK, BufferBounded, ReadHeader
<1>2. required \in Nat /\ Len(buffer) + required = HeaderSize
  BY <1>1 DEF HeaderSize
<1>3. /\ filled \in Seq(Nat) /\ Rest(required) \in Seq(Nat)
      /\ Len(filled) <= HeaderSize
  <2> HIDE DEF required
  <2>1. Take(required) \in Seq(Nat) /\ Rest(required) \in Seq(Nat) /\ Len(Take(required)) <= required
    BY <1>1, <1>2, TakeFacts
  <2> QED BY <1>1, <1>2, <2>1
<1>4. HeaderSize <= MaximumFrameSize /\ HeaderSize \in Nat /\ MaximumFrameSize \in Nat
  BY StreamParserAssumption DEF HeaderSize
<1>5. buffer' = filled
  BY DEF ReadHeader
<1>6. delivered \o frames \in Seq(Seq(Nat))
  BY <1>1
<1>7. CASE Len(filled) < HeaderSize
  <2>1. Return /\ header' = 0
    BY <1>1, <1>7 DEF ReadHeader
  <2>2. TypeOK'
    BY <2>1, <1>1, <1>3, <1>5, <1>6 DEF TypeOK, Return, Inv
  <2>3. BufferBounded'
    <3> HIDE DEF filled
    <3> QED BY <2>1, <1>3, <1>4, <1>5, <1>7 DEF BufferBounded
  <2> QED BY <2>1, <2>2, <2>3 DEF Inv, Return
<1>8. ASSUME Len(filled) >= HeaderSize
      PROVE  /\ header_error(filled) \in ParseErrors \cup {"none"}
             /\ header_error(filled) = "none" => filled[2] \in HeaderSize .. MaximumFrameSize
  <2> HIDE DEF filled
  <2> QED BY <1>3, <1>8, HeaderFacts
<1>9. CASE ~(Len(filled) < HeaderSize) /\ header_error(filled) # "none"
  <2>1. fail(header_error(filled)) /\ header' = 0
    BY <1>1, <1>9 DEF ReadHeader
  <2>2. header_error(filled) \in ParseErrors
    <3> HIDE DEF filled
    <3> QED BY <1>3, <1>4, <1>8, <1>9
  <2>3. TypeOK'
    <3> HIDE DEF filled
    <3> QED BY <2>1, <2>2, <1>1, <1>3, <1>5 DEF TypeOK, fail, Inv
  <2>4. BufferBounded'
    <3> HIDE DEF filled
    <3>1. failure' # "none" /\ header' = 0
      BY <2>1, <1>9 DEF fail
    <3>2. Len(filled) <= MaximumFrameSize
      BY <1>3, <1>4
    <3> QED BY <3>1, <3>2, <1>5 DEF BufferBounded
  <2> QED BY <2>1, <2>3, <2>4 DEF Inv, fail
<1>10. CASE ~(Len(filled) < HeaderSize) /\ header_error(filled) = "none"
  <2>1. /\ header' = filled[2] /\ input' = Rest(required)
        /\ UNCHANGED <<failure, pc, frames, stream, seen, delivered, result>>
    BY <1>1, <1>10 DEF ReadHeader
  <2> HIDE DEF filled, required
  <2>2. Len(filled) = HeaderSize /\ filled[2] \in HeaderSize .. MaximumFrameSize
    BY <1>3, <1>4, <1>8, <1>10
  <2>3. TypeOK'
    BY <2>1, <2>2, <1>1, <1>3, <1>5 DEF TypeOK, Inv
  <2>4. header_error(buffer)' = "none"
    BY <1>5, <1>10
  <2>5. BufferBounded'
    <3>1. header' \in HeaderSize .. MaximumFrameSize /\ pc' = "push" /\ buffer'[2] = header'
      BY <2>1, <2>2, <1>1, <1>5
    <3>2. Len(buffer') = HeaderSize /\ header' # 0
      BY <3>1, <2>2, <1>5 DEF HeaderSize
    <3>3. Len(buffer') \in HeaderSize .. header' /\ Len(buffer') <= MaximumFrameSize
      BY <3>1, <3>2, <1>4
    <3> QED BY <3>1, <3>2, <3>3, <2>4 DEF BufferBounded
  <2> QED BY <2>1, <2>3, <2>5, <1>1 DEF Inv
<1> QED BY <1>7, <1>9, <1>10

\* The strict parse of a complete buffer cannot fail: its header was accepted
\* when it arrived and its length is the declared one.
LEMMA ReadFrameInv == ASSUME Inv, ReadFrame PROVE Inv'
<1> DEFINE required == header - Len(buffer)
           filled == buffer \o Take(required)
<1>1. /\ buffer \in Seq(Nat) /\ input \in Seq(Nat) /\ frames \in Seq(Seq(Nat))
      /\ delivered \in Seq(Seq(Nat)) /\ failure = "none" /\ pc = "push"
      /\ header \in HeaderSize .. MaximumFrameSize /\ Len(buffer) \in HeaderSize .. header
      /\ header_error(buffer) = "none" /\ buffer[2] = header
  BY DEF Inv, TypeOK, BufferBounded, ReadFrame
<1>2. HeaderSize <= MaximumFrameSize /\ HeaderSize \in Nat /\ MaximumFrameSize \in Nat
  BY StreamParserAssumption DEF HeaderSize
<1>3. required \in Nat /\ Len(buffer) + required = header /\ header \in Nat
  BY <1>1, <1>2
<1>4. Take(required) \in Seq(Nat) /\ Rest(required) \in Seq(Nat) /\ Len(Take(required)) <= required
  <2> HIDE DEF required
  <2> QED BY <1>1, <1>3, TakeFacts
<1>5. /\ filled \in Seq(Nat) /\ Len(filled) = Len(buffer) + Len(Take(required))
      /\ Len(filled) \in HeaderSize .. header
  <2> HIDE DEF required
  <2> QED BY <1>1, <1>2, <1>3, <1>4
<1>6. header_error(filled) = "none" /\ filled[2] = header
  <2>1. Len(buffer) >= HeaderSize
    BY <1>1, <1>2, <1>3
  <2> HIDE DEF required
  <2> QED BY <1>1, <1>4, <2>1, HeaderFacts
<1>7. delivered \o frames \in Seq(Seq(Nat))
  BY <1>1
<1>8. CASE Len(filled) < header
  <2>1. Return /\ buffer' = filled /\ header' = header
    BY <1>8 DEF ReadFrame
  <2> HIDE DEF filled, required
  <2>2. TypeOK'
    BY <2>1, <1>5, <1>7 DEF TypeOK, Return, Inv
  <2>3. header_error(buffer)' = "none"
    BY <2>1, <1>6
  <2>4. BufferBounded'
    <3>1. header' # 0 /\ Len(buffer') \in HeaderSize .. header' /\ Len(buffer') < header'
      BY <2>1, <1>1, <1>3, <1>5, <1>8 DEF HeaderSize
    <3>2. Len(buffer') <= MaximumFrameSize /\ buffer'[2] = header'
      BY <2>1, <1>1, <1>2, <1>5, <1>6
    <3> QED BY <3>1, <3>2, <2>3 DEF BufferBounded
  <2> QED BY <2>1, <2>2, <2>4 DEF Inv, Return
<1>9. CASE ~(Len(filled) < header)
  <2>1. frame_error(filled) = "none"
    <3> HIDE DEF filled, required
    <3>1. Len(filled) = header
      BY <1>3, <1>5, <1>9
    <3>2. ~(Len(filled) < filled[2]) /\ ~(Len(filled) > filled[2])
      BY <3>1, <1>3, <1>6
    <3> QED BY <3>2, <1>6 DEF frame_error
  <2>2. /\ frames' = Append(frames, filled) /\ input' = Rest(required)
        /\ buffer' = <<>> /\ header' = 0
        /\ UNCHANGED <<failure, pc, stream, seen, delivered, result>>
    BY <2>1, <1>9 DEF ReadFrame
  <2> HIDE DEF filled, required
  <2>3. Append(frames, filled) \in Seq(Seq(Nat))
    BY <1>1, <1>5
  <2>4. TypeOK'
    BY <2>2, <2>3, <1>1, <1>4 DEF TypeOK, Inv
  <2>5. BufferBounded'
    BY <2>2, <1>2 DEF BufferBounded, HeaderSize
  <2> QED BY <2>2, <2>4, <2>5, <1>1 DEF Inv
<1> QED BY <1>8, <1>9

\* finish changes the failure only, and never clears one.
LEMMA FinishInv == ASSUME Inv, Finish PROVE Inv'
<1>1. /\ failure' \in ParseErrors \cup {"none"}
      /\ failure' = "none" => failure = "none"
      /\ result' \in ParseErrors \cup {"none", "frames", "finished"}
  BY DEF Finish, Inv, TypeOK, ParseErrors
<1>2. UNCHANGED <<buffer, header, pc, input, frames, stream, seen, delivered>> /\ pc = "idle"
  BY DEF Finish
<1>3. TypeOK'
  BY <1>1, <1>2 DEF Inv, TypeOK
<1>4. BufferBounded'
  BY <1>1, <1>2 DEF Inv, BufferBounded
<1> QED BY <1>2, <1>3, <1>4 DEF Inv

\* reset returns to an empty parser.
LEMMA ResetInv == ASSUME Inv, Reset PROVE Inv'
<1>1. TypeOK'
  BY DEF Reset, Inv, TypeOK
<1>2. BufferBounded'
  BY StreamParserAssumption DEF Reset, BufferBounded, HeaderSize
<1> QED BY <1>1, <1>2 DEF Inv, Reset

\* The invariant is about the variables only.
LEMMA StutterInv == ASSUME Inv, UNCHANGED vars PROVE Inv'
BY DEF Inv, TypeOK, BufferBounded, vars

\* The invariant holds in every state.
LEMMA SpecInv == Spec => []Inv
<1>1. Inv /\ [Next]_vars => Inv'
  <2> SUFFICES ASSUME Inv, [Next]_vars PROVE Inv'
    OBVIOUS
  <2>1. CASE \E n \in 0 .. Len(stream) : Push(n)
    BY <2>1, PushInv
  <2>2. CASE LoopEnds
    BY <2>2, LoopEndsInv
  <2>3. CASE ReadHeader
    BY <2>3, ReadHeaderInv
  <2>4. CASE ReadFrame
    BY <2>4, ReadFrameInv
  <2>5. CASE Finish
    BY <2>5, FinishInv
  <2>6. CASE Reset
    BY <2>6, ResetInv
  <2>7. CASE UNCHANGED vars
    BY <2>7, StutterInv
  <2> QED BY <2>1, <2>2, <2>3, <2>4, <2>5, <2>6, <2>7 DEF Next
<1> QED BY InitInv, <1>1, PTL DEF Spec

\* The parser's variables keep their types, the declared frame size among
\* them, for every limit and every stream a peer may send.
THEOREM ParserTypeOK == Spec => []TypeOK
<1>1. Inv => TypeOK
  BY DEF Inv
<1> QED BY SpecInv, <1>1, PTL

\* The buffer never outgrows the header or the declared frame, however the
\* stream is cut and whenever finish and reset are called.
THEOREM ParserBufferBounded == Spec => []BufferBounded
<1>1. Inv => BufferBounded
  BY DEF Inv
<1> QED BY SpecInv, <1>1, PTL

-----------------------------------------------------------------------------
\* Reassembly.

\* The first fault a header has in the documented order is the first check of
\* decode_frame_header that fails.
LEMMA DocumentedIsCode ==
    ASSUME NEW h \in Seq(Nat), Len(h) >= HeaderSize
    PROVE  DocumentedError(h) = header_error(h)
<1> DEFINE d == Documented(h)
           First(i) == i \in DOMAIN d /\ d[i].fault /\ \A j \in 1 .. i - 1 : ~d[j].fault
<1>1. /\ h[1] \in Nat /\ h[2] \in Nat /\ h[3] \in Nat /\ ~(Len(h) < HeaderSize)
  BY DEF HeaderSize
<1>2. DOMAIN d = 1 .. 8
  BY DEF Documented
<1>3. /\ d[1].fault = (h[1] = 1) /\ d[1].code = "invalid_magic"
      /\ d[2].fault = (h[1] = 2) /\ d[2].code = "unsupported_protocol_version"
      /\ d[3].fault = (h[1] > 2) /\ d[3].code = "invalid_header_size"
      /\ d[4].fault = (h[2] < HeaderSize) /\ d[4].code = "frame_too_small"
      /\ d[5].fault = (h[2] > MaximumFrameSize) /\ d[5].code = "frame_too_large"
      /\ d[6].fault = (h[3] \in {1, 3}) /\ d[6].code = "reserved_flags_set"
      /\ d[7].fault = (h[3] # 0) /\ d[7].code = "unknown_message_type"
      /\ d[8].fault = TRUE /\ d[8].code = "none"
  BY DEF Documented
<1> HIDE DEF d
<1>4. \A i, j : First(i) /\ First(j) => i = j
  BY <1>2
<1>5. ASSUME NEW i, First(i)
      PROVE  DocumentedError(h) = d[i].code
  <2>1. (CHOOSE j \in DOMAIN d : d[j].fault /\ \A k \in 1 .. j - 1 : ~d[k].fault) = i
    BY <1>4, <1>5
  <2> QED BY <2>1 DEF DocumentedError, d
<1>6. \A i \in 1 .. 8 : (d[i].fault /\ \A j \in 1 .. i - 1 : ~d[j].fault) => First(i)
  BY <1>2
<1>7. CASE d[1].fault
  <2>1. First(1)
    <3>1. \A j \in 1 .. 1 - 1 : FALSE
      OBVIOUS
    <3> QED BY <1>3, <1>6, <1>7, <3>1
  <2>2. header_error(h) = d[1].code
    BY <1>1, <1>3, <1>7 DEF header_error
  <2> QED BY <1>5, <2>1, <2>2
<1>8. CASE ~d[1].fault /\ d[2].fault
  <2>1. First(2)
    <3>1. \A j \in 1 .. 2 - 1 : j = 1
      OBVIOUS
    <3> QED BY <1>3, <1>6, <1>8, <3>1
  <2>2. header_error(h) = d[2].code
    BY <1>1, <1>3, <1>8 DEF header_error
  <2> QED BY <1>5, <2>1, <2>2
<1>9. CASE ~d[1].fault /\ ~d[2].fault /\ d[3].fault
  <2>1. First(3)
    <3>1. \A j \in 1 .. 3 - 1 : j = 1 \/ j = 2
      OBVIOUS
    <3> QED BY <1>3, <1>6, <1>9, <3>1
  <2>2. header_error(h) = d[3].code
    <3>1. ~(h[1] = 1) /\ ~(h[1] = 2) /\ h[1] # 0
      BY <1>1, <1>3, <1>9
    <3> QED BY <3>1, <1>1, <1>3 DEF header_error
  <2> QED BY <1>5, <2>1, <2>2
<1>10. CASE ~d[1].fault /\ ~d[2].fault /\ ~d[3].fault /\ d[4].fault
  <2>1. First(4)
    <3>1. \A j \in 1 .. 4 - 1 : j = 1 \/ j = 2 \/ j = 3
      OBVIOUS
    <3> QED BY <1>3, <1>6, <1>10, <3>1
  <2>2. header_error(h) = d[4].code
    <3>1. ~(h[1] = 1) /\ ~(h[1] = 2) /\ ~(h[1] > 2) /\ h[2] < HeaderSize
      BY <1>3, <1>10
    <3>2. ~(h[1] # 0)
      BY <3>1, <1>1
    <3> QED BY <3>1, <3>2, <1>1, <1>3 DEF header_error
  <2> QED BY <1>5, <2>1, <2>2
<1>11. CASE ~d[1].fault /\ ~d[2].fault /\ ~d[3].fault /\ ~d[4].fault /\ d[5].fault
  <2>1. First(5)
    <3>1. \A j \in 1 .. 5 - 1 : j = 1 \/ j = 2 \/ j = 3 \/ j = 4
      OBVIOUS
    <3> QED BY <1>3, <1>6, <1>11, <3>1
  <2>2. header_error(h) = d[5].code
    <3>1. ~(h[1] = 1) /\ ~(h[1] = 2) /\ ~(h[1] > 2) /\ ~(h[2] < HeaderSize) /\ h[2] > MaximumFrameSize
      BY <1>3, <1>11
    <3>2. ~(h[1] # 0)
      BY <3>1, <1>1
    <3> QED BY <3>1, <3>2, <1>1, <1>3 DEF header_error
  <2> QED BY <1>5, <2>1, <2>2
<1>12. CASE ~d[1].fault /\ ~d[2].fault /\ ~d[3].fault /\ ~d[4].fault /\ ~d[5].fault /\ d[6].fault
  <2>1. First(6)
    <3>1. \A j \in 1 .. 6 - 1 : j = 1 \/ j = 2 \/ j = 3 \/ j = 4 \/ j = 5
      OBVIOUS
    <3> QED BY <1>3, <1>6, <1>12, <3>1
  <2>2. header_error(h) = d[6].code
    <3>1. ~(h[1] = 1) /\ ~(h[1] = 2) /\ ~(h[1] > 2) /\ ~(h[2] < HeaderSize) /\ ~(h[2] > MaximumFrameSize) /\ h[3] \in {1, 3}
      BY <1>3, <1>12
    <3>2. ~(h[1] # 0)
      BY <3>1, <1>1
    <3> QED BY <3>1, <3>2, <1>1, <1>3 DEF header_error
  <2> QED BY <1>5, <2>1, <2>2
<1>13. CASE ~d[1].fault /\ ~d[2].fault /\ ~d[3].fault /\ ~d[4].fault /\ ~d[5].fault /\ ~d[6].fault /\ d[7].fault
  <2>1. First(7)
    <3>1. \A j \in 1 .. 7 - 1 : j = 1 \/ j = 2 \/ j = 3 \/ j = 4 \/ j = 5 \/ j = 6
      OBVIOUS
    <3> QED BY <1>3, <1>6, <1>13, <3>1
  <2>2. header_error(h) = d[7].code
    <3>1. /\ ~(h[1] = 1) /\ ~(h[1] = 2) /\ ~(h[1] > 2)
          /\ ~(h[2] < HeaderSize) /\ ~(h[2] > MaximumFrameSize)
          /\ ~(h[3] \in {1, 3}) /\ h[3] # 0
      BY <1>3, <1>13
    <3>2. ~(h[1] # 0)
      BY <3>1, <1>1
    <3> QED BY <3>1, <3>2, <1>1, <1>3 DEF header_error
  <2> QED BY <1>5, <2>1, <2>2
<1>14. CASE ~d[1].fault /\ ~d[2].fault /\ ~d[3].fault /\ ~d[4].fault /\ ~d[5].fault /\ ~d[6].fault /\ ~d[7].fault
  <2>1. First(8)
    <3>1. \A j \in 1 .. 8 - 1 : j = 1 \/ j = 2 \/ j = 3 \/ j = 4 \/ j = 5 \/ j = 6 \/ j = 7
      OBVIOUS
    <3> QED BY <1>3, <1>6, <1>14, <3>1
  <2>2. header_error(h) = d[8].code
    <3>1. /\ ~(h[1] = 1) /\ ~(h[1] = 2) /\ ~(h[1] > 2)
          /\ ~(h[2] < HeaderSize) /\ ~(h[2] > MaximumFrameSize)
          /\ ~(h[3] \in {1, 3}) /\ ~(h[3] # 0)
      BY <1>3, <1>14
    <3>2. ~(h[1] # 0)
      BY <3>1, <1>1
    <3> QED BY <3>1, <3>2, <1>1, <1>3 DEF header_error
  <2> QED BY <1>5, <2>1, <2>2
<1> QED BY <1>7, <1>8, <1>9, <1>10, <1>11, <1>12, <1>13, <1>14

-----------------------------------------------------------------------------
\* Loops.  A set of numbers that begins with 0 and has the successor of
\* each of its members has them all: the initial segments that are not
\* within it would have no smallest one.
LEMMA NatSets ==
    ASSUME NEW P, 0 \in P, \A n \in Nat : n \in P => n + 1 \in P
    PROVE  Nat \subseteq P
<1> SUFFICES ASSUME NEW n \in Nat, n \notin P PROVE FALSE
  OBVIOUS
<1> DEFINE Below == {0 .. k : k \in {i \in 0 .. n : i \notin P}}
<1>1. /\ Below \subseteq FiniteSubsetsOf(0 .. n)
      /\ 0 .. n \in Below
  <2>1. \A k \in 0 .. n : 0 .. k \in SUBSET (0 .. n) /\ IsFiniteSet(0 .. k)
    BY FS_Interval
  <2> QED BY <2>1 DEF FiniteSubsetsOf
<1>2. PICK x \in Below : \A y \in Below : <<y, x>> \notin StrictSubsetOrdering(0 .. n)
  BY <1>1, WFMin, FS_StrictSubsetOrderingWellFounded
<1>3. PICK k \in 0 .. n : k \notin P /\ x = 0 .. k
  BY <1>2
<1>4. k - 1 \in 0 .. n /\ k - 1 \notin P
  BY <1>3
<1>5. /\ 0 .. k - 1 \in Below /\ 0 .. k \in Below
      /\ 0 .. k - 1 \subseteq 0 .. k /\ 0 .. k - 1 # 0 .. k
      /\ 0 .. k - 1 \in SUBSET (0 .. n) /\ 0 .. k \in SUBSET (0 .. n)
  BY <1>3, <1>4
<1> QED BY <1>2, <1>3, <1>5 DEF StrictSubsetOrdering

\* What a loop reaches after n rounds is well defined: its value starts as
\* the base, and round n takes it on.
Iterates(f, base, step) ==
    f[0] = base /\ \A n \in Nat : f[n + 1] = step[n][f[n]]

\* There is such a function whatever the rounds do.
LEMMA Iteration ==
    ASSUME NEW S, NEW base \in S, NEW step \in [Nat -> [S -> S]]
    PROVE  \E f \in [Nat -> S] : Iterates(f, base, step)
<1> DEFINE Start(g, n) == /\ g[0] = base
                          /\ \A i \in 0 .. n - 1 : g[i + 1] = step[i][g[i]]
           Starts(n) == {g \in [0 .. n -> S] : Start(g, n)}
<1>1. \A n \in Nat : Starts(n) # {}
  <2> DEFINE P == {n \in Nat : Starts(n) # {}}
  <2>1. 0 \in P
    <3>1. [i \in 0 .. 0 |-> base] \in Starts(0)
      OBVIOUS
    <3> QED BY <3>1
  <2>2. ASSUME NEW n \in Nat, n \in P
        PROVE  n + 1 \in P
    <3>1. PICK g \in Starts(n) : TRUE
      BY <2>2
    <3> DEFINE h == [i \in 0 .. n + 1 |-> IF i <= n THEN g[i] ELSE step[n][g[n]]]
    <3>2. h \in [0 .. n + 1 -> S]
      BY <3>1
    <3>3. Start(h, n + 1)
      BY <3>1
    <3> HIDE DEF h
    <3>4. h \in Starts(n + 1)
      BY <3>2, <3>3
    <3> QED BY <3>4
  <2> HIDE DEF P
  <2>3. Nat \subseteq P
    BY <2>1, <2>2, NatSets
  <2> QED BY <2>3 DEF P
<1> DEFINE Agree(i) == \A n, m \in Nat : \A g \in Starts(n), h \in Starts(m) :
                          i <= n /\ i <= m => g[i] = h[i]
<1>2. \A i \in Nat : Agree(i)
  <2>1. Agree(0)
    OBVIOUS
  <2>2. ASSUME NEW i \in Nat, Agree(i)
        PROVE  Agree(i + 1)
    <3>1. ASSUME NEW n \in Nat, NEW m \in Nat, i + 1 <= n, i + 1 <= m,
                 NEW g \in Starts(n), NEW h \in Starts(m)
          PROVE  g[i + 1] = h[i + 1]
      <4>1. i <= n /\ i <= m /\ i \in 0 .. n - 1 /\ i \in 0 .. m - 1
        BY <3>1
      <4>2. g[i] = h[i]
        BY <2>2, <4>1
      <4> QED BY <4>1, <4>2
    <3> HIDE DEF Starts
    <3> QED BY <3>1
  <2> HIDE DEF Agree
  <2> DEFINE P == {i \in Nat : Agree(i)}
  <2>3. 0 \in P /\ \A i \in Nat : i \in P => i + 1 \in P
    BY <2>1, <2>2
  <2>4. Nat \subseteq P
    <3> HIDE DEF P
    <3> QED BY <2>3, NatSets
  <2> QED BY <2>4
<1> DEFINE a(n) == CHOOSE g : g \in Starts(n)
           f == [n \in Nat |-> a(n)[n]]
<1>3. \A n \in Nat : a(n) \in Starts(n)
  BY <1>1
<1> HIDE DEF a
<1>4. f \in [Nat -> S] /\ f[0] = base
  BY <1>3
<1>5. ASSUME NEW n \in Nat
      PROVE  f[n + 1] = step[n][f[n]]
  <2>1. n + 1 \in Nat /\ n <= n + 1 /\ n <= n /\ n \in 0 .. (n + 1) - 1
    OBVIOUS
  <2>2. a(n + 1)[n + 1] = step[n][a(n + 1)[n]]
    BY <1>3, <2>1
  <2>3. a(n + 1)[n] = a(n)[n]
    <3> HIDE DEF Starts
    <3>1. a(n + 1) \in Starts(n + 1) /\ a(n) \in Starts(n)
      BY <1>3, <2>1
    <3> QED BY <1>2, <2>1, <3>1
  <2> QED BY <2>1, <2>2, <2>3
<1> HIDE DEF f
<1> QED BY <1>4, <1>5 DEF Iterates

\* The bytes of a concatenation.
LEMMA ConcatFacts ==
    ASSUME NEW u \in Seq(Nat), NEW v \in Seq(Nat)
    PROVE  /\ u \o v \in Seq(Nat) /\ Len(u \o v) = Len(u) + Len(v)
           /\ \A i \in 1 .. Len(u) + Len(v) :
                (u \o v)[i] = IF i <= Len(u) THEN u[i] ELSE v[i - Len(u)]
BY Zenon, ConcatProperties

\* Sequences of one length with the same bytes are the same.
LEMMA SameBytes ==
    ASSUME NEW u \in Seq(Nat), NEW v \in Seq(Nat), Len(u) = Len(v),
           \A i \in 1 .. Len(u) : u[i] = v[i]
    PROVE  u = v
BY Zenon, SeqEqual

\* What follows a position.
LEMMA FromFacts ==
    ASSUME NEW s \in Seq(Nat), NEW a \in 0 .. Len(s)
    PROVE  /\ From(s, a) \in Seq(Nat) /\ Len(From(s, a)) = Len(s) - a
           /\ \A i \in 1 .. Len(s) - a : From(s, a)[i] = s[a + i]
<1> DEFINE u == SubSeq(s, a + 1, Len(s))
<1>1. u \in Seq(Nat)
  OBVIOUS
<1>2. Len(u) = Len(s) - a
  OBVIOUS
<1>3. \A i \in 1 .. Len(s) - a : u[i] = s[a + i]
  OBVIOUS
<1> QED BY <1>1, <1>2, <1>3 DEF From

\* It is longer in a longer stream.
LEMMA FromLonger ==
    ASSUME NEW s \in Seq(Nat), NEW t \in Seq(Nat), NEW a \in 0 .. Len(s)
    PROVE  From(s \o t, a) = From(s, a) \o t
<1> DEFINE u == From(s \o t, a)
           v == From(s, a) \o t
<1>1. s \o t \in Seq(Nat) /\ Len(s \o t) = Len(s) + Len(t) /\ a \in 0 .. Len(s \o t)
  OBVIOUS
<1>2. /\ u \in Seq(Nat) /\ Len(u) = Len(s \o t) - a
      /\ \A i \in 1 .. Len(s \o t) - a : u[i] = (s \o t)[a + i]
  BY <1>1, FromFacts
<1>3. /\ From(s, a) \in Seq(Nat) /\ Len(From(s, a)) = Len(s) - a
      /\ \A i \in 1 .. Len(s) - a : From(s, a)[i] = s[a + i]
  BY FromFacts
<1>4. /\ v \in Seq(Nat) /\ Len(v) = Len(From(s, a)) + Len(t)
      /\ \A i \in 1 .. Len(From(s, a)) + Len(t) :
            v[i] = IF i <= Len(From(s, a)) THEN From(s, a)[i] ELSE t[i - Len(From(s, a))]
  BY <1>3, ConcatFacts
<1> HIDE DEF u, v
<1>5. Len(u) = Len(v)
  BY <1>1, <1>2, <1>3, <1>4
<1>6. ASSUME NEW i \in 1 .. Len(u)
      PROVE  u[i] = v[i]
  <2>1. i \in Int /\ i \in 1 .. Len(s \o t) - a /\ Len(s) \in Nat /\ Len(t) \in Nat
    BY <1>1, <1>2
  <2>2. u[i] = (s \o t)[a + i]
    BY <1>2, <2>1
  <2>3. CASE i <= Len(s) - a
    <3>1. i \in 1 .. Len(From(s, a)) /\ a + i \in 1 .. Len(s)
      BY <1>3, <2>1, <2>3
    <3>2. v[i] = From(s, a)[i]
      BY <3>1, <1>3, <1>4, <2>1
    <3>3. (s \o t)[a + i] = s[a + i]
      BY <3>1
    <3>4. From(s, a)[i] = s[a + i]
      <4>1. i \in 1 .. Len(s) - a
        BY <2>1, <2>3
      <4> QED BY Zenon, <1>3, <4>1
    <3> QED BY <2>2, <3>2, <3>3, <3>4
  <2>4. CASE i > Len(s) - a
    <3>1. /\ ~(i <= Len(From(s, a))) /\ i <= Len(From(s, a)) + Len(t)
          /\ ~(a + i <= Len(s)) /\ a + i <= Len(s) + Len(t)
      BY <1>1, <1>3, <2>1, <2>4
    <3>2. v[i] = t[i - Len(From(s, a))] /\ (s \o t)[a + i] = t[(a + i) - Len(s)]
      <4>1. i \in 1 .. Len(From(s, a)) + Len(t)
        BY <2>1, <3>1, <1>3
      <4>2. v[i] = t[i - Len(From(s, a))]
        BY <4>1, <3>1, <1>4
      <4>3. a + i \in 1 .. Len(s) + Len(t)
        BY <3>1, <2>1
      <4>4. (s \o t)[a + i] = t[(a + i) - Len(s)]
        BY <4>3, <3>1, ConcatFacts
      <4> QED BY <4>2, <4>4
    <3>3. i - Len(From(s, a)) = (a + i) - Len(s)
      BY <1>3, <2>1
    <3> QED BY <2>2, <3>2, <3>3
  <2> QED BY <2>1, <2>3, <2>4
<1>7. u = v
  BY <1>2, <1>4, <1>5, <1>6, SameBytes
<1> QED BY <1>7 DEF u, v

\* A frame is where the decoder accepts a header and what it declares is there;
\* a longer stream has the same ones.
LEMMA FrameFacts ==
    ASSUME NEW s \in Seq(Nat), NEW a \in 0 .. Len(s)
    PROVE  /\ FrameAt(s, a) <=> /\ a + HeaderSize <= Len(s)
                                /\ header_error(From(s, a)) = "none"
                                /\ a + s[a + 2] <= Len(s)
           /\ HeaderFault(From(s, a)) = IF Len(s) - a < HeaderSize THEN "none"
                                        ELSE header_error(From(s, a))
<1>1. From(s, a) \in Seq(Nat) /\ Len(From(s, a)) = Len(s) - a
  BY FromFacts
<1>2. CASE a + HeaderSize <= Len(s)
  <2>1. DocumentedError(From(s, a)) = header_error(From(s, a))
    BY <1>1, <1>2, DocumentedIsCode DEF HeaderSize
  <2> QED BY <1>1, <1>2, <2>1 DEF FrameAt, HeaderFault, HeaderSize
<1>3. CASE ~(a + HeaderSize <= Len(s))
  <2>1. Len(s) - a < HeaderSize
    BY <1>3 DEF HeaderSize
  <2> QED BY <1>1, <1>3, <2>1 DEF FrameAt, HeaderFault
<1> QED BY <1>2, <1>3

\* What the parser has read of a stream s: the frames F, which end at the
\* positions at, and the rest.
Reads(s, F, at, rest) ==
    /\ at \in [Nat -> Nat] /\ at[0] = 0
    /\ \A k \in 1 .. Len(F) : /\ FrameAt(s, at[k - 1])
                              /\ at[k] = at[k - 1] + s[at[k - 1] + 2]
                              /\ F[k] = SubSeq(s, at[k - 1] + 1, at[k])
    /\ \A k \in 0 .. Len(F) : k <= at[k] /\ at[k] <= Len(s)
    /\ rest = From(s, at[Len(F)])

\* A frame stays where it is in a longer stream.
LEMMA FrameLonger ==
    ASSUME NEW s \in Seq(Nat), NEW t \in Seq(Nat), NEW a \in 0 .. Len(s), FrameAt(s, a)
    PROVE  FrameAt(s \o t, a) /\ (s \o t)[a + 2] = s[a + 2]
<1>1. /\ a + HeaderSize <= Len(s) /\ header_error(From(s, a)) = "none"
      /\ a + s[a + 2] <= Len(s)
  BY FrameFacts
<1>2. s \o t \in Seq(Nat) /\ Len(s \o t) = Len(s) + Len(t) /\ a \in 0 .. Len(s \o t)
  OBVIOUS
<1>3. (s \o t)[a + 2] = s[a + 2] /\ s[a + 2] \in Nat
  BY <1>1 DEF HeaderSize
<1>4. header_error(From(s \o t, a)) = "none"
  <2>1. From(s, a) \in Seq(Nat) /\ Len(From(s, a)) >= HeaderSize
    BY <1>1, FromFacts DEF HeaderSize
  <2>2. header_error(From(s, a) \o t) = "none"
    BY <2>1, <1>1, HeaderFacts
  <2> QED BY <2>2, FromLonger
<1>5. a + HeaderSize <= Len(s \o t) /\ a + (s \o t)[a + 2] <= Len(s \o t)
  BY <1>1, <1>2, <1>3 DEF HeaderSize
<1> QED BY <1>2, <1>3, <1>4, <1>5, FrameFacts

\* Bytes before the end of a stream are the same in a longer one.
LEMMA CutLonger ==
    ASSUME NEW s \in Seq(Nat), NEW t \in Seq(Nat), NEW a \in Nat, NEW b \in Nat,
           b <= Len(s)
    PROVE  SubSeq(s \o t, a + 1, b) = SubSeq(s, a + 1, b)
<1> DEFINE u == SubSeq(s \o t, a + 1, b)
           v == SubSeq(s, a + 1, b)
<1>1. /\ u \in Seq(Nat) /\ v \in Seq(Nat) /\ Len(u) = Len(v)
      /\ \A i \in 1 .. Len(u) : u[i] = v[i]
  OBVIOUS
<1> HIDE DEF u, v
<1>2. u = v
  BY <1>1, SameBytes
<1> QED BY <1>2 DEF u, v

\* What was read stays read when more arrives.
LEMMA ReadsLonger ==
    ASSUME NEW s \in Seq(Nat), NEW t \in Seq(Nat), NEW F \in Seq(Seq(Nat)), NEW at, NEW rest,
           Reads(s, F, at, rest)
    PROVE  Reads(s \o t, F, at, rest \o t)
<1>1. /\ at \in [Nat -> Nat] /\ at[0] = 0 /\ Len(F) \in Nat
      /\ \A k \in 0 .. Len(F) : k <= at[k] /\ at[k] <= Len(s)
      /\ rest = From(s, at[Len(F)])
  <2>1. Len(F) \in Nat
    OBVIOUS
  <2> QED BY Zenon, <2>1 DEF Reads
<1>2. Len(s \o t) = Len(s) + Len(t) /\ Len(s) \in Nat /\ Len(t) \in Nat
  OBVIOUS
<1>3. ASSUME NEW k \in 1 .. Len(F)
      PROVE  /\ FrameAt(s \o t, at[k - 1])
             /\ at[k] = at[k - 1] + (s \o t)[at[k - 1] + 2]
             /\ F[k] = SubSeq(s \o t, at[k - 1] + 1, at[k])
  <2>1. k - 1 \in 0 .. Len(F) /\ k \in 0 .. Len(F) /\ k \in Nat /\ k - 1 \in Nat
    BY <1>1
  <2>2. at[k - 1] \in 0 .. Len(s) /\ at[k] \in Nat /\ at[k - 1] \in Nat /\ at[k] <= Len(s)
    <3>1. at[k] \in Nat /\ at[k - 1] \in Nat
      BY <1>1, <2>1
    <3>2. at[k - 1] <= Len(s) /\ at[k] <= Len(s)
      BY Zenon, <1>1, <2>1
    <3> QED BY <3>1, <3>2, <1>2
  <2>3. /\ FrameAt(s, at[k - 1]) /\ at[k] = at[k - 1] + s[at[k - 1] + 2]
        /\ F[k] = SubSeq(s, at[k - 1] + 1, at[k])
    BY DEF Reads
  <2>4. FrameAt(s \o t, at[k - 1]) /\ (s \o t)[at[k - 1] + 2] = s[at[k - 1] + 2]
    BY <2>2, <2>3, FrameLonger
  <2>5. SubSeq(s \o t, at[k - 1] + 1, at[k]) = SubSeq(s, at[k - 1] + 1, at[k])
    BY <2>2, CutLonger
  <2> QED BY <2>3, <2>4, <2>5
<1>4. ASSUME NEW k \in 0 .. Len(F)
      PROVE  k <= at[k] /\ at[k] <= Len(s \o t)
  <2>1. at[k] \in Nat
    BY <1>1
  <2> QED BY <1>1, <1>2, <2>1
<1>5. rest \o t = From(s \o t, at[Len(F)])
  <2>1. at[Len(F)] \in 0 .. Len(s)
    BY <1>1
  <2> QED BY <1>1, <2>1, FromLonger
<1> QED BY <1>1, <1>3, <1>4, <1>5 DEF Reads

\* A whole frame at the head of the rest is read: one more frame, one more
\* position.
LEMMA ReadsOneMore ==
    ASSUME NEW s \in Seq(Nat), NEW F \in Seq(Seq(Nat)), NEW at,
           NEW f \in Seq(Nat), NEW rest \in Seq(Nat), Reads(s, F, at, f \o rest),
           Len(f) >= HeaderSize, header_error(f) = "none", f[2] = Len(f)
    PROVE  \E more : Reads(s, Append(F, f), more, rest)
<1> DEFINE n == Len(F)
           start == at[n]
           end == start + Len(f)
           more == [at EXCEPT ![n + 1] = end]
           G == Append(F, f)
<1>1. n \in Nat /\ Len(f) \in Nat /\ Len(rest) \in Nat /\ Len(s) \in Nat /\ Len(f) >= 3
  BY DEF HeaderSize
<1>2. /\ at \in [Nat -> Nat] /\ at[0] = 0
      /\ \A k \in 0 .. n : k <= at[k] /\ at[k] <= Len(s)
      /\ f \o rest = From(s, start)
  BY Zenon DEF Reads
<1>3. start \in 0 .. Len(s) /\ n <= start
  <2>1. n \in 0 .. n
    BY <1>1
  <2>2. start \in Nat
    BY <1>1, <1>2
  <2>3. n <= start /\ start <= Len(s)
    BY Zenon, <1>2, <2>1
  <2> QED BY <1>1, <2>2, <2>3
<1> HIDE DEF start
<1>4. /\ From(s, start) \in Seq(Nat) /\ Len(From(s, start)) = Len(s) - start
      /\ \A i \in 1 .. Len(s) - start : From(s, start)[i] = s[start + i]
  BY <1>3, FromFacts
<1>5. /\ Len(f \o rest) = Len(f) + Len(rest)
      /\ \A i \in 1 .. Len(f) : (f \o rest)[i] = f[i]
      /\ \A i \in 1 .. Len(rest) : (f \o rest)[Len(f) + i] = rest[i]
  OBVIOUS
<1>6. Len(s) - start = Len(f) + Len(rest)
  BY <1>2, <1>4, <1>5
<1>7. /\ \A i \in 1 .. Len(f) : s[start + i] = f[i]
      /\ \A i \in 1 .. Len(rest) : s[start + (Len(f) + i)] = rest[i]
  <2>1. ASSUME NEW i \in 1 .. Len(f)
        PROVE  s[start + i] = f[i]
    <3>1. i \in 1 .. Len(s) - start
      BY <1>1, <1>6
    <3> QED BY <3>1, <1>2, <1>4, <1>5
  <2>2. ASSUME NEW i \in 1 .. Len(rest)
        PROVE  s[start + (Len(f) + i)] = rest[i]
    <3>1. Len(f) + i \in 1 .. Len(s) - start
      <4>1. Len(f) + i \in 1 .. Len(f) + Len(rest)
        BY <1>1
      <4> QED BY <4>1, <1>6
    <3>2. From(s, start)[Len(f) + i] = s[start + (Len(f) + i)]
      BY Zenon, <3>1, <1>4
    <3>3. (f \o rest)[Len(f) + i] = rest[i]
      BY Zenon, <1>5
    <3> QED BY <3>2, <3>3, <1>2
  <2> QED BY <2>1, <2>2
<1>8. end \in 0 .. Len(s) /\ end = start + Len(f) /\ start + HeaderSize <= Len(s)
  <2>1. start \in Nat
    BY <1>3
  <2>2. \A a, b, c, d \in Nat : b - a = c + d /\ c >= 3 => a + c <= b /\ a + 3 <= b
    OBVIOUS
  <2>3. start + Len(f) <= Len(s) /\ start + 3 <= Len(s)
    BY <2>1, <2>2, <1>1, <1>6
  <2> QED BY <2>1, <2>3, <1>1 DEF HeaderSize
<1> HIDE DEF end
<1>9. s[start + 2] = Len(f)
  <2>1. 2 \in 1 .. Len(f)
    BY <1>1
  <2> QED BY Zenon, <1>7, <2>1
<1>10. FrameAt(s, start)
  <2>1. header_error(From(s, start)) = "none"
    BY <1>2, HeaderFacts
  <2> QED BY <2>1, <1>3, <1>8, <1>9, FrameFacts
<1>11. f = SubSeq(s, start + 1, end)
  <2> DEFINE u == SubSeq(s, start + 1, end)
  <2>1. start \in Nat /\ end \in Nat /\ end <= Len(s) /\ start <= end
    BY <1>1, <1>3, <1>8
  <2>2. /\ u \in Seq(Nat) /\ Len(u) = end - start
        /\ \A i \in 1 .. end - start : u[i] = s[start + i]
    BY <2>1
  <2> HIDE DEF u
  <2>3. Len(u) = Len(f) /\ \A i \in 1 .. Len(f) : u[i] = f[i]
    BY <2>1, <2>2, <1>1, <1>7, <1>8
  <2>4. u = f
    BY <2>2, <2>3, SameBytes
  <2> QED BY <2>4 DEF u
<1>12. rest = From(s, end)
  <2> DEFINE u == From(s, end)
  <2>1. /\ u \in Seq(Nat) /\ Len(u) = Len(s) - end
        /\ \A i \in 1 .. Len(s) - end : u[i] = s[end + i]
    BY <1>8, FromFacts
  <2> HIDE DEF u
  <2>2. Len(u) = Len(rest)
    <3>1. Len(u) = Len(s) - end
      BY <2>1
    <3>2. /\ start \in Int /\ Len(s) \in Int /\ Len(f) \in Int /\ Len(rest) \in Int
          /\ end = start + Len(f) /\ Len(s) - start = Len(f) + Len(rest)
      BY <1>1, <1>3, <1>6, <1>8
    <3>3. \A a, b, c, d, e \in Int : e = a + c /\ b - a = c + d => b - e = d
      OBVIOUS
    <3>4. Len(s) - end = Len(rest)
      BY <3>2, <3>3
    <3> QED BY <3>1, <3>4
  <2>3. ASSUME NEW i \in 1 .. Len(u)
        PROVE  u[i] = rest[i]
    <3>1. i \in 1 .. Len(rest) /\ i \in 1 .. Len(s) - end
      BY <2>1, <2>2
    <3>2. end + i = start + (Len(f) + i)
      BY <1>1, <1>3, <1>8
    <3>3. u[i] = s[end + i] /\ s[start + (Len(f) + i)] = rest[i]
      BY Zenon, <3>1, <2>1, <1>7
    <3> QED BY <3>2, <3>3
  <2>4. u = rest
    BY <2>1, <2>2, <2>3, SameBytes
  <2> QED BY <2>4 DEF u
<1>13. /\ more \in [Nat -> Nat] /\ more[n + 1] = end
       /\ \A k \in 0 .. n : more[k] = at[k]
  <2>1. end \in Nat /\ n + 1 \in Nat
    BY <1>1, <1>8
  <2>2. \A k \in 0 .. n : k \in Nat /\ k # n + 1
    BY <1>1
  <2> QED BY <1>2, <2>1, <2>2
<1>14. Len(G) = n + 1 /\ G[n + 1] = f /\ \A k \in 1 .. n : G[k] = F[k]
  OBVIOUS
<1> HIDE DEF more, G
<1>15. more[n] = start
  BY <1>1, <1>13 DEF start
<1>16. ASSUME NEW k \in 1 .. n + 1
       PROVE  /\ FrameAt(s, more[k - 1])
              /\ more[k] = more[k - 1] + s[more[k - 1] + 2]
              /\ G[k] = SubSeq(s, more[k - 1] + 1, more[k])
  <2>1. CASE k = n + 1
    <3>1. k - 1 = n
      BY <1>1, <2>1
    <3>2. more[k - 1] = start /\ more[k] = end /\ G[k] = f
      BY <2>1, <3>1, <1>13, <1>14, <1>15
    <3> QED BY <3>2, <1>8, <1>9, <1>10, <1>11
  <2>2. CASE k # n + 1
    <3>1. k \in 1 .. n /\ k \in 0 .. n /\ k - 1 \in 0 .. n
      BY <1>1, <2>2
    <3>2. more[k - 1] = at[k - 1] /\ more[k] = at[k] /\ G[k] = F[k]
      BY <3>1, <1>13, <1>14
    <3> QED BY <3>1, <3>2 DEF Reads
  <2> QED BY <2>1, <2>2
<1>17. ASSUME NEW k \in 0 .. n + 1
       PROVE  k <= more[k] /\ more[k] <= Len(s)
  <2>1. CASE k = n + 1
    BY <2>1, <1>1, <1>3, <1>8, <1>13
  <2>2. CASE k # n + 1
    <3>1. k \in 0 .. n
      BY <1>1, <2>2
    <3> QED BY <3>1, <1>2, <1>13
  <2> QED BY <2>1, <2>2
<1>18. more[0] = 0
  BY <1>1, <1>2, <1>13
<1>19. Reads(s, G, more, rest)
  BY <1>12, <1>13, <1>14, <1>16, <1>17, <1>18 DEF Reads
<1> QED BY <1>19 DEF G

\* What the failure of a parser says of what it could not read.
Ended(code, rest) ==
    code = IF HeaderFault(rest) # "none" THEN HeaderFault(rest) ELSE Truncation(rest)

\* The parser read F and stopped for good at what follows; the frames D that it
\* delivered are the first ones.
Stopped(s, D, F, at, code) ==
    /\ Reads(s, F, at, From(s, at[Len(F)]))
    /\ ~FrameAt(s, at[Len(F)])
    /\ Len(D) <= Len(F)
    /\ \A k \in 1 .. Len(D) : D[k] = F[k]
    /\ Ended(code, From(s, at[Len(F)]))

\* A parser that has not failed has read the frames it delivered and those of
\* this call, and what is left is in its buffer and its input.
ReassemblyInv ==
    /\ pc = "idle" => frames = <<>>
    /\ result = "finished" => failure = "none" /\ pc = "idle" /\ buffer = <<>>
    /\ failure = "none" => \E at : Reads(seen, delivered \o frames, at, buffer \o input)
    /\ failure # "none" => \E F \in Seq(Seq(Nat)) : \E at : Stopped(seen, delivered, F, at, failure)

\* Three sequences in a row.
LEMMA ConcatThree ==
    ASSUME NEW u \in Seq(Nat), NEW v \in Seq(Nat), NEW w \in Seq(Nat)
    PROVE  (u \o v) \o w = u \o (v \o w)
BY SMTT(30), ConcatAssociative

\* The input is what Take gives and Rest leaves.
LEMMA TakeRest ==
    ASSUME input \in Seq(Nat), NEW b \in Seq(Nat), NEW n \in Nat
    PROVE  (b \o Take(n)) \o Rest(n) = b \o input
<1> DEFINE m == Least(n, Len(input))
           u == SubSeq(input, 1, m)
           v == SubSeq(input, m + 1, Len(input))
<1>1. m \in 0 .. Len(input)
  BY DEF Least
<1> HIDE DEF m
<1>2. /\ u \in Seq(Nat) /\ Len(u) = m /\ \A i \in 1 .. m : u[i] = input[i]
      /\ v \in Seq(Nat) /\ Len(v) = Len(input) - m
      /\ \A i \in 1 .. Len(input) - m : v[i] = input[m + i]
  <2>1. u \in Seq(Nat) /\ Len(u) = m /\ \A i \in 1 .. m : u[i] = input[i]
    BY <1>1
  <2>2. v = From(input, m)
    BY DEF From
  <2> HIDE DEF v
  <2>3. /\ v \in Seq(Nat) /\ Len(v) = Len(input) - m
        /\ \A i \in 1 .. Len(input) - m : v[i] = input[m + i]
    BY <2>2, <1>1, FromFacts
  <2> QED BY <2>1, <2>3
<1> HIDE DEF u, v
<1>3. u \o v = input
  <2> DEFINE w == u \o v
  <2>1. /\ w \in Seq(Nat) /\ Len(w) = Len(input)
        /\ \A i \in 1 .. Len(input) : w[i] = IF i <= m THEN u[i] ELSE v[i - m]
    <3>1. Len(u) + Len(v) = Len(input)
      BY <1>1, <1>2
    <3>2. w \in Seq(Nat) /\ Len(w) = Len(u) + Len(v)
      BY <1>2, ConcatFacts
    <3>3. \A i \in 1 .. Len(u) + Len(v) : w[i] = IF i <= Len(u) THEN u[i] ELSE v[i - Len(u)]
      BY <1>2, ConcatFacts
    <3> HIDE DEF w
    <3> QED BY <3>1, <3>2, <3>3, <1>2
  <2> HIDE DEF w
  <2>2. ASSUME NEW i \in 1 .. Len(w)
        PROVE  w[i] = input[i]
    <3>1. CASE i <= m
      BY <3>1, <2>1, <1>1, <1>2
    <3>2. CASE i > m
      <4>1. i - m \in 1 .. Len(input) - m /\ m + (i - m) = i /\ ~(i <= m)
        BY <3>2, <2>1, <1>1
      <4>2. v[i - m] = input[m + (i - m)] /\ w[i] = v[i - m]
        BY <4>1, <2>1, <1>2
      <4> QED BY <4>1, <4>2
    <3> QED BY <3>1, <3>2, <2>1, <1>1
  <2>3. w = input
    BY <2>1, <2>2, SameBytes
  <2> QED BY <2>3 DEF w
<1>4. (b \o u) \o v = b \o (u \o v)
  <2>1. b \in Seq(Nat) /\ u \in Seq(Nat) /\ v \in Seq(Nat)
    BY <1>2
  <2> QED BY <2>1, ConcatThree
<1>5. Take(n) = u /\ Rest(n) = v
  BY DEF Take, Rest, u, v, m
<1> QED BY <1>3, <1>4, <1>5

\* Nothing is left of nothing.
LEMMA FreshReads == \E at : Reads(<<>>, <<>>, at, <<>>)
<1> DEFINE at == [k \in Nat |-> 0]
<1>1. at \in [Nat -> Nat] /\ at[0] = 0 /\ Len(<<>>) = 0
  OBVIOUS
<1>2. From(<<>>, 0) = <<>>
  BY DEF From
<1> HIDE DEF at
<1>3. \A k \in 1 .. 0 : FALSE
  OBVIOUS
<1>4. \A k \in 0 .. 0 : k = 0
  OBVIOUS
<1>5. Reads(<<>>, <<>>, at, <<>>)
  BY <1>1, <1>2, <1>3, <1>4 DEF Reads
<1> QED BY <1>5

\* A new parser has read nothing.
LEMMA InitReassembly == Init => ReassemblyInv
<1> SUFFICES ASSUME Init PROVE ReassemblyInv
  OBVIOUS
<1>1. delivered \o frames = <<>> /\ buffer \o input = <<>> /\ seen = <<>>
  BY DEF Init
<1> QED BY <1>1, FreshReads DEF Init, ReassemblyInv

\* Between two calls what is left is no whole frame, and no header with a
\* fault: the buffer was bounded by what is still missing.
LEMMA NoWholeFrame ==
    ASSUME Inv, pc = "idle", failure = "none",
           NEW F \in Seq(Seq(Nat)), NEW at, Reads(seen, F, at, buffer)
    PROVE  /\ ~FrameAt(seen, at[Len(F)])
           /\ buffer = From(seen, at[Len(F)]) /\ HeaderFault(buffer) = "none"
           /\ at[Len(F)] \in 0 .. Len(seen) /\ Len(F) <= at[Len(F)]
<1> DEFINE p == at[Len(F)]
<1>1. /\ seen \in Seq(Nat) /\ buffer \in Seq(Nat) /\ Len(F) \in Nat /\ Len(F) \in 0 .. Len(F)
      /\ Len(seen) \in Nat /\ Len(buffer) \in Nat
  BY DEF Inv, TypeOK
<1>2. /\ buffer = From(seen, p) /\ at \in [Nat -> Nat]
      /\ \A k \in 0 .. Len(F) : k <= at[k] /\ at[k] <= Len(seen)
  BY Zenon DEF Reads
<1>3. p \in 0 .. Len(seen) /\ Len(F) <= p
  <2>1. p \in Nat
    BY <1>1, <1>2
  <2>2. Len(F) <= p /\ p <= Len(seen)
    BY Zenon, <1>1, <1>2
  <2> QED BY <1>1, <2>1, <2>2
<1> HIDE DEF p
<1>4. Len(buffer) = Len(seen) - p /\ \A i \in 1 .. Len(seen) - p : buffer[i] = seen[p + i]
  BY <1>1, <1>2, <1>3, FromFacts
<1>5. CASE header = 0
  <2>1. Len(buffer) < HeaderSize
    BY <1>5 DEF Inv, BufferBounded
  <2>2. ~(p + HeaderSize <= Len(seen))
    BY <2>1, <1>1, <1>3, <1>4 DEF HeaderSize
  <2>3. ~FrameAt(seen, p)
    BY <2>2 DEF FrameAt
  <2>4. HeaderFault(buffer) = "none"
    BY <2>1 DEF HeaderFault
  <2> QED BY <2>3, <2>4, <1>2, <1>3 DEF p
<1>6. CASE header # 0
  <2>1. /\ Len(buffer) \in HeaderSize .. header /\ Len(buffer) < header
        /\ header_error(buffer) = "none" /\ buffer[2] = header
    BY <1>6 DEF Inv, BufferBounded
  <2>2. header \in Nat
    BY StreamParserAssumption DEF Inv, TypeOK, HeaderSize
  <2>3. 2 \in 1 .. Len(seen) - p
    BY <2>1, <2>2, <1>1, <1>4 DEF HeaderSize
  <2>4. seen[p + 2] = header
    BY Zenon, <2>1, <2>3, <1>4
  <2>5. ~(p + seen[p + 2] <= Len(seen))
    BY <2>1, <2>2, <2>4, <1>1, <1>3, <1>4
  <2>6. ~FrameAt(seen, p)
    BY <2>5 DEF FrameAt
  <2>7. HeaderFault(buffer) = "none"
    BY <2>1, <1>1, DocumentedIsCode DEF HeaderFault
  <2> QED BY <2>6, <2>7, <1>2, <1>3 DEF p
<1> QED BY <1>5, <1>6

\* Pushing more bytes reads nothing yet.
LEMMA PushReads ==
    ASSUME Inv, ReassemblyInv, NEW n \in 0 .. Len(stream), Push(n)
    PROVE  ReassemblyInv'
<1>1. /\ stream \in Seq(Nat) /\ seen \in Seq(Nat) /\ buffer \in Seq(Nat)
      /\ delivered \in Seq(Seq(Nat)) /\ input = <<>> /\ frames = <<>> /\ pc = "idle"
      /\ failure \in ParseErrors \cup {"none"}
  BY DEF Push, Inv, TypeOK, ReassemblyInv
<1>2. CASE failure # "none"
  <2>1. /\ result' = failure /\ UNCHANGED <<pc, frames, seen, failure, delivered>>
    BY <1>2 DEF Push
  <2>2. result' # "finished"
    BY <2>1, <1>1, <1>2 DEF ParseErrors
  <2>3a. PICK F \in Seq(Seq(Nat)) : \E at : Stopped(seen, delivered, F, at, failure)
    BY <1>2 DEF ReassemblyInv
  <2>3. PICK at : Stopped(seen, delivered, F, at, failure)
    BY <2>3a
  <2>4. Stopped(seen', delivered', F, at, failure')
    BY <2>1, <2>3
  <2> QED BY <2>1, <2>2, <2>4, <1>1, <1>2 DEF ReassemblyInv
<1>3. CASE failure = "none"
  <2> DEFINE pushed == SubSeq(stream, 1, n)
  <2>1. pushed \in Seq(Nat)
    BY <1>1
  <2>2. /\ pc' = "push" /\ input' = pushed /\ frames' = <<>> /\ seen' = seen \o pushed
        /\ result' = "none" /\ UNCHANGED <<buffer, failure, delivered>>
    BY <1>3 DEF Push
  <2> HIDE DEF pushed
  <2>3. delivered \o frames = delivered /\ buffer \o input = buffer
    BY <1>1
  <2>4. PICK at : Reads(seen, delivered, at, buffer)
    BY <2>3, <1>3 DEF ReassemblyInv
  <2>5. Reads(seen \o pushed, delivered, at, buffer \o pushed)
    BY <2>1, <2>4, <1>1, ReadsLonger
  <2>6. delivered' \o frames' = delivered /\ buffer' \o input' = buffer \o pushed
    BY <2>2, <1>1
  <2>7. Reads(seen', delivered' \o frames', at, buffer' \o input')
    BY <2>2, <2>5, <2>6
  <2> QED BY <2>2, <2>7, <1>3 DEF ReassemblyInv
<1> QED BY <1>2, <1>3

\* A call that has used its input delivers what it read.
LEMMA ReturnReads ==
    ASSUME Inv, ReassemblyInv, pc = "push", Return, buffer' = buffer \o input
    PROVE  ReassemblyInv'
<1>1. /\ buffer \in Seq(Nat) /\ input \in Seq(Nat) /\ frames \in Seq(Seq(Nat))
      /\ delivered \in Seq(Seq(Nat)) /\ failure = "none"
  BY DEF Inv, TypeOK
<1>2. PICK at : Reads(seen, delivered \o frames, at, buffer \o input)
  BY <1>1 DEF ReassemblyInv
<1>3. /\ pc' = "idle" /\ frames' = <<>> /\ input' = <<>> /\ delivered' = delivered \o frames
      /\ result' = "frames" /\ failure' = "none" /\ seen' = seen
  BY <1>1 DEF Return
<1>4. delivered' \o frames' = delivered \o frames /\ buffer' \o input' = buffer \o input
  <2>1. delivered \o frames \in Seq(Seq(Nat)) /\ buffer \o input \in Seq(Nat)
    BY <1>1
  <2> QED BY <2>1, <1>3
<1>5. Reads(seen', delivered' \o frames', at, buffer' \o input')
  BY <1>2, <1>3, <1>4
<1> QED BY <1>3, <1>5 DEF ReassemblyInv

\* Too few bytes for what is required are all the bytes there are.
LEMMA TakeAll ==
    ASSUME input \in Seq(Nat), NEW b \in Seq(Nat), NEW n \in Nat,
           Len(b \o Take(n)) < Len(b) + n
    PROVE  b \o Take(n) = b \o input
<1>1. Take(n) \in Seq(Nat) /\ Len(Take(n)) = Least(n, Len(input))
  BY TakeFacts
<1>2. Len(Take(n)) < n
  BY <1>1
<1>3. Least(n, Len(input)) = Len(input)
  BY <1>1, <1>2 DEF Least
<1>4. SubSeq(input, 1, Len(input)) = input
  OBVIOUS
<1> QED BY <1>3, <1>4 DEF Take

\* The loop that ends without input left returns.
LEMMA LoopEndsReads == ASSUME Inv, ReassemblyInv, LoopEnds PROVE ReassemblyInv'
<1>1. buffer \in Seq(Nat) /\ input = <<>> /\ pc = "push" /\ Return /\ buffer' = buffer
  BY DEF LoopEnds, Inv, TypeOK
<1>2. buffer \o input = buffer
  BY <1>1
<1> QED BY <1>1, <1>2, ReturnReads

\* The header half of an iteration waits, stops at a fault of the header that
\* is next, or keeps what it read in the buffer.
LEMMA ReadHeaderReads == ASSUME Inv, ReassemblyInv, ReadHeader PROVE ReassemblyInv'
<1> DEFINE required == HeaderSize - Len(buffer)
           filled == buffer \o Take(required)
           F == delivered \o frames
<1>1. /\ buffer \in Seq(Nat) /\ input \in Seq(Nat) /\ frames \in Seq(Seq(Nat))
      /\ delivered \in Seq(Seq(Nat)) /\ seen \in Seq(Nat) /\ failure = "none" /\ pc = "push"
      /\ Len(buffer) < HeaderSize
  BY DEF Inv, TypeOK, BufferBounded, ReadHeader
<1>2. required \in Nat /\ Len(buffer) + required = HeaderSize
  BY <1>1 DEF HeaderSize
<1> HIDE DEF required
<1>3. /\ Take(required) \in Seq(Nat) /\ Rest(required) \in Seq(Nat) /\ filled \in Seq(Nat)
      /\ filled \o Rest(required) = buffer \o input
  <2>1. Take(required) \in Seq(Nat) /\ Rest(required) \in Seq(Nat)
    BY <1>1, <1>2, TakeFacts
  <2>2. filled \o Rest(required) = buffer \o input
    BY <1>1, <1>2, TakeRest
  <2> QED BY <2>1, <2>2, <1>1
<1>4. PICK at : Reads(seen, F, at, filled \o Rest(required))
  BY <1>1, <1>3 DEF ReassemblyInv
<1>5. buffer' = filled
  BY DEF ReadHeader, required
<1>6. CASE Len(filled) < HeaderSize
  <2>1. Return
    BY <1>6 DEF ReadHeader, required
  <2>2. filled = buffer \o input
    BY <1>1, <1>2, <1>6, TakeAll
  <2> QED BY <2>1, <2>2, <1>1, <1>5, ReturnReads
<1>7. CASE ~(Len(filled) < HeaderSize) /\ header_error(filled) # "none"
  <2>1. fail(header_error(filled))
    BY <1>7 DEF ReadHeader, required
  <2> HIDE DEF filled, F
  <2>2. F \in Seq(Seq(Nat)) /\ Len(delivered) <= Len(F)
        /\ \A k \in 1 .. Len(delivered) : delivered[k] = F[k]
    BY <1>1 DEF F
  <2> DEFINE p == at[Len(F)]
             rest == From(seen, p)
  <2>3. p \in 0 .. Len(seen) /\ rest = filled \o Rest(required)
    <3>1. /\ at \in [Nat -> Nat] /\ rest = filled \o Rest(required)
          /\ \A k \in 0 .. Len(F) : k <= at[k] /\ at[k] <= Len(seen)
      BY Zenon, <1>4 DEF Reads
    <3>2. Len(F) \in Nat /\ Len(F) \in 0 .. Len(F) /\ Len(seen) \in Nat
      BY <2>2, <1>1
    <3>3. p \in Nat
      BY <3>1, <3>2
    <3>4. p <= Len(seen)
      BY Zenon, <3>1, <3>2
    <3> QED BY <3>1, <3>2, <3>3, <3>4
  <2>4. header_error(rest) = header_error(filled) /\ Len(rest) >= HeaderSize /\ rest \in Seq(Nat)
    <3>1. Len(filled) >= HeaderSize
      BY <1>3, <1>7 DEF HeaderSize
    <3>2. header_error(filled \o Rest(required)) = header_error(filled)
      BY <3>1, <1>3, HeaderFacts
    <3>3. /\ filled \o Rest(required) \in Seq(Nat)
          /\ Len(filled \o Rest(required)) >= HeaderSize
      <4>1. Len(filled \o Rest(required)) = Len(filled) + Len(Rest(required))
        BY <1>3, ConcatFacts
      <4>2. Len(filled) \in Nat /\ Len(Rest(required)) \in Nat
        BY <1>3
      <4>3. filled \o Rest(required) \in Seq(Nat)
        BY <1>3, ConcatFacts
      <4> QED BY <3>1, <4>1, <4>2, <4>3 DEF HeaderSize
    <3> QED BY <3>2, <3>3, <2>3
  <2> HIDE DEF p
  <2>5. ~FrameAt(seen, p)
    BY <2>3, <2>4, <1>1, <1>7, FrameFacts
  <2>6. Ended(header_error(filled), rest)
    <3>1. ~(Len(rest) < HeaderSize)
      BY <2>4 DEF HeaderSize
    <3>2. HeaderFault(rest) = header_error(filled)
      BY <2>4, <3>1, DocumentedIsCode DEF HeaderFault
    <3> QED BY <3>2, <1>7 DEF Ended
  <2>7. /\ delivered' = delivered /\ seen' = seen /\ frames' = <<>> /\ pc' = "idle"
        /\ failure' = header_error(filled) /\ result' = header_error(filled)
    BY <2>1 DEF fail
  <2>8. Stopped(seen', delivered', F, at, failure')
    BY <1>4, <2>2, <2>3, <2>5, <2>6, <2>7 DEF Stopped, p
  <2>9. header_error(filled) # "finished"
    BY DEF header_error
  <2>10. failure' # "none" /\ result' # "finished"
    BY <2>7, <2>9, <1>7
  <2> QED BY <2>2, <2>7, <2>8, <2>10 DEF ReassemblyInv
<1>8. CASE ~(Len(filled) < HeaderSize) /\ header_error(filled) = "none"
  <2>1. /\ input' = Rest(required) /\ UNCHANGED <<failure, pc, frames, seen, delivered, result>>
    BY <1>8 DEF ReadHeader, required
  <2>2. Reads(seen', delivered' \o frames', at, buffer' \o input')
    <3> HIDE DEF filled
    <3> QED BY <2>1, <1>4, <1>5
  <2> QED BY <2>1, <2>2, <1>1 DEF ReassemblyInv
<1> QED BY <1>6, <1>7, <1>8

\* A frame that follows those of this call follows all that were delivered.
LEMMA AppendLater ==
    ASSUME NEW d \in Seq(Seq(Nat)), NEW g \in Seq(Seq(Nat)), NEW f \in Seq(Nat)
    PROVE  Append(d \o g, f) = d \o Append(g, f)
<1> DEFINE h == d \o g
           k == Append(g, f)
           u == Append(h, f)
           v == d \o k
<1>1. /\ h \in Seq(Seq(Nat)) /\ Len(h) = Len(d) + Len(g)
      /\ \A i \in 1 .. Len(d) + Len(g) : h[i] = IF i <= Len(d) THEN d[i] ELSE g[i - Len(d)]
  OBVIOUS
<1>2. /\ k \in Seq(Seq(Nat)) /\ Len(k) = Len(g) + 1
      /\ \A i \in 1 .. Len(g) : k[i] = g[i]
      /\ k[Len(g) + 1] = f
  OBVIOUS
<1> HIDE DEF h, k
<1>3. /\ u \in Seq(Seq(Nat)) /\ Len(u) = Len(h) + 1
      /\ \A i \in 1 .. Len(h) : u[i] = h[i]
      /\ u[Len(h) + 1] = f
  BY <1>1
<1>4. /\ v \in Seq(Seq(Nat)) /\ Len(v) = Len(d) + Len(k)
      /\ \A i \in 1 .. Len(d) + Len(k) : v[i] = IF i <= Len(d) THEN d[i] ELSE k[i - Len(d)]
  <2>1. k \in Seq(Seq(Nat))
    BY <1>2
  <2> QED BY Zenon, <2>1, ConcatProperties
<1> HIDE DEF u, v
<1>5. Len(d) \in Nat /\ Len(g) \in Nat /\ Len(u) = Len(v)
  <2>1. /\ Len(h) = Len(d) + Len(g) /\ Len(k) = Len(g) + 1
        /\ Len(u) = Len(h) + 1 /\ Len(v) = Len(d) + Len(k)
    BY <1>1, <1>2, <1>3, <1>4
  <2>2. Len(d) \in Nat /\ Len(g) \in Nat
    OBVIOUS
  <2> QED BY <2>1, <2>2
<1>6. ASSUME NEW i \in 1 .. Len(u)
      PROVE  u[i] = v[i]
  <2>1. i \in Int /\ i \in 1 .. Len(d) + Len(k) /\ (i \in 1 .. Len(h) \/ i = Len(h) + 1)
    <3>1. Len(h) = Len(d) + Len(g) /\ Len(k) = Len(g) + 1 /\ Len(u) = Len(h) + 1
      BY <1>1, <1>2, <1>3
    <3> QED BY <3>1, <1>5
  <2>2. v[i] = IF i <= Len(d) THEN d[i] ELSE k[i - Len(d)]
    BY Zenon, <2>1, <1>4
  <2>3. CASE i = Len(h) + 1
    <3>1. ~(i <= Len(d)) /\ i - Len(d) = Len(g) + 1
      BY <2>3, <1>1, <1>5
    <3> QED BY <2>2, <2>3, <3>1, <1>2, <1>3
  <2>4. CASE i \in 1 .. Len(h)
    <3>1. i \in 1 .. Len(d) + Len(g) /\ (~(i <= Len(d)) => i - Len(d) \in 1 .. Len(g))
      BY <2>4, <1>1, <1>5
    <3>2. u[i] = IF i <= Len(d) THEN d[i] ELSE g[i - Len(d)]
      BY Zenon, <2>4, <3>1, <1>1, <1>3
    <3> QED BY <2>2, <3>1, <3>2, <1>2
  <2> QED BY <2>1, <2>3, <2>4
<1>7. u = v
  <2>1. u \in Seq(Seq(Nat)) /\ v \in Seq(Seq(Nat)) /\ Len(u) = Len(v)
    BY <1>3, <1>4, <1>5
  <2> QED BY Zenon, <2>1, <1>6, SeqEqual
<1> QED BY <1>7 DEF u, v, h, k

\* The frame half waits, or reads the frame; its strict parse accepts it.
LEMMA ReadFrameReads == ASSUME Inv, ReassemblyInv, ReadFrame PROVE ReassemblyInv'
<1> DEFINE required == header - Len(buffer)
           filled == buffer \o Take(required)
           F == delivered \o frames
<1>1. /\ buffer \in Seq(Nat) /\ input \in Seq(Nat) /\ frames \in Seq(Seq(Nat))
      /\ delivered \in Seq(Seq(Nat)) /\ seen \in Seq(Nat) /\ failure = "none" /\ pc = "push"
      /\ header \in HeaderSize .. MaximumFrameSize /\ Len(buffer) \in HeaderSize .. header
      /\ header_error(buffer) = "none" /\ buffer[2] = header
  BY DEF Inv, TypeOK, BufferBounded, ReadFrame
<1>2. required \in Nat /\ Len(buffer) + required = header /\ header \in Nat
  BY <1>1, StreamParserAssumption DEF HeaderSize
<1> HIDE DEF required
<1>3. /\ Take(required) \in Seq(Nat) /\ Rest(required) \in Seq(Nat) /\ filled \in Seq(Nat)
      /\ Len(Take(required)) <= required /\ filled \o Rest(required) = buffer \o input
      /\ Len(filled) = Len(buffer) + Len(Take(required))
  <2>1. /\ Take(required) \in Seq(Nat) /\ Rest(required) \in Seq(Nat)
        /\ Len(Take(required)) <= required
    BY <1>1, <1>2, TakeFacts
  <2>2. filled \o Rest(required) = buffer \o input
    BY <1>1, <1>2, TakeRest
  <2> QED BY <2>1, <2>2, <1>1
<1>4. PICK at : Reads(seen, F, at, filled \o Rest(required))
  BY <1>1, <1>3 DEF ReassemblyInv
<1>5. header_error(filled) = "none" /\ filled[2] = header
  <2>1. Len(buffer) >= HeaderSize
    BY <1>1 DEF HeaderSize
  <2> QED BY <1>1, <1>3, <2>1, HeaderFacts
<1>6. CASE Len(filled) < header
  <2>1. Return /\ buffer' = filled
    BY <1>6 DEF ReadFrame, required
  <2>2. filled = buffer \o input
    BY <1>1, <1>2, <1>6, TakeAll
  <2> QED BY <2>1, <2>2, <1>1, ReturnReads
<1>7. CASE ~(Len(filled) < header)
  <2>1. Len(filled) = header /\ Len(filled) >= HeaderSize
    <3>1. Len(filled) \in Nat /\ Len(buffer) \in Nat /\ Len(Take(required)) \in Nat
      BY <1>1, <1>3
    <3>2. Len(filled) <= header /\ Len(buffer) >= HeaderSize
      BY <3>1, <1>1, <1>2, <1>3 DEF HeaderSize
    <3> HIDE DEF filled
    <3>3. Len(filled) = header
      BY <3>1, <3>2, <1>2, <1>7
    <3> QED BY <3>3, <1>1 DEF HeaderSize
  <2>2. frame_error(filled) = "none"
    <3> HIDE DEF filled
    <3>1. ~(Len(filled) < filled[2]) /\ ~(Len(filled) > filled[2])
      BY <2>1, <1>2, <1>5
    <3> QED BY <3>1, <1>5 DEF frame_error
  <2>3. /\ frames' = Append(frames, filled) /\ input' = Rest(required) /\ buffer' = <<>>
        /\ UNCHANGED <<failure, pc, seen, delivered, result>>
    BY <2>2, <1>7 DEF ReadFrame, required
  <2>4. F \in Seq(Seq(Nat))
    BY <1>1
  <2>5. \E more : Reads(seen, Append(F, filled), more, Rest(required))
    <3> HIDE DEF filled, F
    <3> QED BY <2>1, <2>4, <1>1, <1>3, <1>4, <1>5, ReadsOneMore
  <2>6. Append(F, filled) = delivered \o Append(frames, filled)
    <3> HIDE DEF filled
    <3> QED BY <1>1, <1>3, AppendLater
  <2>7. <<>> \o Rest(required) = Rest(required)
    BY <1>3
  <2> HIDE DEF filled, F
  <2>8. \E more : Reads(seen', delivered' \o frames', more, buffer' \o input')
    BY <2>3, <2>5, <2>6, <2>7
  <2> QED BY <2>3, <2>8, <1>1 DEF ReassemblyInv
<1> QED BY <1>6, <1>7

\* finish succeeds at the end of a frame only; elsewhere it stops at what is
\* left, a header or a frame that was cut.
LEMMA FinishReads == ASSUME Inv, ReassemblyInv, Finish PROVE ReassemblyInv'
<1>1. /\ pc = "idle" /\ frames = <<>> /\ input = <<>> /\ buffer \in Seq(Nat)
      /\ delivered \in Seq(Seq(Nat)) /\ failure \in ParseErrors \cup {"none"}
      /\ UNCHANGED <<buffer, pc, input, frames, seen, delivered>>
  BY DEF Finish, Inv, TypeOK, ReassemblyInv
<1>2. CASE failure # "none"
  <2>1. failure' = failure /\ result' = failure /\ result' # "finished"
    BY <1>1, <1>2 DEF Finish, ParseErrors
  <2>2a. PICK F \in Seq(Seq(Nat)) : \E at : Stopped(seen, delivered, F, at, failure)
    BY <1>2 DEF ReassemblyInv
  <2>2. PICK at : Stopped(seen, delivered, F, at, failure)
    BY <2>2a
  <2>3. Stopped(seen', delivered', F, at, failure')
    BY <2>1, <2>2, <1>1
  <2> QED BY <2>1, <2>3, <1>1, <1>2 DEF ReassemblyInv
<1>3. CASE failure = "none"
  <2>1. delivered \o frames = delivered /\ buffer \o input = buffer
    BY <1>1
  <2>2. PICK at : Reads(seen, delivered, at, buffer)
    BY <2>1, <1>3 DEF ReassemblyInv
  <2>3. CASE buffer = <<>>
    <3>1. failure' = "none" /\ result' = "finished"
      BY <2>3, <1>3 DEF Finish
    <3>2. Reads(seen', delivered' \o frames', at, buffer' \o input')
      BY <2>1, <2>2, <1>1
    <3> QED BY <3>1, <3>2, <2>3, <1>1 DEF ReassemblyInv
  <2>4. CASE buffer # <<>>
    <3>1. failure' = Truncation(buffer) /\ result' = Truncation(buffer)
      BY <2>4, <1>3 DEF Finish, Truncation
    <3>2. failure' # "none" /\ result' # "finished"
      BY <3>1 DEF Truncation
    <3>3. /\ ~FrameAt(seen, at[Len(delivered)]) /\ buffer = From(seen, at[Len(delivered)])
          /\ HeaderFault(buffer) = "none"
      BY <2>2, <1>1, <1>3, NoWholeFrame
    <3>4. Ended(failure', From(seen, at[Len(delivered)]))
      BY <3>1, <3>3 DEF Ended
    <3>5. /\ Len(delivered) <= Len(delivered)
          /\ \A k \in 1 .. Len(delivered) : delivered[k] = delivered[k]
      BY <1>1
    <3>6. Stopped(seen', delivered', delivered, at, failure')
      BY <2>2, <3>3, <3>4, <3>5, <1>1 DEF Stopped
    <3> QED BY <3>2, <3>6, <1>1 DEF ReassemblyInv
  <2> QED BY <2>3, <2>4
<1> QED BY <1>2, <1>3

\* A parser that was reset has read nothing.
LEMMA ResetReads == ASSUME Inv, ReassemblyInv, Reset PROVE ReassemblyInv'
<1>1. /\ pc' = "idle" /\ frames' = <<>> /\ input' = <<>> /\ buffer' = <<>> /\ delivered' = <<>>
      /\ seen' = <<>> /\ failure' = "none" /\ result' = "none"
  BY DEF Reset, Inv, TypeOK, ReassemblyInv
<1>2. delivered' \o frames' = <<>> /\ buffer' \o input' = <<>>
  BY <1>1
<1> QED BY <1>1, <1>2, FreshReads DEF ReassemblyInv

\* What the parser has read is what it delivered and holds, in every state.
LEMMA SpecReassembly == Spec => []ReassemblyInv
<1>1. Inv /\ ReassemblyInv /\ [Next]_vars => ReassemblyInv'
  <2> SUFFICES ASSUME Inv, ReassemblyInv, [Next]_vars PROVE ReassemblyInv'
    OBVIOUS
  <2>1. CASE \E n \in 0 .. Len(stream) : Push(n)
    BY <2>1, PushReads
  <2>2. CASE LoopEnds
    BY <2>2, LoopEndsReads
  <2>3. CASE ReadHeader
    BY <2>3, ReadHeaderReads
  <2>4. CASE ReadFrame
    BY <2>4, ReadFrameReads
  <2>5. CASE Finish
    BY <2>5, FinishReads
  <2>6. CASE Reset
    BY <2>6, ResetReads
  <2>7. CASE UNCHANGED vars
    BY <2>7 DEF ReassemblyInv, vars
  <2> QED BY <2>1, <2>2, <2>3, <2>4, <2>5, <2>6, <2>7 DEF Next
<1> QED BY InitReassembly, SpecInv, <1>1, PTL DEF Spec

\* The positions the reference parser finds: each frame is followed by what
\* comes after it.
LEMMA CutFacts ==
    ASSUME NEW s \in Seq(Nat)
    PROVE  /\ CutPoints(s)[0] = 0
           /\ \A k \in Nat : FrameAt(s, CutPoints(s)[k]) =>
                 CutPoints(s)[k + 1] = CutPoints(s)[k] + s[CutPoints(s)[k] + 2]
<1> DEFINE next(x) == IF FrameAt(s, x) THEN x + s[x + 2] ELSE x
           step == [n \in Nat |-> [x \in Nat |-> next(x)]]
           Cuts(g) == g = [k \in Nat |-> IF k = 0 THEN 0
                                         ELSE IF FrameAt(s, g[k - 1])
                                         THEN g[k - 1] + s[g[k - 1] + 2]
                                         ELSE g[k - 1]]
<1>1. ASSUME NEW x \in Nat
      PROVE  next(x) \in Nat
  <2>1. CASE FrameAt(s, x)
    <3>1. x + 2 \in 1 .. Len(s)
      BY <2>1 DEF FrameAt, HeaderSize
    <3>2. s[x + 2] \in Nat
      BY <3>1
    <3> QED BY <2>1, <3>2
  <2>2. CASE ~FrameAt(s, x)
    BY <2>2
  <2> QED BY <2>1, <2>2
<1>2. PICK f \in [Nat -> Nat] : Iterates(f, 0, step)
  <2> HIDE DEF next
  <2>1. step \in [Nat -> [Nat -> Nat]] /\ 0 \in Nat
    BY <1>1
  <2> HIDE DEF step
  <2> QED BY Zenon, <2>1, Iteration
<1>3. Cuts(f)
  <2> DEFINE body(k) == IF k = 0 THEN 0
                        ELSE IF FrameAt(s, f[k - 1]) THEN f[k - 1] + s[f[k - 1] + 2]
                        ELSE f[k - 1]
  <2>1. ASSUME NEW k \in Nat
        PROVE  f[k] = body(k)
    <3>1. CASE k = 0
      BY <3>1, <1>2 DEF Iterates
    <3>2. CASE k # 0
      <4>1. k - 1 \in Nat /\ (k - 1) + 1 = k
        BY <3>2
      <4>2. f[(k - 1) + 1] = step[k - 1][f[k - 1]]
        BY <4>1, <1>2 DEF Iterates
      <4>3. step[k - 1][f[k - 1]] = next(f[k - 1])
        <5> HIDE DEF next
        <5> QED BY <4>1, <1>2
      <4>4. f[k] = next(f[k - 1])
        BY <4>1, <4>2, <4>3
      <4> QED BY <4>4, <3>2
    <3> QED BY <3>1, <3>2
  <2> HIDE DEF body
  <2>2. f = [k \in Nat |-> body(k)]
    BY <2>1, <1>2
  <2> QED BY <2>2 DEF body
<1>4. Cuts(CutPoints(s))
  <2>1. CutPoints(s) = CHOOSE g : Cuts(g)
    BY DEF CutPoints
  <2> HIDE DEF Cuts
  <2> QED BY Zenon, <2>1, <1>3
<1> DEFINE c == CutPoints(s)
<1>5. Cuts(c)
  BY <1>4
<1> HIDE DEF c
<1>6. c[0] = 0
  BY <1>5
<1>7. ASSUME NEW k \in Nat, FrameAt(s, c[k])
      PROVE  c[k + 1] = c[k] + s[c[k] + 2]
  <2>1. k + 1 \in Nat /\ k + 1 # 0 /\ (k + 1) - 1 = k
    OBVIOUS
  <2> QED BY <1>5, <1>7, <2>1
<1> QED BY <1>6, <1>7 DEF c

\* Where the parser's frames end is where the reference parser cuts.
LEMMA ReadsAreCuts ==
    ASSUME NEW s \in Seq(Nat), NEW F \in Seq(Seq(Nat)), NEW at, NEW rest,
           Reads(s, F, at, rest)
    PROVE  \A k \in 0 .. Len(F) : CutPoints(s)[k] = at[k]
<1> DEFINE P == {k \in Nat : k <= Len(F) => CutPoints(s)[k] = at[k]}
<1>1. Len(F) \in Nat
  OBVIOUS
<1>2. 0 \in P
  BY CutFacts DEF Reads
<1>3. ASSUME NEW k \in Nat, k \in P
      PROVE  k + 1 \in P
  <2> SUFFICES ASSUME k + 1 <= Len(F) PROVE CutPoints(s)[k + 1] = at[k + 1]
    OBVIOUS
  <2>1. k + 1 \in 1 .. Len(F) /\ (k + 1) - 1 = k /\ k <= Len(F)
    BY <1>1
  <2>2. CutPoints(s)[k] = at[k]
    BY <1>3, <2>1
  <2>3. FrameAt(s, at[(k + 1) - 1]) /\ at[k + 1] = at[(k + 1) - 1] + s[at[(k + 1) - 1] + 2]
    BY Zenon, <2>1 DEF Reads
  <2> QED BY <2>1, <2>2, <2>3, CutFacts
<1> HIDE DEF P
<1>4. Nat \subseteq P
  BY <1>2, <1>3, NatSets
<1>5. \A k \in 0 .. Len(F) : k \in Nat /\ k <= Len(F)
  BY <1>1
<1> QED BY <1>4, <1>5 DEF P

\* Between two calls the parser has delivered the frames a parser that sees all
\* the bytes at once would find, in the documented rejection order, and stopped
\* or waits where that one would, however the stream was cut (stream_parser.cpp).
THEOREM ParserReassemblyExact == Spec => []ReassemblyExact
<1>1. Inv /\ ReassemblyInv => ReassemblyExact
  <2> SUFFICES ASSUME Inv, ReassemblyInv, pc = "idle"
               PROVE  \E n \in 0 .. Len(seen) :
                        LET rest == From(seen, CutPoints(seen)[n])
                        IN  /\ \A k \in 0 .. n - 1 : FrameAt(seen, CutPoints(seen)[k])
                            /\ ~FrameAt(seen, CutPoints(seen)[n])
                            /\ Len(delivered) <= n
                            /\ \A k \in 1 .. Len(delivered) :
                                  delivered[k] = SubSeq(seen, CutPoints(seen)[k - 1] + 1,
                                                        CutPoints(seen)[k])
                            /\ result = "finished" => rest = <<>>
                            /\ IF failure = "none"
                               THEN /\ Len(delivered) = n /\ buffer = rest
                                    /\ HeaderFault(rest) = "none"
                               ELSE failure = IF HeaderFault(rest) # "none"
                                              THEN HeaderFault(rest)
                                              ELSE Truncation(rest)
    BY DEF ReassemblyExact
  <2> DEFINE at == CutPoints(seen)
  <2>1. /\ seen \in Seq(Nat) /\ delivered \in Seq(Seq(Nat)) /\ frames = <<>> /\ input = <<>>
        /\ buffer \in Seq(Nat) /\ Len(delivered) \in Nat /\ Len(seen) \in Nat
    BY DEF Inv, TypeOK, ReassemblyInv
  <2>2. ASSUME NEW F \in Seq(Seq(Nat)), NEW cuts, NEW rest, Reads(seen, F, cuts, rest)
        PROVE  /\ Len(F) \in 0 .. Len(seen) /\ at[Len(F)] = cuts[Len(F)]
               /\ rest = From(seen, at[Len(F)])
               /\ \A k \in 0 .. Len(F) - 1 : FrameAt(seen, at[k])
               /\ \A k \in 1 .. Len(F) : F[k] = SubSeq(seen, at[k - 1] + 1, at[k])
    <3>1. \A k \in 0 .. Len(F) : at[k] = cuts[k]
      BY <2>1, <2>2, ReadsAreCuts
    <3>2. Len(F) \in Nat /\ Len(F) \in 0 .. Len(F)
      OBVIOUS
    <3> HIDE DEF at
    <3>3. /\ cuts \in [Nat -> Nat] /\ rest = From(seen, cuts[Len(F)])
          /\ Len(F) <= cuts[Len(F)] /\ cuts[Len(F)] <= Len(seen)
      BY Zenon, <2>2, <3>2 DEF Reads
    <3>4. cuts[Len(F)] \in Nat
      BY <3>2, <3>3
    <3>5. ASSUME NEW k \in 0 .. Len(F) - 1
          PROVE  FrameAt(seen, at[k])
      <4>1. k + 1 \in 1 .. Len(F) /\ (k + 1) - 1 = k /\ k \in 0 .. Len(F)
        BY <3>2
      <4>2. FrameAt(seen, cuts[(k + 1) - 1])
        BY Zenon, <4>1, <2>2 DEF Reads
      <4> QED BY <4>1, <4>2, <3>1
    <3>6. ASSUME NEW k \in 1 .. Len(F)
          PROVE  F[k] = SubSeq(seen, at[k - 1] + 1, at[k])
      <4>1. k \in 0 .. Len(F) /\ k - 1 \in 0 .. Len(F)
        BY <3>2
      <4>2. F[k] = SubSeq(seen, cuts[k - 1] + 1, cuts[k])
        BY Zenon, <2>2 DEF Reads
      <4> QED BY <4>1, <4>2, <3>1
    <3>7. Len(F) \in 0 .. Len(seen)
      BY <2>1, <3>2, <3>3, <3>4
    <3> QED BY <3>1, <3>2, <3>3, <3>5, <3>6, <3>7
  <2> HIDE DEF at
  <2>3. CASE failure = "none"
    <3>1. delivered \o frames = delivered /\ buffer \o input = buffer
      BY <2>1
    <3>2. PICK cuts : Reads(seen, delivered, cuts, buffer)
      BY <2>3, <3>1 DEF ReassemblyInv
    <3>3. ~FrameAt(seen, cuts[Len(delivered)]) /\ HeaderFault(buffer) = "none"
      BY <2>1, <2>3, <3>2, NoWholeFrame
    <3> DEFINE n == Len(delivered)
    <3>4. /\ n \in 0 .. Len(seen) /\ at[n] = cuts[n] /\ buffer = From(seen, at[n])
          /\ \A k \in 0 .. n - 1 : FrameAt(seen, at[k])
          /\ \A k \in 1 .. n : delivered[k] = SubSeq(seen, at[k - 1] + 1, at[k])
      BY <2>1, <2>2, <3>2
    <3>5. n <= n /\ (result = "finished" => buffer = <<>>)
      BY <2>1 DEF ReassemblyInv
    <3> n \in 0 .. Len(seen)
      BY <3>4
    <3> WITNESS n \in 0 .. Len(seen)
    <3> QED BY <2>3, <3>3, <3>4, <3>5 DEF at
  <2>4. CASE failure # "none"
    <3>1a. PICK F \in Seq(Seq(Nat)) : \E cuts : Stopped(seen, delivered, F, cuts, failure)
      BY <2>4 DEF ReassemblyInv
    <3>1. PICK cuts : Stopped(seen, delivered, F, cuts, failure)
      BY <3>1a
    <3>2. /\ Reads(seen, F, cuts, From(seen, cuts[Len(F)]))
          /\ ~FrameAt(seen, cuts[Len(F)]) /\ Len(delivered) <= Len(F)
          /\ \A k \in 1 .. Len(delivered) : delivered[k] = F[k]
          /\ Ended(failure, From(seen, cuts[Len(F)]))
      BY <3>1 DEF Stopped
    <3> DEFINE n == Len(F)
    <3>3. /\ n \in 0 .. Len(seen) /\ at[n] = cuts[n]
          /\ \A k \in 0 .. n - 1 : FrameAt(seen, at[k])
          /\ \A k \in 1 .. n : F[k] = SubSeq(seen, at[k - 1] + 1, at[k])
      BY <2>2, <3>2
    <3>4. ASSUME NEW k \in 1 .. Len(delivered)
          PROVE  delivered[k] = SubSeq(seen, at[k - 1] + 1, at[k])
      <4>1. k \in 1 .. n
        BY <2>1, <3>2, <3>3
      <4> QED BY Zenon, <4>1, <3>2, <3>3
    <3>5. result # "finished"
      BY <2>4 DEF ReassemblyInv
    <3> n \in 0 .. Len(seen)
      BY <3>3
    <3> WITNESS n \in 0 .. Len(seen)
    <3> QED BY <2>4, <3>2, <3>3, <3>4, <3>5 DEF at, Ended
  <2> QED BY <2>3, <2>4
<1> QED BY SpecInv, SpecReassembly, <1>1, PTL

=============================================================================
