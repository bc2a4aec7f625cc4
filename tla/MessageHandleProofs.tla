------------------------- MODULE MessageHandleProofs ------------------------
(***************************************************************************)
(* A connection with one sending thread implements FifoChannel, for every  *)
(* set of messages, every way TCP cuts the stream and both receivers; and  *)
(* EventMessageHandle uses a connection only the way LibeventHandle offers *)
(* it, so what is shown of a connection holds under it, for every set of   *)
(* messages and of configured types.                                       *)
(*                                                                         *)
(* The invariant of a connection says where everything is in the stream:   *)
(* frame i starts at starts[i], with the bytes of its length and then,     *)
(* once they are written, its own; frames follow each other without a gap; *)
(* and the receiver stands at the start of the next frame or behind its    *)
(* header.                                                                 *)
(***************************************************************************)
EXTENDS MessageHandle, SequenceTheorems, WellFoundedInduction, TLAPS

-----------------------------------------------------------------------------
(* A connection. *)

OneSender == \E s : Senders = {s}

NoneWriting == \A s \in Senders : writing[s] = <<>>

FrameEnd(i) == starts[i] + HeaderSize + Len(sent[i])

\* The end of the first i frames.
EndOf(i) == IF i = 0 THEN 0 ELSE FrameEnd(i)

HeadersWritten ==
    \A i \in 1 .. Len(sent) :
        /\ starts[i] + HeaderSize <= Len(stream)
        /\ stream[starts[i] + 1] = SizeBytes(Len(sent[i]))[1]
        /\ stream[starts[i] + 2] = SizeBytes(Len(sent[i]))[2]
        /\ stream[starts[i] + 3] = SizeBytes(Len(sent[i]))[3]
        /\ stream[starts[i] + 4] = SizeBytes(Len(sent[i]))[4]

PayloadsWritten ==
    \A i \in 1 .. Len(sent) :
        (i < Len(sent) \/ NoneWriting) =>
            /\ FrameEnd(i) <= Len(stream)
            /\ \A k \in 1 .. Len(sent[i]) :
                    stream[starts[i] + HeaderSize + k] = sent[i][k]

FramesAdjacent ==
    \A i \in 1 .. Len(sent) : starts[i] = EndOf(i - 1)

StreamEnd ==
    /\ NoneWriting => Len(stream) = EndOf(Len(sent))
    /\ \A s \in Senders : writing[s] # <<>> =>
            /\ Len(sent) > 0
            /\ writing[s] = sent[Len(sent)]
            /\ Len(stream) = starts[Len(sent)] + HeaderSize

StreamInv ==
    /\ Len(starts) = Len(sent)
    /\ HeadersWritten /\ PayloadsWritten /\ FramesAdjacent /\ StreamEnd

\* The receiver is behind the header of the next frame.
Cached == IF polling THEN reader = "payload" ELSE cache_block

ReceivedInOrder ==
    /\ Len(received) <= Len(sent)
    /\ \A i \in 1 .. Len(received) : received[i] = sent[i]

Position ==
    IF Cached
    THEN /\ Len(received) < Len(sent)
         /\ consumed = starts[Len(received) + 1] + HeaderSize
         /\ block_size = Len(sent[Len(received) + 1])
    ELSE consumed = EndOf(Len(received))

Roles ==
    /\ polling => callback = "none" /\ ~stale_block
    /\ reader = "loop" => ~polling
    /\ reader \in {"header", "payload"} => polling
    /\ reader = "payload" => cache_block

\* What holds of every connection, and of one whose writes do not fail.
Typed == FramingTypeOK /\ Roles

IInv ==
    /\ FramingTypeOK /\ StreamInv /\ Roles
    /\ ~stale_block => ReceivedInOrder /\ Position

ConnectionInv == Typed /\ (~failing => IInv)

-----------------------------------------------------------------------------
\* The four bytes of a header that is inside a stream are.
LEMMA HeaderPlaces ==
    ASSUME NEW a \in Nat, NEW len \in Nat, a + HeaderSize <= len
    PROVE  /\ a + 1 \in 1 .. len /\ a + 2 \in 1 .. len
           /\ a + 3 \in 1 .. len /\ a + 4 \in 1 .. len
  BY DEF HeaderSize

\* So are the bytes of a payload.
LEMMA PayloadPlaces ==
    ASSUME NEW a \in Nat, NEW size \in Nat \ {0}, NEW len \in Nat,
           a + HeaderSize + size <= len
    PROVE  /\ a + HeaderSize + 1 \in Int /\ a + HeaderSize + size \in Int
           /\ (a + HeaderSize + size) - (a + HeaderSize + 1) + 1 = size
           /\ a + HeaderSize + 1 <= a + HeaderSize + size
           /\ \A j \in a + HeaderSize + 1 .. a + HeaderSize + size : j \in 1 .. len
           /\ \A k \in 1 .. size : a + HeaderSize + k \in 1 .. len
  BY DEF HeaderSize

\* Quotient and remainder of a byte.
Divided(n, q, r) == q = n \div 256 /\ r = n % 256
Split(n, q, r) == q \in Nat /\ r \in Byte /\ n = 256 * q + r

LEMMA DivMod ==
    ASSUME NEW n \in Nat, NEW q, NEW r, Divided(n, q, r)
    PROVE  Split(n, q, r)
  <1>1. q \in Nat /\ r \in 0 .. 255
    BY SMT DEF Divided
  <1> QED BY <1>1, SMT DEF Divided, Split, Byte

\* The four bytes of a header give the length back that was put into them.
LEMMA SizeRoundTrip ==
    ASSUME NEW n, IntLength(n)
    PROVE  /\ SizeBytes(n) \in Seq(Byte) /\ Len(SizeBytes(n)) = HeaderSize
           /\ SizeBytes(n)[4] < 128
           /\ SizeBytes(n)[1] + 256 * (SizeBytes(n)[2] + 256 * (SizeBytes(n)[3]
                + 256 * SizeBytes(n)[4])) = n
  <1> DEFINE n2 == n \div 256
             n3 == n2 \div 256
             n4 == n3 \div 256
             r1 == n % 256
             r2 == n2 % 256
             r3 == n3 % 256
  <1>1. Divided(n, n2, r1) /\ Divided(n2, n3, r2) /\ Divided(n3, n4, r3)
    BY Zenon DEF Divided
  <1>2. n \in Nat /\ n4 < 128
    BY Zenon DEF IntLength
  <1>3. SizeBytes(n) = <<r1, r2, r3, n4 % 256>>
    BY Zenon DEF SizeBytes
  <1> HIDE DEF n2, n3, n4, r1, r2, r3
  <1>4. Split(n, n2, r1)
    BY <1>1, <1>2, DivMod, Zenon
  <1>5. Split(n2, n3, r2)
    BY <1>1, <1>4, DivMod DEF Split
  <1>6. Split(n3, n4, r3)
    BY <1>1, <1>5, DivMod DEF Split
  <1>7. n4 % 256 = n4 /\ n4 \in Byte
    BY <1>2, <1>6, SMT DEF Split, Byte
  <1>8. r1 + 256 * (r2 + 256 * (r3 + 256 * n4)) = n
    BY <1>4, <1>5, <1>6, SMT DEF Split, Byte
  <1>9. SizeBytes(n) \in Seq(Byte) /\ Len(SizeBytes(n)) = HeaderSize
    BY <1>3, <1>4, <1>5, <1>6, <1>7 DEF HeaderSize, Split
  <1> QED BY <1>2, <1>3, <1>7, <1>8, <1>9

\* What the types say of the positions in the stream.
LEMMA Positions ==
    ASSUME FramingTypeOK
    PROVE  /\ stream \in Seq(Byte) /\ Len(stream) \in Nat
           /\ consumed \in Nat /\ arrived \in Nat
           /\ consumed <= arrived /\ arrived <= Len(stream)
           /\ sent \in Seq(Messages) /\ Len(sent) \in Nat
           /\ received \in Seq(Seq(Byte)) /\ Len(received) \in Nat
           /\ starts \in Seq(Nat) /\ Available \in Nat
  <1>1. /\ stream \in Seq(Byte) /\ sent \in Seq(Messages)
        /\ received \in Seq(Seq(Byte)) /\ starts \in Seq(Nat)
        /\ consumed \in Nat /\ arrived \in consumed .. Len(stream)
    BY Zenon DEF FramingTypeOK
  <1>2. Len(stream) \in Nat /\ Len(sent) \in Nat /\ Len(received) \in Nat
    BY <1>1
  <1> QED BY <1>1, <1>2 DEF Available

\* What the types say of frame i.
LEMMA FrameFacts ==
    ASSUME FramingTypeOK, Len(starts) = Len(sent), NEW i \in 1 .. Len(sent)
    PROVE  /\ starts[i] \in Nat /\ sent[i] \in Messages
           /\ sent[i] \in Seq(Byte) /\ sent[i] # <<>>
           /\ Len(sent[i]) \in Nat \ {0} /\ IntLength(Len(sent[i]))
  <1>1. sent \in Seq(Messages) /\ starts \in Seq(Nat)
    BY Zenon DEF FramingTypeOK
  <1>2. starts[i] \in Nat /\ sent[i] \in Messages
    BY <1>1
  <1>3. sent[i] \in Seq(Byte) /\ sent[i] # <<>> /\ IntLength(Len(sent[i]))
    BY <1>2, MessagesAssumption, Zenon
  <1>4. Len(sent[i]) \in Nat \ {0}
    BY <1>3, EmptySeq, Zenon
  <1> QED BY <1>2, <1>3, <1>4, Zenon

\* With a header in the input buffer the receiver stands at a frame: it finds
\* the length of the next message there, or has it cached.
LEMMA NextFrame ==
    ASSUME IInv, ~stale_block, ~Cached, Available >= HeaderSize
    PROVE  /\ Len(received) < Len(sent)
           /\ consumed = starts[Len(received) + 1]
           /\ SizeAt(consumed) = Len(sent[Len(received) + 1])
  <1> DEFINE r == Len(received)
  <1>1. /\ r \in Nat /\ Len(sent) \in Nat /\ r <= Len(sent)
        /\ Len(stream) \in Nat /\ consumed = EndOf(r)
        /\ consumed + HeaderSize <= Len(stream)
    <2>1. FramingTypeOK /\ ReceivedInOrder /\ Position
      BY Zenon DEF IInv
    <2>2. consumed = EndOf(r)
      BY <2>1, Zenon DEF Position
    <2>4. /\ Len(stream) \in Nat /\ Len(sent) \in Nat /\ Len(received) \in Nat
          /\ consumed \in Nat /\ arrived \in Nat /\ arrived <= Len(stream)
      BY <2>1, Positions, Zenon
    <2>5. consumed + HeaderSize <= Len(stream)
      BY <2>4 DEF Available, HeaderSize
    <2> QED BY <2>1, <2>2, <2>4, <2>5, Zenon DEF ReceivedInOrder
  <1>2. ASSUME NEW i \in 1 .. Len(sent)
        PROVE  starts[i] \in Nat /\ Len(sent[i]) \in Nat \ {0} /\ IntLength(Len(sent[i]))
    BY FrameFacts, Zenon DEF IInv, StreamInv
  <1>3. r < Len(sent)
    <2> SUFFICES ASSUME r = Len(sent) PROVE FALSE
      BY <1>1
    <2>1. CASE NoneWriting
      BY <1>1, <2>1 DEF IInv, StreamInv, StreamEnd, HeaderSize
    <2>2. CASE ~NoneWriting
      <3>1. Len(sent) > 0 /\ Len(stream) = starts[Len(sent)] + HeaderSize
        BY <2>2, Zenon DEF IInv, StreamInv, StreamEnd, NoneWriting
      <3> QED BY <1>1, <1>2, <3>1 DEF EndOf, FrameEnd, HeaderSize
    <2> QED BY <2>1, <2>2, Zenon
  <1>4. consumed = starts[r + 1]
    BY <1>1, <1>3 DEF IInv, StreamInv, FramesAdjacent
  <1>5. SizeAt(consumed) = Len(sent[r + 1])
    <2>1. /\ stream[consumed + 1] = SizeBytes(Len(sent[r + 1]))[1]
          /\ stream[consumed + 2] = SizeBytes(Len(sent[r + 1]))[2]
          /\ stream[consumed + 3] = SizeBytes(Len(sent[r + 1]))[3]
          /\ stream[consumed + 4] = SizeBytes(Len(sent[r + 1]))[4]
      BY <1>1, <1>3, <1>4 DEF IInv, StreamInv, HeadersWritten
    <2>2. IntLength(Len(sent[r + 1]))
      BY <1>1, <1>2, <1>3
    <2> QED BY <2>1, <2>2, SizeRoundTrip DEF SizeAt
  <1> QED BY <1>3, <1>4, <1>5, Zenon

\* The receiver is about to read from the stream: in its loop with more than a
\* header, or polling for a message.
AtFrame ==
    \/ reader = "loop" /\ Available > HeaderSize
    \/ reader = "payload"

LEMMA CurrentFrame ==
    ASSUME IInv, ~stale_block, AtFrame
    PROVE  /\ Len(received) < Len(sent)
           /\ PayloadStart = starts[Len(received) + 1] + HeaderSize
           /\ PayloadSize = Len(sent[Len(received) + 1])
  <1>1. Roles /\ Position /\ FramingTypeOK
    BY Zenon DEF IInv
  <1>2. cache_block = Cached
    BY <1>1, Zenon DEF AtFrame, Roles, Cached, FramingTypeOK
  <1>3. CASE cache_block
    BY <1>1, <1>2, <1>3, Zenon DEF Position, PayloadStart, PayloadSize
  <1>4. CASE ~cache_block
    <2>1. reader = "loop" /\ Available > HeaderSize
      BY <1>1, <1>4, Zenon DEF AtFrame, Roles
    <2>2. Available >= HeaderSize
      BY <1>1, <2>1, Positions DEF HeaderSize
    <2> QED BY <1>2, <1>4, <2>2, NextFrame, Zenon DEF PayloadStart, PayloadSize
  <1> QED BY <1>3, <1>4, Zenon

\* A message whose bytes are all there is the next one that was sent.
LEMMA WholePayload ==
    ASSUME IInv, ~stale_block, AtFrame, PayloadThere
    PROVE  /\ Payload = sent[Len(received) + 1]
           /\ PayloadStart + PayloadSize = FrameEnd(Len(received) + 1)
  <1> DEFINE i == Len(received) + 1
  <1>1. /\ Len(received) < Len(sent)
        /\ PayloadStart = starts[i] + HeaderSize /\ PayloadSize = Len(sent[i])
    BY CurrentFrame, Zenon
  <1>2. FramingTypeOK /\ StreamInv /\ Len(received) \in Nat /\ Len(sent) \in Nat
    BY Positions, Zenon DEF IInv
  <1>3. i \in 1 .. Len(sent)
    BY <1>1, <1>2
  <1>4. /\ starts[i] \in Nat /\ sent[i] \in Seq(Byte) /\ Len(sent[i]) \in Nat \ {0}
    BY <1>2, <1>3, FrameFacts, Zenon DEF StreamInv
  <1>5. arrived \in Nat /\ Len(stream) \in Nat /\ arrived <= Len(stream)
    BY <1>2, Positions, Zenon
  <1>6. starts[i] + HeaderSize + Len(sent[i]) <= Len(stream)
    BY <1>1, <1>4, <1>5, SMTT(30) DEF PayloadThere, HeaderSize
  <1>7. i < Len(sent) \/ NoneWriting
    <2> SUFFICES ASSUME i = Len(sent), ~NoneWriting PROVE FALSE
      BY <1>2, <1>3
    <2>1. Len(stream) = starts[i] + HeaderSize
      BY <1>2, Zenon DEF StreamInv, StreamEnd, NoneWriting
    <2> QED BY <1>4, <1>5, <1>6, <2>1 DEF HeaderSize
  <1>8. \A k \in 1 .. Len(sent[i]) : stream[starts[i] + HeaderSize + k] = sent[i][k]
    BY <1>2, <1>3, <1>7, Zenon DEF StreamInv, PayloadsWritten
  <1> DEFINE m == starts[i] + HeaderSize + 1
             n == starts[i] + HeaderSize + Len(sent[i])
  <1>9. m \in Int /\ n \in Int /\ n - m + 1 = Len(sent[i]) /\ m <= n
    BY <1>4, <1>5, <1>6, PayloadPlaces, Zenon
  <1>10. \A j \in m .. n : stream[j] \in Byte
    <2> SUFFICES ASSUME NEW j \in m .. n PROVE stream[j] \in Byte
      OBVIOUS
    <2>1. j \in 1 .. Len(stream)
      BY <1>4, <1>5, <1>6, PayloadPlaces, Zenon
    <2>2. stream \in Seq(Byte)
      BY <1>2, Positions, Zenon
    <2> QED BY <2>1, <2>2
  <1>11. Payload = SubSeq(stream, m, n)
    BY <1>1, <1>4, Zenon DEF Payload, HeaderSize
  <1>12. \A k \in 1 .. Len(sent[i]) : stream[m + k - 1] = sent[i][k]
    <2> SUFFICES ASSUME NEW k \in 1 .. Len(sent[i]) PROVE stream[m + k - 1] = sent[i][k]
      OBVIOUS
    <2>1. m + k - 1 = starts[i] + HeaderSize + k
      BY <1>4 DEF HeaderSize
    <2> QED BY <1>8, <2>1, Zenon
  <1> HIDE DEF m, n, i
  <1>13. /\ SubSeq(stream, m, n) \in Seq(Byte)
         /\ Len(SubSeq(stream, m, n)) = Len(sent[i])
         /\ \A k \in 1 .. n - m + 1 : SubSeq(stream, m, n)[k] = stream[m + k - 1]
    BY <1>9, <1>10, SubSeqProperties
  <1>14. SubSeq(stream, m, n) = sent[i]
    BY <1>4, <1>9, <1>12, <1>13, SeqEqual
  <1>15. PayloadStart + PayloadSize = FrameEnd(i)
    BY <1>1, Zenon DEF FrameEnd
  <1> QED BY <1>11, <1>14, <1>15, Zenon DEF i

-----------------------------------------------------------------------------
LEMMA InitInv == FramingInit => IInv /\ ConnectionInv
  <1> SUFFICES ASSUME FramingInit PROVE IInv /\ ConnectionInv
    OBVIOUS
  <1>1. FramingTypeOK
    BY StartAssumption DEF FramingInit, FramingTypeOK, Endings
  <1>2. StreamInv
    BY DEF FramingInit, StreamInv, HeadersWritten, PayloadsWritten, FramesAdjacent,
           StreamEnd, EndOf
  <1>3. Roles
    BY Zenon DEF FramingInit, Roles
  <1>4. ~stale_block => ReceivedInOrder /\ Position
    <2>1. ReceivedInOrder
      BY DEF FramingInit, ReceivedInOrder
    <2>2. ~stale_block => ~Cached
      BY <1>1, Zenon DEF FramingInit, Cached, FramingTypeOK
    <2>3. consumed = EndOf(Len(received))
      BY Zenon DEF FramingInit, EndOf
    <2> QED BY <2>1, <2>2, <2>3, Zenon DEF Position
  <1> QED BY <1>1, <1>2, <1>3, <1>4, Zenon DEF IInv, ConnectionInv, Typed

-----------------------------------------------------------------------------
LEMMA StreamUnchanged ==
    ASSUME StreamInv, UNCHANGED writer_vars
    PROVE  StreamInv'
  BY Zenon DEF StreamInv, writer_vars, HeadersWritten, PayloadsWritten, FramesAdjacent,
         StreamEnd, NoneWriting, FrameEnd, EndOf

LEMMA PositionUnchanged ==
    ASSUME ReceivedInOrder, Position, UNCHANGED <<sent, starts, received, consumed>>,
           Cached' <=> Cached, Cached => UNCHANGED block_size
    PROVE  ReceivedInOrder' /\ Position'
  BY Zenon DEF ReceivedInOrder, Position, EndOf, FrameEnd

\* What WriteHeader and WritePayload append leaves the old bytes where they are.
LEMMA Appended ==
    ASSUME NEW t \in Seq(Byte), stream \in Seq(Byte), stream' = stream \o t
    PROVE  /\ stream' \in Seq(Byte) /\ Len(stream') = Len(stream) + Len(t)
           /\ \A j \in 1 .. Len(stream) : stream'[j] = stream[j]
           /\ \A k \in 1 .. Len(t) : stream'[Len(stream) + k] = t[k]
  <1>1. Len(stream) \in Nat /\ Len(t) \in Nat
    OBVIOUS
  <1>2. /\ stream' \in Seq(Byte) /\ Len(stream') = Len(stream) + Len(t)
        /\ \A i \in 1 .. Len(stream) + Len(t) : stream'[i] =
                IF i <= Len(stream) THEN stream[i] ELSE t[i - Len(stream)]
    BY ConcatProperties, Zenon
  <1>3. ASSUME NEW k \in 1 .. Len(t) PROVE stream'[Len(stream) + k] = t[k]
    <2>1. /\ Len(stream) + k \in 1 .. Len(stream) + Len(t)
          /\ ~(Len(stream) + k <= Len(stream)) /\ (Len(stream) + k) - Len(stream) = k
      BY <1>1
    <2> QED BY <1>2, <2>1, Zenon
  <1>4. ASSUME NEW j \in 1 .. Len(stream) PROVE stream'[j] = stream[j]
    BY <1>1, <1>2
  <1> QED BY <1>2, <1>3, <1>4, Zenon

\* A header in the input buffer is a number.
LEMMA HeaderIsInt ==
    ASSUME FramingTypeOK, Available >= HeaderSize
    PROVE  SizeAt(consumed) \in Int
  <1>1. /\ stream \in Seq(Byte) /\ Len(stream) \in Nat /\ consumed \in Nat
        /\ arrived \in Nat /\ arrived <= Len(stream)
    BY Positions, Zenon
  <1>2. /\ consumed + 1 \in 1 .. Len(stream) /\ consumed + 2 \in 1 .. Len(stream)
        /\ consumed + 3 \in 1 .. Len(stream) /\ consumed + 4 \in 1 .. Len(stream)
    BY <1>1 DEF Available, HeaderSize
  <1>3. \A j \in 1 .. Len(stream) : stream[j] \in Int
    <2>1. \A j \in 1 .. Len(stream) : stream[j] \in Byte
      BY <1>1
    <2>2. \A x \in Byte : x \in Int
      BY DEF Byte
    <2> QED BY <2>1, <2>2, Zenon
  <1>4. /\ stream[consumed + 1] \in Int /\ stream[consumed + 2] \in Int
        /\ stream[consumed + 3] \in Int /\ stream[consumed + 4] \in Int
    BY <1>2, <1>3, Zenon
  <1> QED BY <1>4 DEF SizeAt

LEMMA SizeIsInt ==
    ASSUME FramingTypeOK, cache_block \/ Available >= HeaderSize
    PROVE  /\ PayloadSize \in Int /\ PayloadStart \in Nat
           /\ consumed <= PayloadStart /\ PayloadStart <= arrived
  <1>1. consumed \in Nat /\ arrived \in Nat /\ consumed <= arrived /\ block_size \in Int
    BY Positions, Zenon DEF FramingTypeOK
  <1>2. CASE cache_block
    BY <1>1, <1>2 DEF PayloadSize, PayloadStart
  <1>3. CASE ~cache_block
    BY <1>1, <1>3, HeaderIsInt DEF PayloadSize, PayloadStart, Available, HeaderSize
  <1> QED BY <1>2, <1>3, Zenon

LEMMA AtFrameReady ==
    ASSUME FramingTypeOK, Roles, AtFrame
    PROVE  cache_block \/ Available >= HeaderSize
  BY Positions DEF Roles, AtFrame, HeaderSize

\* The types, and who may be at which step, hold whatever is in the stream.
LEMMA WriteTyped ==
    ASSUME Typed, NEW s \in Senders,
           WritePayload(s) \/ PayloadFails(s) \/ \E m \in Messages : WriteHeader(s, m)
    PROVE  Typed'
  <1>1. /\ FramingTypeOK /\ Roles /\ stream \in Seq(Byte) /\ Len(stream) \in Nat
        /\ consumed \in Nat /\ arrived \in Nat
        /\ consumed <= arrived /\ arrived <= Len(stream)
        /\ sent \in Seq(Messages) /\ starts \in Seq(Nat)
    BY Positions, Zenon DEF Typed
  <1>2. UNCHANGED <<consumed, cache_block, block_size, watermark, arrived, callback,
                    polling, failing, stale_block, reader, ended, received>>
    BY Zenon DEF WritePayload, PayloadFails, WriteHeader, parser_vars, set_up
  <1>3. /\ \E t \in Seq(Byte) : stream' = stream \o t
        /\ writing' \in [Senders -> Messages \cup {<<>>}]
        /\ sent' \in Seq(Messages) /\ starts' \in Seq(Nat)
    <2>1. CASE WritePayload(s)
      <3>1. writing[s] \in Messages /\ writing[s] \in Seq(Byte)
        BY <1>1, <2>1, MessagesAssumption, Zenon DEF WritePayload, FramingTypeOK
      <3> QED BY <1>1, <2>1, <3>1, Zenon DEF WritePayload, FramingTypeOK
    <2>2. CASE PayloadFails(s)
      <3>1. stream' = stream \o <<>> /\ <<>> \in Seq(Byte)
        BY <1>1, <2>2 DEF PayloadFails
      <3> QED BY <1>1, <2>2, <3>1, Zenon DEF PayloadFails, FramingTypeOK
    <2>3. ASSUME NEW m \in Messages, WriteHeader(s, m) PROVE <1>3!1 /\ <1>3!2 /\ <1>3!3
      <3>1. SizeBytes(Len(m)) \in Seq(Byte)
        BY MessagesAssumption, SizeRoundTrip
      <3>2. sent' \in Seq(Messages) /\ starts' \in Seq(Nat)
        BY <1>1, <2>3 DEF WriteHeader
      <3> QED BY <1>1, <2>3, <3>1, <3>2, Zenon DEF WriteHeader, FramingTypeOK
    <2> QED BY <2>1, <2>2, <2>3, Zenon
  <1>4. PICK t \in Seq(Byte) : stream' = stream \o t
    BY <1>3, Zenon
  <1>5. stream' \in Seq(Byte) /\ Len(stream') = Len(stream) + Len(t) /\ Len(t) \in Nat
    BY <1>1, <1>4
  <1>6. arrived' \in consumed' .. Len(stream')
    BY <1>1, <1>2, <1>5
  <1> QED BY <1>1, <1>2, <1>3, <1>5, <1>6, Zenon DEF Typed, FramingTypeOK, Roles

\* Steps that read nothing.
LEMMA ControlTyped ==
    ASSUME Typed,
           \/ SetCallback \/ \E n \in 1 .. Len(stream) : Arrive(n)
           \/ Drained \/ TooShort \/ PollStart
    PROVE  /\ Typed'
           /\ polling => (reader = "payload" <=> reader' = "payload")
  <1>1. FramingTypeOK /\ Roles
    BY Zenon DEF Typed
  <1>2. UNCHANGED <<stream, writing, sent, starts, consumed, cache_block, block_size,
                    watermark, polling, failing, stale_block, received>>
    BY Zenon
      DEF SetCallback, Arrive, Drained, TooShort, PollStart, writer_vars, parser_vars, set_up
  <1>3. CASE SetCallback
    <2>1. ~polling /\ UNCHANGED <<arrived, reader, ended>>
      BY <1>3, Zenon DEF SetCallback
    <2>2. callback' \in {"none", "no args", "set"}
      BY <1>3, Zenon DEF SetCallback
    <2> QED BY <1>1, <1>2, <2>1, <2>2, Zenon DEF Typed, FramingTypeOK, Roles
  <1>4. CASE \E n \in 1 .. Len(stream) : Arrive(n)
    <2>1. PICK n \in 1 .. Len(stream) : Arrive(n)
      BY <1>4, Zenon
    <2>2. arrived' \in consumed' .. Len(stream')
      <3>1. Len(stream) \in Nat
        BY <1>1, Positions, Zenon
      <3>2. arrived' = arrived + n /\ arrived + n <= Len(stream)
        BY <2>1, Zenon DEF Arrive
      <3>3. n \in Nat
        BY <3>1
      <3> QED BY <1>1, <1>2, <3>2, <3>3, Positions
    <2>3. /\ callback' = callback /\ reader \notin {"loop", "dead"}
          /\ \/ reader' = reader /\ (ended' = ended \/ ended' = "no callback")
             \/ reader' \in {"loop", "dead"} /\ callback # "none" /\ ended' = ended
      BY <1>1, <2>1, Zenon DEF Arrive, set_up, FramingTypeOK
    <2>4. reader' \in {"idle", "loop", "header", "payload", "dead"} /\ ended' \in Endings
      BY <1>1, <2>3, Zenon DEF FramingTypeOK, Endings
    <2> QED BY <1>1, <1>2, <2>2, <2>3, <2>4, Zenon DEF Typed, FramingTypeOK, Roles
  <1>5. CASE Drained \/ TooShort
    BY <1>1, <1>2, <1>5, Zenon
      DEF Drained, TooShort, Typed, FramingTypeOK, Roles, Endings, set_up
  <1>6. CASE PollStart
    BY <1>1, <1>2, <1>6 DEF PollStart, Typed, FramingTypeOK, Roles, set_up
  <1> QED BY <1>3, <1>4, <1>5, <1>6, Zenon

LEMMA HeaderReadTyped ==
    ASSUME Typed, Incomplete \/ PollHeader
    PROVE  Typed'
  <1>1. FramingTypeOK /\ Roles
    BY Zenon DEF Typed
  <1>2. UNCHANGED <<stream, writing, sent, starts, arrived, callback, polling, failing,
                    stale_block, received>>
    BY Zenon DEF Incomplete, PollHeader, writer_vars, set_up
  <1>3. CASE Incomplete
    <2>1. /\ reader = "loop" /\ Available > HeaderSize
          /\ arrived - PayloadStart < PayloadSize
          /\ cache_block' = TRUE /\ block_size' = PayloadSize
          /\ consumed' = PayloadStart /\ watermark' = PayloadSize
          /\ reader' = "idle" /\ ended' = "incomplete"
      BY <1>3, Zenon DEF Incomplete
    <2>2. PayloadSize \in Int /\ PayloadStart \in Nat /\ PayloadStart <= arrived
      BY <1>1, <2>1, AtFrameReady, SizeIsInt, Zenon DEF AtFrame
    <2>3. arrived' \in consumed' .. Len(stream') /\ watermark' \in Nat /\ consumed' \in Nat
      BY <1>1, <1>2, <2>1, <2>2, Positions
    <2> QED BY <1>1, <1>2, <2>1, <2>2, <2>3, Zenon DEF Typed, FramingTypeOK, Roles, Endings
  <1>4. CASE PollHeader
    <2>1. /\ reader = "header" /\ Available >= HeaderSize
          /\ cache_block' = TRUE /\ block_size' = SizeAt(consumed)
          /\ consumed' = consumed + HeaderSize
          /\ reader' = "payload" /\ UNCHANGED <<watermark, ended>>
      BY <1>4, Zenon DEF PollHeader
    <2>2. SizeAt(consumed) \in Int
      BY <1>1, <2>1, HeaderIsInt, Zenon
    <2>3. arrived' \in consumed' .. Len(stream') /\ consumed' \in Nat
      BY <1>1, <1>2, <2>1, Positions DEF Available, HeaderSize
    <2> QED BY <1>1, <1>2, <2>1, <2>2, <2>3, Zenon DEF Typed, FramingTypeOK, Roles
  <1> QED BY <1>3, <1>4, Zenon

LEMMA BadSizeTyped ==
    ASSUME Typed, BadSize
    PROVE  Typed'
  <1>1. FramingTypeOK /\ Roles
    BY Zenon DEF Typed
  <1>2. /\ AtFrame /\ PayloadSize <= 0
        /\ reader' \in {"dead", "idle"} /\ ended' = "refused"
        /\ cache_block' = FALSE /\ block_size' = PayloadSize
        /\ consumed' = PayloadStart /\ watermark' = 0
        /\ UNCHANGED <<stream, writing, sent, starts, arrived, callback, polling, failing,
                       stale_block, received>>
    BY Zenon DEF BadSize, AtFrame, writer_vars, set_up
  <1>3. /\ PayloadSize \in Int /\ PayloadStart \in Nat /\ PayloadStart <= arrived
    BY <1>1, <1>2, AtFrameReady, SizeIsInt, Zenon
  <1>4. arrived' \in consumed' .. Len(stream') /\ watermark' \in Nat /\ consumed' \in Nat
    BY <1>1, <1>2, <1>3, Positions
  <1> QED BY <1>1, <1>2, <1>3, <1>4, Zenon DEF Typed, FramingTypeOK, Roles, Endings

\* What is taken lies in the input buffer.
LEMMA PayloadBytes ==
    ASSUME FramingTypeOK, Roles, AtFrame, PayloadThere
    PROVE  /\ PayloadSize \in Nat \ {0} /\ PayloadStart \in Nat
           /\ PayloadStart + PayloadSize <= arrived
           /\ Payload \in Seq(Byte)
  <1>1. PayloadSize \in Int /\ PayloadStart \in Nat /\ PayloadStart <= arrived
    BY AtFrameReady, SizeIsInt, Zenon
  <1>2. arrived \in Nat
    BY Positions, Zenon
  <1>3. PayloadSize \in Nat \ {0} /\ PayloadStart + PayloadSize <= arrived
    BY <1>1, <1>2 DEF PayloadThere
  <1>4. \A j \in PayloadStart + 1 .. PayloadStart + PayloadSize : stream[j] \in Byte
    <2> SUFFICES ASSUME NEW j \in PayloadStart + 1 .. PayloadStart + PayloadSize
                 PROVE  stream[j] \in Byte
      OBVIOUS
    <2>1. j \in 1 .. Len(stream)
      BY <1>1, <1>3, Positions
    <2>2. stream \in Seq(Byte)
      BY Positions, Zenon
    <2> QED BY <2>1, <2>2
  <1>5. PayloadStart + 1 \in Int /\ PayloadStart + PayloadSize \in Int
    BY <1>1
  <1>6. Payload \in Seq(Byte)
    BY <1>4, <1>5, SubSeqProperties, Zenon DEF Payload
  <1> QED BY <1>1, <1>3, <1>6, Zenon

LEMMA TakeTyped ==
    ASSUME Typed, AtFrame, TakePayload, UNCHANGED <<writer_vars, arrived, set_up>>,
           watermark' \in Nat, ended' \in Endings,
           \/ reader = "loop" /\ reader' \in {"loop", "idle", "dead"}
           \/ reader = "payload" /\ reader' = "idle"
    PROVE  Typed'
  <1>1. FramingTypeOK /\ Roles
    BY Zenon DEF Typed
  <1>2. /\ PayloadThere /\ received' = Append(received, Payload)
        /\ cache_block' = FALSE /\ block_size' = PayloadSize
        /\ consumed' = PayloadStart + PayloadSize
        /\ UNCHANGED <<stream, writing, sent, starts, arrived, callback, polling, failing,
                       stale_block>>
    BY Zenon DEF TakePayload, writer_vars, set_up
  <1>3. /\ PayloadSize \in Nat \ {0} /\ PayloadStart \in Nat
        /\ PayloadStart + PayloadSize <= arrived /\ Payload \in Seq(Byte)
    BY <1>1, <1>2, PayloadBytes, Zenon
  <1>4. arrived' \in consumed' .. Len(stream') /\ consumed' \in Nat
    BY <1>1, <1>2, <1>3, Positions
  <1>5. received' \in Seq(Seq(Byte))
    BY <1>1, <1>2, <1>3, Positions
  <1>6. block_size' \in Int /\ cache_block' \in BOOLEAN
    <2>1. PayloadSize \in Int
      BY <1>3
    <2> QED BY <1>2, <2>1, Zenon
  <1>7. reader' \in {"idle", "loop", "header", "payload", "dead"}
    OBVIOUS
  <1> QED BY <1>1, <1>2, <1>4, <1>5, <1>6, <1>7, Zenon DEF Typed, FramingTypeOK, Roles

LEMMA CompleteTakes ==
    ASSUME Typed, NEW then \in {"loop", "idle", "dead"}, Complete(then)
    PROVE  /\ AtFrame /\ TakePayload /\ UNCHANGED <<writer_vars, arrived, set_up>>
           /\ watermark' \in Nat /\ ended' \in Endings
           /\ reader = "loop" /\ reader' \in {"loop", "idle", "dead"}
  <1>1. ended \in Endings
    BY Zenon DEF Typed, FramingTypeOK
  <1> QED BY <1>1, Zenon DEF Complete, AtFrame, Endings

LEMMA PollTakes ==
    ASSUME Typed, PollPayload
    PROVE  /\ AtFrame /\ TakePayload /\ UNCHANGED <<writer_vars, arrived, set_up>>
           /\ watermark' \in Nat /\ ended' \in Endings
           /\ reader = "payload" /\ reader' = "idle"
  <1>1. ended \in Endings /\ watermark \in Nat
    BY Zenon DEF Typed, FramingTypeOK
  <1> QED BY <1>1, Zenon DEF PollPayload, AtFrame

LEMMA TypedStep == Typed /\ [FramingNext]_framing_vars => Typed'
  <1> SUFFICES ASSUME Typed, [FramingNext]_framing_vars PROVE Typed'
    OBVIOUS
  <1>1. CASE UNCHANGED framing_vars
    BY <1>1, Zenon
      DEF framing_vars, parser_vars, writer_vars, Typed, FramingTypeOK, Roles
  <1>2. ASSUME NEW s \in Senders,
               WritePayload(s) \/ PayloadFails(s) \/ \E m \in Messages : WriteHeader(s, m)
        PROVE  Typed'
    BY <1>2, WriteTyped, Zenon
  <1>3. CASE \/ SetCallback \/ \E n \in 1 .. Len(stream) : Arrive(n)
             \/ Drained \/ TooShort \/ PollStart
    BY <1>3, ControlTyped, Zenon
  <1>4. CASE Incomplete \/ PollHeader
    BY <1>4, HeaderReadTyped, Zenon
  <1>5. CASE BadSize
    BY <1>5, BadSizeTyped, Zenon
  <1>6. ASSUME NEW then \in {"loop", "idle", "dead"}, Complete(then) PROVE Typed'
    BY <1>6, CompleteTakes, TakeTyped, Zenon
  <1>7. CASE PollPayload
    BY <1>7, PollTakes, TakeTyped, Zenon
  <1> QED BY <1>1, <1>2, <1>3, <1>4, <1>5, <1>6, <1>7, Zenon DEF FramingNext

\* Nothing changes what kind of connection it is.
LEMMA SettingsStay ==
    ASSUME [FramingNext]_framing_vars
    PROVE  UNCHANGED <<polling, failing, stale_block>>
  BY Zenon DEF FramingNext, framing_vars, WriteHeader, WritePayload, PayloadFails,
     SetCallback, Arrive, Drained, TooShort, Incomplete, BadSize, Complete, PollStart,
     PollHeader, PollPayload, set_up

-----------------------------------------------------------------------------
LEMMA WriteHeaderInv ==
    ASSUME OneSender, IInv, NEW s \in Senders, NEW m \in Messages, WriteHeader(s, m)
    PROVE  IInv'
  <1> DEFINE n == Len(sent)
             b == SizeBytes(Len(m))
  <1>1. /\ FramingTypeOK /\ StreamInv /\ Roles
        /\ ~stale_block => ReceivedInOrder /\ Position
    BY Zenon DEF IInv
  <1>2. /\ stream' = stream \o b /\ sent' = Append(sent, m)
        /\ starts' = Append(starts, Len(stream))
        /\ writing[s] = <<>> /\ writing' = [writing EXCEPT ![s] = m]
        /\ UNCHANGED <<consumed, cache_block, block_size, watermark, arrived, callback,
                       polling, stale_block, reader, ended, received>>
    BY Zenon DEF WriteHeader, parser_vars, set_up
  <1>3. /\ stream \in Seq(Byte) /\ Len(stream) \in Nat /\ n \in Nat
        /\ consumed \in Nat /\ arrived \in Nat
        /\ consumed <= arrived /\ arrived <= Len(stream)
        /\ sent \in Seq(Messages) /\ starts \in Seq(Nat) /\ Len(starts) = n
    BY <1>1, Positions, Zenon DEF StreamInv
  <1>4. m \in Seq(Byte) /\ m # <<>> /\ IntLength(Len(m)) /\ Len(m) \in Nat
    BY MessagesAssumption
  <1>5. b \in Seq(Byte) /\ Len(b) = HeaderSize
    BY <1>4, SizeRoundTrip
  <1> HIDE DEF b
  <1>6. /\ stream' \in Seq(Byte) /\ Len(stream') = Len(stream) + HeaderSize
        /\ \A j \in 1 .. Len(stream) : stream'[j] = stream[j]
        /\ \A k \in 1 .. Len(b) : stream'[Len(stream) + k] = b[k]
    BY <1>2, <1>3, <1>5, Appended, Zenon
  <1>7. /\ sent' \in Seq(Messages) /\ Len(sent') = n + 1 /\ sent'[n + 1] = m
        /\ \A i \in 1 .. n : sent'[i] = sent[i]
    BY <1>2, <1>3
  <1>8. /\ starts' \in Seq(Nat) /\ Len(starts') = n + 1 /\ starts'[n + 1] = Len(stream)
        /\ \A i \in 1 .. n : starts'[i] = starts[i]
    BY <1>2, <1>3
  <1>9. NoneWriting /\ ~NoneWriting' /\ \A q \in Senders : writing'[q] = m
    <2>1. writing \in [Senders -> Messages \cup {<<>>}] /\ Senders = {s}
      BY <1>1, Zenon DEF FramingTypeOK, OneSender
    <2> QED BY <1>2, <1>4, <2>1, Zenon DEF NoneWriting
  <1>10. FramingTypeOK' /\ Roles'
    BY <1>1, WriteTyped, Zenon DEF Typed
  <1>11. \A i \in 0 .. n : EndOf(i)' = EndOf(i)
    BY <1>3, <1>7, <1>8, SMTT(30) DEF EndOf, FrameEnd
  <1>12. StreamInv'
    <2>1. Len(stream) = EndOf(n) /\ PayloadsWritten /\ HeadersWritten /\ FramesAdjacent
      BY <1>1, <1>9, Zenon DEF StreamInv, StreamEnd
    <2>2. HeadersWritten'
      <3> SUFFICES ASSUME NEW i \in 1 .. n + 1
                   PROVE  /\ starts'[i] + HeaderSize <= Len(stream')
                          /\ stream'[starts'[i] + 1] = SizeBytes(Len(sent'[i]))[1]
                          /\ stream'[starts'[i] + 2] = SizeBytes(Len(sent'[i]))[2]
                          /\ stream'[starts'[i] + 3] = SizeBytes(Len(sent'[i]))[3]
                          /\ stream'[starts'[i] + 4] = SizeBytes(Len(sent'[i]))[4]
        BY <1>7, Zenon DEF HeadersWritten
      <3>1. CASE i = n + 1
        <4>1. starts'[i] = Len(stream) /\ sent'[i] = m
          BY <1>7, <1>8, <3>1, Zenon
        <4>2. 1 \in 1 .. Len(b) /\ 2 \in 1 .. Len(b) /\ 3 \in 1 .. Len(b) /\ 4 \in 1 .. Len(b)
          BY <1>5 DEF HeaderSize
        <4>3. /\ stream'[Len(stream) + 1] = b[1] /\ stream'[Len(stream) + 2] = b[2]
              /\ stream'[Len(stream) + 3] = b[3] /\ stream'[Len(stream) + 4] = b[4]
          BY <1>6, <4>2, Zenon
        <4>4. Len(stream) + HeaderSize <= Len(stream')
          BY <1>3, <1>6 DEF HeaderSize
        <4> QED BY <4>1, <4>3, <4>4, Zenon DEF b
      <3>2. CASE i \in 1 .. n
        <4>1. starts[i] \in Nat /\ starts[i] + HeaderSize <= Len(stream)
          BY <1>3, <2>1, <3>2, SMTT(30) DEF HeadersWritten
        <4>2. /\ starts[i] + 1 \in 1 .. Len(stream) /\ starts[i] + 2 \in 1 .. Len(stream)
              /\ starts[i] + 3 \in 1 .. Len(stream) /\ starts[i] + 4 \in 1 .. Len(stream)
          <5>1. Len(stream) \in Nat
            BY <1>3, Zenon
          <5> QED BY <4>1, <5>1, HeaderPlaces, Zenon
        <4>3. starts'[i] = starts[i] /\ sent'[i] = sent[i]
          BY <1>7, <1>8, <3>2, Zenon
        <4>4. starts[i] + HeaderSize <= Len(stream')
          BY <1>3, <1>6, <4>1 DEF HeaderSize
        <4>5. /\ stream'[starts[i] + 1] = stream[starts[i] + 1]
              /\ stream'[starts[i] + 2] = stream[starts[i] + 2]
              /\ stream'[starts[i] + 3] = stream[starts[i] + 3]
              /\ stream'[starts[i] + 4] = stream[starts[i] + 4]
          BY <1>6, <4>2, Zenon
        <4>6. /\ stream[starts[i] + 1] = SizeBytes(Len(sent[i]))[1]
              /\ stream[starts[i] + 2] = SizeBytes(Len(sent[i]))[2]
              /\ stream[starts[i] + 3] = SizeBytes(Len(sent[i]))[3]
              /\ stream[starts[i] + 4] = SizeBytes(Len(sent[i]))[4]
          BY <2>1, <3>2, Zenon DEF HeadersWritten
        <4> QED BY <4>3, <4>4, <4>5, <4>6, Zenon
      <3> QED BY <1>3, <3>1, <3>2
    <2>3. PayloadsWritten'
      <3> SUFFICES ASSUME NEW i \in 1 .. n
                   PROVE  /\ FrameEnd(i)' <= Len(stream')
                          /\ \A k \in 1 .. Len(sent'[i]) :
                                stream'[starts'[i] + HeaderSize + k] = sent'[i][k]
        BY <1>3, <1>7, <1>9, SMTT(30) DEF PayloadsWritten
      <3>1. starts'[i] = starts[i] /\ sent'[i] = sent[i]
        BY <1>7, <1>8, Zenon
      <3>2. starts[i] \in Nat /\ Len(sent[i]) \in Nat \ {0}
        BY <1>1, FrameFacts, Zenon DEF StreamInv
      <3>3. /\ FrameEnd(i) <= Len(stream)
            /\ \A k \in 1 .. Len(sent[i]) : stream[starts[i] + HeaderSize + k] = sent[i][k]
        BY <1>9, <2>1, Zenon DEF PayloadsWritten
      <3>4. ASSUME NEW k \in 1 .. Len(sent[i])
            PROVE  stream'[starts[i] + HeaderSize + k] = sent[i][k]
        <4>1. starts[i] + HeaderSize + k \in 1 .. Len(stream)
          <5>1. starts[i] + HeaderSize + Len(sent[i]) <= Len(stream) /\ Len(stream) \in Nat
            BY <1>3, <3>3, Zenon DEF FrameEnd
          <5> QED BY <3>2, <5>1, PayloadPlaces, Zenon
        <4> QED BY <1>6, <3>3, <4>1, Zenon
      <3> QED BY <1>3, <1>6, <3>1, <3>2, <3>3, <3>4 DEF FrameEnd, HeaderSize
    <2>4. FramesAdjacent'
      <3> SUFFICES ASSUME NEW i \in 1 .. n + 1 PROVE starts'[i] = EndOf(i - 1)'
        BY <1>7, Zenon DEF FramesAdjacent
      <3>1. i - 1 \in 0 .. n
        BY <1>3
      <3>2. EndOf(i - 1)' = EndOf(i - 1)
        BY <1>11, <3>1, Zenon
      <3>3. CASE i = n + 1
        BY <1>3, <1>8, <2>1, <3>2, <3>3
      <3>4. CASE i \in 1 .. n
        BY <1>8, <2>1, <3>2, <3>4, Zenon DEF FramesAdjacent
      <3> QED BY <1>3, <3>3, <3>4
    <2>5. StreamEnd'
      BY <1>3, <1>6, <1>7, <1>8, <1>9 DEF StreamEnd
    <2> QED BY <1>7, <1>8, <2>2, <2>3, <2>4, <2>5, Zenon DEF StreamInv
  <1>14. ~stale_block' => ReceivedInOrder' /\ Position'
    <2> SUFFICES ASSUME ~stale_block PROVE ReceivedInOrder' /\ Position'
      BY <1>2, Zenon
    <2>1. Len(received) \in Nat /\ Len(received) <= n
      BY <1>1, Positions, Zenon DEF ReceivedInOrder
    <2>2. ReceivedInOrder'
      BY <1>1, <1>2, <1>3, <1>7, <2>1 DEF ReceivedInOrder
    <2>3. Cached' = Cached
      BY <1>2, Zenon DEF Cached
    <2>4. CASE Cached
      <3>1. /\ Len(received) < n /\ consumed = starts[Len(received) + 1] + HeaderSize
            /\ block_size = Len(sent[Len(received) + 1])
        BY <1>1, <2>4, Zenon DEF Position
      <3>2. Len(received) + 1 \in 1 .. n /\ Len(received) < Len(sent')
        BY <1>3, <1>7, <2>1, <3>1
      <3>3. /\ starts'[Len(received) + 1] = starts[Len(received) + 1]
            /\ sent'[Len(received) + 1] = sent[Len(received) + 1]
        BY <1>7, <1>8, <3>2, Zenon
      <3> QED BY <1>2, <2>2, <2>3, <2>4, <3>1, <3>2, <3>3, Zenon DEF Position
    <2>5. CASE ~Cached
      <3>1. consumed = EndOf(Len(received))
        BY <1>1, <2>5, Zenon DEF Position
      <3>2. EndOf(Len(received))' = EndOf(Len(received))
        BY <1>2, <1>7, <1>8, <2>1 DEF EndOf, FrameEnd
      <3> QED BY <1>2, <2>2, <2>3, <2>5, <3>1, <3>2, Zenon DEF Position
    <2> QED BY <2>4, <2>5, Zenon
  <1> QED BY <1>10, <1>12, <1>14, Zenon DEF IInv

LEMMA WritePayloadInv ==
    ASSUME OneSender, IInv, NEW s \in Senders, WritePayload(s)
    PROVE  IInv'
  <1> DEFINE n == Len(sent)
             m == writing[s]
  <1>1. /\ FramingTypeOK /\ StreamInv /\ Roles
        /\ ~stale_block => ReceivedInOrder /\ Position
    BY Zenon DEF IInv
  <1>2. /\ m # <<>> /\ stream' = stream \o m /\ writing' = [writing EXCEPT ![s] = <<>>]
        /\ UNCHANGED <<sent, starts, consumed, cache_block, block_size, watermark, arrived,
                       callback, polling, stale_block, reader, ended, received>>
    BY Zenon DEF WritePayload, parser_vars, set_up
  <1>3. /\ stream \in Seq(Byte) /\ Len(stream) \in Nat /\ n \in Nat
        /\ consumed \in Nat /\ arrived \in Nat
        /\ consumed <= arrived /\ arrived <= Len(stream)
        /\ Len(starts) = n
    BY <1>1, Positions, Zenon DEF StreamInv
  <1>4. n > 0 /\ m = sent[n] /\ Len(stream) = starts[n] + HeaderSize
    BY <1>1, <1>2, Zenon DEF StreamInv, StreamEnd
  <1>5. m \in Seq(Byte) /\ Len(m) \in Nat
    BY <1>1, <1>3, <1>4, FrameFacts
  <1> HIDE DEF m
  <1>6. /\ stream' \in Seq(Byte) /\ Len(stream') = Len(stream) + Len(m)
        /\ \A j \in 1 .. Len(stream) : stream'[j] = stream[j]
        /\ \A k \in 1 .. Len(m) : stream'[Len(stream) + k] = m[k]
    BY <1>2, <1>3, <1>5, Appended, Zenon
  <1>7. NoneWriting'
    <2>1. writing \in [Senders -> Messages \cup {<<>>}] /\ Senders = {s}
      BY <1>1, Zenon DEF FramingTypeOK, OneSender
    <2> QED BY <1>2, <2>1, Zenon DEF NoneWriting
  <1>8. FramingTypeOK' /\ Roles'
    BY <1>1, WriteTyped, Zenon DEF Typed
  <1>9. \A i \in 1 .. n : starts[i] \in Nat /\ Len(sent[i]) \in Nat \ {0}
    BY <1>1, <1>3, FrameFacts, Zenon
  <1>10. StreamInv'
    <2>1. PayloadsWritten /\ HeadersWritten /\ FramesAdjacent
      BY <1>1, Zenon DEF StreamInv
    <2>2. HeadersWritten'
      <3> SUFFICES ASSUME NEW i \in 1 .. n
                   PROVE  /\ starts[i] + HeaderSize <= Len(stream')
                          /\ stream'[starts[i] + 1] = SizeBytes(Len(sent[i]))[1]
                          /\ stream'[starts[i] + 2] = SizeBytes(Len(sent[i]))[2]
                          /\ stream'[starts[i] + 3] = SizeBytes(Len(sent[i]))[3]
                          /\ stream'[starts[i] + 4] = SizeBytes(Len(sent[i]))[4]
        BY <1>2, Zenon DEF HeadersWritten
      <3>1. starts[i] \in Nat /\ starts[i] + HeaderSize <= Len(stream)
        BY <1>9, <2>1, Zenon DEF HeadersWritten
      <3>2. Len(stream) \in Nat /\ Len(stream') >= Len(stream)
        BY <1>3, <1>5, <1>6
      <3>3. /\ starts[i] + 1 \in 1 .. Len(stream) /\ starts[i] + 2 \in 1 .. Len(stream)
            /\ starts[i] + 3 \in 1 .. Len(stream) /\ starts[i] + 4 \in 1 .. Len(stream)
        BY <3>1, <3>2, HeaderPlaces, Zenon
      <3>4. starts[i] + HeaderSize <= Len(stream')
        BY <1>3, <1>5, <1>6, <3>1 DEF HeaderSize
      <3> QED BY <1>6, <2>1, <3>3, <3>4, Zenon DEF HeadersWritten
    <2>3. PayloadsWritten'
      <3> SUFFICES ASSUME NEW i \in 1 .. n
                   PROVE  /\ FrameEnd(i) <= Len(stream')
                          /\ \A k \in 1 .. Len(sent[i]) :
                                stream'[starts[i] + HeaderSize + k] = sent[i][k]
        BY <1>2, Zenon DEF PayloadsWritten, FrameEnd
      <3>1. CASE i = n
        BY <1>3, <1>4, <1>6, <1>9, <3>1 DEF FrameEnd
      <3>2. CASE i < n
        <4>1. /\ FrameEnd(i) <= Len(stream)
              /\ \A k \in 1 .. Len(sent[i]) : stream[starts[i] + HeaderSize + k] = sent[i][k]
          BY <2>1, <3>2, Zenon DEF PayloadsWritten
        <4>2. starts[i] \in Nat /\ Len(sent[i]) \in Nat \ {0}
          BY <1>9, Zenon
        <4>3. ASSUME NEW k \in 1 .. Len(sent[i])
              PROVE  stream'[starts[i] + HeaderSize + k] = sent[i][k]
          <5>1. starts[i] + HeaderSize + k \in 1 .. Len(stream)
            BY <1>3, <4>1, <4>2, SMTT(30) DEF FrameEnd, HeaderSize
          <5> QED BY <1>6, <4>1, <5>1, Zenon
        <4> QED BY <1>3, <1>5, <1>6, <4>1, <4>2, <4>3 DEF FrameEnd, HeaderSize
      <3> QED BY <1>3, <3>1, <3>2
    <2>4. FramesAdjacent'
      BY <1>2, <2>1, Zenon DEF FramesAdjacent, EndOf, FrameEnd
    <2>5. StreamEnd'
      BY <1>2, <1>3, <1>4, <1>6, <1>7 DEF StreamEnd, NoneWriting, EndOf, FrameEnd
    <2> QED BY <1>2, <1>3, <2>2, <2>3, <2>4, <2>5, Zenon DEF StreamInv
  <1>12. ~stale_block' => ReceivedInOrder' /\ Position'
    BY <1>1, <1>2, PositionUnchanged, Zenon DEF Cached
  <1> QED BY <1>8, <1>10, <1>12, Zenon DEF IInv

-----------------------------------------------------------------------------
\* Steps that read nothing.
LEMMA ControlInv ==
    ASSUME IInv,
           \/ SetCallback \/ \E n \in 1 .. Len(stream) : Arrive(n)
           \/ Drained \/ TooShort \/ PollStart
    PROVE  IInv'
  <1>1. /\ FramingTypeOK /\ StreamInv /\ Roles
        /\ ~stale_block => ReceivedInOrder /\ Position
    BY Zenon DEF IInv
  <1>2. UNCHANGED <<stream, writing, sent, starts, consumed, cache_block, block_size,
                    watermark, polling, stale_block, received>>
    BY Zenon
      DEF SetCallback, Arrive, Drained, TooShort, PollStart, writer_vars, parser_vars, set_up
  <1>3. StreamInv'
    BY <1>1, <1>2, StreamUnchanged, Zenon DEF writer_vars
  <1>4. /\ FramingTypeOK' /\ Roles'
        /\ polling => (reader = "payload" <=> reader' = "payload")
    BY <1>1, ControlTyped, Zenon DEF Typed
  <1>5. ~stale_block' => ReceivedInOrder' /\ Position'
    <2>1. Cached' <=> Cached
      BY <1>1, <1>2, <1>4, Zenon DEF Cached, FramingTypeOK
    <2> QED BY <1>1, <1>2, <2>1, PositionUnchanged, Zenon
  <1> QED BY <1>3, <1>4, <1>5, Zenon DEF IInv

\* The header is read and the message is not there yet.
LEMMA HeaderReadInv ==
    ASSUME IInv, Incomplete \/ PollHeader
    PROVE  IInv'
  <1>1. /\ FramingTypeOK /\ StreamInv /\ Roles
        /\ ~stale_block => ReceivedInOrder /\ Position
    BY Zenon DEF IInv
  <1>2. UNCHANGED <<stream, writing, sent, starts, arrived, callback, polling,
                    stale_block, received>>
    BY Zenon DEF Incomplete, PollHeader, writer_vars, set_up
  <1>3. StreamInv'
    BY <1>1, <1>2, StreamUnchanged, Zenon DEF writer_vars
  <1>4. CASE Incomplete
    <2>1. /\ reader = "loop" /\ Available > HeaderSize
          /\ arrived - PayloadStart < PayloadSize
          /\ cache_block' = TRUE /\ block_size' = PayloadSize
          /\ consumed' = PayloadStart /\ watermark' = PayloadSize
          /\ reader' = "idle" /\ ended' = "incomplete"
      BY <1>4, Zenon DEF Incomplete
    <2>2. AtFrame /\ (cache_block \/ Available >= HeaderSize)
      BY <1>1, <2>1, AtFrameReady, Zenon DEF AtFrame
    <2>6. FramingTypeOK' /\ Roles'
      BY <1>1, <1>4, HeaderReadTyped, Zenon DEF Typed
    <2>7. ASSUME ~stale_block' PROVE ReceivedInOrder' /\ Position'
      <3>1. /\ Len(received) < Len(sent)
            /\ PayloadStart = starts[Len(received) + 1] + HeaderSize
            /\ PayloadSize = Len(sent[Len(received) + 1])
        BY <1>2, <2>2, <2>7, CurrentFrame, Zenon
      <3>2. Cached'
        BY <1>1, <1>2, <2>1, Zenon DEF Cached, Roles
      <3>3. ReceivedInOrder'
        BY <1>1, <1>2, <2>7, Zenon DEF ReceivedInOrder
      <3> QED BY <1>2, <2>1, <3>1, <3>2, <3>3, Zenon DEF Position
    <2> QED BY <1>3, <2>6, <2>7, Zenon DEF IInv
  <1>5. CASE PollHeader
    <2>1. /\ reader = "header" /\ Available >= HeaderSize
          /\ cache_block' = TRUE /\ block_size' = SizeAt(consumed)
          /\ consumed' = consumed + HeaderSize
          /\ reader' = "payload" /\ UNCHANGED <<watermark, ended>>
      BY <1>5, Zenon DEF PollHeader
    <2>2. polling /\ ~stale_block /\ ~Cached
      BY <1>1, <2>1, Zenon DEF Roles, Cached
    <2>3. /\ Len(received) < Len(sent) /\ consumed = starts[Len(received) + 1]
          /\ SizeAt(consumed) = Len(sent[Len(received) + 1])
      BY <2>1, <2>2, NextFrame, Zenon
    <2>8. FramingTypeOK' /\ Roles'
      BY <1>1, <1>5, HeaderReadTyped, Zenon DEF Typed
    <2>9. Cached'
      BY <1>2, <2>1, <2>2, Zenon DEF Cached
    <2>10. ReceivedInOrder'
      BY <1>1, <1>2, <2>2, Zenon DEF ReceivedInOrder
    <2>11. Position'
      BY <1>2, <2>1, <2>3, <2>9, Zenon DEF Position
    <2> QED BY <1>3, <2>8, <2>10, <2>11, Zenon DEF IInv
  <1> QED BY <1>4, <1>5, Zenon

\* A header that was written whole holds no bad size: only a connection that
\* started with a stale block gets here.
LEMMA BadSizeInv ==
    ASSUME IInv, BadSize
    PROVE  IInv'
  <1>1. FramingTypeOK /\ StreamInv /\ Roles
    BY Zenon DEF IInv
  <1>2. /\ AtFrame /\ PayloadSize <= 0
        /\ reader' \in {"dead", "idle"} /\ ended' = "refused"
        /\ cache_block' = FALSE /\ block_size' = PayloadSize
        /\ consumed' = PayloadStart /\ watermark' = 0
        /\ UNCHANGED <<stream, writing, sent, starts, arrived, callback, polling,
                       stale_block, received>>
    BY Zenon DEF BadSize, AtFrame, writer_vars, set_up
  <1>3. StreamInv'
    BY <1>1, <1>2, StreamUnchanged, Zenon DEF writer_vars
  <1>7. FramingTypeOK' /\ Roles'
    BY <1>1, BadSizeTyped, Zenon DEF Typed
  <1>8. stale_block
    <2> SUFFICES ASSUME ~stale_block PROVE FALSE
      OBVIOUS
    <2>1. Len(received) < Len(sent) /\ PayloadSize = Len(sent[Len(received) + 1])
      BY <1>2, CurrentFrame, Zenon
    <2>2. Len(received) + 1 \in 1 .. Len(sent)
      BY <1>1, <2>1, Positions
    <2>3. PayloadSize \in Nat \ {0}
      BY <1>1, <2>1, <2>2, FrameFacts, Zenon DEF StreamInv
    <2> QED BY <1>2, <2>3
  <1> QED BY <1>2, <1>3, <1>7, <1>8, Zenon DEF IInv

\* A message is taken: it is the next one sent.
LEMMA TakeInv ==
    ASSUME IInv, AtFrame, TakePayload, UNCHANGED <<writer_vars, arrived, set_up>>,
           watermark' \in Nat, ended' \in Endings,
           \/ reader = "loop" /\ reader' \in {"loop", "idle", "dead"}
           \/ reader = "payload" /\ reader' = "idle"
    PROVE  IInv' /\ (~stale_block => /\ Len(received) < Len(sent)
                                     /\ received' = Append(received, sent[Len(received) + 1]))
  <1> DEFINE r == Len(received)
  <1>1. FramingTypeOK /\ StreamInv /\ Roles
    BY Zenon DEF IInv
  <1>2. /\ PayloadThere /\ received' = Append(received, Payload)
        /\ cache_block' = FALSE /\ block_size' = PayloadSize
        /\ consumed' = PayloadStart + PayloadSize
        /\ UNCHANGED <<stream, writing, sent, starts, arrived, callback, polling, stale_block>>
    BY Zenon DEF TakePayload, writer_vars, set_up
  <1>3. StreamInv'
    BY <1>1, <1>2, StreamUnchanged, Zenon DEF writer_vars
  <1>7. /\ received' \in Seq(Seq(Byte)) /\ r \in Nat /\ Len(received') = r + 1
        /\ received'[r + 1] = Payload /\ \A i \in 1 .. r : received'[i] = received[i]
    BY <1>1, <1>2, PayloadBytes, Positions
  <1>8. FramingTypeOK' /\ Roles'
    BY <1>1, TakeTyped, Zenon DEF Typed
  <1>10. ASSUME ~stale_block
         PROVE  /\ ReceivedInOrder' /\ Position' /\ r < Len(sent)
                /\ received' = Append(received, sent[r + 1])
    <2>1. r < Len(sent)
      BY <1>10, CurrentFrame, Zenon
    <2>2. Payload = sent[r + 1] /\ consumed' = FrameEnd(r + 1)
      BY <1>2, <1>10, WholePayload, Zenon
    <2>3. ReceivedInOrder
      BY <1>10, Zenon DEF IInv
    <2>4. Len(sent) \in Nat
      BY <1>1, Positions, Zenon
    <2>5. ReceivedInOrder'
      BY <1>2, <1>7, <2>1, <2>2, <2>3, <2>4 DEF ReceivedInOrder
    <2>6. ~Cached'
      BY <1>1, <1>2, Zenon DEF Cached, Roles
    <2>7. consumed' = starts[r + 1] + HeaderSize + Len(sent[r + 1]) /\ Len(received') # 0
      BY <1>7, <2>2 DEF FrameEnd
    <2>8. consumed' = EndOf(Len(received))'
      BY <1>2, <1>7, <2>7, Zenon DEF EndOf, FrameEnd
    <2>9. Position'
      BY <2>6, <2>8, Zenon DEF Position
    <2> QED BY <1>2, <2>1, <2>2, <2>5, <2>9, Zenon
  <1> QED BY <1>2, <1>3, <1>8, <1>10, Zenon DEF IInv

-----------------------------------------------------------------------------
LEMMA StepInv ==
    ASSUME OneSender, ~failing, IInv, [FramingNext]_framing_vars
    PROVE  IInv'
  <1>0. Typed
    BY Zenon DEF IInv, Typed
  <1>1. CASE UNCHANGED framing_vars
    <2>1. FramingTypeOK' /\ StreamInv' /\ Roles'
      BY <1>1, StreamUnchanged, Zenon
        DEF IInv, framing_vars, parser_vars, writer_vars, FramingTypeOK, Roles
    <2>2. ~stale_block' => ReceivedInOrder' /\ Position'
      BY <1>1, PositionUnchanged, Zenon
        DEF IInv, framing_vars, parser_vars, writer_vars, Cached
    <2> QED BY <2>1, <2>2, Zenon DEF IInv
  <1>2. ASSUME NEW s \in Senders, WritePayload(s) PROVE IInv'
    BY <1>2, WritePayloadInv, Zenon
  <1>3. ASSUME NEW s \in Senders, NEW m \in Messages, WriteHeader(s, m) PROVE IInv'
    BY <1>3, WriteHeaderInv, Zenon
  <1>4. CASE \/ SetCallback \/ \E n \in 1 .. Len(stream) : Arrive(n)
             \/ Drained \/ TooShort \/ PollStart
    BY <1>4, ControlInv, Zenon
  <1>5. CASE Incomplete \/ PollHeader
    BY <1>5, HeaderReadInv, Zenon
  <1>6. CASE BadSize
    BY <1>6, BadSizeInv, Zenon
  <1>7. ASSUME NEW then \in {"loop", "idle", "dead"}, Complete(then) PROVE IInv'
    BY <1>0, <1>7, CompleteTakes, TakeInv, Zenon
  <1>8. CASE PollPayload
    BY <1>0, <1>8, PollTakes, TakeInv, Zenon
  <1>9. ASSUME NEW s \in Senders, PayloadFails(s) PROVE FALSE
    BY <1>9, Zenon DEF PayloadFails
  <1> QED BY <1>1, <1>2, <1>3, <1>4, <1>5, <1>6, <1>7, <1>8, <1>9, Zenon DEF FramingNext

LEMMA StepConnection ==
    ASSUME OneSender, ConnectionInv, [FramingNext]_framing_vars
    PROVE  ConnectionInv'
  BY StepInv, TypedStep, SettingsStay, Zenon DEF ConnectionInv

\* The bookkeeping of LibeventHandle keeps its types for every set of messages
\* and of senders, whatever the stream holds: in particular it never reads past
\* what has arrived.
THEOREM FramingTypeCorrect == FramingSpec => []FramingTypeOK
  <1>1. FramingInit => Typed
    BY InitInv, Zenon DEF ConnectionInv
  <1>2. Typed /\ [FramingNext]_framing_vars => Typed'
    BY TypedStep, Zenon
  <1>3. Typed => FramingTypeOK
    BY Zenon DEF Typed
  <1> QED BY <1>1, <1>2, <1>3, PTL DEF FramingSpec

\* The framing of writeBufferOnce, read back by recive_str_NoWait or
\* recive_str_Wait, implements a FIFO channel.
THEOREM FramingIsFifo ==
    ASSUME OneSender
    PROVE  FramingSpec => FifoSpec
  <1> DEFINE fifo_vars == <<sent, IF Sound THEN received ELSE <<>>>>
  <1>1. FramingInit => ConnectionInv /\ Fifo!Init
    BY InitInv, Zenon DEF FramingInit, Fifo!Init
  <1>2. ConnectionInv /\ [FramingNext]_framing_vars => ConnectionInv'
    BY StepConnection, Zenon
  <1>3. ASSUME ConnectionInv, [FramingNext]_framing_vars
        PROVE  [Fifo!Next]_fifo_vars
    <2>0. Sound' = Sound
      <3>1. UNCHANGED <<failing, stale_block>>
        BY <1>3, SettingsStay, Zenon
      <3> QED BY <3>1, Zenon DEF Sound
    <2>1. CASE UNCHANGED <<sent, received>>
      BY <2>0, <2>1, Zenon
    <2>2. ASSUME NEW s \in Senders, NEW m \in Messages, WriteHeader(s, m)
          PROVE  Fifo!Next
      BY <2>0, <2>2, Zenon DEF WriteHeader, Fifo!Next, Fifo!Send
    <2>3. ASSUME \/ \E then \in {"loop", "idle", "dead"} : Complete(then)
                 \/ PollPayload
          PROVE  [Fifo!Next]_fifo_vars
      <3>1. sent' = sent
        BY <2>3, Zenon DEF Complete, PollPayload, writer_vars
      <3>2. CASE Sound
        <4>1. IInv /\ Typed /\ ~stale_block
          BY <1>3, <3>2, Zenon DEF ConnectionInv, Sound
        <4>2. /\ Len(received) < Len(sent)
              /\ received' = Append(received, sent[Len(received) + 1])
          BY <2>3, <4>1, CompleteTakes, PollTakes, TakeInv, Zenon
        <4> QED BY <2>0, <3>1, <3>2, <4>2, Zenon DEF Fifo!Next, Fifo!Receive
      <3>3. CASE ~Sound
        BY <2>0, <3>1, <3>3, Zenon
      <3> QED BY <3>2, <3>3, Zenon
    <2>4. ASSUME NEW s \in Senders, WritePayload(s) \/ PayloadFails(s)
          PROVE  UNCHANGED <<sent, received>>
      BY <2>4, Zenon DEF WritePayload, PayloadFails
    <2>5. ASSUME \/ SetCallback \/ \E n \in 1 .. Len(stream) : Arrive(n)
                 \/ Drained \/ TooShort \/ Incomplete \/ BadSize
                 \/ PollStart \/ PollHeader \/ UNCHANGED framing_vars
          PROVE  UNCHANGED <<sent, received>>
      BY <2>5, Zenon
        DEF SetCallback, Arrive, Drained, TooShort, Incomplete, BadSize, PollStart,
                  PollHeader, framing_vars, writer_vars
    <2> QED BY <1>3, <2>1, <2>2, <2>3, <2>4, <2>5, Zenon DEF FramingNext
  <1> QED BY <1>1, <1>2, <1>3, PTL DEF FramingSpec, FifoSpec, Fifo!Spec

-----------------------------------------------------------------------------
\* NothingStranded rests on the low watermark: it is the length of the message
\* whose header is cached, and otherwise 0.
LongMessages == \A m \in Messages : Len(m) > HeaderSize

ReadsByCallback == ~polling /\ Sound

WatermarkInv ==
    ReadsByCallback => watermark = IF cache_block THEN block_size ELSE 0

LEMMA WatermarkStep ==
    ASSUME Typed, WatermarkInv, [FramingNext]_framing_vars
    PROVE  WatermarkInv'
  <1>1. CASE UNCHANGED <<set_up, parser_vars>>
    BY <1>1, Zenon DEF WatermarkInv, ReadsByCallback, Sound, set_up, parser_vars
  <1>2. CASE SetCallback
    BY <1>2, Zenon DEF SetCallback, WatermarkInv, ReadsByCallback, Sound, parser_vars
  <1>3. CASE \E n \in 1 .. Len(stream) : Arrive(n)
    BY <1>1, <1>3, Zenon DEF Arrive
  <1>4. CASE Incomplete
    BY <1>4, Zenon DEF Incomplete, WatermarkInv
  <1>5. CASE BadSize
    BY <1>5, Zenon DEF BadSize, WatermarkInv
  <1>6. ASSUME NEW then \in {"loop", "idle", "dead"}, Complete(then) PROVE WatermarkInv'
    BY <1>6, Zenon DEF Complete, TakePayload, WatermarkInv
  <1>7. CASE PollHeader \/ PollPayload
    <2>1. polling'
      BY <1>7, Zenon DEF PollHeader, PollPayload, Typed, Roles, set_up
    <2> QED BY <2>1, Zenon DEF WatermarkInv, ReadsByCallback
  <1>8. ASSUME NEW s \in Senders,
               WritePayload(s) \/ PayloadFails(s) \/ \E m \in Messages : WriteHeader(s, m)
        PROVE  WatermarkInv'
    BY <1>1, <1>8, Zenon DEF WritePayload, PayloadFails, WriteHeader
  <1>9. CASE Drained \/ TooShort \/ PollStart \/ UNCHANGED framing_vars
    BY <1>1, <1>9, Zenon DEF Drained, TooShort, PollStart, framing_vars, set_up
  <1> QED BY <1>2, <1>3, <1>4, <1>5, <1>6, <1>7, <1>8, <1>9, Zenon DEF FramingNext

\* What the sender appends does not change the header in the input buffer.
LEMMA ReadyUnchanged ==
    ASSUME FramingTypeOK, UNCHANGED <<consumed, arrived, cache_block, block_size>>,
           \A j \in 1 .. Len(stream) : stream'[j] = stream[j], FrameReady'
    PROVE  FrameReady
  <1>1. /\ Len(stream) \in Nat /\ consumed \in Nat /\ arrived \in Nat
        /\ arrived <= Len(stream)
    BY Positions, Zenon
  <1>2. CASE cache_block
    BY <1>2, Zenon DEF FrameReady, Available, PayloadStart, PayloadSize
  <1>3. CASE ~cache_block
    <2>1. Available >= HeaderSize
      BY <1>3, Zenon DEF FrameReady, Available
    <2>2. /\ consumed + 1 \in 1 .. Len(stream) /\ consumed + 2 \in 1 .. Len(stream)
          /\ consumed + 3 \in 1 .. Len(stream) /\ consumed + 4 \in 1 .. Len(stream)
      BY <1>1, <2>1 DEF Available, HeaderSize
    <2>3. /\ stream'[consumed + 1] = stream[consumed + 1]
          /\ stream'[consumed + 2] = stream[consumed + 2]
          /\ stream'[consumed + 3] = stream[consumed + 3]
          /\ stream'[consumed + 4] = stream[consumed + 4]
      BY <2>2, Zenon
    <2>4. SizeAt(consumed)' = SizeAt(consumed)
      BY <2>3 DEF SizeAt
    <2> QED BY <1>3, <2>1, <2>4, Zenon DEF FrameReady, Available, PayloadStart, PayloadSize
  <1> QED BY <1>2, <1>3, Zenon

LEMMA StrandedStep ==
    ASSUME LongMessages, ConnectionInv, WatermarkInv, NothingStranded,
           [FramingNext]_framing_vars
    PROVE  NothingStranded'
  <1>a. SUFFICES ASSUME ReadsByCallback', reader' = "idle",
                      ended' \notin {"no callback", "refused"}, FrameReady'
               PROVE  FALSE
    BY Zenon DEF NothingStranded, ReadsByCallback
  <1>b. ReadsByCallback
    <2>1. UNCHANGED <<polling, failing, stale_block>>
      BY SettingsStay, Zenon
    <2> QED BY <1>a, <2>1, Zenon DEF ReadsByCallback, Sound
  <1>c. IInv
    BY <1>b, Zenon DEF ReadsByCallback, Sound, ConnectionInv
  <1>0. FramingTypeOK /\ Roles /\ StreamInv
    BY <1>c, Zenon DEF IInv
  <1>1. CASE UNCHANGED <<stream, parser_vars, arrived, reader, ended>>
    BY <1>a, <1>b, <1>0, <1>1, ReadyUnchanged, Zenon
      DEF NothingStranded, ReadsByCallback, parser_vars
  <1>2. CASE SetCallback
    BY <1>1, <1>2, Zenon DEF SetCallback, writer_vars
  <1>3. ASSUME NEW s \in Senders, WritePayload(s) \/ \E m \in Messages : WriteHeader(s, m)
        PROVE  FALSE
    <2>1. /\ UNCHANGED <<consumed, arrived, cache_block, block_size, reader, ended>>
          /\ \E t \in Seq(Byte) : stream' = stream \o t
      <3>1. CASE WritePayload(s)
        <4>1. writing[s] \in Seq(Byte)
          <5>1. writing[s] \in Messages \cup {<<>>}
            BY <1>0, Zenon DEF FramingTypeOK
          <5>2. writing[s] \in Messages
            BY <3>1, <5>1, Zenon DEF WritePayload
          <5> QED BY <5>2, MessagesAssumption, Zenon
        <4> QED BY <3>1, <4>1, Zenon DEF WritePayload, parser_vars
      <3>2. ASSUME NEW m \in Messages, WriteHeader(s, m) PROVE <2>1!1 /\ <2>1!2
        <4>1. SizeBytes(Len(m)) \in Seq(Byte)
          BY MessagesAssumption, SizeRoundTrip
        <4> QED BY <3>2, <4>1, Zenon DEF WriteHeader, parser_vars
      <3> QED BY <1>3, <3>1, <3>2, Zenon
    <2>2. \A j \in 1 .. Len(stream) : stream'[j] = stream[j]
      BY <1>0, <2>1, Positions, Appended, Zenon
    <2>3. FrameReady
      BY <1>a, <1>0, <2>1, <2>2, ReadyUnchanged, Zenon
    <2> QED BY <1>a, <1>b, <2>1, <2>3, Zenon DEF NothingStranded, ReadsByCallback
  <1>4. ASSUME NEW n \in 1 .. Len(stream), Arrive(n) PROVE FALSE
    <2>1. /\ arrived' - consumed < watermark /\ arrived' = arrived + n
          /\ UNCHANGED <<consumed, cache_block, block_size>>
      BY <1>a, <1>0, <1>4, Zenon DEF Arrive, FramingTypeOK, parser_vars
    <2>2. Len(stream) \in Nat /\ consumed \in Nat /\ arrived \in Nat /\ consumed <= arrived
      BY <1>0, Positions, Zenon
    <2>3. cache_block /\ watermark = block_size
      <3>2. watermark = IF cache_block THEN block_size ELSE 0
        BY <1>b, Zenon DEF WatermarkInv
      <3>3. n \in Nat /\ arrived + n - consumed < watermark
        BY <2>1, <2>2
      <3>4. watermark # 0
        BY <2>2, <3>3
      <3> QED BY <3>2, <3>4, Zenon
    <2>4. arrived' - consumed >= block_size
      BY <1>a, <2>1, <2>3, Zenon DEF FrameReady, PayloadStart, PayloadSize
    <2>5. block_size \in Int
      BY <1>0, Zenon DEF FramingTypeOK
    <2>6. arrived' - consumed < block_size /\ arrived' - consumed \in Int
      BY <2>1, <2>2, <2>3
    <2> QED BY <2>4, <2>5, <2>6
  <1>5. CASE Drained \/ TooShort
    <2>1. /\ reader = "loop" /\ Available <= HeaderSize
          /\ UNCHANGED <<stream, consumed, arrived, cache_block, block_size>>
      <3>1. Available = 0 \/ Available \in 1 .. HeaderSize
        BY <1>5, Zenon DEF Drained, TooShort
      <3>2. Available <= HeaderSize
        BY <3>1 DEF HeaderSize
      <3> QED BY <1>5, <3>2, Zenon DEF Drained, TooShort, parser_vars, writer_vars
    <2>2. FrameReady /\ ~polling /\ ~stale_block
      BY <1>a, <1>b, <1>0, <2>1, ReadyUnchanged, Zenon DEF ReadsByCallback, Sound
    <2>3. Len(received) \in Nat /\ Len(sent) \in Nat /\ Available \in Nat
      BY <1>0, Positions, Zenon
    <2>4. ReceivedInOrder /\ Position /\ (Cached <=> cache_block)
      BY <1>c, <2>2, Zenon DEF IInv, Cached
    <2>5. ASSUME NEW i \in 1 .. Len(sent)
          PROVE  Len(sent[i]) \in Nat /\ Len(sent[i]) > HeaderSize
      BY <1>0, FrameFacts, Zenon DEF StreamInv, LongMessages
    <2>6. CASE cache_block
      <3>1. Len(received) + 1 \in 1 .. Len(sent) /\ block_size = Len(sent[Len(received) + 1])
        <4>1. Len(received) < Len(sent) /\ block_size = Len(sent[Len(received) + 1])
          BY <2>4, <2>6, Zenon DEF Position
        <4> QED BY <2>3, <4>1
      <3>2. Available >= block_size
        BY <2>2, <2>6, Zenon DEF FrameReady, PayloadStart, PayloadSize, Available
      <3>3. block_size \in Nat /\ block_size > HeaderSize
        BY <2>5, <3>1, Zenon
      <3>4. Available <= HeaderSize
        BY <2>1, Zenon
      <3> QED BY <2>3, <3>2, <3>3, <3>4 DEF HeaderSize
    <2>7. CASE ~cache_block
      <3>1. Available >= HeaderSize /\ arrived - (consumed + HeaderSize) >= SizeAt(consumed)
        BY <2>2, <2>7, Zenon DEF FrameReady, PayloadStart, PayloadSize
      <3>2. Len(received) < Len(sent) /\ SizeAt(consumed) = Len(sent[Len(received) + 1])
        BY <1>c, <2>2, <2>4, <2>7, <3>1, NextFrame, Zenon
      <3>3. Len(received) + 1 \in 1 .. Len(sent)
        BY <2>3, <3>2
      <3>4. SizeAt(consumed) \in Nat /\ SizeAt(consumed) > HeaderSize
        BY <2>5, <3>2, <3>3, Zenon
      <3>5. arrived \in Nat /\ consumed \in Nat
        BY <1>0, Positions, Zenon
      <3>6. Available <= HeaderSize
        BY <2>1, Zenon
      <3> QED BY <3>1, <3>4, <3>5, <3>6 DEF Available, HeaderSize
    <2> QED BY <2>6, <2>7, Zenon
  <1>7. CASE Incomplete
    <2>1. /\ arrived - PayloadStart < PayloadSize /\ cache_block' = TRUE
          /\ block_size' = PayloadSize /\ consumed' = PayloadStart /\ arrived' = arrived
          /\ reader = "loop" /\ Available > HeaderSize
      BY <1>7, Zenon DEF Incomplete
    <2>2. arrived - PayloadStart >= PayloadSize
      BY <1>a, <2>1, Zenon DEF FrameReady, PayloadStart, PayloadSize
    <2>3. PayloadSize \in Int /\ PayloadStart \in Nat /\ arrived \in Nat
      BY <1>0, <2>1, AtFrameReady, SizeIsInt, Positions, Zenon DEF AtFrame
    <2>4. arrived - PayloadStart < PayloadSize
      BY <2>1, Zenon
    <2> QED BY <2>2, <2>3, <2>4
  <1>8. ASSUME NEW then \in {"loop", "idle", "dead"}, Complete(then) PROVE FALSE
    BY <1>a, <1>8, Zenon DEF Complete
  <1>9. CASE BadSize
    BY <1>a, <1>9, Zenon DEF BadSize
  <1>10. CASE PollStart \/ PollHeader \/ PollPayload
    BY <1>b, <1>0, <1>10, Zenon
      DEF PollStart, PollHeader, PollPayload, Roles, ReadsByCallback
  <1>11. CASE UNCHANGED framing_vars
    BY <1>1, <1>11, Zenon DEF framing_vars, writer_vars
  <1>12. ASSUME NEW s \in Senders, PayloadFails(s) PROVE FALSE
    BY <1>b, <1>12, Zenon DEF PayloadFails, ReadsByCallback, Sound
  <1> QED BY <1>2, <1>3, <1>4, <1>5, <1>7, <1>8, <1>9, <1>10, <1>11, <1>12, Zenon
        DEF FramingNext

\* No complete message is left in the input buffer between read events, except
\* behind a message the callback refused or before there was a callback.
THEOREM NothingStrandedAlways ==
    ASSUME OneSender, LongMessages
    PROVE  FramingSpec => []NothingStranded
  <1>1. FramingInit => ConnectionInv /\ WatermarkInv /\ NothingStranded
    <2> SUFFICES ASSUME FramingInit PROVE ConnectionInv /\ WatermarkInv /\ NothingStranded
      OBVIOUS
    <2>1. ConnectionInv
      BY InitInv, Zenon
    <2>2. ReadsByCallback => ~cache_block
      BY <2>1, Zenon
        DEF FramingInit, ReadsByCallback, Sound, ConnectionInv, Typed, FramingTypeOK
    <2>3. Available = 0 /\ watermark = 0
      BY DEF FramingInit, Available
    <2>4. WatermarkInv
      BY <2>2, <2>3, Zenon DEF WatermarkInv
    <2>5. ~(Available >= HeaderSize)
      BY <2>3 DEF HeaderSize
    <2> QED BY <2>1, <2>2, <2>4, <2>5, Zenon DEF NothingStranded, ReadsByCallback, FrameReady
  <1>2. ConnectionInv /\ WatermarkInv /\ NothingStranded /\ [FramingNext]_framing_vars
            => ConnectionInv' /\ WatermarkInv' /\ NothingStranded'
    BY StepConnection, WatermarkStep, StrandedStep, Zenon DEF ConnectionInv
  <1> QED BY <1>1, <1>2, PTL DEF FramingSpec

-----------------------------------------------------------------------------
(* The buffer of an EventMessage. *)

\* part lies in buffer, at the cells after offset.
Placed(buffer, offset, part) ==
    /\ offset + Len(part) <= Len(buffer)
    /\ \A k \in 1 .. Len(part) : buffer[offset + k] = part[k]

\* What is appended to a buffer lies at its end, and the rest stays in place.
LEMMA PlacedAppended ==
    ASSUME NEW s \in Seq(Int), NEW t \in Seq(Int)
    PROVE  /\ s \o t \in Seq(Int) /\ Len(s \o t) = Len(s) + Len(t)
           /\ Placed(s \o t, Len(s), t)
           /\ \A offset \in Nat, part \in Seq(Int) :
                Placed(s, offset, part) => Placed(s \o t, offset, part)
  <1>1. /\ s \o t \in Seq(Int) /\ Len(s \o t) = Len(s) + Len(t)
        /\ Len(s) \in Nat /\ Len(t) \in Nat
        /\ \A k \in 1 .. Len(s) : (s \o t)[k] = s[k]
        /\ \A k \in 1 .. Len(t) : (s \o t)[Len(s) + k] = t[k]
    OBVIOUS
  <1> DEFINE b == s \o t
  <1> HIDE DEF b
  <1>2. Placed(b, Len(s), t)
    BY <1>1 DEF Placed, b
  <1>3. ASSUME NEW offset \in Nat, NEW part \in Seq(Int), Placed(s, offset, part)
        PROVE  Placed(b, offset, part)
    <2>1. Len(part) \in Nat /\ offset + Len(part) <= Len(s)
      BY <1>3 DEF Placed
    <2>2. \A k \in 1 .. Len(part) : offset + k \in 1 .. Len(s)
      BY <1>1, <2>1
    <2>3. \A k \in 1 .. Len(part) : b[offset + k] = part[k]
      BY <1>1, <1>3, <2>2, Zenon DEF Placed, b
    <2>4. offset + Len(part) <= Len(b)
      BY <1>1, <2>1 DEF b
    <2> QED BY <2>3, <2>4, Zenon DEF Placed
  <1> QED BY <1>1, <1>2, <1>3, Zenon DEF b

\* The cells a part lies in are read back as that part.
LEMMA PlacedRead ==
    ASSUME NEW buffer \in Seq(Int), NEW offset \in Nat, NEW part \in Seq(Int),
           Placed(buffer, offset, part)
    PROVE  SubSeq(buffer, offset + 1, offset + Len(part)) = part
  <1>1. PICK n \in Nat : n = Len(part)
    OBVIOUS
  <1>2. offset + n <= Len(buffer)
    BY <1>1, Zenon DEF Placed
  <1>3. PICK body : body = SubSeq(buffer, offset + 1, offset + n)
    BY Zenon
  <1>4. body \in Seq(Int) /\ Len(body) = n
    BY <1>2, <1>3
  <1>5. \A k \in 1 .. n : body[k] = buffer[offset + k]
    BY <1>2, <1>3
  <1>6. \A k \in 1 .. Len(body) : body[k] = part[k]
    BY <1>1, <1>4, <1>5, Zenon DEF Placed
  <1>7. body = part
    BY <1>1, <1>4, <1>6, SeqEqual, Zenon
  <1> QED BY <1>1, <1>3, <1>7, Zenon

\* A pointer to a C string in the buffer denotes the string.
LEMMA StringAtName ==
    ASSUME NEW buffer \in Seq(Int), NEW offset \in Nat, NEW name \in Name,
           Placed(buffer, offset, CString(name))
    PROVE  StringAt(buffer, offset) = name
  <1> DEFINE rest == SubSeq(buffer, offset + 1, Len(buffer))
             n == Len(name)
             Zeros == {i \in 1 .. Len(rest) : rest[i] = 0}
  <1>1. /\ n \in Nat /\ name \in Seq(Int)
        /\ \A k \in 1 .. n : name[k] # 0
    <2>1. Byte \ {0} \subseteq Int /\ 0 \notin Byte \ {0}
      BY DEF Byte
    <2>2. name \in Seq(Byte \ {0})
      BY Zenon DEF Name
    <2>3. n \in Nat /\ \A k \in 1 .. n : name[k] \in Byte \ {0}
      BY <2>2
    <2>4. name \in Seq(Int)
      BY <2>1, <2>2, <2>3
    <2> QED BY <2>1, <2>3, <2>4, Zenon
  <1>2. /\ Len(CString(name)) = n + 1
        /\ CString(name)[n + 1] = 0
        /\ \A k \in 1 .. n : CString(name)[k] = name[k]
    BY DEF CString, Name
  <1>3. /\ offset + n + 1 <= Len(buffer)
        /\ buffer[offset + (n + 1)] = 0
        /\ \A k \in 1 .. n : buffer[offset + k] = name[k]
    <2>1. /\ offset + Len(CString(name)) <= Len(buffer)
          /\ \A k \in 1 .. Len(CString(name)) : buffer[offset + k] = CString(name)[k]
      BY Zenon DEF Placed
    <2> HIDE DEF n
    <2>2. offset + n + 1 <= Len(buffer)
      BY <1>1, <1>2, <2>1
    <2>3. n + 1 \in 1 .. n + 1 /\ \A k \in 1 .. n : k \in 1 .. n + 1
      BY <1>1
    <2> QED BY <1>2, <2>1, <2>2, <2>3, Zenon
  <1>4. /\ Len(rest) = Len(buffer) - offset
        /\ \A k \in 1 .. Len(rest) : rest[k] = buffer[offset + k]
        /\ rest \in Seq(Int)
    <2>1. Len(buffer) \in Nat /\ offset < Len(buffer)
      BY <1>1, <1>3
    <2>2. /\ Len(rest) = Len(buffer) - offset
          /\ rest \in Seq(Int)
      BY <2>1
    <2>3. ASSUME NEW k \in 1 .. Len(rest) PROVE rest[k] = buffer[offset + k]
      BY <2>1, <2>2
    <2> QED BY <2>2, <2>3, Zenon
  <1> HIDE DEF rest, n
  <1>5. n + 1 \in Zeros /\ \A k \in Zeros : n + 1 <= k
    <2>1. Len(rest) \in Nat /\ n + 1 \in 1 .. Len(rest)
      BY <1>1, <1>3, <1>4
    <2>2. rest[n + 1] = 0
      BY <1>3, <1>4, <2>1, Zenon
    <2>3. ASSUME NEW k \in 1 .. Len(rest), k <= n PROVE rest[k] # 0
      <3>1. k \in 1 .. n
        BY <1>1, <2>1, <2>3
      <3> QED BY <1>1, <1>3, <1>4, <3>1, Zenon
    <2> QED BY <1>1, <2>1, <2>2, <2>3
  <1> HIDE DEF Zeros
  <1>6. Min(Zeros) = n + 1
    <2>1. Min(Zeros) \in Zeros /\ \A k \in Zeros : Min(Zeros) <= k
      BY <1>5, Zenon DEF Min
    <2>2. Min(Zeros) \in Int /\ Min(Zeros) <= n + 1 /\ n + 1 <= Min(Zeros)
      BY <2>1, <1>5 DEF Zeros
    <2> QED BY <2>2, <1>1
  <1>7. StringAt(buffer, offset) = SubSeq(rest, 1, n)
    <2>1. StringAt(buffer, offset) = SubSeq(rest, 1, Min(Zeros) - 1)
      BY Zenon DEF StringAt, rest, Zeros
    <2>2. Min(Zeros) - 1 = n
      BY <1>1, <1>6
    <2> QED BY <2>1, <2>2, Zenon
  <1>8. SubSeq(rest, 1, n) = name
    <2>1. n <= Len(rest) /\ Len(rest) \in Nat
      BY <1>1, <1>3, <1>4
    <2>2. /\ SubSeq(rest, 1, n) \in Seq(Int) /\ Len(SubSeq(rest, 1, n)) = n
          /\ \A k \in 1 .. n : SubSeq(rest, 1, n)[k] = rest[k] /\ k \in 1 .. Len(rest)
      BY <1>1, <1>4, <2>1, SMTT(30)
    <2>3. \A k \in 1 .. n : SubSeq(rest, 1, n)[k] = name[k]
      BY <1>3, <1>4, <2>2, Zenon
    <2>4. Len(name) = n
      BY Zenon DEF n
    <2> QED BY <1>1, <2>2, <2>3, <2>4, SeqEqual, Zenon
  <1> QED BY <1>7, <1>8, Zenon

\* A C string and a body are cells like any other.
LEMMA CellsOfParts ==
    /\ \A name \in Name : /\ CString(name) \in Seq(Int)
                          /\ Len(CString(name)) = Len(name) + 1 /\ Len(name) \in Nat
    /\ \A body \in Seq(Byte) : body \in Seq(Int) /\ Len(body) \in Nat
  <1>1. Byte \subseteq Int /\ Byte \ {0} \subseteq Int
    BY DEF Byte
  <1>2. ASSUME NEW body \in Seq(Byte) PROVE body \in Seq(Int) /\ Len(body) \in Nat
    <2>1. body \in Seq(Int)
      BY <1>1, SeqMonotonic, Zenon
    <2> QED BY <2>1
  <1>3. ASSUME NEW name \in Name
        PROVE  /\ CString(name) \in Seq(Int)
               /\ Len(CString(name)) = Len(name) + 1 /\ Len(name) \in Nat
    <2>1. name \in Seq(Int)
      <3>1. name \in Seq(Byte \ {0})
        BY Zenon DEF Name
      <3> QED BY <1>1, <3>1, SeqMonotonic, Zenon
    <2> QED BY <2>1 DEF CString
  <1> QED BY <1>2, <1>3, Zenon

\* The receiver's pointers lead to what the sender put there: init_message_ptr
\* undoes init_buffer_str, for names of every length, empty ones included, and
\* bodies with any bytes, zeros included.
THEOREM BufferRoundTrip ==
    \A e \in EventMessages : init_message_ptr(init_buffer_str(e)) = e
  <1> SUFFICES ASSUME NEW e \in EventMessages
               PROVE  init_message_ptr(init_buffer_str(e)) = e
    OBVIOUS
  <1> DEFINE o1 == CursorSize
             o2 == o1 + Len(e.group_name) + 1
             o3 == o2 + Len(e.mess_type) + 1
             o4 == o3 + Len(e.send_host_name) + 1
             o5 == o4 + Len(e.recive_host_name) + 1
             size == Len(e.message)
             b0 == <<o1, o2, o3, o4, o5, size>>
             b1 == b0 \o CString(e.group_name)
             b2 == b1 \o CString(e.mess_type)
             b3 == b2 \o CString(e.send_host_name)
             b4 == b3 \o CString(e.recive_host_name)
             b5 == b4 \o e.message
  <1>1. /\ e.group_name \in Name /\ e.mess_type \in Name
        /\ e.send_host_name \in Name /\ e.recive_host_name \in Name
        /\ e.message \in Seq(Byte)
        /\ e = [group_name |-> e.group_name, mess_type |-> e.mess_type,
                send_host_name |-> e.send_host_name,
                recive_host_name |-> e.recive_host_name, message |-> e.message]
    <2>1. e \in [group_name : Name, mess_type : Name, send_host_name : Name,
                 recive_host_name : Name, message : Seq(Byte)]
      BY EventMessageAssumption, Zenon
    <2> QED BY <2>1, Zenon
  <1>2. init_buffer_str(e) = b5
    BY Zenon DEF init_buffer_str
  <1>3. /\ o1 \in Nat /\ o2 \in Nat /\ o3 \in Nat /\ o4 \in Nat /\ o5 \in Nat
        /\ size \in Nat
    <2>1. /\ Len(e.group_name) \in Nat /\ Len(e.mess_type) \in Nat
          /\ Len(e.send_host_name) \in Nat /\ Len(e.recive_host_name) \in Nat
          /\ size \in Nat
      BY <1>1, CellsOfParts, Zenon
    <2> QED BY <1>1, <2>1, CellsOfParts, SMTT(30) DEF CursorSize
  <1>4. /\ o2 = o1 + Len(CString(e.group_name))
        /\ o3 = o2 + Len(CString(e.mess_type))
        /\ o4 = o3 + Len(CString(e.send_host_name))
        /\ o5 = o4 + Len(CString(e.recive_host_name))
    <2>1. /\ Len(CString(e.group_name)) = Len(e.group_name) + 1
          /\ Len(CString(e.mess_type)) = Len(e.mess_type) + 1
          /\ Len(CString(e.send_host_name)) = Len(e.send_host_name) + 1
          /\ Len(CString(e.recive_host_name)) = Len(e.recive_host_name) + 1
          /\ Len(e.group_name) \in Nat /\ Len(e.mess_type) \in Nat
          /\ Len(e.send_host_name) \in Nat /\ Len(e.recive_host_name) \in Nat
      BY <1>1, CellsOfParts, Zenon
    <2> HIDE DEF o1
    <2>2. o2 = o1 + Len(CString(e.group_name))
      BY <1>3, <2>1
    <2> HIDE DEF o2
    <2>3. o3 = o2 + Len(CString(e.mess_type))
      BY <1>3, <2>1
    <2> HIDE DEF o3
    <2>4. o4 = o3 + Len(CString(e.send_host_name))
      BY <1>3, <2>1
    <2> HIDE DEF o4
    <2>5. o5 = o4 + Len(CString(e.recive_host_name))
      BY <1>3, <2>1
    <2> QED BY <2>2, <2>3, <2>4, <2>5, Zenon
  <1>5. b0 \in Seq(Int) /\ Len(b0) = o1 /\ Placed(b0, 0, b0)
    <2> HIDE DEF o2, o3, o4, o5, size
    <2>1. b0 \in Seq(Int) /\ Len(b0) = 6
      BY <1>3 DEF CursorSize
    <2> HIDE DEF b0
    <2> QED BY <2>1 DEF Placed, CursorSize
  <1>6. /\ b0[1] = o1 /\ b0[2] = o2 /\ b0[3] = o3 /\ b0[4] = o4
        /\ b0[5] = o5 /\ b0[6] = size
    <2> HIDE DEF o1, o2, o3, o4, o5, size
    <2> QED OBVIOUS
  <1>7. /\ CString(e.group_name) \in Seq(Int) /\ CString(e.mess_type) \in Seq(Int)
        /\ CString(e.send_host_name) \in Seq(Int)
        /\ CString(e.recive_host_name) \in Seq(Int) /\ e.message \in Seq(Int)
    BY <1>1, CellsOfParts, Zenon
  <1> HIDE DEF b0, o1, o2, o3, o4, o5, size
  <1>8. /\ b1 \in Seq(Int) /\ Len(b1) = o2
        /\ Placed(b1, o1, CString(e.group_name)) /\ Placed(b1, 0, b0)
    BY <1>3, <1>4, <1>5, <1>7, PlacedAppended, Zenon
  <1> HIDE DEF b1
  <1>9. /\ b2 \in Seq(Int) /\ Len(b2) = o3
        /\ Placed(b2, o2, CString(e.mess_type))
        /\ Placed(b2, o1, CString(e.group_name)) /\ Placed(b2, 0, b0)
    BY <1>3, <1>4, <1>5, <1>7, <1>8, PlacedAppended, ZenonT(40)
  <1> HIDE DEF b2
  <1>10. /\ b3 \in Seq(Int) /\ Len(b3) = o4
         /\ Placed(b3, o3, CString(e.send_host_name))
         /\ Placed(b3, o2, CString(e.mess_type))
         /\ Placed(b3, o1, CString(e.group_name)) /\ Placed(b3, 0, b0)
    BY <1>3, <1>4, <1>5, <1>7, <1>9, PlacedAppended, ZenonT(40)
  <1> HIDE DEF b3
  <1>11. /\ b4 \in Seq(Int) /\ Len(b4) = o5
         /\ Placed(b4, o4, CString(e.recive_host_name))
         /\ Placed(b4, o3, CString(e.send_host_name))
         /\ Placed(b4, o2, CString(e.mess_type))
         /\ Placed(b4, o1, CString(e.group_name)) /\ Placed(b4, 0, b0)
    BY <1>3, <1>4, <1>5, <1>7, <1>10, PlacedAppended, ZenonT(40)
  <1> HIDE DEF b4
  <1>12. /\ b5 \in Seq(Int) /\ Len(b5) = o5 + size
         /\ Placed(b5, o5, e.message)
         /\ Placed(b5, o4, CString(e.recive_host_name))
         /\ Placed(b5, o3, CString(e.send_host_name))
         /\ Placed(b5, o2, CString(e.mess_type))
         /\ Placed(b5, o1, CString(e.group_name)) /\ Placed(b5, 0, b0)
    BY <1>3, <1>4, <1>5, <1>7, <1>11, PlacedAppended, ZenonT(40) DEF size
  <1> HIDE DEF b5
  <1>13. /\ b5[1] = o1 /\ b5[2] = o2 /\ b5[3] = o3 /\ b5[4] = o4
         /\ b5[5] = o5 /\ b5[6] = size
    <2>1. \A k \in 1 .. 6 : b5[0 + k] = b0[k]
      BY <1>5, <1>12, Zenon DEF Placed, CursorSize, o1
    <2> QED BY <1>6, <2>1
  <1>14. /\ StringAt(b5, o1) = e.group_name
         /\ StringAt(b5, o2) = e.mess_type
         /\ StringAt(b5, o3) = e.send_host_name
         /\ StringAt(b5, o4) = e.recive_host_name
    BY <1>1, <1>3, <1>12, StringAtName, Zenon
  <1>15. SubSeq(b5, o5 + 1, o5 + size) = e.message
    BY <1>3, <1>7, <1>12, PlacedRead, Zenon DEF size
  <1>16. init_message_ptr(b5) =
           [group_name |-> e.group_name, mess_type |-> e.mess_type,
            send_host_name |-> e.send_host_name,
            recive_host_name |-> e.recive_host_name, message |-> e.message]
    BY <1>13, <1>14, <1>15, Zenon DEF init_message_ptr
  <1> QED BY <1>1, <1>2, <1>16, Zenon

-----------------------------------------------------------------------------
(* The connection under the handle. *)

LEMMA BuffersAreMessages ==
    \A e \in EventMessages : init_buffer_str(e) \in Messages
  BY BufferAssumption, Zenon

\* The steps of the main thread that change an entry of mess_callback_map.
EntryStep(t) ==
    \/ InsertEntry(t) \/ AssignEntry(t) \/ ClearFunction(t) \/ ClearList(t)
    \/ register_recive_handler(t)

LEMMA NextCases ==
    ASSUME [Next]_vars
    PROVE  \/ \E s \in Senders, e \in EventMessages : sendMessage(s, e)
           \/ \E t \in Configured : EntryStep(t)
           \/ \E t \in Configured : readMessage(t)
           \/ DispatchMessage \/ DispatchGarbage \/ Transport \/ UNCHANGED vars
  BY ConfigAssumption, Zenon DEF Next, EntryStep

LEMMA HandleStep ==
    ASSUME [Next]_vars
    PROVE  [FramingNext]_framing_vars
  <1>1. CASE UNCHANGED framing_vars
    BY <1>1, Zenon
  <1>2. ASSUME NEW s \in Senders, NEW e \in EventMessages, sendMessage(s, e)
        PROVE  FramingNext
    <2>1. WriteHeader(s, init_buffer_str(e))
      BY <1>2, Zenon DEF sendMessage
    <2> QED BY <2>1, BuffersAreMessages, Zenon DEF FramingNext
  <1>3. ASSUME NEW t, EntryStep(t) \/ readMessage(t)
        PROVE  UNCHANGED framing_vars
    BY <1>3, Zenon DEF EntryStep, InsertEntry, AssignEntry, ClearFunction, ClearList,
                       register_recive_handler, readMessage
  <1>4. CASE DispatchMessage \/ DispatchGarbage
    <2>1. \E then \in {"loop", "idle", "dead"} : Complete(then)
      BY <1>4, Zenon DEF DispatchMessage, DispatchGarbage
    <2> QED BY <2>1, Zenon DEF FramingNext
  <1>5. CASE Transport
    BY <1>5, Zenon DEF Transport, FramingNext
  <1>6. CASE UNCHANGED vars
    BY <1>6, Zenon DEF vars
  <1> QED BY <1>1, <1>2, <1>3, <1>4, <1>5, <1>6, NextCases, Zenon

\* Every behaviour of EventMessageHandle is one of its connection.
THEOREM HandleUsesFraming == Spec => FramingSpec
  <1>1. Init => FramingInit
    BY Zenon DEF Init
  <1>2. [Next]_vars => [FramingNext]_framing_vars
    BY HandleStep, Zenon
  <1> QED BY <1>1, <1>2, PTL DEF Spec, FramingSpec

\* With one sending thread, the buffers that reach try_run_callback are those
\* given to sendMessage, whole, each once and in order.
THEOREM HandleIsFifo ==
    ASSUME OneSender
    PROVE  Spec => FifoSpec
  BY HandleUsesFraming, FramingIsFifo, PTL

\* A read event leaves no complete message behind, unless the type was unknown
\* or there was no callback yet.
THEOREM HandleStrandsNothing ==
    ASSUME OneSender
    PROVE  Spec => []NothingStranded
  <1>1. LongMessages
    BY BufferAssumption, Zenon DEF LongMessages
  <1> QED BY <1>1, HandleUsesFraming, NothingStrandedAlways, PTL

-----------------------------------------------------------------------------
(* Types. *)

\* TypeOK without the connection.
HandleTyped ==
    /\ entry \in [Configured -> Progress]
    /\ unprocessed \in [Configured -> Seq(EventMessages)]
    /\ requested \in Seq(EventMessages)
    /\ handled \in [Configured -> Seq(EventMessages)]
    /\ fetched \in [Configured -> Seq(EventMessages)]
    /\ early \in [Configured -> Nat]

\* A buffer taken from the stream gives the EventMessage it was made from.
LEMMA ReadMessage ==
    ASSUME NEW buffer \in Messages
    PROVE  init_message_ptr(buffer) \in EventMessages
  <1> PICK e \in EventMessages : buffer = init_buffer_str(e)
    BY BufferAssumption, Zenon
  <1> QED BY BufferRoundTrip, Zenon

\* The main thread at an entry changes that entry only.
LEMMA EntryStepTyped ==
    ASSUME HandleTyped, Typed, NEW t \in Configured, EntryStep(t)
    PROVE  /\ HandleTyped'
           /\ UNCHANGED <<framing_vars, requested, handled, fetched>>
           /\ \A u \in Configured : u # t =>
                UNCHANGED <<entry[u], unprocessed[u], early[u]>>
  <1>1. /\ entry \in [Configured -> Progress] /\ early \in [Configured -> Nat]
        /\ unprocessed \in [Configured -> Seq(EventMessages)]
    BY Zenon DEF HandleTyped
  <1>2. /\ Len(received) \in Nat /\ <<>> \in Seq(EventMessages)
    BY Positions DEF Typed
  <1>3. /\ UNCHANGED <<framing_vars, requested, handled, fetched>>
        /\ \E v \in Progress : entry' = [entry EXCEPT ![t] = v]
        /\ UNCHANGED unprocessed \/ unprocessed' = [unprocessed EXCEPT ![t] = <<>>]
        /\ UNCHANGED early \/ early' = [early EXCEPT ![t] = Len(received)]
    <2>1. CASE InsertEntry(t) \/ AssignEntry(t) \/ ClearFunction(t) \/ ClearList(t)
      BY <2>1, Zenon DEF InsertEntry, AssignEntry, ClearFunction, ClearList, Progress,
                         SettingUp, Ready
    <2>2. CASE register_recive_handler(t)
      <3>1. PICK v : /\ v = IF entry[t] = "ready" THEN "function" ELSE "registered"
                     /\ entry' = [entry EXCEPT ![t] = v]
        BY <2>2, Zenon DEF register_recive_handler
      <3>2. v \in Progress
        BY <3>1, Zenon DEF Progress, Ready
      <3> QED BY <2>2, <3>1, <3>2, Zenon DEF register_recive_handler
    <2> QED BY <2>1, <2>2, Zenon DEF EntryStep
  <1>4. PICK v \in Progress : entry' = [entry EXCEPT ![t] = v]
    BY <1>3, Zenon
  <1>5. /\ entry' \in [Configured -> Progress]
        /\ \A u \in Configured : u # t => entry'[u] = entry[u]
    BY <1>1, <1>4, Zenon
  <1>6. /\ unprocessed' \in [Configured -> Seq(EventMessages)]
        /\ \A u \in Configured : u # t => unprocessed'[u] = unprocessed[u]
    BY <1>1, <1>2, <1>3, Zenon
  <1>7. /\ early' \in [Configured -> Nat]
        /\ \A u \in Configured : u # t => early'[u] = early[u]
    BY <1>1, <1>2, <1>3, Zenon
  <1> QED BY <1>3, <1>5, <1>6, <1>7, Zenon DEF HandleTyped

\* Every step keeps the types of the handle; one case per action of Next.
LEMMA StepHandleTyped == HandleTyped /\ Typed /\ [Next]_vars => HandleTyped'
  <1> SUFFICES ASSUME HandleTyped, Typed, [Next]_vars PROVE HandleTyped'
    OBVIOUS
  <1>2. ASSUME NEW t \in Configured, EntryStep(t) PROVE HandleTyped'
    BY <1>2, EntryStepTyped, Zenon
  <1> USE DEF HandleTyped
  <1>1. ASSUME NEW s \in Senders, NEW e \in EventMessages, sendMessage(s, e)
        PROVE  HandleTyped'
    BY <1>1 DEF sendMessage
  <1>4. ASSUME NEW t \in Configured, readMessage(t) PROVE HandleTyped'
    <2>1. /\ unprocessed[t] \in Seq(EventMessages) /\ unprocessed[t] # <<>>
          /\ fetched[t] \in Seq(EventMessages)
      BY <1>4, Zenon DEF readMessage
    <2>2. Head(unprocessed[t]) \in EventMessages /\ Tail(unprocessed[t]) \in Seq(EventMessages)
      BY <2>1
    <2>3. Append(fetched[t], Head(unprocessed[t])) \in Seq(EventMessages)
      BY <2>1, <2>2
    <2> QED BY <1>4, <2>2, <2>3, Zenon DEF readMessage
  <1>5. CASE DispatchMessage
    <2> DEFINE mess == init_message_ptr(Payload)
    <2>1. mess \in EventMessages
      BY <1>5, ReadMessage, Zenon DEF DispatchMessage
    <2> HIDE DEF mess
    <2>2. UNCHANGED <<entry, requested, fetched, early>>
      BY <1>5, Zenon DEF DispatchMessage
    <2>3. CASE try_run_callback(mess)
      <3>1. mess.mess_type \in Configured
        BY <2>3, Zenon DEF try_run_callback
      <3>2. /\ Append(handled[mess.mess_type], mess) \in Seq(EventMessages)
            /\ Append(unprocessed[mess.mess_type], mess) \in Seq(EventMessages)
        BY <2>1, <3>1
      <3> QED BY <2>2, <2>3, <3>2, Zenon DEF try_run_callback
    <2>4. CASE UNCHANGED <<unprocessed, handled>>
      BY <2>2, <2>4, Zenon
    <2> QED BY <1>5, <2>3, <2>4, Zenon DEF DispatchMessage, mess
  <1>6. CASE DispatchGarbage \/ Transport \/ UNCHANGED vars
    BY <1>6, Zenon DEF DispatchGarbage, Transport, vars, handle_vars
  <1> QED BY <1>1, <1>2, <1>4, <1>5, <1>6, NextCases, Zenon

\* mess_callback_map, the unprocessed lists and the connection keep their types
\* whoever sends, for every configuration and set of messages: what the event
\* thread hands on is always an EventMessage some sender laid out.
THEOREM HandleTypeCorrect == Spec => []TypeOK
  <1>1. Init => Typed /\ HandleTyped
    <2>1. Init => Typed
      BY InitInv, Zenon DEF Init, ConnectionInv
    <2>2. Init => HandleTyped
      BY DEF Init, HandleTyped, Progress
    <2> QED BY <2>1, <2>2, Zenon
  <1>2. Typed /\ HandleTyped /\ [Next]_vars => Typed' /\ HandleTyped'
    BY HandleStep, TypedStep, StepHandleTyped, Zenon
  <1>3. Typed /\ HandleTyped => TypeOK
    BY Zenon DEF HandleTyped, Typed, TypeOK
  <1> QED BY <1>1, <1>2, <1>3, PTL DEF Spec

-----------------------------------------------------------------------------
(* OfType. *)

\* What OfType does with message i, given what it made of those before it.
OfTypeStep(s, t, f, i) ==
    IF i = 0 THEN <<>>
    ELSE IF s[i].mess_type = t THEN Append(f[i - 1], s[i]) ELSE f[i - 1]

\* f is what OfType computes for the first 0 .. n messages of s.
OfTypeUpTo(f, s, t, n) == f = [i \in 0 .. n |-> OfTypeStep(s, t, f, i)]

\* A set of numbers has a least one: induction by least counterexample.
LEMMA LeastOf ==
    ASSUME NEW S, S \subseteq Nat, S # {}
    PROVE  \E i \in S : \A j \in S : i <= j
  <1> DEFINE Less == {ss \in Nat \X Nat : ss[1] < ss[2]}
  <1>1. OpToRel(<, Nat) = Less
    BY Zenon DEF OpToRel
  <1>2. IsWellFoundedOn(Less, Nat)
    BY <1>1, NatLessThanWellFounded, Zenon
  <1>3. \E i \in S : \A j \in S : ~(<<j, i>> \in Less)
    <2> HIDE DEF Less
    <2> QED BY <1>2, WFMin, Zenon
  <1>4. \A i, j \in S : ~(<<j, i>> \in Less) => i <= j
    OBVIOUS
  <1> HIDE DEF Less
  <1> QED BY <1>3, <1>4, Zenon

\* The recursion of OfType has a solution, a sequence of messages at each step.
LEMMA OfTypeExists ==
    ASSUME NEW S, NEW s \in Seq(S), NEW t
    PROVE  \E f \in [0 .. Len(s) -> Seq(S)] : OfTypeUpTo(f, s, t, Len(s))
  <1> DEFINE Good(n) == \E f \in [0 .. n -> Seq(S)] : OfTypeUpTo(f, s, t, n)
             Bad == {n \in 0 .. Len(s) : ~Good(n)}
  <1> SUFFICES ASSUME Bad # {} PROVE FALSE
    OBVIOUS
  <1>1. PICK n \in Bad : \A m \in Bad : n <= m
    <2>1. Bad \subseteq Nat
      OBVIOUS
    <2> HIDE DEF Bad
    <2> QED BY <2>1, LeastOf, Zenon
  <1>2. n \in 0 .. Len(s) /\ ~Good(n) /\ Len(s) \in Nat
    OBVIOUS
  <1>3. CASE n = 0
    <2> DEFINE f == [i \in 0 .. 0 |-> <<>>]
    <2>1. f \in [0 .. 0 -> Seq(S)]
      OBVIOUS
    <2>2. OfTypeUpTo(f, s, t, 0)
      BY DEF OfTypeUpTo, OfTypeStep
    <2> QED BY <1>2, <1>3, <2>1, <2>2, Zenon
  <1>4. CASE n # 0
    <2>1. n - 1 \in 0 .. Len(s) /\ n \in 1 .. Len(s)
      BY <1>2, <1>4
    <2>2. Good(n - 1)
      <3> HIDE DEF Good
      <3> QED BY <1>1, <1>2, <2>1
    <2> PICK f \in [0 .. n - 1 -> Seq(S)] : OfTypeUpTo(f, s, t, n - 1)
      BY <2>2, Zenon
    <2> DEFINE g == [i \in 0 .. n |-> IF i = n THEN OfTypeStep(s, t, f, n) ELSE f[i]]
    <2>3. OfTypeStep(s, t, f, n) \in Seq(S)
      <3>1. s[n] \in S /\ f[n - 1] \in Seq(S)
        BY <2>1
      <3> QED BY <3>1, <2>1 DEF OfTypeStep
    <2>4. g \in [0 .. n -> Seq(S)]
      BY <2>1, <2>3
    <2>5. ASSUME NEW i \in 0 .. n PROVE g[i] = OfTypeStep(s, t, g, i)
      <3>1. CASE i = n
        <4>1. g[n - 1] = f[n - 1] /\ g[n] = OfTypeStep(s, t, f, n)
          BY <2>1
        <4> HIDE DEF g
        <4> QED BY <3>1, <4>1, <2>1, Zenon DEF OfTypeStep
      <3>2. CASE i # n
        <4>1. i \in 0 .. n - 1 /\ g[i] = f[i]
          BY <2>1, <3>2
        <4>2. i # 0 => g[i - 1] = f[i - 1]
          BY <2>1, <4>1
        <4>3. f[i] = OfTypeStep(s, t, f, i)
          BY <4>1, Zenon DEF OfTypeUpTo
        <4> HIDE DEF g
        <4> QED BY <4>1, <4>2, <4>3, Zenon DEF OfTypeStep
      <3> QED BY <3>1, <3>2, Zenon
    <2>6. OfTypeUpTo(g, s, t, n)
      <3> HIDE DEF g
      <3> QED BY <2>4, <2>5, Zenon DEF OfTypeUpTo
    <2> QED BY <1>2, <2>4, <2>6, Zenon
  <1> QED BY <1>3, <1>4, Zenon

\* s and r begin with the same n messages.
SameUpTo(s, r, n) == \A i \in 1 .. n : s[i] = r[i]

\* It has one only, which depends on the messages read so far and no others.
LEMMA OfTypeUnique ==
    ASSUME NEW s, NEW r, NEW t, NEW n \in Nat, NEW m \in Nat, n <= m,
           SameUpTo(s, r, n), NEW f, NEW g, OfTypeUpTo(f, s, t, n), OfTypeUpTo(g, r, t, m)
    PROVE  \A i \in 0 .. n : f[i] = g[i]
  <1> DEFINE Bad == {i \in 0 .. n : f[i] # g[i]}
  <1> SUFFICES ASSUME Bad # {} PROVE FALSE
    OBVIOUS
  <1>1. PICK i \in Bad : \A j \in Bad : i <= j
    <2>1. Bad \subseteq Nat
      OBVIOUS
    <2> HIDE DEF Bad
    <2> QED BY <2>1, LeastOf, Zenon
  <1>2. f[i] = OfTypeStep(s, t, f, i) /\ g[i] = OfTypeStep(r, t, g, i)
    <2>1. i \in 0 .. n /\ i \in 0 .. m
      BY <1>1
    <2>2. \A j \in 0 .. n : f[j] = OfTypeStep(s, t, f, j)
      BY Zenon DEF OfTypeUpTo
    <2>3. \A j \in 0 .. m : g[j] = OfTypeStep(r, t, g, j)
      BY Zenon DEF OfTypeUpTo
    <2> QED BY <2>1, <2>2, <2>3, Zenon
  <1>3. i # 0
    BY <1>1, <1>2, Zenon DEF OfTypeStep
  <1>4. i - 1 \in 0 .. n /\ i \in 1 .. n
    BY <1>1, <1>3
  <1>5. f[i - 1] = g[i - 1]
    BY <1>1, <1>4
  <1> QED BY <1>1, <1>2, <1>3, <1>4, <1>5, Zenon DEF OfTypeStep, SameUpTo

\* OfType is the last value of that solution.
LEMMA OfTypeValue ==
    ASSUME NEW S, NEW s \in Seq(S), NEW t
    PROVE  \E f \in [0 .. Len(s) -> Seq(S)] :
              OfTypeUpTo(f, s, t, Len(s)) /\ OfType(s, t) = f[Len(s)]
  <1> DEFINE g == CHOOSE f : f = [i \in 0 .. Len(s) |-> IF i = 0 THEN <<>>
                    ELSE IF s[i].mess_type = t THEN Append(f[i - 1], s[i]) ELSE f[i - 1]]
  <1>1. OfType(s, t) = g[Len(s)]
    BY Zenon DEF OfType
  <1>2. \E f : f = [i \in 0 .. Len(s) |-> IF i = 0 THEN <<>>
                    ELSE IF s[i].mess_type = t THEN Append(f[i - 1], s[i]) ELSE f[i - 1]]
    <2> PICK f \in [0 .. Len(s) -> Seq(S)] : OfTypeUpTo(f, s, t, Len(s))
      BY OfTypeExists, Zenon
    <2>1. f = [i \in 0 .. Len(s) |-> IF i = 0 THEN <<>>
                    ELSE IF s[i].mess_type = t THEN Append(f[i - 1], s[i]) ELSE f[i - 1]]
      BY Zenon DEF OfTypeUpTo, OfTypeStep
    <2> QED BY <2>1, Zenon
  <1>3. g = [i \in 0 .. Len(s) |-> IF i = 0 THEN <<>>
                    ELSE IF s[i].mess_type = t THEN Append(g[i - 1], s[i]) ELSE g[i - 1]]
    BY <1>2, Zenon
  <1> HIDE DEF g
  <1>4. OfTypeUpTo(g, s, t, Len(s))
    BY <1>3, Zenon DEF OfTypeUpTo, OfTypeStep
  <1>5. PICK f \in [0 .. Len(s) -> Seq(S)] : OfTypeUpTo(f, s, t, Len(s))
    BY OfTypeExists, Zenon
  <1>6. Len(s) \in Nat
    OBVIOUS
  <1>7. \A i \in 0 .. Len(s) : f[i] = g[i]
    BY <1>4, <1>5, <1>6, OfTypeUnique DEF SameUpTo
  <1> QED BY <1>1, <1>5, <1>6, <1>7

\* Nothing is of any type.
LEMMA OfTypeEmpty == ASSUME NEW t PROVE OfType(<<>>, t) = <<>>
  <1>1. <<>> \in Seq(Nat) /\ Len(<<>>) = 0
    OBVIOUS
  <1> PICK f \in [0 .. Len(<<>>) -> Seq(Nat)] :
             OfTypeUpTo(f, <<>>, t, Len(<<>>)) /\ OfType(<<>>, t) = f[Len(<<>>)]
    BY <1>1, OfTypeValue, Zenon
  <1>2. OfTypeUpTo(f, <<>>, t, 0) /\ OfType(<<>>, t) = f[0]
    BY <1>1, Zenon
  <1> QED BY <1>2 DEF OfTypeUpTo, OfTypeStep

\* OfType of one message more.
LEMMA OfTypeAppend ==
    ASSUME NEW S, NEW s \in Seq(S), NEW e \in S, NEW t
    PROVE  /\ OfType(s, t) \in Seq(S)
           /\ OfType(Append(s, e), t) =
                IF e.mess_type = t THEN Append(OfType(s, t), e) ELSE OfType(s, t)
  <1> PICK n \in Nat : n = Len(s)
    OBVIOUS
  <1> PICK m \in Nat : m = n + 1
    OBVIOUS
  <1>0. Append(s, e) \in Seq(S)
    OBVIOUS
  <1> PICK r \in Seq(S) : r = Append(s, e)
    BY <1>0, Zenon
  <1>1. n <= m /\ Len(r) = m /\ r[m] = e /\ SameUpTo(s, r, n)
    BY DEF SameUpTo
  <1> PICK f \in [0 .. n -> Seq(S)] : OfTypeUpTo(f, s, t, n) /\ OfType(s, t) = f[n]
    BY OfTypeValue, Zenon
  <1> PICK g \in [0 .. m -> Seq(S)] : OfTypeUpTo(g, r, t, m) /\ OfType(r, t) = g[m]
    <2> PICK g \in [0 .. Len(r) -> Seq(S)] :
               OfTypeUpTo(g, r, t, Len(r)) /\ OfType(r, t) = g[Len(r)]
      BY OfTypeValue, Zenon
    <2> QED BY <1>1, Zenon
  <1>2. f[n] = g[n]
    <2>1. \A i \in 0 .. n : f[i] = g[i]
      BY <1>1, OfTypeUnique, SMTT(30)
    <2> QED BY <2>1
  <1>3. g[m] = OfTypeStep(r, t, g, m)
    <2>1. \A i \in 0 .. m : g[i] = OfTypeStep(r, t, g, i)
      BY Zenon DEF OfTypeUpTo
    <2> QED BY <2>1
  <1>4. g[m] = IF e.mess_type = t THEN Append(g[n], e) ELSE g[n]
    BY <1>1, <1>3 DEF OfTypeStep
  <1> QED BY <1>2, <1>4

-----------------------------------------------------------------------------
(* PhaseOrder. *)

\* The buffers given to the connection are those of the messages requested.
RequestsLaidOut ==
    /\ Len(requested) = Len(sent)
    /\ \A i \in 1 .. Len(sent) : sent[i] = init_buffer_str(requested[i])

\* The phases of a type follow each other: nothing is read before it is ready,
\* nothing handled before it has a function; and what came early was taken.
Phases ==
    \A t \in Configured :
        /\ entry[t] \notin Ready => fetched[t] = <<>>
        /\ entry[t] \notin {"function", "registered"} => handled[t] = <<>>
        /\ early[t] <= Len(received)

PhaseInv == HandleTyped /\ RequestsLaidOut /\ Phases /\ PhaseOrder

\* The four phases of a type, end to end.
Joined(a, f, u, h) == a \o f \o u \o h

\* Append and the empty sequence, under names that can be left unexpanded.
Then(s, e) == Append(s, e)
Empty(s) == s = <<>>

\* A parked message that is read leaves the parked ones at their front.
LEMMA JoinedRead ==
    ASSUME NEW S, NEW a \in Seq(S), NEW f \in Seq(S), NEW u \in Seq(S), NEW h \in Seq(S),
           u # <<>>
    PROVE  Joined(a, Append(f, Head(u)), Tail(u), h) = Joined(a, f, u, h)
  <1>1. Head(u) \in S /\ Tail(u) \in Seq(S) /\ a \o f \in Seq(S)
    OBVIOUS
  <1>2. a \o Append(f, Head(u)) = Append(a \o f, Head(u))
    BY <1>1
  <1>3. ASSUME NEW s \in Seq(S) PROVE Append(s, Head(u)) \o Tail(u) = s \o u
    BY SMTT(30)
  <1> QED BY <1>1, <1>2, <1>3, Zenon DEF Joined

\* A message goes to the end of a sequence that others come before.
LEMMA AppendLast ==
    ASSUME NEW S, NEW s \in Seq(S), NEW t \in Seq(S), NEW e \in S
    PROVE  s \o Append(t, e) = Append(s \o t, e)
  OBVIOUS

\* What a parked message and a handled one make of the phases.
LEMMA JoinedParked ==
    ASSUME NEW S, NEW a \in Seq(S), NEW f \in Seq(S), NEW u \in Seq(S), NEW h \in Seq(S),
           NEW e \in S, Empty(h)
    PROVE  Joined(a, f, Then(u, e), h) = Then(Joined(a, f, u, h), e)
  <1>1. a \o f \in Seq(S) /\ a \o f \o u \in Seq(S)
    OBVIOUS
  <1>2. a \o f \o Append(u, e) = Append(a \o f \o u, e)
    BY <1>1, AppendLast
  <1>3. Append(a \o f \o u, e) \in Seq(S)
    BY <1>1
  <1>4. ASSUME NEW s \in Seq(S) PROVE s \o <<>> = s
    OBVIOUS
  <1> QED BY <1>1, <1>2, <1>3, <1>4, Zenon DEF Joined, Then, Empty

LEMMA JoinedHandled ==
    ASSUME NEW S, NEW a \in Seq(S), NEW f \in Seq(S), NEW u \in Seq(S), NEW h \in Seq(S),
           NEW e \in S
    PROVE  Joined(a, f, u, Then(h, e)) = Then(Joined(a, f, u, h), e)
  <1>1. a \o f \o u \in Seq(S)
    OBVIOUS
  <1> QED BY <1>1, AppendLast, SMTT(30) DEF Joined, Then

LEMMA JoinedEmpty ==
    ASSUME NEW S, NEW a \in Seq(S)
    PROVE  Joined(a, <<>>, <<>>, <<>>) = a
  BY DEF Joined

\* The messages taken so far, after a request and after one message more.
LEMMA TakenSteps ==
    ASSUME NEW S, NEW s \in Seq(S), NEW n \in Nat, n <= Len(s), NEW e \in S
    PROVE  /\ SubSeq(s, 1, n) \in Seq(S)
           /\ SubSeq(Append(s, e), 1, n) = SubSeq(s, 1, n)
           /\ n < Len(s) => /\ s[n + 1] \in S
                            /\ SubSeq(s, 1, n + 1) = Append(SubSeq(s, 1, n), s[n + 1])
  <1>1. SubSeq(s, 1, n) \in Seq(S) /\ Len(SubSeq(s, 1, n)) = n
    OBVIOUS
  <1>2. SubSeq(Append(s, e), 1, n) = SubSeq(s, 1, n)
    <2>1. /\ SubSeq(Append(s, e), 1, n) \in Seq(S)
          /\ Len(SubSeq(Append(s, e), 1, n)) = n
      OBVIOUS
    <2>2. \A i \in 1 .. n : SubSeq(Append(s, e), 1, n)[i] = SubSeq(s, 1, n)[i]
      OBVIOUS
    <2> QED BY <1>1, <2>1, <2>2, SeqEqual, Zenon
  <1>3. ASSUME n < Len(s)
        PROVE  /\ s[n + 1] \in S
               /\ SubSeq(s, 1, n + 1) = Append(SubSeq(s, 1, n), s[n + 1])
    <2>1. s[n + 1] \in S
      BY <1>3
    <2>2. SubSeq(s, 1, n + 1) \in Seq(S) /\ Len(SubSeq(s, 1, n + 1)) = n + 1
      BY <1>3
    <2>3. /\ Append(SubSeq(s, 1, n), s[n + 1]) \in Seq(S)
          /\ Len(Append(SubSeq(s, 1, n), s[n + 1])) = n + 1
      BY <1>1, <2>1
    <2>4. ASSUME NEW i \in 1 .. n + 1
          PROVE  SubSeq(s, 1, n + 1)[i] = Append(SubSeq(s, 1, n), s[n + 1])[i]
      <3>1. SubSeq(s, 1, n + 1)[i] = s[i]
        BY <1>3
      <3>2. CASE i = n + 1
        BY <1>1, <3>1, <3>2
      <3>3. CASE i # n + 1
        <4>1. i \in 1 .. n
          BY <3>3
        <4>2. SubSeq(s, 1, n)[i] = s[i]
          BY <4>1
        <4>3. Append(SubSeq(s, 1, n), s[n + 1])[i] = SubSeq(s, 1, n)[i]
          BY <1>1, <4>1
        <4> QED BY <3>1, <4>2, <4>3, Zenon
      <3> QED BY <3>2, <3>3, Zenon
    <2> QED BY <2>1, <2>2, <2>3, <2>4, SeqEqual
  <1> QED BY <1>1, <1>2, <1>3, Zenon

\* The messages of type t that were taken before it was ready.
EarlyOnes(t) == OfType(SubSeq(requested, 1, early[t]), t)

\* PhaseOrder for one type.
InPhases(t) ==
    entry[t] \in Ready =>
        OfType(SubSeq(requested, 1, Len(received)), t) =
            Joined(EarlyOnes(t), fetched[t], unprocessed[t], handled[t])

AllInPhases == \A t \in Configured : InPhases(t)

\* A receiver of which PhaseOrder speaks.
Live == ~polling /\ Sound /\ reader # "dead"

\* PhaseOrder, type by type.
LEMMA PhaseOrderByType ==
    PhaseOrder <=> (Live => AllInPhases)
  BY Zenon DEF PhaseOrder, AllInPhases, InPhases, Joined, EarlyOnes, Live

\* The same after a step.
LEMMA PhaseOrderByTypeNext ==
    PhaseOrder' <=> (Live' => AllInPhases')
  BY PhaseOrderByType, PTL

\* A step that leaves the messages of a type alone keeps their order.
LEMMA QuietPhase ==
    ASSUME NEW t, InPhases(t), UNCHANGED <<requested, received>>,
           entry'[t] \in Ready => entry[t] \in Ready,
           UNCHANGED <<early[t], fetched[t], unprocessed[t], handled[t]>>
    PROVE  InPhases(t)'
  <1>1. OfType(SubSeq(requested, 1, Len(received)), t)' =
          OfType(SubSeq(requested, 1, Len(received)), t)
    BY DEF OfType
  <1>2. EarlyOnes(t)' = EarlyOnes(t)
    BY DEF EarlyOnes, OfType
  <1> QED BY <1>1, <1>2, Zenon DEF InPhases, Joined

\* Steps that touch no message keep the order of all types.
LEMMA QuietPhases ==
    ASSUME AllInPhases,
           UNCHANGED <<requested, received, entry, early, fetched, unprocessed, handled>>
    PROVE  AllInPhases'
  <1> SUFFICES ASSUME NEW t \in Configured PROVE InPhases(t)'
    BY Zenon DEF AllInPhases
  <1>1. InPhases(t) /\ UNCHANGED <<entry[t], early[t], fetched[t], unprocessed[t], handled[t]>>
    BY Zenon DEF AllInPhases
  <1> QED BY <1>1, QuietPhase, Zenon

\* The connection's own steps take nothing from a stream that is not polled.
LEMMA TransportReceives ==
    ASSUME Typed, Transport, ~polling
    PROVE  UNCHANGED received
  <1>1. ~PollPayload
    BY Zenon DEF PollPayload, Typed, Roles
  <1> QED BY <1>1, Zenon DEF Transport, WritePayload, PayloadFails, SetCallback, Arrive,
                             Drained, TooShort, Incomplete, BadSize, PollStart, PollHeader

\* A receiver that is live after a step was so before it.
LEMMA LiveBefore ==
    ASSUME [FramingNext]_framing_vars, Live'
    PROVE  Live
  <1>1. UNCHANGED <<polling, failing, stale_block>>
    BY SettingsStay, Zenon
  <1>2. reader = "dead" => reader' = "dead"
    BY Zenon DEF FramingNext, framing_vars, WriteHeader, WritePayload, PayloadFails,
       SetCallback, Arrive, Drained, TooShort, Incomplete, BadSize, Complete, PollStart,
       PollHeader, PollPayload
  <1> QED BY <1>1, <1>2, Zenon DEF Live, Sound

\* What is early has been taken, and what has been taken was requested.
LEMMA EarlyFacts ==
    ASSUME PhaseInv, IInv, ~stale_block, NEW t \in Configured
    PROVE  /\ requested \in Seq(EventMessages) /\ Len(requested) \in Nat
           /\ Len(received) \in Nat /\ Len(received) <= Len(requested)
           /\ early[t] \in Nat /\ early[t] <= Len(requested)
           /\ fetched[t] \in Seq(EventMessages) /\ unprocessed[t] \in Seq(EventMessages)
           /\ handled[t] \in Seq(EventMessages) /\ entry[t] \in Progress
  <1>1. /\ requested \in Seq(EventMessages) /\ Len(received) \in Nat
        /\ Len(received) <= Len(requested)
    BY Positions, Zenon DEF PhaseInv, HandleTyped, RequestsLaidOut, IInv, ReceivedInOrder
  <1>2. early[t] \in Nat /\ early[t] <= Len(received)
    BY Zenon DEF PhaseInv, HandleTyped, Phases
  <1>3. /\ fetched[t] \in Seq(EventMessages) /\ unprocessed[t] \in Seq(EventMessages)
        /\ handled[t] \in Seq(EventMessages) /\ entry[t] \in Progress
    BY Zenon DEF PhaseInv, HandleTyped
  <1>4. Len(requested) \in Nat
    BY <1>1
  <1>5. early[t] <= Len(requested)
    BY <1>1, <1>2, <1>4
  <1> QED BY <1>1, <1>2, <1>3, <1>4, <1>5, Zenon

LEMMA OfTypeTyped ==
    ASSUME NEW s \in Seq(EventMessages), NEW n \in Nat, n <= Len(s), NEW t
    PROVE  OfType(SubSeq(s, 1, n), t) \in Seq(EventMessages)
  <1>1. SubSeq(s, 1, n) \in Seq(EventMessages)
    OBVIOUS
  <1> PICK q \in Seq(EventMessages) : q = SubSeq(s, 1, n)
    BY <1>1, Zenon
  <1>2. PICK f \in [0 .. Len(q) -> Seq(EventMessages)] :
          OfTypeUpTo(f, q, t, Len(q)) /\ OfType(q, t) = f[Len(q)]
    BY OfTypeValue, Zenon
  <1>3. Len(q) \in 0 .. Len(q)
    OBVIOUS
  <1>4. f[Len(q)] \in Seq(EventMessages)
    BY <1>3, Zenon
  <1> QED BY <1>2, <1>4, Zenon

\* A new request leaves the messages taken so far alone (sendMessage).
LEMMA SendPhases ==
    ASSUME PhaseInv, IInv, ~stale_block, NEW s \in Senders, NEW e \in EventMessages,
           sendMessage(s, e), AllInPhases
    PROVE  AllInPhases'
  <1>1. /\ requested' = Append(requested, e)
        /\ UNCHANGED <<received, entry, early, fetched, unprocessed, handled>>
    BY Zenon DEF sendMessage, WriteHeader
  <1> SUFFICES ASSUME NEW t \in Configured PROVE InPhases(t)'
    BY Zenon DEF AllInPhases
  <1>2. /\ requested \in Seq(EventMessages) /\ Len(received) \in Nat
        /\ Len(received) <= Len(requested)
        /\ early[t] \in Nat /\ early[t] <= Len(requested)
    BY EarlyFacts, Zenon
  <1>3. /\ SubSeq(requested', 1, Len(received')) = SubSeq(requested, 1, Len(received))
        /\ SubSeq(requested', 1, early'[t]) = SubSeq(requested, 1, early[t])
    BY <1>1, <1>2, TakenSteps
  <1>4. OfType(SubSeq(requested, 1, Len(received)), t)' =
          OfType(SubSeq(requested, 1, Len(received)), t)
    BY <1>3, Zenon
  <1>5. EarlyOnes(t)' = EarlyOnes(t)
    BY <1>3, Zenon DEF EarlyOnes
  <1> QED BY <1>1, <1>4, <1>5, Zenon DEF AllInPhases, InPhases, Joined

\* The set-up of a type ends with its lists empty (init_group_infor_map), and a
\* handler that is registered changes no list.
LEMMA EntryPhases ==
    ASSUME PhaseInv, IInv, ~stale_block, NEW u \in Configured, EntryStep(u), AllInPhases
    PROVE  AllInPhases'
  <1>1. /\ UNCHANGED <<requested, received, handled, fetched>>
        /\ \A t \in Configured : t # u =>
             UNCHANGED <<entry[t], unprocessed[t], early[t]>>
    BY EntryStepTyped, Zenon DEF PhaseInv, IInv, Typed, framing_vars
  <1> SUFFICES ASSUME NEW t \in Configured PROVE InPhases(t)'
    BY Zenon DEF AllInPhases
  <1>2. InPhases(t)
    BY Zenon DEF AllInPhases
  <1>3. CASE t # u
    <2>1. UNCHANGED <<entry[t], early[t], fetched[t], unprocessed[t], handled[t]>>
      BY <1>1, <1>3, Zenon
    <2> QED BY <1>1, <1>2, <2>1, QuietPhase, Zenon
  <1>4. CASE t = u /\ (InsertEntry(u) \/ AssignEntry(u) \/ ClearFunction(u))
    <2>1. entry \in [Configured -> Progress]
      BY Zenon DEF PhaseInv, HandleTyped
    <2>2. entry'[t] \notin Ready
      BY <1>4, <2>1, Zenon DEF InsertEntry, AssignEntry, ClearFunction, Ready
    <2> QED BY <2>2, Zenon DEF InPhases
  <1>5. CASE t = u /\ register_recive_handler(u)
    <2>1. entry[t] \in Ready /\ UNCHANGED <<early, fetched, unprocessed, handled>>
      BY <1>5, Zenon DEF register_recive_handler, Initialised
    <2>2. UNCHANGED <<early[t], fetched[t], unprocessed[t], handled[t]>>
      BY <2>1, Zenon
    <2> QED BY <1>1, <1>2, <2>1, <2>2, QuietPhase, Zenon
  <1>6. CASE t = u /\ ClearList(u)
    <2>1. /\ unprocessed \in [Configured -> Seq(EventMessages)]
          /\ early \in [Configured -> Nat] /\ Phases
      BY Zenon DEF PhaseInv, HandleTyped
    <2>2. unprocessed'[t] = <<>> /\ early'[t] = Len(received)
      BY <1>6, <2>1, Zenon DEF ClearList
    <2>3. entry[t] = "cleared"
      BY <1>6, Zenon DEF ClearList
    <2>4. fetched'[t] = <<>> /\ handled'[t] = <<>>
      BY <1>1, <2>1, <2>3, Zenon DEF Phases, Ready
    <2>5. PICK a \in Seq(EventMessages) :
            a = OfType(SubSeq(requested, 1, Len(received)), t)
      BY EarlyFacts, OfTypeTyped, Zenon
    <2>6. OfType(SubSeq(requested, 1, Len(received)), t)' = a
      BY <1>1, <2>5 DEF OfType
    <2>7. EarlyOnes(t)' = a
      BY <1>1, <2>2, <2>5 DEF EarlyOnes, OfType
    <2>8. Joined(a, <<>>, <<>>, <<>>) = a
      BY JoinedEmpty, Zenon
    <2> QED BY <2>2, <2>4, <2>6, <2>7, <2>8, Zenon DEF InPhases
  <1> QED BY <1>3, <1>4, <1>5, <1>6, Zenon DEF EntryStep

\* A parked message that is read changes its place within the order
\* (readMessage).
LEMMA ReadPhases ==
    ASSUME PhaseInv, IInv, ~stale_block, NEW u \in Configured, readMessage(u), AllInPhases
    PROVE  AllInPhases'
  <1>1. UNCHANGED <<requested, received, entry, early, handled>>
    BY Zenon DEF readMessage, framing_vars
  <1> SUFFICES ASSUME NEW t \in Configured PROVE InPhases(t)'
    BY Zenon DEF AllInPhases
  <1>2. InPhases(t) /\ UNCHANGED <<entry[t], early[t], handled[t]>>
    BY <1>1, Zenon DEF AllInPhases
  <1>3. CASE t # u
    <2>1. fetched'[t] = fetched[t] /\ unprocessed'[t] = unprocessed[t]
      BY <1>3, Zenon DEF readMessage, PhaseInv, HandleTyped
    <2> QED BY <1>1, <1>2, <2>1, QuietPhase, Zenon
  <1>4. CASE t = u
    <2>1. /\ fetched'[t] = Append(fetched[t], Head(unprocessed[t]))
          /\ unprocessed'[t] = Tail(unprocessed[t])
          /\ unprocessed[t] # <<>>
      BY <1>4, Zenon DEF readMessage, PhaseInv, HandleTyped
    <2>2. PICK a \in Seq(EventMessages), f \in Seq(EventMessages),
               w \in Seq(EventMessages), h \in Seq(EventMessages) :
            a = EarlyOnes(t) /\ f = fetched[t] /\ w = unprocessed[t] /\ h = handled[t]
      BY EarlyFacts, OfTypeTyped, Zenon DEF EarlyOnes
    <2>3. Joined(a, Append(f, Head(w)), Tail(w), h) = Joined(a, f, w, h)
      BY <2>1, <2>2, JoinedRead
    <2>4. OfType(SubSeq(requested, 1, Len(received)), t)' =
            OfType(SubSeq(requested, 1, Len(received)), t)
      BY <1>1 DEF OfType
    <2>5. EarlyOnes(t)' = a
      BY <1>1, <2>2 DEF EarlyOnes, OfType
    <2> QED BY <1>2, <2>1, <2>2, <2>3, <2>4, <2>5, Zenon DEF InPhases
  <1> QED BY <1>3, <1>4, Zenon

\* What DispatchMessage takes is the next message requested, as it was given to
\* sendMessage; bytes that are no message never come out of such a stream.
LEMMA DispatchNext ==
    ASSUME PhaseInv, IInv, ~stale_block, NEW then \in {"loop", "idle", "dead"},
           Complete(then)
    PROVE  /\ Len(received) < Len(requested) /\ Len(received) \in Nat
           /\ Payload = init_buffer_str(requested[Len(received) + 1])
           /\ requested[Len(received) + 1] \in EventMessages
           /\ Payload \in Messages
           /\ init_message_ptr(Payload) = requested[Len(received) + 1]
           /\ Len(received') = Len(received) + 1
  <1> DEFINE n == Len(received)
             e == requested[n + 1]
  <1>1. AtFrame /\ TakePayload /\ PayloadThere
    BY CompleteTakes, Zenon DEF TakePayload, IInv, Typed
  <1>2. n \in Nat /\ n < Len(sent) /\ Payload = sent[n + 1]
    BY <1>1, CurrentFrame, WholePayload, Positions, Zenon DEF IInv
  <1>3. n < Len(requested) /\ Payload = init_buffer_str(e) /\ e \in EventMessages
    <2>1. Len(sent) \in Nat /\ n + 1 \in 1 .. Len(sent)
      BY <1>2, Positions DEF IInv
    <2>2. Len(requested) = Len(sent) /\ requested \in Seq(EventMessages)
      BY Zenon DEF PhaseInv, HandleTyped, RequestsLaidOut
    <2>3. sent[n + 1] = init_buffer_str(requested[n + 1])
      BY <2>1, Zenon DEF PhaseInv, RequestsLaidOut
    <2>4. requested[n + 1] \in EventMessages
      BY <2>1, <2>2
    <2> QED BY <1>2, <2>2, <2>3, <2>4, Zenon
  <1>4. Payload \in Messages
    BY <1>3, BuffersAreMessages, Zenon
  <1>5. init_message_ptr(Payload) = e
    BY <1>3, BufferRoundTrip, Zenon
  <1>6. Len(received') = n + 1
    <2>1. received \in Seq(Seq(Byte)) /\ received' = Append(received, Payload)
      BY <1>1, Positions, Zenon DEF IInv, TakePayload
    <2>2. Payload \in Seq(Byte)
      BY <1>4, MessagesAssumption, Zenon
    <2> QED BY <2>1, <2>2
  <1> QED BY <1>2, <1>3, <1>4, <1>5, <1>6, Zenon

\* The message taken goes to the end of the phase its type is in
\* (DispatchMessage with try_run_callback).
LEMMA DispatchPhases ==
    ASSUME PhaseInv, IInv, ~stale_block, DispatchMessage, reader' # "dead", AllInPhases
    PROVE  AllInPhases'
  <1> DEFINE n == Len(received)
             e == requested[n + 1]
             taken == SubSeq(requested, 1, n)
  <1>1. PICK then \in {"loop", "idle", "dead"} : Complete(then)
    BY Zenon DEF DispatchMessage
  <1>2. /\ n \in Nat /\ n < Len(requested) /\ e \in EventMessages
        /\ init_message_ptr(Payload) = e /\ Len(received') = n + 1
    BY <1>1, DispatchNext, Zenon
  <1>3. HandleTyped /\ Phases /\ requested \in Seq(EventMessages)
    BY Zenon DEF PhaseInv, HandleTyped
  <1>4. taken \in Seq(EventMessages) /\ SubSeq(requested, 1, n + 1) = Append(taken, e)
    BY <1>2, <1>3, TakenSteps
  <1>5. /\ UNCHANGED <<entry, requested, fetched, early>>
        /\ \/ try_run_callback(e)
           \/ NotFound(e) /\ UNCHANGED <<unprocessed, handled>>
    <2>1. ~Complete("dead")
      BY Zenon DEF Complete
    <2> QED BY <1>2, <2>1, Zenon DEF DispatchMessage
  <1> SUFFICES ASSUME NEW t \in Configured, entry[t] \in Ready PROVE InPhases(t)'
    BY <1>5, Zenon DEF AllInPhases, InPhases
  <1>6. OfType(taken, t) = Joined(EarlyOnes(t), fetched[t], unprocessed[t], handled[t])
    BY Zenon DEF AllInPhases, InPhases
  <1>7. PICK a \in Seq(EventMessages), f \in Seq(EventMessages),
             u \in Seq(EventMessages), h \in Seq(EventMessages),
             x \in EventMessages :
          /\ a = EarlyOnes(t) /\ f = fetched[t]
          /\ u = unprocessed[t] /\ h = handled[t] /\ x = e
    BY <1>2, EarlyFacts, OfTypeTyped, Zenon DEF EarlyOnes
  <1> DEFINE all == Joined(a, f, u, h)
  <1>8. OfType(SubSeq(requested, 1, Len(received)), t)' =
          IF e.mess_type = t THEN Append(all, x) ELSE all
    <2>1. SubSeq(requested', 1, Len(received')) = Append(taken, e)
      BY <1>2, <1>4, <1>5, Zenon
    <2>2. OfType(SubSeq(requested, 1, Len(received)), t)' = OfType(Append(taken, e), t)
      <3> HIDE DEF taken, e
      <3> QED BY <2>1, Zenon
    <2>3. OfType(Append(taken, e), t) =
            IF e.mess_type = t THEN Append(OfType(taken, t), e) ELSE OfType(taken, t)
      <3> HIDE DEF taken, e
      <3> QED BY <1>2, <1>4, OfTypeAppend
    <2> QED BY <1>6, <1>7, <2>2, <2>3, Zenon
  <1>9. EarlyOnes(t)' = a
    BY <1>5, <1>7 DEF EarlyOnes, OfType
  <1>10. fetched'[t] = f
    BY <1>5, <1>7, Zenon
  <1> HIDE DEF e, taken, n, all
  <1>11. CASE e.mess_type # t
    <2>1. unprocessed'[t] = u /\ handled'[t] = h
      BY <1>3, <1>5, <1>7, <1>11, Zenon DEF try_run_callback, HandleTyped
    <2> QED BY <1>8, <1>9, <1>10, <1>11, <2>1, Zenon DEF InPhases, all
  <1>12. CASE e.mess_type = t
    <2>1. try_run_callback(e)
      BY <1>5, <1>12, Zenon DEF NotFound, Ready
    <2>2. CASE entry[t] \in {"function", "registered"}
      <3>1. unprocessed'[t] = u /\ handled'[t] = Then(h, x)
        BY <1>3, <1>7, <1>12, <2>1, <2>2, Zenon
          DEF try_run_callback, HandleTyped, Then, SettingUp
      <3>2. Joined(a, f, u, Then(h, x)) = Then(all, x)
        BY JoinedHandled DEF all
      <3> QED BY <1>8, <1>9, <1>10, <1>12, <3>1, <3>2, Zenon DEF InPhases, Then
    <2>3. CASE entry[t] \notin {"function", "registered"}
      <3>1. unprocessed'[t] = Then(u, x) /\ handled'[t] = h
        BY <1>3, <1>7, <1>12, <2>1, <2>3, Zenon DEF try_run_callback, HandleTyped, Then
      <3>2. Empty(h)
        BY <1>3, <1>7, <2>3, Zenon DEF Phases, Empty
      <3>3. Joined(a, f, Then(u, x), h) = Then(all, x)
        BY <3>2, JoinedParked DEF all
      <3> QED BY <1>8, <1>9, <1>10, <1>12, <3>1, <3>3, Zenon DEF InPhases, Then
    <2> QED BY <2>2, <2>3, Zenon
  <1> QED BY <1>11, <1>12, Zenon

\* Every message requested is given to the connection as its buffer, and nothing
\* else is (sendMessage).
LEMMA StepLaidOut ==
    ASSUME PhaseInv, Typed, [Next]_vars
    PROVE  RequestsLaidOut'
  <1>1. ASSUME NEW s \in Senders, NEW e \in EventMessages, sendMessage(s, e)
        PROVE  RequestsLaidOut'
    <2>1. sent' = Append(sent, init_buffer_str(e)) /\ requested' = Append(requested, e)
      BY <1>1, Zenon DEF sendMessage, WriteHeader
    <2>2. sent \in Seq(Messages) /\ requested \in Seq(EventMessages)
      BY Positions, Zenon DEF PhaseInv, HandleTyped, Typed
    <2>3. PICK n \in Nat : n = Len(sent)
      BY <2>2
    <2>4. /\ Len(requested) = n
          /\ \A i \in 1 .. n : sent[i] = init_buffer_str(requested[i])
      BY <2>3, Zenon DEF PhaseInv, RequestsLaidOut
    <2>5. /\ Len(sent') = n + 1 /\ Len(requested') = n + 1
          /\ sent'[n + 1] = init_buffer_str(e) /\ requested'[n + 1] = e
          /\ \A i \in 1 .. n : sent'[i] = sent[i] /\ requested'[i] = requested[i]
      <3> HIDE DEF init_buffer_str
      <3> QED BY <2>1, <2>2, <2>3, <2>4, SMTT(30)
    <2>6. ASSUME NEW i \in 1 .. n + 1 PROVE sent'[i] = init_buffer_str(requested'[i])
      <3>1. CASE i = n + 1
        BY <2>5, <3>1, Zenon
      <3>2. CASE i \in 1 .. n
        BY <2>4, <2>5, <3>2, Zenon
      <3> QED BY <3>1, <3>2
    <2> QED BY <2>5, <2>6, Zenon DEF RequestsLaidOut
  <1>2. CASE UNCHANGED <<sent, requested>>
    BY <1>2, Zenon DEF PhaseInv, RequestsLaidOut
  <1>3. ASSUME Transport PROVE UNCHANGED <<sent, requested>>
    BY <1>3, Zenon
      DEF Transport, handle_vars, WritePayload, PayloadFails, SetCallback, Arrive, Drained, TooShort,
                Incomplete, BadSize, PollStart, PollHeader, PollPayload, TakePayload, writer_vars
  <1>4. ASSUME DispatchMessage \/ DispatchGarbage PROVE UNCHANGED <<sent, requested>>
    BY <1>4, Zenon
      DEF DispatchMessage, DispatchGarbage, Complete, TakePayload, writer_vars, handle_vars
  <1>5. ASSUME \/ \E t \in Configured : EntryStep(t) \/ readMessage(t)
               \/ UNCHANGED vars
        PROVE  UNCHANGED <<sent, requested>>
    BY <1>5, Zenon
      DEF EntryStep, InsertEntry, AssignEntry, ClearFunction, ClearList, readMessage,
          register_recive_handler, vars, handle_vars, framing_vars, writer_vars
  <1> QED BY <1>1, <1>2, <1>3, <1>4, <1>5, NextCases, Zenon

\* What was received stays so.
LEMMA ReceivedGrows ==
    ASSUME Typed, [FramingNext]_framing_vars
    PROVE  Len(received) \in Nat /\ Len(received') \in Nat /\ Len(received) <= Len(received')
  <1>1. received \in Seq(Seq(Byte)) /\ Len(received) \in Nat
    BY Positions, Zenon DEF Typed
  <1>2. UNCHANGED received \/ TakePayload
    BY Zenon DEF FramingNext, framing_vars, WriteHeader, WritePayload, PayloadFails,
       SetCallback, Arrive, Drained, TooShort, Incomplete, BadSize, Complete, PollStart,
       PollHeader, PollPayload
  <1>3. CASE UNCHANGED received
    BY <1>1, <1>3
  <1>4. CASE TakePayload
    <2>1. received' = Append(received, Payload)
      BY <1>4, Zenon DEF TakePayload
    <2> HIDE DEF Payload
    <2> QED BY <1>1, <2>1
  <1> QED BY <1>2, <1>3, <1>4, Zenon

\* An entry only goes on, and a message is handled or read only for a type that
\* has come far enough (try_run_callback, readMessage).
LEMMA StepPhases ==
    ASSUME PhaseInv, Typed, [Next]_vars
    PROVE  Phases'
  <1>1. /\ Phases /\ entry \in [Configured -> Progress] /\ HandleTyped
        /\ unprocessed \in [Configured -> Seq(EventMessages)]
        /\ handled \in [Configured -> Seq(EventMessages)]
        /\ fetched \in [Configured -> Seq(EventMessages)]
        /\ early \in [Configured -> Nat]
    BY Zenon DEF PhaseInv, HandleTyped
  <1>2. Len(received) \in Nat /\ Len(received') \in Nat /\ Len(received) <= Len(received')
    BY HandleStep, ReceivedGrows, Zenon
  <1> SUFFICES ASSUME NEW t \in Configured
               PROVE  /\ entry'[t] \notin Ready => fetched'[t] = <<>>
                      /\ entry'[t] \notin {"function", "registered"} => handled'[t] = <<>>
                      /\ early'[t] <= Len(received')
    BY Zenon DEF Phases
  <1>3. /\ entry[t] \notin Ready => fetched[t] = <<>>
        /\ entry[t] \notin {"function", "registered"} => handled[t] = <<>>
        /\ early[t] <= Len(received) /\ early[t] \in Nat
    BY <1>1, Zenon DEF Phases
  <1>4. early'[t] <= Len(received')
    <2>1. early'[t] = early[t] \/ early'[t] = Len(received)
      <3>1. CASE UNCHANGED early
        BY <3>1, Zenon
      <3>2. ASSUME NEW u \in Configured, ClearList(u)
            PROVE  early'[t] = early[t] \/ early'[t] = Len(received)
        BY <1>1, <3>2, Zenon DEF ClearList
      <3> QED BY <3>1, <3>2, NextCases, Zenon
        DEF EntryStep, InsertEntry, AssignEntry, ClearFunction, register_recive_handler,
            sendMessage, readMessage, DispatchMessage, DispatchGarbage, Transport, vars,
            handle_vars
    <2> QED BY <1>2, <1>3, <2>1
  <1>5. ASSUME NEW u \in Configured, EntryStep(u)
        PROVE  /\ UNCHANGED <<fetched, handled>>
               /\ entry'[t] \notin Ready => entry[t] \notin Ready
               /\ entry'[t] \notin {"function", "registered"} =>
                    entry[t] \notin {"function", "registered"}
    <2>1. UNCHANGED <<fetched, handled>> /\ (t # u => entry'[t] = entry[t])
      BY <1>1, <1>5, EntryStepTyped, Zenon
    <2>2. CASE t # u
      BY <2>1, <2>2, Zenon
    <2>3. CASE t = u
      BY <1>1, <1>5, <2>1, <2>3, Zenon
        DEF EntryStep, InsertEntry, AssignEntry, ClearFunction, ClearList,
            register_recive_handler, Ready
    <2> QED BY <2>1, <2>2, <2>3, Zenon
  <1>6. ASSUME NEW u \in Configured, readMessage(u)
        PROVE  entry[t] \in Ready /\ UNCHANGED <<entry, handled>>
    BY <1>6, Zenon DEF readMessage, Initialised
  <1>7. CASE DispatchMessage
    <2> DEFINE mess == init_message_ptr(Payload)
    <2> HIDE DEF mess
    <2>1. UNCHANGED <<entry, fetched>>
      BY <1>7, Zenon DEF DispatchMessage
    <2>2. handled'[t] = handled[t] \/ entry[t] \in {"function", "registered"}
      <3>1. CASE try_run_callback(mess)
        BY <1>1, <3>1, Zenon DEF try_run_callback
      <3>2. CASE UNCHANGED <<unprocessed, handled>>
        BY <3>2, Zenon
      <3> QED BY <1>7, <3>1, <3>2, Zenon DEF DispatchMessage, mess
    <2> QED BY <1>3, <1>4, <2>1, <2>2, Zenon
  <1>8. CASE UNCHANGED <<entry, fetched, handled>>
    BY <1>3, <1>4, <1>8, Zenon
  <1>9. ASSUME \/ \E s \in Senders, e \in EventMessages : sendMessage(s, e)
               \/ DispatchGarbage \/ Transport \/ UNCHANGED vars
        PROVE  UNCHANGED <<entry, fetched, handled>>
    BY <1>9, Zenon DEF sendMessage, DispatchGarbage, Transport, vars, handle_vars
  <1>10. ASSUME NEW u \in Configured, EntryStep(u) \/ readMessage(u)
         PROVE  /\ entry'[t] \notin Ready => fetched'[t] = <<>>
                /\ entry'[t] \notin {"function", "registered"} => handled'[t] = <<>>
    BY <1>3, <1>5, <1>6, <1>10, Zenon
  <1> QED BY <1>4, <1>7, <1>8, <1>9, <1>10, NextCases, Zenon

\* The order is kept by every step.
LEMMA StepPhaseOrder ==
    ASSUME PhaseInv, ConnectionInv, [Next]_vars
    PROVE  PhaseOrder'
  <1> SUFFICES ASSUME Live' PROVE AllInPhases'
    BY PhaseOrderByTypeNext, Zenon
  <1>1. Live
    BY HandleStep, LiveBefore, Zenon
  <1>2. /\ IInv /\ Typed /\ ~stale_block /\ ~polling /\ reader' # "dead"
    BY <1>1, Zenon DEF ConnectionInv, Live, Sound
  <1>3. AllInPhases
    BY <1>1, PhaseOrderByType, Zenon DEF PhaseInv
  <1>4. ASSUME NEW s \in Senders, NEW e \in EventMessages, sendMessage(s, e)
        PROVE  AllInPhases'
    BY <1>2, <1>3, <1>4, SendPhases, Zenon
  <1>5. ASSUME NEW t \in Configured, EntryStep(t) PROVE AllInPhases'
    BY <1>2, <1>3, <1>5, EntryPhases, Zenon
  <1>6. ASSUME NEW t \in Configured, readMessage(t) PROVE AllInPhases'
    BY <1>2, <1>3, <1>6, ReadPhases, Zenon
  <1>7. CASE DispatchMessage
    BY <1>2, <1>3, <1>7, DispatchPhases, Zenon
  <1>8. ~DispatchGarbage
    BY <1>2, DispatchNext, Zenon DEF DispatchGarbage
  <1>9. ASSUME Transport \/ UNCHANGED vars
        PROVE  UNCHANGED <<requested, received, entry, early, fetched, unprocessed, handled>>
    <2>1. UNCHANGED received
      BY <1>2, <1>9, TransportReceives, Zenon DEF vars, framing_vars
    <2> QED BY <1>9, <2>1, Zenon DEF Transport, vars, handle_vars
  <1>10. CASE Transport \/ UNCHANGED vars
    BY <1>3, <1>9, <1>10, QuietPhases, Zenon
  <1> QED BY <1>4, <1>5, <1>6, <1>7, <1>8, <1>10, NextCases, Zenon

LEMMA InitPhaseInv == Init => PhaseInv
  <1> SUFFICES ASSUME Init PROVE PhaseInv
    OBVIOUS
  <1>1. HandleTyped
    BY DEF Init, HandleTyped, Progress
  <1>2. RequestsLaidOut
    BY DEF Init, FramingInit, RequestsLaidOut
  <1>3. Phases
    BY DEF Init, FramingInit, Phases
  <1>4. AllInPhases
    BY Zenon DEF Init, AllInPhases, InPhases, Ready
  <1> QED BY <1>1, <1>2, <1>3, <1>4, PhaseOrderByType, Zenon DEF PhaseInv

\* PhaseOrder for every configuration, every set of messages and every number of
\* them, with one sending thread: while the main thread sets entries up, registers
\* handlers and reads, no message of a type that is ready is lost, doubled, changed
\* or overtaken between sendMessage and the place try_run_callback puts it.
THEOREM PhaseOrderAlways ==
    ASSUME OneSender
    PROVE  Spec => []PhaseOrder
  <1>1. Init => ConnectionInv
    BY InitInv, Zenon DEF Init
  <1>2. PhaseInv /\ ConnectionInv /\ [Next]_vars => PhaseInv' /\ ConnectionInv'
    <2> SUFFICES ASSUME PhaseInv, ConnectionInv, [Next]_vars
                 PROVE  PhaseInv' /\ ConnectionInv'
      OBVIOUS
    <2>1. ConnectionInv'
      BY HandleStep, StepConnection, Zenon
    <2>2. Typed /\ HandleTyped
      BY Zenon DEF ConnectionInv, PhaseInv
    <2>3. HandleTyped'
      BY <2>2, StepHandleTyped, Zenon
    <2>4. RequestsLaidOut' /\ Phases' /\ PhaseOrder'
      BY <2>2, StepLaidOut, StepPhases, StepPhaseOrder, Zenon
    <2> QED BY <2>1, <2>3, <2>4, Zenon DEF PhaseInv
  <1>3. PhaseInv => PhaseOrder
    BY Zenon DEF PhaseInv
  <1> QED BY <1>1, <1>2, <1>3, InitPhaseInv, PTL DEF Spec
=============================================================================
