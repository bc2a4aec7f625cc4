------------------------------ MODULE Framing -------------------------------
(***************************************************************************)
(* One connection of LibeventHandle: writeBufferOnce puts a length header  *)
(* and the bytes of a message into the stream, TCP delivers the stream in  *)
(* pieces of any size, and the receiver cuts it up again.  It has two      *)
(* ways to: recive_str_NoWait inside the read callback of the event        *)
(* thread, and recive_str_Wait in a thread that polls.                     *)
(*                                                                         *)
(* The input buffer is the part of the stream between `consumed' and       *)
(* `arrived'.  Only the event thread moves bytes into it, so a pass of the *)
(* read callback is one step.  write_singal is taken by writers only and   *)
(* never makes one of them wait (RwSignal); read_singal is taken and given *)
(* back within a pass, or held by the polling thread from "header" on.     *)
(***************************************************************************)
EXTENDS Integers, Sequences

CONSTANTS
    Senders,            \* threads that send on this connection
    Messages,           \* byte sequences
    MaxSent,            \* bound: messages sent on a sound connection
    MaxSentUnsound,     \* bound: messages sent on another one
    CacheBlockAtStart,  \* values of cache_block in a new BevInfor, never set
    BlockSizeAtStart,   \* values of block.size in it, never set either
    Polling,            \* whether the receiver polls: values it may have
    Failing             \* whether libevent may run out of memory: the same

HeaderSize == 4         \* sizeof(BufferControlBlock)
Byte == 0 .. 255

\* Lengths that fit an int of 32 bits.
IntLength(n) == n \in Nat /\ ((n \div 256) \div 256) \div 256 < 128

ASSUME MessagesAssumption ==
    \A m \in Messages : m \in Seq(Byte) /\ m # <<>> /\ IntLength(Len(m))
ASSUME StartAssumption ==
    /\ CacheBlockAtStart \subseteq BOOLEAN /\ Polling \subseteq BOOLEAN
    /\ Failing \subseteq BOOLEAN /\ BlockSizeAtStart \subseteq Int
ASSUME MaxSentAssumption == MaxSent \in Nat /\ MaxSentUnsound \in Nat

VARIABLES
    stream,         \* all bytes given to bufferevent_write so far
    arrived,        \* how many of them have reached the receiver
    consumed,       \* how many of those bufferevent_read has taken
    writing,        \* sender -> message whose header it has written, or <<>>
    cache_block,    \* a header has been read and its message has not
    block_size,     \* block.size
    watermark,      \* low watermark of read events
    callback,       \* "none", "no args" or "set": callback_funtion and its args
    polling,        \* the receiver polls and sets no callback
    failing,        \* a bufferevent_write of a payload may fail
    stale_block,    \* the read callback finds cache_block set in a new BevInfor
    reader,         \* "idle", "loop" in the read callback, "header" and
                    \* "payload" in the polling thread, "dead" after a crash
    ended,          \* history: how the last read event ended
    sent, received, \* history: messages
    starts          \* history: offset of every frame in the stream

writer_vars == <<stream, writing, sent, starts>>
parser_vars == <<consumed, cache_block, block_size, watermark>>
set_up == <<callback, polling, failing, stale_block>>
framing_vars == <<writer_vars, parser_vars, arrived, callback, polling,
                  failing, stale_block, reader, ended, received>>

Endings == {"none", "no callback", "incomplete", "drained", "refused"}

FramingTypeOK ==
    /\ stream \in Seq(Byte)
    /\ consumed \in Nat /\ arrived \in consumed .. Len(stream)
    /\ writing \in [Senders -> Messages \cup {<<>>}]
    /\ cache_block \in BOOLEAN /\ block_size \in Int /\ watermark \in Nat
    /\ callback \in {"none", "no args", "set"}
    /\ polling \in BOOLEAN /\ failing \in BOOLEAN /\ stale_block \in BOOLEAN
    /\ reader \in {"idle", "loop", "header", "payload", "dead"}
    /\ ended \in Endings
    /\ sent \in Seq(Messages) /\ received \in Seq(Seq(Byte))
    /\ starts \in Seq(Nat)

FramingInit ==
    /\ stream = <<>> /\ arrived = 0 /\ consumed = 0
    /\ writing = [s \in Senders |-> <<>>]
    /\ cache_block \in CacheBlockAtStart
    /\ block_size \in IF cache_block THEN BlockSizeAtStart ELSE {0}   \* not read otherwise
    /\ watermark = 0
    /\ callback = "none" /\ polling \in Polling /\ failing \in Failing
    /\ stale_block = (cache_block /\ ~polling)
    /\ reader = "idle" /\ ended = "none"
    /\ sent = <<>> /\ received = <<>> /\ starts = <<>>

-----------------------------------------------------------------------------
\* The bytes of BufferControlBlock.size, an int of 32 bits, low byte first.
SizeBytes(n) ==
    LET n2 == n \div 256
        n3 == n2 \div 256
        n4 == n3 \div 256
    IN  <<n % 256, n2 % 256, n3 % 256, n4 % 256>>

SizeAt(i) ==
    LET high == stream[i + 4] IN
    stream[i + 1] + 256 * (stream[i + 2] + 256 * (stream[i + 3]
        + 256 * (IF high < 128 THEN high ELSE high - 256)))

\* A connection whose cache_block happened to be set promises nothing, nor does
\* one with a sender that may stop behind a header.
Sound == ~stale_block /\ ~failing

\* The first bufferevent_write of writeBufferOnce.  When it fails nothing is
\* written and the caller is not told: no step.
WriteHeader(s, m) ==
    /\ writing[s] = <<>>
    /\ Len(sent) < IF Sound THEN MaxSent ELSE MaxSentUnsound
    /\ writing' = [writing EXCEPT ![s] = m]
    /\ stream' = stream \o SizeBytes(Len(m))
    /\ sent' = Append(sent, m)
    /\ starts' = Append(starts, Len(stream))
    /\ UNCHANGED <<parser_vars, arrived, set_up, reader, ended, received>>

\* The second one.
WritePayload(s) ==
    /\ writing[s] # <<>>
    /\ writing' = [writing EXCEPT ![s] = <<>>]
    /\ stream' = stream \o writing[s]
    /\ UNCHANGED <<parser_vars, arrived, set_up, reader, ended,
                   received, sent, starts>>

\* The second one fails: its header stays in the stream without a message.
PayloadFails(s) ==
    /\ failing /\ writing[s] # <<>>
    /\ writing' = [writing EXCEPT ![s] = <<>>]
    /\ UNCHANGED <<stream, parser_vars, arrived, set_up, reader, ended,
                   received, sent, starts>>

-----------------------------------------------------------------------------
\* set_event_callback writes the function and then its argument, after
\* init_handle has started the event thread.
SetCallback ==
    /\ ~polling /\ callback # "set"
    /\ callback' = IF callback = "none" THEN "no args" ELSE "set"
    /\ UNCHANGED <<writer_vars, parser_vars, arrived, polling, failing,
                   stale_block, reader, ended, received>>

\* libevent reads n bytes from the socket and runs default_bufferevent_read_cb
\* when the input buffer has reached the low watermark.  A callback that finds
\* no argument yet uses a pointer nobody has set.
Arrive(n) ==
    /\ reader \notin {"loop", "dead"}
    /\ arrived + n <= Len(stream)
    /\ arrived' = arrived + n
    /\ IF arrived' - consumed < watermark THEN UNCHANGED <<reader, ended>>
       ELSE CASE callback = "none" -> ended' = "no callback" /\ UNCHANGED reader
              [] callback = "no args" -> reader' = "dead" /\ UNCHANGED ended
              [] callback = "set" -> reader' = "loop" /\ UNCHANGED ended
    /\ UNCHANGED <<writer_vars, parser_vars, set_up, received>>

Available == arrived - consumed

\* Where the payload of the current message begins, and its length: from the
\* cached block or from the header, which is read on the way.
PayloadStart == IF cache_block THEN consumed ELSE consumed + HeaderSize
PayloadSize == IF cache_block THEN block_size ELSE SizeAt(consumed)

\* get_recive_buffer_length returns 0: the loop of the read callback is done.
Drained ==
    /\ reader = "loop" /\ Available = 0
    /\ reader' = "idle" /\ ended' = "drained"
    /\ UNCHANGED <<writer_vars, parser_vars, arrived, set_up, received>>

\* recive_str_NoWait returns 0 at once: no more than a header is there.
TooShort ==
    /\ reader = "loop" /\ Available \in 1 .. HeaderSize
    /\ reader' = "idle" /\ ended' = "incomplete"
    /\ UNCHANGED <<writer_vars, parser_vars, arrived, set_up, received>>

\* Mutant of Incomplete: the watermark counts the header that is gone.
IncompleteCountsHeader ==
    /\ reader = "loop" /\ Available > HeaderSize
    /\ arrived - PayloadStart < PayloadSize
    /\ cache_block' = TRUE /\ block_size' = PayloadSize
    /\ consumed' = PayloadStart
    /\ watermark' = PayloadSize + HeaderSize
    /\ reader' = "idle" /\ ended' = "incomplete"
    /\ UNCHANGED <<writer_vars, arrived, set_up, received>>

\* The header is read and cached, the message is not all there: readBuffer_NoWait
\* raises the low watermark to its length and returns 0.
Incomplete ==
    /\ reader = "loop" /\ Available > HeaderSize
    /\ arrived - PayloadStart < PayloadSize
    /\ cache_block' = TRUE /\ block_size' = PayloadSize
    /\ consumed' = PayloadStart
    /\ watermark' = PayloadSize
    /\ reader' = "idle" /\ ended' = "incomplete"
    /\ UNCHANGED <<writer_vars, arrived, set_up, received>>

\* Mutant of BadSize: the length becomes the watermark before it is looked at.
BadSizeSetsWatermark ==
    /\ (reader = "loop" /\ Available > HeaderSize) \/ reader = "payload"
    /\ PayloadSize <= 0
    /\ reader' = "idle" /\ ended' = "refused"
    /\ cache_block' = FALSE /\ block_size' = PayloadSize
    /\ consumed' = PayloadStart /\ watermark' = PayloadSize
    /\ UNCHANGED <<writer_vars, arrived, set_up, received>>

\* A negative length makes the std::string of the message throw, and nothing
\* catches; a length of 0 reads no byte and forgets the block.  Neither comes
\* from a header that is read as one.
BadSize ==
    /\ (reader = "loop" /\ Available > HeaderSize) \/ reader = "payload"
    /\ PayloadSize <= 0
    /\ reader' = IF PayloadSize < 0 THEN "dead" ELSE "idle"
    /\ ended' = "refused"
    /\ cache_block' = FALSE /\ block_size' = PayloadSize
    /\ consumed' = PayloadStart /\ watermark' = 0
    /\ UNCHANGED <<writer_vars, arrived, set_up, received>>

PayloadThere == PayloadSize > 0 /\ arrived - PayloadStart >= PayloadSize

Payload == SubSeq(stream, PayloadStart + 1, PayloadStart + PayloadSize)

\* Mutant of TakePayload: cache_block stays set after the message was read.
TakeKeepsBlock ==
    /\ PayloadThere
    /\ received' = Append(received, Payload)
    /\ cache_block' = TRUE /\ block_size' = PayloadSize
    /\ consumed' = PayloadStart + PayloadSize

\* Takes the bytes of one message and forgets the cached block.
TakePayload ==
    /\ PayloadThere
    /\ received' = Append(received, Payload)
    /\ cache_block' = FALSE /\ block_size' = PayloadSize
    /\ consumed' = PayloadStart + PayloadSize

\* readBuffer_NoWait returns a message; what the callback makes of it decides
\* whether the loop goes on, ends or brings the process down.
Complete(then) ==
    /\ reader = "loop" /\ Available > HeaderSize
    /\ TakePayload
    /\ watermark' = 0
    /\ reader' = then
    /\ ended' = IF then = "loop" THEN ended ELSE "refused"
    /\ UNCHANGED <<writer_vars, arrived, set_up>>

-----------------------------------------------------------------------------
\* recive_str_Wait and wait_recive: lock read_singal, ...
PollStart ==
    /\ polling /\ reader = "idle"
    /\ reader' = "header"
    /\ UNCHANGED <<writer_vars, parser_vars, arrived, set_up, ended, received>>

\* ... sleep until a header is there and read it, whether or not one is cached, ...
PollHeader ==
    /\ reader = "header" /\ Available >= HeaderSize
    /\ cache_block' = TRUE /\ block_size' = SizeAt(consumed)
    /\ consumed' = consumed + HeaderSize
    /\ reader' = "payload"
    /\ UNCHANGED <<writer_vars, arrived, watermark, set_up, ended, received>>

\* ... sleep until the message is there, read it and unlock.
PollPayload ==
    /\ reader = "payload"
    /\ TakePayload
    /\ reader' = "idle"
    /\ UNCHANGED <<writer_vars, arrived, watermark, set_up, ended>>

-----------------------------------------------------------------------------
FramingNext ==
    \/ \E s \in Senders : \/ WritePayload(s) \/ PayloadFails(s)
                         \/ \E m \in Messages : WriteHeader(s, m)
    \/ SetCallback
    \/ \E n \in 1 .. Len(stream) : Arrive(n)
    \/ Drained \/ TooShort \/ Incomplete \/ BadSize
    \/ \E then \in {"loop", "idle", "dead"} : Complete(then)
    \/ PollStart \/ PollHeader \/ PollPayload

FramingSpec == FramingInit /\ [][FramingNext]_framing_vars

Fifo == INSTANCE FifoChannel
            WITH received <- (IF Sound THEN received ELSE <<>>)

\* A connection is a FIFO channel: what recive_str_NoWait or recive_str_Wait
\* returns are the messages given to send, whole, each once and in order,
\* however TCP cuts the stream.  It takes one thread that sends at a time, and
\* for the read callback a new BevInfor whose cache_block happens to be false,
\* and writes that do not fail.
FifoSpec == Fifo!Spec

\* What read_callback_message_from_libevent says of a turn of its loop ("read one
\* message from libevent"): the bytes it gets are one message given to send.
OneMessageRead == \A i \in DOMAIN received : received[i] \in Messages

\* A frame that is complete in the input buffer and not delivered.
FrameReady ==
    /\ cache_block \/ Available >= HeaderSize
    /\ arrived - PayloadStart >= PayloadSize

\* Between read events no complete message waits in the input buffer, unless
\* the event came before set_event_callback or the callback stopped at a
\* message it refused: then the rest stays there until more bytes arrive.
NothingStranded ==
    (/\ ~polling /\ Sound
     /\ reader = "idle" /\ ended \notin {"no callback", "refused"})
        => ~FrameReady
=============================================================================
