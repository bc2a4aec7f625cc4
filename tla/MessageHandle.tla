--------------------------- MODULE MessageHandle ----------------------------
(***************************************************************************)
(* EventMessageHandle on top of one connection of LibeventHandle: a sender *)
(* lays an EventMessage out in a buffer and sends it, the event thread of  *)
(* the receiver takes it from the stream, and calls the handler of its     *)
(* type, parks it, or gives up on a type it does not know.  Meanwhile the  *)
(* receiver's main thread is still filling mess_callback_map, entry by     *)
(* entry and store by store, registers handlers and reads parked messages. *)
(***************************************************************************)
EXTENDS Framing, FiniteSetsExt

CONSTANTS
    EventMessages,  \* [group_name, mess_type, send_host_name, recive_host_name, message]
    Configured,     \* mess_type values in the receiver's mess_config
    Handled         \* those for which it registers a handler

ASSUME ConfigAssumption == Handled \subseteq Configured

VARIABLES
    entry,          \* type -> how far its entry of mess_callback_map has come
    unprocessed,    \* type -> unprocessed_mess_list
    requested,      \* history: messages given to sendMessage
    handled,        \* history: type -> messages passed to the handler
    fetched,        \* history: type -> messages returned by readMessage
    early           \* history: type -> messages taken before it was ready

handle_vars == <<entry, unprocessed, requested, handled, fetched, early>>
vars == <<framing_vars, handle_vars>>

-----------------------------------------------------------------------------
CursorSize == 6     \* EventMessageCursor: five offsets and message_size, one
                    \* cell each here; they are ints

\* A C string: the characters and a terminating 0.
CString(name) == Append(name, 0)

init_buffer_str(mess) ==
    LET group_name_offset == CursorSize
        mess_type_offset == group_name_offset + Len(mess.group_name) + 1
        send_host_name_offset == mess_type_offset + Len(mess.mess_type) + 1
        recive_host_name_offset == send_host_name_offset + Len(mess.send_host_name) + 1
        message_offset == recive_host_name_offset + Len(mess.recive_host_name) + 1
    IN  <<group_name_offset, mess_type_offset, send_host_name_offset,
          recive_host_name_offset, message_offset, Len(mess.message)>>
        \o CString(mess.group_name) \o CString(mess.mess_type)
        \o CString(mess.send_host_name) \o CString(mess.recive_host_name)
        \o mess.message

\* What a const char * into the buffer denotes: the characters before the next 0.
StringAt(buffer, offset) ==
    LET rest == SubSeq(buffer, offset + 1, Len(buffer))
    IN  SubSeq(rest, 1, Min({i \in 1 .. Len(rest) : rest[i] = 0}) - 1)

init_message_ptr(buffer) ==
    [group_name |-> StringAt(buffer, buffer[1]),
     mess_type |-> StringAt(buffer, buffer[2]),
     send_host_name |-> StringAt(buffer, buffer[3]),
     recive_host_name |-> StringAt(buffer, buffer[4]),
     message |-> SubSeq(buffer, buffer[5] + 1, buffer[5] + buffer[6])]

\* The names are C strings, read with strlen; message is any message_size bytes.
Name == Seq(Byte \ {0})
ASSUME EventMessageAssumption ==
    EventMessages \subseteq
        [group_name : Name, mess_type : Name, send_host_name : Name,
         recive_host_name : Name, message : Seq(Byte)]

\* An EventMessage is longer than a BufferControlBlock: recive_str_NoWait counts
\* on it when the header is cached.
ASSUME BufferAssumption ==
    /\ Messages = {init_buffer_str(e) : e \in EventMessages}
    /\ \A m \in Messages : Len(m) > HeaderSize

-----------------------------------------------------------------------------
\* init_group_infor_map takes an entry through the first four; the two stores of
\* register_recive_handler through the last two.
SettingUp == {"inserting", "assigned", "cleared"}
Ready == {"ready", "function", "registered"}
Progress == {"absent"} \cup SettingUp \cup Ready

TypeOK ==
    /\ FramingTypeOK
    /\ entry \in [Configured -> Progress]
    /\ unprocessed \in [Configured -> Seq(EventMessages)]
    /\ requested \in Seq(EventMessages)
    /\ handled \in [Configured -> Seq(EventMessages)]
    /\ fetched \in [Configured -> Seq(EventMessages)]
    /\ early \in [Configured -> Nat]

Init ==
    /\ FramingInit
    /\ entry = [t \in Configured |-> "absent"]
    /\ unprocessed = [t \in Configured |-> <<>>]
    /\ requested = <<>> /\ early = [t \in Configured |-> 0]
    /\ handled = [t \in Configured |-> <<>>]
    /\ fetched = [t \in Configured |-> <<>>]

-----------------------------------------------------------------------------
\* sendMessage up to the header; get_connection_id is in Connections.
sendMessage(s, mess) ==
    /\ WriteHeader(s, init_buffer_str(mess))
    /\ requested' = Append(requested, mess)
    /\ UNCHANGED <<entry, unprocessed, handled, fetched, early>>

\* A turn of the loop of init_group_infor_map over mess_type, which starts after
\* set_event_callback: operator[] begins to insert the entry, ...
InsertEntry(t) ==
    /\ callback = "set" /\ entry[t] = "absent"
    /\ \A u \in Configured : entry[u] \notin SettingUp
    /\ entry' = [entry EXCEPT ![t] = "inserting"]
    /\ UNCHANGED <<framing_vars, unprocessed, requested, handled, fetched, early>>

\* ... which is then assigned a CallbackInfor whose list is empty and whose
\* function and argument nobody has set, ...
AssignEntry(t) ==
    /\ entry[t] = "inserting"
    /\ entry' = [entry EXCEPT ![t] = "assigned"]
    /\ unprocessed' = [unprocessed EXCEPT ![t] = <<>>]
    /\ UNCHANGED <<framing_vars, requested, handled, fetched, early>>

\* ... gets the function NULL, ...
ClearFunction(t) ==
    /\ entry[t] = "assigned"
    /\ entry' = [entry EXCEPT ![t] = "cleared"]
    /\ UNCHANGED <<framing_vars, unprocessed, requested, handled, fetched, early>>

\* ... and has its list cleared once more.
ClearList(t) ==
    /\ entry[t] = "cleared"
    /\ entry' = [entry EXCEPT ![t] = "ready"]
    /\ unprocessed' = [unprocessed EXCEPT ![t] = <<>>]
    /\ early' = [early EXCEPT ![t] = Len(received)]
    /\ UNCHANGED <<framing_vars, requested, handled, fetched>>

\* The application calls these once init_handle has returned.
Initialised == \A u \in Configured : entry[u] \in Ready

\* cb_function is set before cb_arg.
register_recive_handler(t) ==
    /\ Initialised /\ entry[t] # "registered"
    /\ entry' = [entry EXCEPT ![t] = IF @ = "ready" THEN "function" ELSE "registered"]
    /\ UNCHANGED <<framing_vars, unprocessed, requested, handled, fetched, early>>

readMessage(t) ==
    /\ Initialised /\ unprocessed[t] # <<>>
    /\ fetched' = [fetched EXCEPT ![t] = Append(@, Head(unprocessed[t]))]
    /\ unprocessed' = [unprocessed EXCEPT ![t] = Tail(@)]
    /\ UNCHANGED <<framing_vars, entry, requested, handled, early>>

\* Mutant of try_run_callback: a parked message goes to the front.
try_run_parks_in_front(mess) ==
    LET t == mess.mess_type IN
    /\ t \in Configured
    /\ \/ /\ entry[t] \in {"function", "registered"}
          /\ handled' = [handled EXCEPT ![t] = Append(@, mess)] /\ UNCHANGED unprocessed
       \/ /\ entry[t] \in SettingUp \cup {"ready"}
          /\ unprocessed' = [unprocessed EXCEPT ![t] = <<mess>> \o @] /\ UNCHANGED handled

\* try_run_callback when check_mess_type finds the type.
try_run_callback(mess) ==
    LET t == mess.mess_type IN
    /\ t \in Configured
    /\ \/ /\ entry[t] \in {"function", "registered"}
          /\ handled' = [handled EXCEPT ![t] = Append(@, mess)] /\ UNCHANGED unprocessed
       \/ /\ entry[t] \in SettingUp \cup {"ready"}
          /\ unprocessed' = [unprocessed EXCEPT ![t] = Append(@, mess)] /\ UNCHANGED handled

\* A message that meets an entry between two stores of the main thread may be
\* the end: find in a map that changes, a function nobody has set, push_back on
\* a list that is cleared, a handler with a null argument.
Crashes(mess) ==
    /\ mess.mess_type \in Configured
    /\ entry[mess.mess_type] \in SettingUp \cup {"function"}

\* find does not see an entry that is not there, nor always one that is being
\* inserted.
NotFound(mess) ==
    mess.mess_type \in Configured => entry[mess.mess_type] \in {"absent", "inserting"}

MessageThere == reader = "loop" /\ Available > HeaderSize /\ PayloadThere

\* One turn of read_callback_message_from_libevent with a whole message.
DispatchMessage ==
    /\ MessageThere /\ Payload \in Messages
    /\ LET mess == init_message_ptr(Payload) IN
       \/ Complete("loop") /\ try_run_callback(mess)
       \/ /\ \/ Complete("idle") /\ NotFound(mess)
             \/ Complete("dead") /\ Crashes(mess)
          /\ UNCHANGED <<unprocessed, handled>>
    /\ UNCHANGED <<entry, requested, fetched, early>>

\* The same with bytes that are no message: the pointers of init_message_ptr
\* lead anywhere.
DispatchGarbage ==
    /\ MessageThere /\ Payload \notin Messages
    /\ \E then \in {"loop", "idle", "dead"} : Complete(then)
    /\ UNCHANGED handle_vars

\* The other turns of the loop, and a receiver that uses LibeventHandle alone.
Transport ==
    /\ \/ \E s \in Senders : WritePayload(s) \/ PayloadFails(s)
       \/ SetCallback
       \/ \E n \in 1 .. Len(stream) : Arrive(n)
       \/ Drained \/ TooShort \/ Incomplete \/ BadSize
       \/ PollStart \/ PollHeader \/ PollPayload
    /\ UNCHANGED handle_vars

Next ==
    \/ \E s \in Senders, e \in EventMessages : sendMessage(s, e)
    \/ \E t \in Configured : \/ InsertEntry(t) \/ AssignEntry(t)
                            \/ ClearFunction(t) \/ ClearList(t)
    \/ \E t \in Handled : register_recive_handler(t)
    \/ \E t \in Configured : readMessage(t)
    \/ DispatchMessage \/ DispatchGarbage
    \/ Transport

Spec == Init /\ [][Next]_vars

\* A sender that has begun goes on, TCP delivers, the event thread runs its
\* callback to the end, the polling thread polls; nobody has to send, to
\* register or to read a parked message.
FairSpec ==
    /\ Spec
    /\ WF_vars(Transport) /\ WF_vars(DispatchMessage) /\ WF_vars(DispatchGarbage)

-----------------------------------------------------------------------------
\* The messages of type t, in their order.
OfType(messages, t) ==
    LET upTo[i \in 0 .. Len(messages)] ==
            IF i = 0 THEN <<>>
            ELSE IF messages[i].mess_type = t THEN Append(upTo[i - 1], messages[i])
            ELSE upTo[i - 1]
    IN  upTo[Len(messages)]

\* Once clear() has ended the set-up of a type in init_group_infor_map, no message
\* of it is lost, doubled, changed or overtaken on its way: those taken from the
\* stream are, in the order of sendMessage, the early ones, which were dropped
\* or, if they were parked, erased; then those parked before the handler was
\* registered (already read or still in unprocessed_mess_list); then those the
\* handler got.
PhaseOrder ==
    ~polling /\ Sound /\ reader # "dead" =>
        \A t \in Configured : entry[t] \in Ready =>
            OfType(SubSeq(requested, 1, Len(received)), t) =
                OfType(SubSeq(requested, 1, early[t]), t)
                    \o fetched[t] \o unprocessed[t] \o handled[t]

\* Every message that is sent is taken from the stream in the end: always by a
\* thread that polls; by the read callback unless the receiver crashed, or its
\* last read event came before set_event_callback or stopped at a type that was
\* not found: then the rest waits for more bytes.
EventuallyTaken ==
    <>[](\/ Len(received) = Len(sent)
         \/ ~Sound
         \/ ~polling /\ (reader = "dead" \/ ended \in {"no callback", "refused"}))
=============================================================================
