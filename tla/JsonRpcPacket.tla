--------------------------- MODULE JsonRpcPacket ----------------------------
(***************************************************************************)
(* A JsonRpcPacket that is built and parsed, again and again.  The writer  *)
(* calls make JSON; parse feeds it, one SAX event after the other, to      *)
(* BufferReadHandler, which lays the values out in a FixedBuffer and puts  *)
(* the addresses of noted values into the items that point to them.        *)
(*                                                                         *)
(* The text is the sequence of its SAX events: rapidjson's reader gives    *)
(* back the events its writer was called with, and a text that was not     *)
(* closed gives all its events before the error, which nobody looks at.    *)
(* The packet is used by one thread: a call is one step.                   *)
(***************************************************************************)
EXTENDS Integers, Sequences, FiniteSetsExt

CONSTANTS
    Keys,           \* names of items, none of them a name of the packet format
    Values,         \* what is sent under them
    NoteValues,     \* what pointers inside values point to
    Offsets,        \* where in a value there may be a pointer
    Spare,          \* the length of the buffer minus the bytes to be stored
    MaxItems, MaxNotes, MaxParses       \* bounds

PtrSize == 8        \* sizeof(const char *)

NoName == ""        \* the key of an object or an array on the parse stack

ASSUME KeysAssumption ==
    Keys \cap {NoName, "SegmentType", "PacketHeader", "note_arry", "ptr_key", "ptr_offset",
               "ptr_val"} = {}

Byte == 0 .. 255
ASSUME ValuesAssumption ==
    /\ Values \subseteq Seq(Byte) /\ NoteValues \subseteq Seq(Byte)
    /\ Offsets \subseteq Nat /\ Spare \subseteq Int
    /\ MaxItems \in Nat /\ MaxNotes \in Nat /\ MaxParses \in Nat

VARIABLES
    json,           \* the events in json_buffer
    open,           \* what the last call left open: decides which may come next
    items, notes,   \* history: the items, header first, and notes of the packet
    needed,         \* history: what their values take in the buffer
    handle,         \* BufferReadHandler
    parsed,         \* history: the packet has been parsed into the buffer
    parses          \* history: number of parses

vars == <<json, open, items, notes, needed, handle, parsed, parses>>

ParseType == {"OBJECT", "ARRAY", "KEY", "PTR_KEY", "PTR_OFFSET"}

TypeOK ==
    LET buffer == handle.objectBuffer IN
    /\ open \in {"new", "between", "object", "notes", "closed"}
    /\ parsed \in BOOLEAN /\ parses \in 0 .. MaxParses
    /\ buffer.tail_offset \in 0 .. buffer.length
    /\ DOMAIN buffer.bytes = 0 .. buffer.length - 1
    /\ \A i \in DOMAIN handle.parse_stack : handle.parse_stack[i].type \in ParseType
    /\ handle.object_ptrs \in Seq(Nat)
    /\ \A k \in DOMAIN handle.name_id_map :
          handle.name_id_map[k] + 1 \in DOMAIN handle.object_ptrs
    /\ handle.status \in {"ok", "error", "undefined"}

Init ==
    /\ json = <<>> /\ open = "new" /\ items = <<>> /\ notes = <<>> /\ needed = 0
    /\ handle = [parse_stack |-> <<>>, object_ptrs |-> <<>>, name_id_map |-> <<>>,
                 objectBuffer |-> [bytes |-> <<>>, length |-> 0, tail_offset |-> 0],
                 status |-> "ok"]
    /\ parsed = FALSE /\ parses = 0

-----------------------------------------------------------------------------
Event(type, val) == [type |-> type, val |-> val]
Structure(type) == <<Event(type, <<>>)>>
Pair(key, type, val) == <<Event("Key", key), Event(type, val)>>

\* PacketItemType
Types == {"FIRST", "NORMAL", "LAST", "SINGLE"}
Opens(type) == type \in {"FIRST", "SINGLE"}
Closes(type) == type \in {"LAST", "SINGLE"}
If(condition, events) == IF condition THEN events ELSE <<>>

set_packet_header(h) ==
    /\ open = "new"
    /\ json' = Structure("StartArray") \o Structure("StartObject")
                \o Pair("SegmentType", "Uint", 0) \o Pair("PacketHeader", "String", h)
                \o Structure("EndObject")
    /\ open' = "between"
    /\ items' = <<[key |-> "PacketHeader", val |-> h]>> /\ needed' = Len(h)
    /\ parsed' = FALSE
    /\ UNCHANGED <<notes, handle, parses>>

\* The type of an item says whether its object begins or ends with it.
set_packet_item(key, val, type) ==
    /\ open = IF Opens(type) THEN "between" ELSE "object"
    /\ Len(items) <= MaxItems
    /\ \A i \in DOMAIN items : items[i].key # key
    /\ json' = json
                \o If(Opens(type), Structure("StartObject") \o Pair("SegmentType", "Uint", 1))
                \o Pair(key, "String", val)
                \o If(Closes(type), Structure("EndObject"))
    /\ open' = IF Closes(type) THEN "between" ELSE "object"
    /\ items' = Append(items, [key |-> key, val |-> val]) /\ needed' = needed + Len(val)
    /\ parsed' = FALSE
    /\ UNCHANGED <<notes, handle, parses>>

\* A note is about a pointer inside an item, each at a place of its own.
set_note_for_ptr(item_key, offset, val, type) ==
    /\ open = IF Opens(type) THEN "between" ELSE "notes"
    /\ Len(notes) < MaxNotes
    /\ \E i \in DOMAIN items :
          items[i].key = item_key /\ offset + PtrSize <= Len(items[i].val)
    /\ \A i \in DOMAIN notes :
          notes[i].key = item_key =>
            notes[i].offset \notin offset - PtrSize + 1 .. offset + PtrSize - 1
    /\ json' = json
                \o If(Opens(type), Structure("StartObject") \o Pair("SegmentType", "Uint", 2)
                        \o <<Event("Key", "note_arry")>> \o Structure("StartArray"))
                \o Structure("StartObject")
                \o Pair("ptr_key", "String", item_key) \o Pair("ptr_offset", "Uint", offset)
                \o Pair("ptr_val", "String", val) \o Structure("EndObject")
                \o If(Closes(type), Structure("EndArray") \o Structure("EndObject")
                                        \o Structure("EndArray"))
    /\ open' = IF Closes(type) THEN "closed" ELSE "notes"
    /\ notes' = Append(notes, [key |-> item_key, offset |-> offset, val |-> val])
    /\ needed' = needed + Len(val)
    /\ parsed' = FALSE
    /\ UNCHANGED <<items, handle, parses>>

\* The handler is not cleared: what it knows of earlier packets stays.
clear_packet ==
    /\ json' = <<>> /\ open' = "new" /\ items' = <<>> /\ notes' = <<>>
    /\ needed' = 0 /\ parsed' = FALSE
    /\ UNCHANGED <<handle, parses>>

-----------------------------------------------------------------------------
\* FixedBuffer.
Written(b, data, offset) ==
    [b EXCEPT !.tail_offset = Max({@, offset + Len(data)}),
              !.bytes = [i \in DOMAIN @ |->
                            IF i - offset + 1 \in DOMAIN data THEN data[i - offset + 1] ELSE @[i]]]

\* Mutant of put: the end of the buffer is not looked at.
put_anywhere(b, data, offset) == Written(b, data, offset)

put(b, data, offset) ==
    IF offset + Len(data) > b.length THEN b ELSE Written(b, data, offset)

append(b, data) == put(b, data, b.tail_offset)

\* Mutant of setBuffer: the new buffer is filled from where the old one ended.
setBuffer_keeps_tail(b, len) ==
    [bytes |-> [i \in 0 .. len - 1 |-> 0], length |-> len, tail_offset |-> b.tail_offset]

setBuffer(b, len) ==
    [bytes |-> [i \in 0 .. len - 1 |-> 0], length |-> len, tail_offset |-> 0]

\* The bytes of the address of an offset in the buffer, unlike any in a value.
Address(offset) == [k \in 1 .. PtrSize |-> 256 + PtrSize * offset + k]

-----------------------------------------------------------------------------
\* BufferReadHandler.  name_id_map[key] makes an entry 0 for an unknown key.
Index(h, key) == IF key \in DOMAIN h.name_id_map THEN h.name_id_map[key] ELSE 0
With(f, key, val) == [k \in DOMAIN f \cup {key} |-> IF k = key THEN val ELSE f[k]]

\* parse_stack is a std::stack, with its top at the end.
top(stack) == stack[Len(stack)]
popped(stack) == SubSeq(stack, 1, Len(stack) - 1)

Push(h, type, key) ==
    [h EXCEPT !.parse_stack = Append(@, [type |-> type, key |-> key])]
Pop(h) == [h EXCEPT !.parse_stack = popped(@)]

\* A value becomes the next object, under its key.
Store(h, key, data) ==
    [h EXCEPT !.objectBuffer = append(@, data),
              !.object_ptrs = Append(@, h.objectBuffer.tail_offset),
              !.name_id_map = With(@, key, Len(h.object_ptrs))]

\* Mutant of Uint: the SegmentType becomes an object.
Uint_stores_type(h, u) ==
    LET item == top(h.parse_stack) IN
    IF item.key = "ptr_offset" THEN Push(Pop(h), "PTR_OFFSET", u)
    ELSE Store(Pop(h), item.key, <<u, 0, 0, 0>>)

\* A number other than an offset or a segment type is stored as its four bytes.
Uint(h, u) ==
    LET item == top(h.parse_stack) IN
    CASE item.key = "ptr_offset" -> Push(Pop(h), "PTR_OFFSET", u)
      [] item.key = "SegmentType" -> Pop(h)
      [] OTHER -> Store(Pop(h), item.key, <<u, 0, 0, 0>>)

\* Mutant of Pointed: the address is that of the end of the value.
Pointed_past(h, key, offset, str) ==
    LET stored == append(h.objectBuffer, str) IN
    [h EXCEPT !.objectBuffer =
        put(stored, Address(stored.tail_offset), h.object_ptrs[Index(h, key) + 1] + offset)]

\* The value of a note is stored, and its address put into the item.
Pointed(h, key, offset, str) ==
    LET stored == append(h.objectBuffer, str)
        address == Address(h.objectBuffer.tail_offset)
    IN  [h EXCEPT !.objectBuffer =
                        put(stored, address, h.object_ptrs[Index(h, key) + 1] + offset),
                  !.name_id_map = With(@, key, Index(h, key))]

String(h, str) ==
    LET item == top(h.parse_stack)
        item_offset == top(Pop(h).parse_stack)
        item_key == top(Pop(Pop(h)).parse_stack)
    IN  CASE item.key = "ptr_key" -> Push(Pop(h), "PTR_KEY", str)
          [] item.key = "ptr_val" ->
                Pointed(Pop(Pop(Pop(h))), item_key.key, item_offset.key, str)
          [] OTHER -> Store(Pop(h), item.key, str)

\* EndObject and EndArray pop what StartObject and StartArray pushed.
End(h, type) ==
    IF top(h.parse_stack).type = type THEN Pop(h) ELSE [Pop(h) EXCEPT !.status = "error"]

\* Mutant of StartArray: the key of the array stays on the stack.
StartArray_keeps_key(h, garbage) == Push(h, "ARRAY", NoName)

\* With an empty stack, the type that is compared with KEY was never written; if
\* it is KEY, an empty stack is popped.
StartArray(h, garbage) ==
    IF h.parse_stack = <<>>
    THEN IF garbage = "KEY" THEN [h EXCEPT !.status = "undefined"] ELSE Push(h, "ARRAY", NoName)
    ELSE IF top(h.parse_stack).type = "KEY" THEN Push(Pop(h), "ARRAY", NoName)
         ELSE Push(h, "ARRAY", NoName)

Handled(h, event, garbage) ==
    CASE event.type = "Uint" -> Uint(h, event.val)
      [] event.type = "String" -> String(h, event.val)
      [] event.type = "Key" -> Push(h, "KEY", event.val)
      [] event.type = "StartObject" -> Push(h, "OBJECT", NoName)
      [] event.type = "EndObject" -> End(h, "OBJECT")
      [] event.type = "StartArray" -> StartArray(h, garbage)
      [] event.type = "EndArray" -> End(h, "ARRAY")

\* The events one after the other; the reader stops at a handler that returns
\* false.
Read(events, start, garbage) ==
    LET upTo[n \in 0 .. Len(events)] ==
            IF n = 0 THEN start
            ELSE LET h == upTo[n - 1] IN
                 IF h.status # "ok" THEN h ELSE Handled(h, events[n], garbage)
    IN  upTo[Len(events)]

\* Whether or not the reader came to the end, the end of the values is appended
\* to object_ptrs.
parse(garbage, length) ==
    LET start == [handle EXCEPT !.objectBuffer = setBuffer(@, length), !.status = "ok"]
        read == Read(json, start, garbage)
    IN  /\ open \in {"between", "closed"} /\ parses < MaxParses
        /\ handle.status # "undefined"
        /\ handle' = [read EXCEPT !.object_ptrs = Append(@, read.objectBuffer.tail_offset)]
        /\ parsed' = TRUE /\ parses' = parses + 1
        /\ UNCHANGED <<json, open, items, notes, needed>>

-----------------------------------------------------------------------------
Next ==
    \/ \E h \in NoteValues : set_packet_header(h)
    \/ \E type \in Types :
          \/ \E key \in Keys, val \in Values : set_packet_item(key, val, type)
          \/ \E key \in Keys, offset \in Offsets, val \in NoteValues :
                set_note_for_ptr(key, offset, val, type)
    \/ clear_packet
    \/ \E garbage \in {"KEY", "OBJECT"}, spare \in Spare :
          needed + spare >= 0 /\ parse(garbage, needed + spare)

Spec == Init /\ [][Next]_vars

-----------------------------------------------------------------------------
\* The getters.
get_packet_item_ptr(key) == handle.object_ptrs[Index(handle, key) + 1]
get_packet_item_size(key) ==
    handle.object_ptrs[Index(handle, key) + 2] - handle.object_ptrs[Index(handle, key) + 1]

\* The packet is in a buffer that was long enough.
Readable ==
    /\ parsed /\ handle.status # "undefined"
    /\ handle.objectBuffer.length >= needed

\* Length bytes at an offset of the buffer.
At(offset, len) ==
    LET bytes == handle.objectBuffer.bytes IN
    [j \in 1 .. len |->
        IF offset + j - 1 \in DOMAIN bytes THEN bytes[offset + j - 1] ELSE -1]

NotePlaces(key) ==
    UNION {notes[n].offset + 1 .. notes[n].offset + PtrSize :
                n \in {m \in DOMAIN notes : notes[m].key = key}}

\* "get args by array index or key(string)": under the key of an item there are
\* the bytes it was sent with, except where a note says there is a pointer, and
\* its size, which for the last item takes in the values of the notes; also
\* after other packets have been parsed by the same object.
ByKey ==
    Readable => \A i \in DOMAIN items :
        LET key == items[i].key
            val == items[i].val
            got == At(get_packet_item_ptr(key), Len(val))
        IN  /\ \A j \in DOMAIN val \ NotePlaces(key) : got[j] = val[j]
            /\ i < Len(items) => get_packet_item_size(key) = Len(val)
            /\ get_packet_item_size(key) >= Len(val)

\* The same by index, in the order the items were set and with the header at 0,
\* for the first packet an object parses.
ByIndex ==
    Readable /\ parses = 1 => \A i \in DOMAIN items :
        handle.object_ptrs[i] = get_packet_item_ptr(items[i].key)

\* The pointers that were noted lead to the values they pointed to in the sender,
\* whatever the order of the notes.
PointersResolve ==
    Readable => \A n \in DOMAIN notes :
        \E a \in 0 .. handle.objectBuffer.length :
            /\ At(get_packet_item_ptr(notes[n].key) + notes[n].offset, PtrSize) = Address(a)
            /\ At(a, Len(notes[n].val)) = notes[n].val

\* No packet made by the writer calls, closed by a note or left open without one,
\* meets the errors of EndObject and EndArray, even when an earlier packet left
\* its array on the stack.
NoParseError == handle.status # "error"
=============================================================================
