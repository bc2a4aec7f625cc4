------------------------ MODULE JsonRpcPacketProofs -------------------------
(***************************************************************************)
(* What parse makes of a packet, for any keys, values, notes and lengths   *)
(* of the buffer, and after any packets parsed before.                     *)
(***************************************************************************)
EXTENDS JsonRpcPacket, SequenceTheorems, WellFoundedInduction, TLAPS

-----------------------------------------------------------------------------
(* Read. *)

\* What Read does with event i, given what it made of those before it.
ReadStep(events, start, garbage, f, i) ==
    IF i = 0 THEN start
    ELSE IF f[i - 1].status # "ok" THEN f[i - 1] ELSE Handled(f[i - 1], events[i], garbage)

\* f is what Read makes of the first 0 .. n events.
ReadUpTo(f, events, start, garbage, n) ==
    f = [i \in 0 .. n |-> ReadStep(events, start, garbage, f, i)]

\* A set of numbers has a least one: induction by least counterexample.
LEMMA LeastNumber ==
    ASSUME NEW S, S \subseteq Nat, S # {}
    PROVE  \E i \in S : \A j \in S : i <= j
  <1> DEFINE Less == {ss \in Nat \X Nat : ss[1] < ss[2]}
  <1>1. OpToRel(<, Nat) = Less
    BY Zenon DEF OpToRel
  <1>2. IsWellFoundedOn(Less, Nat)
    BY <1>1, NatLessThanWellFounded, Zenon
  <1>3. \E i \in S : \A j \in S : ~(<<j, i>> \in Less)
    <2> HIDE DEF Less
    <2> QED BY <1>2, WFMin, Zenon
  <1>4. \A i, j \in S : ~(<<j, i>> \in Less) => i <= j
    OBVIOUS
  <1> HIDE DEF Less
  <1> QED BY <1>3, <1>4, Zenon

\* The recursion of Read has a solution.
LEMMA ReadExists ==
    ASSUME NEW events, NEW start, NEW garbage, NEW n \in Nat
    PROVE  \E f : ReadUpTo(f, events, start, garbage, n)
  <1> DEFINE Good(m) == \E f : ReadUpTo(f, events, start, garbage, m)
             Bad == {m \in 0 .. n : ~Good(m)}
  <1> SUFFICES ASSUME Bad # {} PROVE FALSE
    OBVIOUS
  <1>1. PICK m \in Bad : \A k \in Bad : m <= k
    <2>1. Bad \subseteq Nat
      OBVIOUS
    <2> HIDE DEF Bad
    <2> QED BY <2>1, LeastNumber, Zenon
  <1>2. m \in 0 .. n /\ ~Good(m)
    OBVIOUS
  <1>3. CASE m = 0
    <2> DEFINE f == [i \in 0 .. 0 |-> start]
    <2>1. \A i \in 0 .. 0 : ReadStep(events, start, garbage, f, i) = start
      BY DEF ReadStep
    <2>2. ReadUpTo(f, events, start, garbage, 0)
      BY <2>1, Zenon DEF ReadUpTo
    <2> QED BY <1>2, <1>3, <2>2, Zenon
  <1>4. CASE m # 0
    <2>1. m - 1 \in 0 .. n /\ m \in 1 .. n
      BY <1>2, <1>4
    <2>2. Good(m - 1)
      <3> HIDE DEF Good
      <3> QED BY <1>1, <1>2, <2>1
    <2> PICK f : ReadUpTo(f, events, start, garbage, m - 1)
      BY <2>2, Zenon
    <2> DEFINE last == ReadStep(events, start, garbage, f, m)
               g == [i \in 0 .. m |-> IF i = m THEN last ELSE f[i]]
    <2>3. ASSUME NEW i \in 0 .. m PROVE g[i] = ReadStep(events, start, garbage, g, i)
      <3> HIDE DEF last
      <3>1. CASE i = m
        <4>1. g[m - 1] = f[m - 1] /\ g[m] = last
          BY <2>1
        <4> HIDE DEF g
        <4> QED BY <3>1, <4>1, <2>1, Zenon DEF ReadStep, last
      <3>2. CASE i # m
        <4>1. i \in 0 .. m - 1 /\ g[i] = f[i]
          BY <2>1, <3>2
        <4>2. i # 0 => g[i - 1] = f[i - 1]
          BY <2>1, <4>1
        <4>3. f[i] = ReadStep(events, start, garbage, f, i)
          BY <4>1, Zenon DEF ReadUpTo
        <4> HIDE DEF g
        <4> QED BY <4>1, <4>2, <4>3, Zenon DEF ReadStep
      <3> QED BY <3>1, <3>2, Zenon
    <2>4. g = [i \in 0 .. m |-> g[i]]
      <3> HIDE DEF last
      <3> QED OBVIOUS
    <2>5. ReadUpTo(g, events, start, garbage, m)
      <3> HIDE DEF g
      <3> QED BY <2>3, <2>4, Zenon DEF ReadUpTo
    <2> QED BY <1>2, <2>5, Zenon
  <1> QED BY <1>3, <1>4, Zenon

\* s and r begin with the same n events.
SameUpTo(s, r, n) == \A i \in 1 .. n : s[i] = r[i]

\* It has one only, which depends on the events read so far and no others.
LEMMA ReadUnique ==
    ASSUME NEW s, NEW r, NEW start, NEW garbage, NEW n \in Nat, NEW m \in Nat, n <= m,
           SameUpTo(s, r, n), NEW f, NEW g,
           ReadUpTo(f, s, start, garbage, n), ReadUpTo(g, r, start, garbage, m)
    PROVE  \A i \in 0 .. n : f[i] = g[i]
  <1> DEFINE Bad == {i \in 0 .. n : f[i] # g[i]}
  <1> SUFFICES ASSUME Bad # {} PROVE FALSE
    OBVIOUS
  <1>1. PICK i \in Bad : \A j \in Bad : i <= j
    <2>1. Bad \subseteq Nat
      OBVIOUS
    <2> HIDE DEF Bad
    <2> QED BY <2>1, LeastNumber, Zenon
  <1>2. f[i] = ReadStep(s, start, garbage, f, i) /\ g[i] = ReadStep(r, start, garbage, g, i)
    <2>1. i \in 0 .. n /\ i \in 0 .. m
      BY <1>1
    <2>2. \A j \in 0 .. n : f[j] = ReadStep(s, start, garbage, f, j)
      BY Zenon DEF ReadUpTo
    <2>3. \A j \in 0 .. m : g[j] = ReadStep(r, start, garbage, g, j)
      BY Zenon DEF ReadUpTo
    <2> QED BY <2>1, <2>2, <2>3, Zenon
  <1>3. i # 0
    BY <1>1, <1>2, Zenon DEF ReadStep
  <1>4. i - 1 \in 0 .. n /\ i \in 1 .. n
    BY <1>1, <1>3
  <1>5. f[i - 1] = g[i - 1]
    BY <1>1, <1>4
  <1> QED BY <1>1, <1>2, <1>3, <1>4, <1>5, Zenon DEF ReadStep, SameUpTo

\* Read is the last value of that solution.
LEMMA ReadValue ==
    ASSUME NEW S, NEW events \in Seq(S), NEW start, NEW garbage
    PROVE  \E f : /\ ReadUpTo(f, events, start, garbage, Len(events))
                  /\ Read(events, start, garbage) = f[Len(events)]
  <1> DEFINE Def(f, i) ==
                IF i = 0 THEN start
                ELSE LET h == f[i - 1] IN
                     IF h.status # "ok" THEN h ELSE Handled(h, events[i], garbage)
             g == CHOOSE f : f = [i \in 0 .. Len(events) |-> Def(f, i)]
  <1>1. Read(events, start, garbage) = g[Len(events)]
    BY Zenon DEF Read
  <1>2. PICK f : ReadUpTo(f, events, start, garbage, Len(events))
    <2>1. Len(events) \in Nat
      OBVIOUS
    <2> QED BY <2>1, ReadExists, Zenon
  <1>3. f = [i \in 0 .. Len(events) |-> Def(f, i)]
    BY <1>2, Zenon DEF ReadUpTo, ReadStep
  <1>4. g = [i \in 0 .. Len(events) |-> Def(g, i)]
    <2> HIDE DEF Def
    <2> QED BY <1>3, Zenon
  <1> HIDE DEF g
  <1>5. ReadUpTo(g, events, start, garbage, Len(events))
    BY <1>4, Zenon DEF ReadUpTo, ReadStep
  <1> QED BY <1>1, <1>5, Zenon

\* No events leave the handler as it was.
LEMMA ReadNothing == ASSUME NEW start, NEW garbage PROVE Read(<<>>, start, garbage) = start
  <1>1. <<>> \in Seq(Nat) /\ Len(<<>>) = 0
    OBVIOUS
  <1> PICK f : /\ ReadUpTo(f, <<>>, start, garbage, Len(<<>>))
               /\ Read(<<>>, start, garbage) = f[Len(<<>>)]
    BY <1>1, ReadValue, Zenon
  <1>2. ReadUpTo(f, <<>>, start, garbage, 0) /\ Read(<<>>, start, garbage) = f[0]
    BY <1>1, Zenon
  <1> QED BY <1>2 DEF ReadUpTo, ReadStep

\* One event more.
LEMMA ReadAppend ==
    ASSUME NEW S, NEW events \in Seq(S), NEW e \in S, NEW start, NEW garbage
    PROVE  Read(Append(events, e), start, garbage) =
             IF Read(events, start, garbage).status # "ok"
             THEN Read(events, start, garbage)
             ELSE Handled(Read(events, start, garbage), e, garbage)
  <1> PICK n \in Nat : n = Len(events)
    OBVIOUS
  <1> PICK m \in Nat : m = n + 1
    OBVIOUS
  <1>0. Append(events, e) \in Seq(S)
    OBVIOUS
  <1> PICK r \in Seq(S) : r = Append(events, e)
    BY <1>0, Zenon
  <1>1. n <= m /\ Len(r) = m /\ r[m] = e /\ SameUpTo(events, r, n)
    BY DEF SameUpTo
  <1> PICK f : ReadUpTo(f, events, start, garbage, n) /\ Read(events, start, garbage) = f[n]
    BY ReadValue, Zenon
  <1> PICK g : ReadUpTo(g, r, start, garbage, m) /\ Read(r, start, garbage) = g[m]
    <2> PICK g : /\ ReadUpTo(g, r, start, garbage, Len(r))
                 /\ Read(r, start, garbage) = g[Len(r)]
      BY ReadValue, Zenon
    <2> QED BY <1>1, Zenon
  <1>2. f[n] = g[n]
    <2>1. \A i \in 0 .. n : f[i] = g[i]
      BY <1>1, ReadUnique
    <2> QED BY <2>1
  <1>3. g[m] = ReadStep(r, start, garbage, g, m)
    <2>1. \A i \in 0 .. m : g[i] = ReadStep(r, start, garbage, g, i)
      BY Zenon DEF ReadUpTo
    <2> QED BY <2>1
  <1>4. g[m] = IF g[n].status # "ok" THEN g[n] ELSE Handled(g[n], e, garbage)
    BY <1>1, <1>3 DEF ReadStep
  <1> QED BY <1>2, <1>4, Zenon

-----------------------------------------------------------------------------
(* The events one by one. *)

\* A BufferReadHandler that has met no error.
Reader(s, p, m, b) ==
    [parse_stack |-> s, object_ptrs |-> p, name_id_map |-> m, objectBuffer |-> b,
     status |-> "ok"]

ParseItem(type, key) == [type |-> type, key |-> key]

\* top and pop of a stack give back what was pushed, and what was below it.
LEMMA PoppedPush ==
    ASSUME NEW T, NEW s \in Seq(T), NEW x
    PROVE  top(Append(s, x)) = x /\ popped(Append(s, x)) = s /\ Append(s, x) # <<>>
  <1> DEFINE U == T \cup {x}
  <1>1. s \in Seq(U) /\ x \in U
    OBVIOUS
  <1> HIDE DEF U
  <1>2. Len(Append(s, x)) = Len(s) + 1 /\ Append(s, x)[Len(s) + 1] = x
    BY <1>1
  <1>3. SubSeq(Append(s, x), 1, Len(s)) = s
    BY <1>1
  <1> QED BY <1>1, <1>2, <1>3 DEF top, popped

\* The fields of a reader, and what push and pop make of it.
LEMMA ReaderParts ==
    ASSUME NEW s, NEW p, NEW m, NEW b
    PROVE  /\ Reader(s, p, m, b).parse_stack = s
           /\ Reader(s, p, m, b).object_ptrs = p
           /\ Reader(s, p, m, b).name_id_map = m
           /\ Reader(s, p, m, b).objectBuffer = b
           /\ Reader(s, p, m, b).status = "ok"
           /\ Pop(Reader(s, p, m, b)) = Reader(popped(s), p, m, b)
  BY DEF Reader, Pop

\* Push puts one item on the stack.
LEMMA ReaderPush ==
    ASSUME NEW s, NEW p, NEW m, NEW b, NEW type, NEW key
    PROVE  Push(Reader(s, p, m, b), type, key) =
             Reader(Append(s, ParseItem(type, key)), p, m, b)
  <1>1. Reader(s, p, m, b).parse_stack = s
    BY ReaderParts
  <1>2. PICK a : a = Append(s, ParseItem(type, key))
    BY Zenon
  <1>3. [Reader(s, p, m, b) EXCEPT !.parse_stack = a] = Reader(a, p, m, b)
    BY DEF Reader
  <1> QED BY <1>1, <1>2, <1>3, Zenon DEF Push, ParseItem

\* Which callback an event is for.
LEMMA Callbacks ==
    ASSUME NEW h, NEW v, NEW garbage
    PROVE  /\ Handled(h, Event("Uint", v), garbage) = Uint(h, v)
           /\ Handled(h, Event("String", v), garbage) = String(h, v)
           /\ Handled(h, Event("Key", v), garbage) = Push(h, "KEY", v)
           /\ Handled(h, Event("StartObject", v), garbage) = Push(h, "OBJECT", NoName)
           /\ Handled(h, Event("EndObject", v), garbage) = End(h, "OBJECT")
           /\ Handled(h, Event("StartArray", v), garbage) = StartArray(h, garbage)
           /\ Handled(h, Event("EndArray", v), garbage) = End(h, "ARRAY")
  BY Zenon DEF Handled, Event

\* The start of an array that has no key pushes.
LEMMA FreeArray ==
    ASSUME NEW s, NEW p, NEW m, NEW b, NEW garbage,
           IF s = <<>> THEN garbage # "KEY" ELSE top(s).type # "KEY"
    PROVE  StartArray(Reader(s, p, m, b), garbage) =
             Reader(Append(s, ParseItem("ARRAY", NoName)), p, m, b)
  <1>1. Reader(s, p, m, b).parse_stack = s
    BY ReaderParts
  <1> DEFINE h == Reader(s, p, m, b)
  <1> HIDE DEF h
  <1>2. h.parse_stack = s
    BY <1>1, Zenon DEF h
  <1>3. StartArray(h, garbage) = Push(h, "ARRAY", NoName)
    BY <1>2, Zenon DEF StartArray
  <1>4. Push(Reader(s, p, m, b), "ARRAY", NoName) =
          Reader(Append(s, ParseItem("ARRAY", NoName)), p, m, b)
    BY ReaderPush
  <1> QED BY <1>3, <1>4, Zenon DEF h

\* The start of an array under a key takes the key off, EndObject and EndArray
\* what they end.
LEMMA KeyedArray ==
    ASSUME NEW T, NEW s \in Seq(T), NEW p, NEW m, NEW b, NEW garbage, NEW k
    PROVE  StartArray(Reader(Append(s, ParseItem("KEY", k)), p, m, b), garbage) =
             Reader(Append(s, ParseItem("ARRAY", NoName)), p, m, b)
  <1> DEFINE r == Append(s, ParseItem("KEY", k))
  <1>1. top(r) = ParseItem("KEY", k) /\ popped(r) = s /\ r # <<>>
    BY PoppedPush, Zenon
  <1> HIDE DEF r
  <1>2. top(r).type = "KEY"
    BY <1>1 DEF ParseItem
  <1> DEFINE h == Reader(r, p, m, b)
  <1>3. h.parse_stack = r /\ Pop(h) = Reader(s, p, m, b)
    BY <1>1, ReaderParts
  <1>4. StartArray(h, garbage) = Push(Pop(h), "ARRAY", NoName)
    <2> HIDE DEF h
    <2> QED BY <1>1, <1>2, <1>3, Zenon DEF StartArray
  <1>5. Push(Pop(h), "ARRAY", NoName) = Reader(Append(s, ParseItem("ARRAY", NoName)), p, m, b)
    <2>1. Push(Reader(s, p, m, b), "ARRAY", NoName) =
            Reader(Append(s, ParseItem("ARRAY", NoName)), p, m, b)
      BY ReaderPush
    <2> HIDE DEF h
    <2> QED BY <1>3, <2>1, Zenon
  <1> QED BY <1>4, <1>5, Zenon DEF r

\* EndObject and EndArray take from the stack what they expect to find there.
LEMMA Ended ==
    ASSUME NEW T, NEW s \in Seq(T), NEW p, NEW m, NEW b, NEW type, NEW k
    PROVE  End(Reader(Append(s, ParseItem(type, k)), p, m, b), type) = Reader(s, p, m, b)
  <1> DEFINE r == Append(s, ParseItem(type, k))
  <1>1. top(r) = ParseItem(type, k) /\ popped(r) = s
    BY PoppedPush, Zenon
  <1> HIDE DEF r
  <1>2. End(Reader(r, p, m, b), type) = Reader(s, p, m, b)
    BY <1>1, ReaderParts DEF End, ParseItem
  <1> QED BY <1>2, Zenon DEF r

\* A number is a segment type, which is skipped, or the offset of a pointer.
LEMMA UintRead ==
    ASSUME NEW T, NEW s \in Seq(T), NEW p, NEW m, NEW b, NEW u,
           NEW k \in {"SegmentType", "ptr_offset"}
    PROVE  Uint(Reader(Append(s, ParseItem("KEY", k)), p, m, b), u) =
             IF k = "SegmentType" THEN Reader(s, p, m, b)
             ELSE Reader(Append(s, ParseItem("PTR_OFFSET", u)), p, m, b)
  <1> DEFINE r == Append(s, ParseItem("KEY", k))
  <1>1. top(r) = ParseItem("KEY", k) /\ popped(r) = s
    BY PoppedPush, Zenon
  <1> HIDE DEF r
  <1>2. top(r).key = k
    BY <1>1 DEF ParseItem
  <1>3. Pop(Reader(r, p, m, b)) = Reader(s, p, m, b)
    BY <1>1, ReaderParts
  <1>4. Uint(Reader(r, p, m, b), u) =
          IF k = "SegmentType" THEN Reader(s, p, m, b)
          ELSE Push(Reader(s, p, m, b), "PTR_OFFSET", u)
    BY <1>2, <1>3, ReaderParts DEF Uint
  <1> QED BY <1>4, ReaderPush DEF r

\* A string under a name that is not of the format becomes the next object.
Stored(s, p, m, b, key, str) ==
    Reader(s, Append(p, b.tail_offset), With(m, key, Len(p)), append(b, str))

\* A string after a key becomes an object, and the key is taken from the stack.
LEMMA StringStored ==
    ASSUME NEW T, NEW s \in Seq(T), NEW p, NEW m, NEW b, NEW str,
           NEW k, k # "ptr_key", k # "ptr_val"
    PROVE  String(Reader(Append(s, ParseItem("KEY", k)), p, m, b), str) =
             Stored(s, p, m, b, k, str)
  <1> DEFINE r == Append(s, ParseItem("KEY", k))
  <1>1. top(r) = ParseItem("KEY", k) /\ popped(r) = s
    BY PoppedPush, Zenon
  <1> HIDE DEF r
  <1>2. top(r).key = k
    BY <1>1 DEF ParseItem
  <1>3. Pop(Reader(r, p, m, b)) = Reader(s, p, m, b)
    BY <1>1, ReaderParts
  <1>4. String(Reader(r, p, m, b), str) = Store(Reader(s, p, m, b), k, str)
    BY <1>2, <1>3, ReaderParts DEF String
  <1>5. Store(Reader(s, p, m, b), k, str) = Stored(s, p, m, b, k, str)
    <2> DEFINE q == Append(p, b.tail_offset)
               w == With(m, k, Len(p))
               a == append(b, str)
               h == Reader(s, p, m, b)
    <2>1. Store(h, k, str) = [h EXCEPT !.objectBuffer = a, !.object_ptrs = q, !.name_id_map = w]
      <3>1. h.object_ptrs = p /\ h.name_id_map = m /\ h.objectBuffer = b
        BY ReaderParts
      <3> HIDE DEF h
      <3> QED BY <3>1, Zenon DEF Store
    <2> HIDE DEF q, w, a
    <2>2. [h EXCEPT !.objectBuffer = a, !.object_ptrs = q, !.name_id_map = w] =
            Reader(s, q, w, a)
      <3>1. [h EXCEPT !.objectBuffer = a] = Reader(s, p, m, a)
        BY DEF Reader
      <3>2. [Reader(s, p, m, a) EXCEPT !.object_ptrs = q] = Reader(s, q, m, a)
        BY DEF Reader
      <3>3. [Reader(s, q, m, a) EXCEPT !.name_id_map = w] = Reader(s, q, w, a)
        BY DEF Reader
      <3> HIDE DEF h
      <3> QED BY <3>1, <3>2, <3>3, Zenon
    <2> QED BY <2>1, <2>2, Zenon DEF Stored, q, w, a
  <1> QED BY <1>4, <1>5, Zenon DEF r

\* The key of a pointer waits on the stack for its offset and its value.
LEMMA PtrKeyRead ==
    ASSUME NEW T, NEW s \in Seq(T), NEW p, NEW m, NEW b, NEW str
    PROVE  String(Reader(Append(s, ParseItem("KEY", "ptr_key")), p, m, b), str) =
             Reader(Append(s, ParseItem("PTR_KEY", str)), p, m, b)
  <1> DEFINE r == Append(s, ParseItem("KEY", "ptr_key"))
  <1>1. top(r) = ParseItem("KEY", "ptr_key") /\ popped(r) = s
    BY PoppedPush, Zenon
  <1> HIDE DEF r
  <1>2. top(r).key = "ptr_key"
    BY <1>1 DEF ParseItem
  <1>3. Pop(Reader(r, p, m, b)) = Reader(s, p, m, b)
    BY <1>1, ReaderParts
  <1>4. String(Reader(r, p, m, b), str) = Push(Reader(s, p, m, b), "PTR_KEY", str)
    BY <1>2, <1>3, ReaderParts DEF String
  <1> QED BY <1>4, ReaderPush DEF r

\* The value of a pointer is stored and its address put into the item.
PointedAt(s, p, m, b, key, offset, str) ==
    LET index == IF key \in DOMAIN m THEN m[key] ELSE 0 IN
    Reader(s, p, With(m, key, index),
           put(append(b, str), Address(b.tail_offset), p[index + 1] + offset))

\* The value of a note: three items leave the stack, and the pointer is set.
LEMMA PtrValRead ==
    ASSUME NEW T, NEW s \in Seq(T), NEW p, NEW m, NEW b, NEW key, NEW offset, NEW str
    PROVE  String(Reader(Append(Append(Append(s, ParseItem("PTR_KEY", key)),
                                       ParseItem("PTR_OFFSET", offset)),
                                ParseItem("KEY", "ptr_val")), p, m, b), str) =
             PointedAt(s, p, m, b, key, offset, str)
  <1> DEFINE U == T \cup {ParseItem("PTR_KEY", key), ParseItem("PTR_OFFSET", offset)}
             s1 == Append(s, ParseItem("PTR_KEY", key))
             s2 == Append(s1, ParseItem("PTR_OFFSET", offset))
             s3 == Append(s2, ParseItem("KEY", "ptr_val"))
  <1>1. s1 \in Seq(U) /\ s2 \in Seq(U)
    <2>1. s \in Seq(U) /\ ParseItem("PTR_KEY", key) \in U /\ ParseItem("PTR_OFFSET", offset) \in U
      OBVIOUS
    <2> HIDE DEF U
    <2> QED BY <2>1
  <1> HIDE DEF U
  <1>2. top(s1) = ParseItem("PTR_KEY", key) /\ popped(s1) = s
    BY PoppedPush, Zenon
  <1> HIDE DEF s1
  <1>3. top(s2) = ParseItem("PTR_OFFSET", offset) /\ popped(s2) = s1
    BY <1>1, PoppedPush, Zenon
  <1> HIDE DEF s2
  <1>4. top(s3) = ParseItem("KEY", "ptr_val") /\ popped(s3) = s2
    BY <1>1, PoppedPush, Zenon
  <1> HIDE DEF s3
  <1>5. top(s3).key = "ptr_val" /\ top(s2).key = offset /\ top(s1).key = key
    BY <1>2, <1>3, <1>4 DEF ParseItem
  <1>6. /\ Pop(Reader(s3, p, m, b)) = Reader(s2, p, m, b)
        /\ Pop(Reader(s2, p, m, b)) = Reader(s1, p, m, b)
        /\ Pop(Reader(s1, p, m, b)) = Reader(s, p, m, b)
    BY <1>2, <1>3, <1>4, ReaderParts
  <1>7. String(Reader(s3, p, m, b), str) = Pointed(Reader(s, p, m, b), key, offset, str)
    BY <1>5, <1>6, ReaderParts DEF String
  <1>8. Pointed(Reader(s, p, m, b), key, offset, str) = PointedAt(s, p, m, b, key, offset, str)
    <2> DEFINE h == Reader(s, p, m, b)
               index == IF key \in DOMAIN m THEN m[key] ELSE 0
               w == With(m, key, index)
               a == put(append(b, str), Address(b.tail_offset), p[index + 1] + offset)
    <2>1. h.object_ptrs = p /\ h.name_id_map = m /\ h.objectBuffer = b
      BY ReaderParts
    <2>2. Pointed(h, key, offset, str) = [h EXCEPT !.objectBuffer = a, !.name_id_map = w]
      <3> HIDE DEF h
      <3> QED BY <2>1, Zenon DEF Pointed, Index
    <2> HIDE DEF index, w, a
    <2>3. [h EXCEPT !.objectBuffer = a, !.name_id_map = w] = Reader(s, p, w, a)
      <3>1. [h EXCEPT !.objectBuffer = a] = Reader(s, p, m, a)
        BY DEF Reader
      <3>2. [Reader(s, p, m, a) EXCEPT !.name_id_map = w] = Reader(s, p, w, a)
        BY DEF Reader
      <3> HIDE DEF h
      <3> QED BY <3>1, <3>2, Zenon
    <2> QED BY <2>2, <2>3, Zenon DEF PointedAt, index, w, a
  <1> QED BY <1>7, <1>8, Zenon DEF s1, s2, s3

-----------------------------------------------------------------------------
(* What the writer calls add to the text. *)

\* Reading the events leaves the handler with stack s, and so on.
Reads(events, start, garbage, s, p, m, b) ==
    Read(events, start, garbage) = Reader(s, p, m, b)

\* type and key on top of s.
On(s, type, key) == Append(s, ParseItem(type, key))

\* Read of one event is its callback.
LEMMA ReadOne ==
    ASSUME NEW E, NEW events \in Seq(E), NEW e \in E, NEW start, NEW garbage,
           NEW s, NEW p, NEW m, NEW b, Reads(events, start, garbage, s, p, m, b)
    PROVE  Read(events \o <<e>>, start, garbage) = Handled(Reader(s, p, m, b), e, garbage)
  <1>1. events \o <<e>> = Append(events, e)
    OBVIOUS
  <1>2. Read(events, start, garbage) = Reader(s, p, m, b)
    BY Zenon DEF Reads
  <1>3. Reader(s, p, m, b).status = "ok"
    BY ReaderParts
  <1>4. Read(Append(events, e), start, garbage) =
             IF Read(events, start, garbage).status # "ok"
             THEN Read(events, start, garbage)
             ELSE Handled(Read(events, start, garbage), e, garbage)
    BY ReadAppend
  <1> QED BY <1>1, <1>2, <1>3, <1>4, Zenon

\* Read of two events is one callback after the other.
LEMMA ReadTwo ==
    ASSUME NEW E, NEW events \in Seq(E), NEW e \in E, NEW f \in E, NEW start, NEW garbage,
           NEW s, NEW p, NEW m, NEW b, Reads(events, start, garbage, s, p, m, b),
           NEW r, Handled(Reader(s, p, m, b), e, garbage) = Reader(r, p, m, b)
    PROVE  Read(events \o <<e, f>>, start, garbage) = Handled(Reader(r, p, m, b), f, garbage)
  <1>1. events \o <<e, f>> = Append(Append(events, e), f)
    OBVIOUS
  <1>2. PICK more \in Seq(E) : more = Append(events, e) /\ more = events \o <<e>>
    <2>1. Append(events, e) \in Seq(E)
      OBVIOUS
    <2>2. Append(events, e) = events \o <<e>>
      OBVIOUS
    <2> QED BY <2>1, <2>2, Zenon
  <1>3. events \o <<e, f>> = more \o <<f>>
    <2>1. Append(more, f) = more \o <<f>>
      BY <1>2
    <2> QED BY <1>1, <1>2, <2>1, Zenon
  <1>4. Reads(more, start, garbage, r, p, m, b)
    BY <1>2, ReadOne DEF Reads
  <1>5. Read(more \o <<f>>, start, garbage) = Handled(Reader(r, p, m, b), f, garbage)
    BY <1>4, ReadOne
  <1> QED BY <1>3, <1>5, Zenon

\* The events a packet is made of.
Val == {<<>>} \cup Nat \cup Keys \cup Seq(Byte)
         \cup {"SegmentType", "PacketHeader", "note_arry", "ptr_key", "ptr_offset", "ptr_val"}
JsonEvent ==
    [type : {"Uint", "String", "Key", "StartObject", "EndObject", "StartArray", "EndArray"},
     val : Val]

\* The events of the writer are events.
LEMMA EventIn ==
    ASSUME NEW v \in Val,
           NEW type \in {"Uint", "String", "Key", "StartObject", "EndObject", "StartArray",
                         "EndArray"}
    PROVE  Event(type, v) \in JsonEvent
  BY Zenon DEF Event, JsonEvent

\* A structure event is a sequence of events.
LEMMA StructureIn ==
    ASSUME NEW type \in {"StartObject", "EndObject", "StartArray", "EndArray"}
    PROVE  /\ Structure(type) = <<Event(type, <<>>)>> /\ Event(type, <<>>) \in JsonEvent
           /\ Structure(type) \in Seq(JsonEvent)
  <1>1. Event(type, <<>>) \in JsonEvent
    <2>1. <<>> \in Val
      BY Zenon DEF Val
    <2> QED BY <2>1, EventIn, Zenon
  <1> QED BY <1>1 DEF Structure

\* A key and its value are a sequence of events.
LEMMA PairIn ==
    ASSUME NEW key \in Val, NEW type \in {"Uint", "String"}, NEW v \in Val
    PROVE  /\ Pair(key, type, v) = <<Event("Key", key), Event(type, v)>>
           /\ Event("Key", key) \in JsonEvent /\ Event(type, v) \in JsonEvent
           /\ Pair(key, type, v) \in Seq(JsonEvent)
  <1>1. Event("Key", key) \in JsonEvent /\ Event(type, v) \in JsonEvent
    BY EventIn, Zenon
  <1> QED BY <1>1 DEF Pair

\* What an event makes of a handler that has read the others.
LEMMA ReadStructure ==
    ASSUME NEW events \in Seq(JsonEvent), NEW start, NEW garbage, NEW s, NEW p, NEW m, NEW b,
           Reads(events, start, garbage, s, p, m, b),
           NEW type \in {"StartObject", "EndObject", "StartArray", "EndArray"}
    PROVE  Read(events \o Structure(type), start, garbage) =
             Handled(Reader(s, p, m, b), Event(type, <<>>), garbage)
  BY StructureIn, ReadOne

\* StartObject pushes an object.
LEMMA ReadStartObject ==
    ASSUME NEW events \in Seq(JsonEvent), NEW start, NEW garbage, NEW s, NEW p, NEW m, NEW b,
           Reads(events, start, garbage, s, p, m, b)
    PROVE  Reads(events \o Structure("StartObject"), start, garbage,
                 On(s, "OBJECT", NoName), p, m, b)
  <1>1. Read(events \o Structure("StartObject"), start, garbage) =
          Handled(Reader(s, p, m, b), Event("StartObject", <<>>), garbage)
    BY ReadStructure
  <1>2. Handled(Reader(s, p, m, b), Event("StartObject", <<>>), garbage) =
          Push(Reader(s, p, m, b), "OBJECT", NoName)
    BY Callbacks, Zenon
  <1>3. Push(Reader(s, p, m, b), "OBJECT", NoName) = Reader(On(s, "OBJECT", NoName), p, m, b)
    BY ReaderPush DEF On
  <1> QED BY <1>1, <1>2, <1>3, Zenon DEF Reads

\* StartArray pushes an array where the stack has no key on top.
LEMMA ReadStartArray ==
    ASSUME NEW events \in Seq(JsonEvent), NEW start, NEW garbage, NEW s, NEW p, NEW m, NEW b,
           Reads(events, start, garbage, s, p, m, b),
           IF s = <<>> THEN garbage # "KEY" ELSE top(s).type # "KEY"
    PROVE  Reads(events \o Structure("StartArray"), start, garbage,
                 On(s, "ARRAY", NoName), p, m, b)
  <1>1. Read(events \o Structure("StartArray"), start, garbage) =
          Handled(Reader(s, p, m, b), Event("StartArray", <<>>), garbage)
    BY ReadStructure
  <1>2. Handled(Reader(s, p, m, b), Event("StartArray", <<>>), garbage) =
          StartArray(Reader(s, p, m, b), garbage)
    BY Callbacks, Zenon
  <1>3. StartArray(Reader(s, p, m, b), garbage) = Reader(On(s, "ARRAY", NoName), p, m, b)
    BY FreeArray, Zenon DEF On
  <1> QED BY <1>1, <1>2, <1>3, Zenon DEF Reads

\* StartArray takes the key of the array from the stack.
LEMMA ReadKeyedArray ==
    ASSUME NEW events \in Seq(JsonEvent), NEW start, NEW garbage, NEW p, NEW m, NEW b,
           NEW T, NEW s \in Seq(T), NEW k,
           Reads(events, start, garbage, On(s, "KEY", k), p, m, b)
    PROVE  Reads(events \o Structure("StartArray"), start, garbage,
                 On(s, "ARRAY", NoName), p, m, b)
  <1> DEFINE h == Reader(On(s, "KEY", k), p, m, b)
  <1>1. Read(events \o Structure("StartArray"), start, garbage) =
          Handled(h, Event("StartArray", <<>>), garbage)
    BY ReadStructure
  <1>2. Handled(h, Event("StartArray", <<>>), garbage) = StartArray(h, garbage)
    BY Callbacks, Zenon
  <1>3. StartArray(h, garbage) = Reader(On(s, "ARRAY", NoName), p, m, b)
    BY KeyedArray DEF On
  <1> QED BY <1>1, <1>2, <1>3, Zenon DEF Reads

\* The end of what is on top of the stack.
LEMMA ReadEnd ==
    ASSUME NEW events \in Seq(JsonEvent), NEW start, NEW garbage, NEW p, NEW m, NEW b,
           NEW T, NEW s \in Seq(T), NEW k
    PROVE  /\ Reads(events, start, garbage, On(s, "OBJECT", k), p, m, b) =>
                Reads(events \o Structure("EndObject"), start, garbage, s, p, m, b)
           /\ Reads(events, start, garbage, On(s, "ARRAY", k), p, m, b) =>
                Reads(events \o Structure("EndArray"), start, garbage, s, p, m, b)
  <1>1. ASSUME Reads(events, start, garbage, On(s, "OBJECT", k), p, m, b)
        PROVE  Reads(events \o Structure("EndObject"), start, garbage, s, p, m, b)
    <2> DEFINE h == Reader(On(s, "OBJECT", k), p, m, b)
    <2>1. Read(events \o Structure("EndObject"), start, garbage) =
            Handled(h, Event("EndObject", <<>>), garbage)
      BY <1>1, ReadStructure
    <2>2. Handled(h, Event("EndObject", <<>>), garbage) = End(h, "OBJECT")
      BY Callbacks, Zenon
    <2>3. End(h, "OBJECT") = Reader(s, p, m, b)
      BY Ended DEF On
    <2> QED BY <2>1, <2>2, <2>3, Zenon DEF Reads
  <1>2. ASSUME Reads(events, start, garbage, On(s, "ARRAY", k), p, m, b)
        PROVE  Reads(events \o Structure("EndArray"), start, garbage, s, p, m, b)
    <2> DEFINE h == Reader(On(s, "ARRAY", k), p, m, b)
    <2>1. Read(events \o Structure("EndArray"), start, garbage) =
            Handled(h, Event("EndArray", <<>>), garbage)
      BY <1>2, ReadStructure
    <2>2. Handled(h, Event("EndArray", <<>>), garbage) = End(h, "ARRAY")
      BY Callbacks, Zenon
    <2>3. End(h, "ARRAY") = Reader(s, p, m, b)
      BY Ended DEF On
    <2> QED BY <2>1, <2>2, <2>3, Zenon DEF Reads
  <1> QED BY <1>1, <1>2, Zenon

\* A key and a value: the callback of the value, with the key on top of the stack.
LEMMA ReadPair ==
    ASSUME NEW events \in Seq(JsonEvent), NEW start, NEW garbage, NEW s, NEW p, NEW m, NEW b,
           Reads(events, start, garbage, s, p, m, b),
           NEW key \in Val, NEW type \in {"Uint", "String"}, NEW v \in Val
    PROVE  Read(events \o Pair(key, type, v), start, garbage) =
             Handled(Reader(On(s, "KEY", key), p, m, b), Event(type, v), garbage)
  <1>1. Handled(Reader(s, p, m, b), Event("Key", key), garbage) =
          Reader(On(s, "KEY", key), p, m, b)
    BY Callbacks, ReaderPush DEF On
  <1>2. /\ Pair(key, type, v) = <<Event("Key", key), Event(type, v)>>
        /\ Event("Key", key) \in JsonEvent /\ Event(type, v) \in JsonEvent
    BY PairIn, Zenon
  <1> QED BY <1>1, <1>2, ReadTwo

\* The type of a segment leaves no trace.
LEMMA ReadSegmentType ==
    ASSUME NEW events \in Seq(JsonEvent), NEW start, NEW garbage, NEW p, NEW m, NEW b,
           NEW T, NEW s \in Seq(T), Reads(events, start, garbage, s, p, m, b), NEW u \in Val
    PROVE  Reads(events \o Pair("SegmentType", "Uint", u), start, garbage, s, p, m, b)
  <1> DEFINE h == Reader(On(s, "KEY", "SegmentType"), p, m, b)
  <1>0. "SegmentType" \in Val
    BY Zenon DEF Val
  <1>1. Read(events \o Pair("SegmentType", "Uint", u), start, garbage) =
          Handled(h, Event("Uint", u), garbage)
    BY <1>0, ReadPair
  <1>2. Handled(h, Event("Uint", u), garbage) = Uint(h, u)
    BY Callbacks, Zenon
  <1>3. Uint(h, u) = Reader(s, p, m, b)
    BY UintRead DEF On
  <1> QED BY <1>1, <1>2, <1>3, Zenon DEF Reads

\* The offset of a note goes on the stack.
LEMMA ReadPtrOffset ==
    ASSUME NEW events \in Seq(JsonEvent), NEW start, NEW garbage, NEW p, NEW m, NEW b,
           NEW T, NEW s \in Seq(T), Reads(events, start, garbage, s, p, m, b), NEW u \in Val
    PROVE  Reads(events \o Pair("ptr_offset", "Uint", u), start, garbage,
                 On(s, "PTR_OFFSET", u), p, m, b)
  <1> DEFINE h == Reader(On(s, "KEY", "ptr_offset"), p, m, b)
  <1>0. "ptr_offset" \in Val
    BY Zenon DEF Val
  <1>1. Read(events \o Pair("ptr_offset", "Uint", u), start, garbage) =
          Handled(h, Event("Uint", u), garbage)
    BY <1>0, ReadPair
  <1>2. Handled(h, Event("Uint", u), garbage) = Uint(h, u)
    BY Callbacks, Zenon
  <1>3. Uint(h, u) = Reader(On(s, "PTR_OFFSET", u), p, m, b)
    BY UintRead DEF On
  <1> QED BY <1>1, <1>2, <1>3, Zenon DEF Reads

\* An item is stored under its key.
LEMMA ReadItem ==
    ASSUME NEW events \in Seq(JsonEvent), NEW start, NEW garbage, NEW p, NEW m, NEW b,
           NEW T, NEW s \in Seq(T), Reads(events, start, garbage, s, p, m, b),
           NEW key \in Val, key # "ptr_key", key # "ptr_val", NEW v \in Val
    PROVE  Reads(events \o Pair(key, "String", v), start, garbage,
                 s, Append(p, b.tail_offset), With(m, key, Len(p)), append(b, v))
  <1> DEFINE h == Reader(On(s, "KEY", key), p, m, b)
  <1>1. Read(events \o Pair(key, "String", v), start, garbage) =
          Handled(h, Event("String", v), garbage)
    BY ReadPair
  <1>2. Handled(h, Event("String", v), garbage) = String(h, v)
    BY Callbacks, Zenon
  <1>3. String(h, v) = Stored(s, p, m, b, key, v)
    BY StringStored DEF On
  <1> QED BY <1>1, <1>2, <1>3, Zenon DEF Reads, Stored

\* The key of a note goes on the stack.
LEMMA ReadPtrKey ==
    ASSUME NEW events \in Seq(JsonEvent), NEW start, NEW garbage, NEW p, NEW m, NEW b,
           NEW T, NEW s \in Seq(T), Reads(events, start, garbage, s, p, m, b), NEW v \in Val
    PROVE  Reads(events \o Pair("ptr_key", "String", v), start, garbage,
                 On(s, "PTR_KEY", v), p, m, b)
  <1> DEFINE h == Reader(On(s, "KEY", "ptr_key"), p, m, b)
  <1>0. "ptr_key" \in Val
    BY Zenon DEF Val
  <1>1. Read(events \o Pair("ptr_key", "String", v), start, garbage) =
          Handled(h, Event("String", v), garbage)
    BY <1>0, ReadPair
  <1>2. Handled(h, Event("String", v), garbage) = String(h, v)
    BY Callbacks, Zenon
  <1>3. String(h, v) = Reader(On(s, "PTR_KEY", v), p, m, b)
    BY PtrKeyRead DEF On
  <1> QED BY <1>1, <1>2, <1>3, Zenon DEF Reads

\* What the value of a note makes of the map and of the buffer.
NotedMap(m, key) == With(m, key, IF key \in DOMAIN m THEN m[key] ELSE 0)
NotedBuffer(p, m, b, key, offset, v) ==
    put(append(b, v), Address(b.tail_offset),
        p[(IF key \in DOMAIN m THEN m[key] ELSE 0) + 1] + offset)

\* The value of a note goes to the buffer, its address to the item.
LEMMA ReadPtrVal ==
    ASSUME NEW events \in Seq(JsonEvent), NEW start, NEW garbage, NEW p, NEW m, NEW b,
           NEW T, NEW s \in Seq(T), NEW key, NEW offset,
           Reads(events, start, garbage,
                 On(On(s, "PTR_KEY", key), "PTR_OFFSET", offset), p, m, b),
           NEW v \in Val
    PROVE  Reads(events \o Pair("ptr_val", "String", v), start, garbage,
                 s, p, NotedMap(m, key), NotedBuffer(p, m, b, key, offset, v))
  <1> DEFINE h == Reader(On(On(On(s, "PTR_KEY", key), "PTR_OFFSET", offset),
                            "KEY", "ptr_val"), p, m, b)
  <1>0. "ptr_val" \in Val
    BY Zenon DEF Val
  <1>1. Read(events \o Pair("ptr_val", "String", v), start, garbage) =
          Handled(h, Event("String", v), garbage)
    BY <1>0, ReadPair
  <1>2. Handled(h, Event("String", v), garbage) = String(h, v)
    BY Callbacks, Zenon
  <1>3. String(h, v) = PointedAt(s, p, m, b, key, offset, v)
    BY PtrValRead DEF On
  <1> QED BY <1>1, <1>2, <1>3, Zenon DEF Reads, PointedAt, NotedMap, NotedBuffer

\* The parse stack, and events that follow others.
StackItem == [type : ParseType, key : Val \cup {NoName}]

\* The stack stays a sequence of parse items.
LEMMA OnStack ==
    ASSUME NEW s \in Seq(StackItem), NEW type \in ParseType, NEW key \in Val \cup {NoName}
    PROVE  On(s, type, key) \in Seq(StackItem)
  <1>1. ParseItem(type, key) \in StackItem
    BY Zenon DEF ParseItem, StackItem
  <1> QED BY <1>1 DEF On

\* Texts joined are a text.
LEMMA Follow ==
    ASSUME NEW s \in Seq(JsonEvent), NEW t \in Seq(JsonEvent)
    PROVE  s \o t \in Seq(JsonEvent)
  BY ConcatProperties, Zenon

\* Joining texts is associative.
LEMMA FollowTwo ==
    ASSUME NEW s \in Seq(JsonEvent), NEW t \in Seq(JsonEvent), NEW u \in Seq(JsonEvent)
    PROVE  s \o (t \o u) = (s \o t) \o u
  BY ConcatAssociative, SMTT(30)

Cat(s, t) == s \o t

\* A longer chain of texts, grouped from the left.
LEMMA FollowMany ==
    ASSUME NEW s \in Seq(JsonEvent), NEW a \in Seq(JsonEvent), NEW b \in Seq(JsonEvent),
           NEW c \in Seq(JsonEvent)
    PROVE  /\ Cat(s, Cat(Cat(a, b), c)) = Cat(Cat(Cat(s, a), b), c)
           /\ \A d \in Seq(JsonEvent) :
                Cat(s, Cat(Cat(Cat(a, b), c), d)) = Cat(Cat(Cat(Cat(s, a), b), c), d)
  <1>1. \A x, y \in Seq(JsonEvent) : Cat(x, y) \in Seq(JsonEvent)
    BY Follow, Zenon DEF Cat
  <1>2. \A x, y, z \in Seq(JsonEvent) : Cat(x, Cat(y, z)) = Cat(Cat(x, y), z)
    BY FollowTwo, Zenon DEF Cat
  <1>3. PICK x \in Seq(JsonEvent) : x = Cat(a, b)
    BY <1>1, Zenon
  <1>4. PICK y \in Seq(JsonEvent) : y = Cat(x, c)
    BY <1>1, Zenon
  <1>5. Cat(s, x) = Cat(Cat(s, a), b)
    BY <1>2, <1>3
  <1>6. Cat(s, y) = Cat(Cat(s, x), c)
    BY <1>2, <1>4
  <1>7. \A d \in Seq(JsonEvent) : Cat(s, Cat(y, d)) = Cat(Cat(s, y), d)
    BY <1>2, Zenon
  <1> QED BY <1>3, <1>4, <1>5, <1>6, <1>7

\* The empty text may be left out.
LEMMA FollowNone == ASSUME NEW s \in Seq(JsonEvent) PROVE s \o <<>> = s
  BY ConcatEmptySeq, Zenon

\* What the writer is called with is a value of an event.
LEMMA ValIn ==
    /\ "SegmentType" \in Val /\ "PacketHeader" \in Val /\ "note_arry" \in Val
    /\ "ptr_key" \in Val /\ "ptr_offset" \in Val /\ "ptr_val" \in Val
    /\ \A k \in Keys : k \in Val
    /\ \A v \in Seq(Byte) : v \in Val
    /\ \A n \in Nat : n \in Val
    /\ 0 \in Val /\ 1 \in Val /\ 2 \in Val
  <1>1. 0 \in Nat /\ 1 \in Nat /\ 2 \in Nat
    OBVIOUS
  <1> QED BY <1>1, Zenon DEF Val

\* What set_packet_header writes.
HeaderText(h) ==
    Structure("StartArray") \o Structure("StartObject") \o Pair("SegmentType", "Uint", 0)
        \o Pair("PacketHeader", "String", h) \o Structure("EndObject")

\* What set_packet_header writes, read from a stack with nothing open.
LEMMA HeaderRead ==
    ASSUME NEW garbage, NEW s \in Seq(StackItem), NEW p, NEW m, NEW b,
           IF s = <<>> THEN garbage # "KEY" ELSE top(s).type # "KEY",
           NEW h \in Seq(Byte)
    PROVE  /\ HeaderText(h) \in Seq(JsonEvent)
           /\ Reads(HeaderText(h), Reader(s, p, m, b), garbage, On(s, "ARRAY", NoName),
                    Append(p, b.tail_offset), With(m, "PacketHeader", Len(p)), append(b, h))
  <1> DEFINE start == Reader(s, p, m, b)
             s1 == On(s, "ARRAY", NoName)
             s2 == On(s1, "OBJECT", NoName)
             e1 == Structure("StartArray")
             e2 == e1 \o Structure("StartObject")
             e3 == e2 \o Pair("SegmentType", "Uint", 0)
             e4 == e3 \o Pair("PacketHeader", "String", h)
             e5 == e4 \o Structure("EndObject")
             q == Append(p, b.tail_offset)
             w == With(m, "PacketHeader", Len(p))
             a == append(b, h)
  <1> HIDE DEF start
  <1>1. s1 \in Seq(StackItem) /\ s2 \in Seq(StackItem)
    BY OnStack, Zenon DEF ParseType
  <1>2. e1 \in Seq(JsonEvent) /\ Reads(e1, start, garbage, s1, p, m, b)
    <2>1. <<>> \in Seq(JsonEvent) /\ e1 \in Seq(JsonEvent)
      BY StructureIn
    <2>2. Reads(<<>>, start, garbage, s, p, m, b)
      BY ReadNothing, Zenon DEF Reads, start
    <2>3. Reads(<<>> \o Structure("StartArray"), start, garbage, s1, p, m, b)
      <3> HIDE DEF s1
      <3> QED BY <2>1, <2>2, ReadStartArray, Zenon DEF s1
    <2>4. <<>> \o e1 = e1
      BY <2>1, ConcatEmptySeq, Zenon
    <2> QED BY <2>1, <2>3, <2>4, Zenon
  <1> HIDE DEF e1, s1
  <1>3. e2 \in Seq(JsonEvent) /\ Reads(e2, start, garbage, s2, p, m, b)
    BY <1>2, ReadStartObject, Follow, StructureIn, Zenon
  <1> HIDE DEF e2, s2
  <1>4. e3 \in Seq(JsonEvent) /\ Reads(e3, start, garbage, s2, p, m, b)
    BY <1>1, <1>3, ReadSegmentType, Follow, PairIn, ValIn, Zenon
  <1> HIDE DEF e3
  <1>5. e4 \in Seq(JsonEvent) /\ Reads(e4, start, garbage, s2, q, w, a)
    <2>1. e4 \in Seq(JsonEvent)
      BY <1>4, Follow, PairIn, ValIn, Zenon
    <2>2. Reads(e4, start, garbage, s2, q, w, a)
      BY <1>1, <1>4, ReadItem, ValIn, Zenon
    <2> QED BY <2>1, <2>2, Zenon
  <1> HIDE DEF e4, q, w, a
  <1>6. e5 \in Seq(JsonEvent) /\ Reads(e5, start, garbage, s1, q, w, a)
    <2>1. e5 \in Seq(JsonEvent)
      BY <1>5, Follow, StructureIn, Zenon
    <2>2. Reads(e4, start, garbage, On(s1, "OBJECT", NoName), q, w, a)
      BY <1>5, Zenon DEF s2
    <2>3. Reads(e5, start, garbage, s1, q, w, a)
      BY <1>1, <1>5, <2>2, ReadEnd, Zenon
    <2> QED BY <2>1, <2>3, Zenon
  <1> QED BY <1>6, Zenon DEF HeaderText, start, e1, e2, e3, e4, s1, q, w, a

\* What set_packet_item writes.
ItemText(events, key, v, opens, closes) ==
    events \o If(opens, Structure("StartObject") \o Pair("SegmentType", "Uint", 1))
           \o Pair(key, "String", v)
           \o If(closes, Structure("EndObject"))

\* What set_packet_item writes, read inside the array of the packet.
LEMMA ItemRead ==
    ASSUME NEW events \in Seq(JsonEvent), NEW start, NEW garbage, NEW p, NEW m, NEW b,
           NEW s \in Seq(StackItem),
           NEW key \in Val, key # "ptr_key", key # "ptr_val", NEW v \in Val,
           NEW opens \in BOOLEAN, NEW closes \in BOOLEAN,
           Reads(events, start, garbage, IF opens THEN s ELSE On(s, "OBJECT", NoName), p, m, b)
    PROVE  LET more == ItemText(events, key, v, opens, closes)
           IN  /\ more \in Seq(JsonEvent)
               /\ Reads(more, start, garbage, IF closes THEN s ELSE On(s, "OBJECT", NoName),
                        Append(p, b.tail_offset), With(m, key, Len(p)), append(b, v))
  <1> DEFINE s1 == On(s, "OBJECT", NoName)
             opening == Structure("StartObject") \o Pair("SegmentType", "Uint", 1)
             e1 == events \o If(opens, opening)
             e2 == e1 \o Pair(key, "String", v)
             e3 == e2 \o If(closes, Structure("EndObject"))
             q == Append(p, b.tail_offset)
             w == With(m, key, Len(p))
             a == append(b, v)
  <1>1. s1 \in Seq(StackItem)
    BY OnStack, Zenon DEF ParseType
  <1>2. e1 \in Seq(JsonEvent) /\ Reads(e1, start, garbage, s1, p, m, b)
    <2>1. CASE opens
      <3> DEFINE d1 == events \o Structure("StartObject")
                 d2 == d1 \o Pair("SegmentType", "Uint", 1)
      <3>1. Structure("StartObject") \in Seq(JsonEvent)
        BY StructureIn, Zenon
      <3>2. Pair("SegmentType", "Uint", 1) \in Seq(JsonEvent)
        BY PairIn, ValIn, Zenon
      <3>3. e1 = d2
        BY <2>1, <3>1, <3>2, FollowTwo, Zenon DEF If
      <3>4. d1 \in Seq(JsonEvent) /\ Reads(d1, start, garbage, s1, p, m, b)
        BY <2>1, <3>1, ReadStartObject, Follow, Zenon
      <3> HIDE DEF d1, s1
      <3>5. d2 \in Seq(JsonEvent)
        BY <3>2, <3>4, Follow, Zenon
      <3>6. Reads(d2, start, garbage, s1, p, m, b)
        BY <1>1, <3>4, ReadSegmentType, ValIn, Zenon
      <3> HIDE DEF e1, d2
      <3> QED BY <3>3, <3>5, <3>6, Zenon
    <2>2. CASE ~opens
      <3>1. e1 = events
        BY <2>2, FollowNone, Zenon DEF If
      <3> QED BY <2>2, <3>1, Zenon
    <2> QED BY <2>1, <2>2, Zenon
  <1> HIDE DEF e1, s1
  <1>3. e2 \in Seq(JsonEvent) /\ Reads(e2, start, garbage, s1, q, w, a)
    <2>1. e2 \in Seq(JsonEvent)
      BY <1>2, Follow, PairIn, Zenon
    <2>2. Reads(e2, start, garbage, s1, q, w, a)
      BY <1>1, <1>2, ReadItem, Zenon
    <2> QED BY <2>1, <2>2, Zenon
  <1> HIDE DEF e2, q, w, a
  <1>4. e3 \in Seq(JsonEvent) /\ Reads(e3, start, garbage, IF closes THEN s ELSE s1, q, w, a)
    <2>1. CASE closes
      <3>1. e3 = e2 \o Structure("EndObject")
        BY <2>1, Zenon DEF If
      <3>2. Reads(e2, start, garbage, On(s, "OBJECT", NoName), q, w, a)
        BY <1>3, Zenon DEF s1
      <3>3. Reads(e2 \o Structure("EndObject"), start, garbage, s, q, w, a)
        BY <1>3, <3>2, ReadEnd, Zenon
      <3>4. e2 \o Structure("EndObject") \in Seq(JsonEvent)
        BY <1>3, Follow, StructureIn, Zenon
      <3> QED BY <2>1, <3>1, <3>3, <3>4, Zenon
    <2>2. CASE ~closes
      <3>1. e3 = e2
        BY <1>3, <2>2, FollowNone, Zenon DEF If
      <3> QED BY <1>3, <2>2, <3>1, Zenon
    <2> QED BY <2>1, <2>2, Zenon
  <1> QED BY <1>4, Zenon DEF ItemText, e1, e2, s1, q, w, a

\* What set_note_for_ptr writes: the beginning of the array of notes, a note, and
\* the end of the array and of the packet.
NotesBegin == Structure("StartObject") \o Pair("SegmentType", "Uint", 2)
                \o <<Event("Key", "note_arry")>> \o Structure("StartArray")
NotesEnd == Structure("EndArray") \o Structure("EndObject") \o Structure("EndArray")

\* What the first note writes before it.
LEMMA NotesBeginRead ==
    ASSUME NEW events \in Seq(JsonEvent), NEW start, NEW garbage, NEW p, NEW m, NEW b,
           NEW s \in Seq(StackItem), Reads(events, start, garbage, s, p, m, b)
    PROVE  /\ events \o NotesBegin \in Seq(JsonEvent)
           /\ Reads(events \o NotesBegin, start, garbage,
                    On(On(s, "OBJECT", NoName), "ARRAY", NoName), p, m, b)
  <1> DEFINE s1 == On(s, "OBJECT", NoName)
             s2 == On(s1, "ARRAY", NoName)
             a1 == Structure("StartObject")
             a2 == Pair("SegmentType", "Uint", 2)
             a3 == <<Event("Key", "note_arry")>>
             a4 == Structure("StartArray")
             e1 == events \o a1
             e2 == e1 \o a2
             e3 == e2 \o a3
             e4 == e3 \o a4
  <1>0. s1 \in Seq(StackItem)
    BY OnStack, Zenon DEF ParseType
  <1>1. Event("Key", "note_arry") \in JsonEvent
    BY EventIn, ValIn, Zenon
  <1>2. a1 \in Seq(JsonEvent) /\ a2 \in Seq(JsonEvent) /\ a3 \in Seq(JsonEvent)
          /\ a4 \in Seq(JsonEvent)
    BY <1>1, StructureIn, PairIn, ValIn
  <1>3. e1 \in Seq(JsonEvent) /\ Reads(e1, start, garbage, s1, p, m, b)
    BY ReadStartObject, Follow, StructureIn, Zenon
  <1> HIDE DEF e1, s1
  <1>4. e2 \in Seq(JsonEvent) /\ Reads(e2, start, garbage, s1, p, m, b)
    <2>1. e2 \in Seq(JsonEvent)
      BY <1>2, <1>3, Follow, Zenon
    <2>2. Reads(e2, start, garbage, s1, p, m, b)
      BY <1>0, <1>3, ReadSegmentType, ValIn, Zenon
    <2> QED BY <2>1, <2>2, Zenon
  <1> HIDE DEF e2
  <1>5. e3 \in Seq(JsonEvent) /\ Reads(e3, start, garbage, On(s1, "KEY", "note_arry"), p, m, b)
    <2>1. e3 \in Seq(JsonEvent)
      BY <1>2, <1>4, Follow, Zenon
    <2>2. Read(e3, start, garbage) =
            Handled(Reader(s1, p, m, b), Event("Key", "note_arry"), garbage)
      BY <1>1, <1>4, ReadOne
    <2>3. Handled(Reader(s1, p, m, b), Event("Key", "note_arry"), garbage) =
            Reader(On(s1, "KEY", "note_arry"), p, m, b)
      BY Callbacks, ReaderPush DEF On
    <2> QED BY <2>1, <2>2, <2>3, Zenon DEF Reads
  <1> HIDE DEF e3
  <1>6. e4 \in Seq(JsonEvent) /\ Reads(e4, start, garbage, s2, p, m, b)
    <2>1. e4 \in Seq(JsonEvent)
      BY <1>2, <1>5, Follow, Zenon
    <2>2. Reads(e4, start, garbage, s2, p, m, b)
      BY <1>0, <1>5, ReadKeyedArray, Zenon
    <2> QED BY <2>1, <2>2, Zenon
  <1>7. events \o (a1 \o a2 \o a3 \o a4) = events \o a1 \o a2 \o a3 \o a4
    <2> HIDE DEF a1, a2, a3, a4
    <2>1. Cat(events, Cat(Cat(Cat(a1, a2), a3), a4)) =
            Cat(Cat(Cat(Cat(events, a1), a2), a3), a4)
      BY <1>2, FollowMany
    <2> QED BY <2>1, Zenon DEF Cat
  <1> QED BY <1>6, <1>7, Zenon DEF NotesBegin, e1, e2, e3, s1

\* What the last note writes after it.
LEMMA NotesEndRead ==
    ASSUME NEW events \in Seq(JsonEvent), NEW start, NEW garbage, NEW p, NEW m, NEW b,
           NEW s \in Seq(StackItem),
           Reads(events, start, garbage,
                 On(On(On(s, "ARRAY", NoName), "OBJECT", NoName), "ARRAY", NoName), p, m, b)
    PROVE  /\ events \o NotesEnd \in Seq(JsonEvent)
           /\ Reads(events \o NotesEnd, start, garbage, s, p, m, b)
  <1> DEFINE s1 == On(s, "ARRAY", NoName)
             s2 == On(s1, "OBJECT", NoName)
             a1 == Structure("EndArray")
             a2 == Structure("EndObject")
             e1 == events \o a1
             e2 == e1 \o a2
             e3 == e2 \o a1
  <1>1. s1 \in Seq(StackItem) /\ s2 \in Seq(StackItem)
    BY OnStack, Zenon DEF ParseType
  <1>2. a1 \in Seq(JsonEvent) /\ a2 \in Seq(JsonEvent)
    BY StructureIn, Zenon
  <1>3. e1 \in Seq(JsonEvent) /\ Reads(e1, start, garbage, s2, p, m, b)
    <2>1. e1 \in Seq(JsonEvent)
      BY <1>2, Follow, Zenon
    <2>2. Reads(events, start, garbage, On(s2, "ARRAY", NoName), p, m, b)
      OBVIOUS
    <2> HIDE DEF s2
    <2>3. Reads(e1, start, garbage, s2, p, m, b)
      BY <1>1, <2>2, ReadEnd, Zenon
    <2> QED BY <2>1, <2>3, Zenon
  <1>4. e2 \in Seq(JsonEvent) /\ Reads(e2, start, garbage, s1, p, m, b)
    <2> HIDE DEF e1, s1
    <2>1. e2 \in Seq(JsonEvent)
      BY <1>2, <1>3, Follow, Zenon
    <2>2. Reads(e2, start, garbage, s1, p, m, b)
      BY <1>1, <1>3, ReadEnd, Zenon
    <2> QED BY <2>1, <2>2, Zenon
  <1>5. e3 \in Seq(JsonEvent) /\ Reads(e3, start, garbage, s, p, m, b)
    <2> HIDE DEF e2
    <2>1. e3 \in Seq(JsonEvent)
      BY <1>2, <1>4, Follow, Zenon
    <2>2. Reads(e3, start, garbage, s, p, m, b)
      BY <1>4, ReadEnd, Zenon
    <2> QED BY <2>1, <2>2, Zenon
  <1>6. events \o (a1 \o a2 \o a1) = events \o a1 \o a2 \o a1
    <2> HIDE DEF a1, a2
    <2>1. Cat(events, Cat(Cat(a1, a2), a1)) = Cat(Cat(Cat(events, a1), a2), a1)
      BY <1>2, FollowMany
    <2> QED BY <2>1, Zenon DEF Cat
  <1> QED BY <1>5, <1>6, Zenon DEF NotesEnd

\* A note leaves the stack as it was.
LEMMA OneNoteRead ==
    ASSUME NEW events \in Seq(JsonEvent), NEW start, NEW garbage, NEW p, NEW m, NEW b,
           NEW s \in Seq(StackItem), Reads(events, start, garbage, s, p, m, b),
           NEW key \in Val, NEW offset \in Val, NEW v \in Val
    PROVE  LET more == events \o Structure("StartObject")
                        \o Pair("ptr_key", "String", key) \o Pair("ptr_offset", "Uint", offset)
                        \o Pair("ptr_val", "String", v) \o Structure("EndObject")
           IN  /\ more \in Seq(JsonEvent)
               /\ Reads(more, start, garbage, s, p, NotedMap(m, key),
                        NotedBuffer(p, m, b, key, offset, v))
  <1> DEFINE s1 == On(s, "OBJECT", NoName)
             s2 == On(s1, "PTR_KEY", key)
             s3 == On(s2, "PTR_OFFSET", offset)
             e1 == events \o Structure("StartObject")
             e2 == e1 \o Pair("ptr_key", "String", key)
             e3 == e2 \o Pair("ptr_offset", "Uint", offset)
             e4 == e3 \o Pair("ptr_val", "String", v)
             e5 == e4 \o Structure("EndObject")
             w == NotedMap(m, key)
             a == NotedBuffer(p, m, b, key, offset, v)
  <1> HIDE DEF w, a
  <1>1. s1 \in Seq(StackItem)
    BY OnStack, Zenon DEF ParseType
  <1>2. s2 \in Seq(StackItem)
    <2> HIDE DEF s1
    <2> QED BY <1>1, OnStack, Zenon DEF ParseType
  <1>3. e1 \in Seq(JsonEvent) /\ Reads(e1, start, garbage, s1, p, m, b)
    BY ReadStartObject, Follow, StructureIn, Zenon
  <1> HIDE DEF e1, s1
  <1>4. e2 \in Seq(JsonEvent) /\ Reads(e2, start, garbage, s2, p, m, b)
    <2>1. e2 \in Seq(JsonEvent)
      BY <1>3, Follow, PairIn, ValIn, Zenon
    <2>2. Reads(e2, start, garbage, s2, p, m, b)
      BY <1>1, <1>3, ReadPtrKey, Zenon
    <2> QED BY <2>1, <2>2, Zenon
  <1> HIDE DEF e2
  <1>5. e3 \in Seq(JsonEvent) /\ Reads(e3, start, garbage, s3, p, m, b)
    <2> HIDE DEF s2
    <2>1. e3 \in Seq(JsonEvent)
      BY <1>4, Follow, PairIn, ValIn, Zenon
    <2>2. Reads(e3, start, garbage, s3, p, m, b)
      BY <1>2, <1>4, ReadPtrOffset, Zenon
    <2> QED BY <2>1, <2>2, Zenon
  <1> HIDE DEF e3
  <1>6. e4 \in Seq(JsonEvent) /\ Reads(e4, start, garbage, s1, p, w, a)
    <2>1. e4 \in Seq(JsonEvent)
      BY <1>5, Follow, PairIn, ValIn, Zenon
    <2>2. Reads(e4, start, garbage, s1, p, w, a)
      BY <1>1, <1>5, ReadPtrVal, Zenon DEF w, a
    <2> QED BY <2>1, <2>2, Zenon
  <1> HIDE DEF e4
  <1>7. e5 \in Seq(JsonEvent) /\ Reads(e5, start, garbage, s, p, w, a)
    <2>1. e5 \in Seq(JsonEvent)
      BY <1>6, Follow, StructureIn, Zenon
    <2>2. Reads(e4, start, garbage, On(s, "OBJECT", NoName), p, w, a)
      BY <1>6, Zenon DEF s1
    <2>3. Reads(e5, start, garbage, s, p, w, a)
      BY <1>6, <2>2, ReadEnd, Zenon
    <2> QED BY <2>1, <2>3, Zenon
  <1> QED BY <1>7, Zenon DEF e1, e2, e3, e4, w, a

NoteText(events, key, offset, v, opens, closes) ==
    events \o If(opens, NotesBegin) \o Structure("StartObject")
           \o Pair("ptr_key", "String", key) \o Pair("ptr_offset", "Uint", offset)
           \o Pair("ptr_val", "String", v) \o Structure("EndObject")
           \o If(closes, NotesEnd)

\* What set_note_for_ptr writes.
LEMMA NoteRead ==
    ASSUME NEW events \in Seq(JsonEvent), NEW start, NEW garbage, NEW p, NEW m, NEW b,
           NEW s \in Seq(StackItem),
           NEW key \in Val, NEW offset \in Val, NEW v \in Val,
           NEW opens \in BOOLEAN, NEW closes \in BOOLEAN,
           Reads(events, start, garbage,
                 IF opens THEN On(s, "ARRAY", NoName)
                 ELSE On(On(On(s, "ARRAY", NoName), "OBJECT", NoName), "ARRAY", NoName),
                 p, m, b)
    PROVE  LET more == NoteText(events, key, offset, v, opens, closes)
           IN  /\ more \in Seq(JsonEvent)
               /\ Reads(more, start, garbage,
                        IF closes THEN s
                        ELSE On(On(On(s, "ARRAY", NoName), "OBJECT", NoName), "ARRAY", NoName),
                        p, NotedMap(m, key), NotedBuffer(p, m, b, key, offset, v))
  <1> DEFINE s1 == On(s, "ARRAY", NoName)
             s2 == On(s1, "OBJECT", NoName)
             s3 == On(s2, "ARRAY", NoName)
             e1 == events \o If(opens, NotesBegin)
             e2 == e1 \o Structure("StartObject")
                    \o Pair("ptr_key", "String", key) \o Pair("ptr_offset", "Uint", offset)
                    \o Pair("ptr_val", "String", v) \o Structure("EndObject")
             e3 == e2 \o If(closes, NotesEnd)
             w == NotedMap(m, key)
             a == NotedBuffer(p, m, b, key, offset, v)
  <1> HIDE DEF w, a
  <1>1. s1 \in Seq(StackItem)
    BY OnStack, Zenon DEF ParseType
  <1>2. s2 \in Seq(StackItem)
    <2> HIDE DEF s1
    <2> QED BY <1>1, OnStack, Zenon DEF ParseType
  <1>3. s3 \in Seq(StackItem)
    <2> HIDE DEF s2
    <2> QED BY <1>2, OnStack, Zenon DEF ParseType
  <1>4. e1 \in Seq(JsonEvent) /\ Reads(e1, start, garbage, s3, p, m, b)
    <2>1. CASE opens
      <3>1. e1 = events \o NotesBegin
        BY <2>1, Zenon DEF If
      <3>2. Reads(events, start, garbage, s1, p, m, b)
        BY <2>1, Zenon
      <3> HIDE DEF s1
      <3> QED BY <1>1, <3>1, <3>2, NotesBeginRead, Zenon
    <2>2. CASE ~opens
      <3>1. e1 = events
        BY <2>2, FollowNone, Zenon DEF If
      <3> QED BY <2>2, <3>1, Zenon
    <2> QED BY <2>1, <2>2, Zenon
  <1> HIDE DEF e1, s3
  <1>5. e2 \in Seq(JsonEvent) /\ Reads(e2, start, garbage, s3, p, w, a)
    BY <1>3, <1>4, OneNoteRead, Zenon DEF w, a
  <1> HIDE DEF e2
  <1>6. e3 \in Seq(JsonEvent) /\ Reads(e3, start, garbage, IF closes THEN s ELSE s3, p, w, a)
    <2>1. CASE closes
      <3>1. e3 = e2 \o NotesEnd
        BY <2>1, Zenon DEF If
      <3>2. e2 \o NotesEnd \in Seq(JsonEvent) /\ Reads(e2 \o NotesEnd, start, garbage, s, p, w, a)
        BY <1>5, NotesEndRead, Zenon DEF s3
      <3> QED BY <2>1, <3>1, <3>2, Zenon
    <2>2. CASE ~closes
      <3>1. e3 = e2
        BY <1>5, <2>2, FollowNone, Zenon DEF If
      <3> QED BY <1>5, <2>2, <3>1, Zenon
    <2> QED BY <2>1, <2>2, Zenon
  <1> QED BY <1>6, Zenon DEF NoteText, e1, e2, s3, w, a

-----------------------------------------------------------------------------
\* Buffers of a length, and what put and append make of them.
BufferOf(len) ==
    [bytes : [0 .. len - 1 -> Nat], length : {len}, tail_offset : 0 .. len]
NewBuffer(len) ==
    [bytes |-> [i \in 0 .. len - 1 |-> 0], length |-> len, tail_offset |-> 0]

\* setBuffer makes an empty buffer of its length.
LEMMA NewBufferOf == ASSUME NEW len \in Nat PROVE NewBuffer(len) \in BufferOf(len)
  BY DEF NewBuffer, BufferOf

\* Max of two numbers.
LEMMA MaxTwo ==
    ASSUME NEW x \in Nat, NEW y \in Nat
    PROVE  Max({x, y}) = IF x >= y THEN x ELSE y
  <1> DEFINE z == IF x >= y THEN x ELSE y
  <1>1. z \in {x, y} /\ \A v \in {x, y} : z >= v
    OBVIOUS
  <1>2. \A u \in {x, y} : (\A v \in {x, y} : u >= v) => u = z
    OBVIOUS
  <1> HIDE DEF z
  <1>3. Max({x, y}) = z
    BY <1>1, <1>2, Zenon DEF Max
  <1> QED BY <1>3, Zenon DEF z

\* put inside the buffer writes its bytes and no other.
LEMMA Overwritten ==
    ASSUME NEW len \in Nat, NEW b \in BufferOf(len), NEW data \in Seq(Nat), NEW offset \in Nat,
           offset + Len(data) <= len
    PROVE  /\ put(b, data, offset) \in BufferOf(len)
           /\ put(b, data, offset).tail_offset =
                IF b.tail_offset >= offset + Len(data) THEN b.tail_offset
                ELSE offset + Len(data)
           /\ \A i \in 0 .. len - 1 : put(b, data, offset).bytes[i] =
                IF i - offset + 1 \in DOMAIN data THEN data[i - offset + 1] ELSE b.bytes[i]
  <1> DEFINE end == offset + Len(data)
             bytes == [i \in DOMAIN b.bytes |->
                        IF i - offset + 1 \in DOMAIN data THEN data[i - offset + 1]
                        ELSE b.bytes[i]]
  <1>1. /\ b.bytes \in [0 .. len - 1 -> Nat] /\ b.length = len /\ b.tail_offset \in 0 .. len
        /\ end \in Nat
    BY DEF BufferOf
  <1>2. put(b, data, offset) = Written(b, data, offset)
    BY <1>1 DEF put
  <1>3. Max({b.tail_offset, end}) = IF b.tail_offset >= end THEN b.tail_offset ELSE end
    <2> HIDE DEF end
    <2>1. PICK t \in Nat : t = b.tail_offset
      BY <1>1
    <2>2. PICK e \in Nat : e = end
      BY <1>1, Zenon
    <2>3. Max({t, e}) = IF t >= e THEN t ELSE e
      BY MaxTwo, Zenon
    <2> QED BY <2>1, <2>2, <2>3, Zenon
  <1>4. bytes \in [0 .. len - 1 -> Nat]
    <2>1. \A i \in 0 .. len - 1 :
            (IF i - offset + 1 \in DOMAIN data THEN data[i - offset + 1] ELSE b.bytes[i]) \in Nat
      BY <1>1
    <2> QED BY <1>1, <2>1, Zenon
  <1>5. b = [bytes |-> b.bytes, length |-> len, tail_offset |-> b.tail_offset]
    BY <1>1, Zenon DEF BufferOf
  <1>6. Written(b, data, offset) =
          [bytes |-> bytes, length |-> len, tail_offset |-> Max({b.tail_offset, end})]
    <2> HIDE DEF bytes, end
    <2>1. Written(b, data, offset) =
            [b EXCEPT !.tail_offset = Max({b.tail_offset, end}), !.bytes = bytes]
      BY Zenon DEF Written, bytes, end
    <2>2. [b EXCEPT !.tail_offset = Max({b.tail_offset, end}), !.bytes = bytes] =
            [bytes |-> bytes, length |-> len, tail_offset |-> Max({b.tail_offset, end})]
      <3>1. PICK x, y, z : x = b.bytes /\ y = len /\ z = b.tail_offset
        BY Zenon
      <3>2. b = [bytes |-> x, length |-> y, tail_offset |-> z]
        BY <1>5, <3>1, Zenon
      <3>3. PICK u, v : u = Max({b.tail_offset, end}) /\ v = bytes
        BY Zenon
      <3>4. PICK c : c = [b EXCEPT !.tail_offset = u]
        BY Zenon
      <3>5. c = [bytes |-> x, length |-> y, tail_offset |-> u]
        BY ONLY <3>2, <3>4
      <3>6. [c EXCEPT !.bytes = v] = [bytes |-> v, length |-> y, tail_offset |-> u]
        BY ONLY <3>5
      <3> QED BY <3>1, <3>3, <3>4, <3>6, Zenon
    <2> QED BY <2>1, <2>2, Zenon
  <1>7. Max({b.tail_offset, end}) \in 0 .. len
    BY <1>1, <1>3
  <1>8. \A i \in 0 .. len - 1 : bytes[i] =
                IF i - offset + 1 \in DOMAIN data THEN data[i - offset + 1] ELSE b.bytes[i]
    BY <1>1, Zenon
  <1> HIDE DEF bytes
  <1>9. put(b, data, offset) \in BufferOf(len)
    BY <1>2, <1>4, <1>6, <1>7 DEF BufferOf
  <1> QED BY <1>2, <1>3, <1>6, <1>8, <1>9

\* put keeps the buffer well formed, also where it refuses to write.
LEMMA PutBuffer ==
    ASSUME NEW len \in Nat, NEW b \in BufferOf(len), NEW data \in Seq(Nat), NEW offset \in Nat
    PROVE  put(b, data, offset) \in BufferOf(len)
  <1>1. CASE offset + Len(data) <= len
    BY <1>1, Overwritten, Zenon
  <1>2. CASE ~(offset + Len(data) <= len)
    <2>1. b.length = len
      BY Zenon DEF BufferOf
    <2> QED BY <1>2, <2>1 DEF put
  <1> QED BY <1>1, <1>2, Zenon

\* append writes at the tail and moves it.
LEMMA Appended ==
    ASSUME NEW len \in Nat, NEW b \in BufferOf(len), NEW data \in Seq(Nat)
    PROVE  /\ append(b, data) \in BufferOf(len)
           /\ b.tail_offset \in 0 .. len
           /\ b.tail_offset + Len(data) <= len =>
                /\ append(b, data).tail_offset = b.tail_offset + Len(data)
                /\ \A i \in 0 .. len - 1 : i < b.tail_offset =>
                      append(b, data).bytes[i] = b.bytes[i]
                /\ \A j \in 1 .. Len(data) :
                      append(b, data).bytes[b.tail_offset + j - 1] = data[j]
  <1>1. b.tail_offset \in 0 .. len
    BY Zenon DEF BufferOf
  <1>2. append(b, data) = put(b, data, b.tail_offset)
    BY Zenon DEF append
  <1>3. append(b, data) \in BufferOf(len)
    BY <1>1, <1>2, PutBuffer
  <1>4. ASSUME b.tail_offset + Len(data) <= len
        PROVE  /\ append(b, data).tail_offset = b.tail_offset + Len(data)
               /\ \A i \in 0 .. len - 1 : i < b.tail_offset =>
                      append(b, data).bytes[i] = b.bytes[i]
               /\ \A j \in 1 .. Len(data) :
                      append(b, data).bytes[b.tail_offset + j - 1] = data[j]
    <2> DEFINE a == append(b, data)
               t == b.tail_offset
    <2>1. /\ a.tail_offset = IF t >= t + Len(data) THEN t ELSE t + Len(data)
          /\ \A i \in 0 .. len - 1 : a.bytes[i] =
                IF i - t + 1 \in DOMAIN data THEN data[i - t + 1] ELSE b.bytes[i]
      <3>1. PICK o \in Nat : o = b.tail_offset
        BY <1>1
      <3>2. o + Len(data) <= len
        BY <1>4, <3>1, Zenon
      <3>3. /\ put(b, data, o).tail_offset =
                  IF b.tail_offset >= o + Len(data) THEN b.tail_offset ELSE o + Len(data)
            /\ \A i \in 0 .. len - 1 : put(b, data, o).bytes[i] =
                  IF i - o + 1 \in DOMAIN data THEN data[i - o + 1] ELSE b.bytes[i]
        BY <3>2, Overwritten, SMTT(30)
      <3>4. put(b, data, o) = a /\ t = o
        BY <1>2, <3>1, Zenon
      <3> HIDE DEF a, t
      <3> QED BY <3>1, <3>3, <3>4, Zenon
    <2> HIDE DEF a, t
    <2>2. t \in 0 .. len /\ t + Len(data) <= len
      BY <1>1, <1>4, Zenon DEF t
    <2>3. a.tail_offset = t + Len(data)
      BY <2>1, <2>2
    <2>4. ASSUME NEW i \in 0 .. len - 1, i < t
          PROVE  a.bytes[i] = b.bytes[i]
      BY <2>1, <2>2, <2>4
    <2>5. ASSUME NEW j \in 1 .. Len(data)
          PROVE  a.bytes[t + j - 1] = data[j]
      <3>1. t + j - 1 \in 0 .. len - 1 /\ (t + j - 1) - t + 1 = j
        BY <2>2
      <3> QED BY <2>1, <3>1
    <2> QED BY <2>3, <2>4, <2>5, Zenon DEF a, t
  <1> QED BY <1>1, <1>3, <1>4, Zenon

\* An address is PtrSize numbers.
LEMMA AddressBytes ==
    ASSUME NEW a \in Nat
    PROVE  /\ Address(a) \in Seq(Nat) /\ Len(Address(a)) = PtrSize
           /\ \A k \in 1 .. PtrSize : Address(a)[k] = 256 + PtrSize * a + k
  <1>1. PtrSize \in Nat
    BY Zenon DEF PtrSize
  <1>2. PtrSize * a \in Nat
    BY DEF PtrSize
  <1> QED BY <1>1, <1>2 DEF Address

-----------------------------------------------------------------------------
(* What reading a packet makes of the buffer and of the objects. *)

Item == [key : Val, val : Seq(Byte)]
Note == [key : Val, offset : Nat, val : Seq(Byte)]

\* No note is about byte j of the item under a key.
Free(nts, key, j) ==
    \A n \in DOMAIN nts :
        nts[n].key = key => j \notin nts[n].offset + 1 .. nts[n].offset + PtrSize

\* The value v lies at offset a of the buffer.
Lies(b, a, v) == \A k \in 1 .. Len(v) : b.bytes[a + k - 1] = v[k]

\* The items lie one after the other at the places pl, their bytes as they were
\* sent where no note is about them.
ItemsLie(its, nts, need, pl, b) ==
    /\ \A i \in DOMAIN its : pl[i] + Len(its[i].val) <= need
    /\ \A i, j \in DOMAIN its : i < j => pl[i] + Len(its[i].val) <= pl[j]
    /\ \A i \in DOMAIN its : i < Len(its) => pl[i + 1] = pl[i] + Len(its[i].val)
    /\ \A i \in DOMAIN its : i = Len(its) /\ nts = <<>> => pl[i] + Len(its[i].val) = need
    /\ \A i \in DOMAIN its : \A j \in DOMAIN its[i].val :
          Free(nts, its[i].key, j) => b.bytes[pl[i] + j - 1] = its[i].val[j]

\* The value of a note lies at a, behind the items, and a in its item.
NoteLies(its, note, need, pl, b, i, a) ==
    /\ its[i].key = note.key /\ note.offset + PtrSize <= Len(its[i].val)
    /\ \A j \in DOMAIN its : pl[j] + Len(its[j].val) <= a
    /\ a + Len(note.val) <= need
    /\ Lies(b, pl[i] + note.offset, Address(a))
    /\ Lies(b, a, note.val)

Laid(its, nts, need, pl, b) ==
    /\ b.tail_offset = need
    /\ ItemsLie(its, nts, need, pl, b)
    /\ \A n \in DOMAIN nts : \E i \in DOMAIN its, a \in Nat :
          NoteLies(its, nts[n], need, pl, b, i, a)

\* Every name leads to an object.
MapOK(m, p) == \A k \in DOMAIN m : m[k] \in Nat /\ m[k] + 1 <= Len(p)

\* The places of the items are the objects after the first base ones, and the
\* keys lead to them.
Held(its, base, pl, q, w) ==
    /\ MapOK(w, q)
    /\ Len(pl) = Len(its) /\ Len(q) = base + Len(pl)
    /\ \A i \in DOMAIN its : q[base + i] = pl[i]
    /\ \A i \in DOMAIN its : its[i].key \in DOMAIN w /\ w[its[i].key] = base + i - 1

\* What is on the stack below a packet, and what an open packet puts on it.
ArrayItem == {ParseItem("ARRAY", NoName)}
Stack(s, opn) ==
    CASE opn = "between" -> On(s, "ARRAY", NoName)
      [] opn = "object" -> On(On(s, "ARRAY", NoName), "OBJECT", NoName)
      [] opn = "notes" -> On(On(On(s, "ARRAY", NoName), "OBJECT", NoName), "ARRAY", NoName)
      [] OTHER -> s

\* A handler that did not know what it popped.
Lost(s, p, m, b) == [Reader(s, p, m, b) EXCEPT !.status = "undefined"]

\* The handler is in the state that reading a packet brings it to.
ReadTo(events, opn, its, nts, need, s, p, m, len, garbage) ==
    \E w : \E q \in Seq(Nat), b \in BufferOf(len), pl \in Seq(Nat) :
        /\ Reads(events, Reader(s, p, m, NewBuffer(len)), garbage, Stack(s, opn), q, w, b)
        /\ Held(its, Len(p), pl, q, w)
        /\ need <= len => Laid(its, nts, need, pl, b)

\* What parse makes of the events, whatever it starts from.
ReadsAs(events, opn, its, nts, need) ==
    \A m : \A s \in Seq(ArrayItem), p \in Seq(Nat), len \in Nat, garbage \in {"KEY", "OBJECT"} :
        MapOK(m, p) =>
            IF s = <<>> /\ garbage = "KEY"
            THEN Read(events, Reader(s, p, m, NewBuffer(len)), garbage) =
                    Lost(s, p, m, NewBuffer(len))
            ELSE ReadTo(events, opn, its, nts, need, s, p, m, len, garbage)

\* Byte j of y bytes from x on, all of them before an end.
LEMMA InSpan ==
    ASSUME NEW x \in Nat, NEW y \in Nat, NEW end \in Nat, NEW len \in Nat, NEW j \in 1 .. y,
           x + y <= end, end <= len
    PROVE  x + j - 1 \in 0 .. len - 1 /\ x + j - 1 < end
  OBVIOUS

\* Bytes are numbers.
LEMMA BytesAreNat == ASSUME NEW v \in Seq(Byte) PROVE v \in Seq(Nat)
  <1>1. Byte \subseteq Nat
    BY DEF Byte
  <1>2. \A k \in 1 .. Len(v) : v[k] \in Nat
    <2>1. \A k \in 1 .. Len(v) : v[k] \in Byte
      OBVIOUS
    <2> QED BY <1>1, <2>1, Zenon
  <1> QED BY <1>2

\* A buffer with room for one more item has it behind the others.
LEMMA ItemLaid ==
    ASSUME NEW len \in Nat, NEW b \in BufferOf(len), NEW need \in Nat, NEW its \in Seq(Item),
           NEW pl \in Seq(Nat), Len(pl) = Len(its), NEW item \in Item,
           Laid(its, <<>>, need, pl, b), need + Len(item.val) <= len
    PROVE  Laid(Append(its, item), <<>>, need + Len(item.val), Append(pl, b.tail_offset),
                append(b, item.val))
  <1>1. PICK n \in Nat, val \in Seq(Byte), l \in Nat :
          n = Len(its) /\ val = item.val /\ l = Len(val)
    <2>1. item.val \in Seq(Byte)
      BY Zenon DEF Item
    <2> QED BY <2>1
  <1>2. PICK r \in Seq(Item) : r = Append(its, item)
    <2>1. Append(its, item) \in Seq(Item)
      OBVIOUS
    <2> QED BY <2>1, Zenon
  <1>3. PICK t \in Seq(Nat) : t = Append(pl, need)
    <2>1. Append(pl, need) \in Seq(Nat)
      OBVIOUS
    <2> QED BY <2>1, Zenon
  <1>4. /\ Len(r) = n + 1 /\ DOMAIN r = 1 .. n + 1 /\ DOMAIN its = 1 .. n
        /\ r[n + 1] = item /\ \A i \in 1 .. n : r[i] = its[i]
    BY <1>1, <1>2
  <1>5. /\ t[n + 1] = need /\ \A i \in 1 .. n : t[i] = pl[i]
        /\ \A i \in 1 .. n + 1 : t[i] \in Nat
    <2>1. Len(t) = n + 1
      BY <1>1, <1>3
    <2> QED BY <1>1, <1>3, <2>1, SMTT(30)
  <1>6. \A i \in 1 .. n + 1 : Len(r[i].val) \in Nat /\ DOMAIN r[i].val = 1 .. Len(r[i].val)
    BY <1>4 DEF Item
  <1> DEFINE T == [i \in 1 .. n + 1 |-> t[i]]
             E == [i \in 1 .. n + 1 |-> t[i] + Len(r[i].val)]
  <1>7. b.tail_offset = need /\ ItemsLie(its, <<>>, need, pl, b)
    BY Zenon DEF Laid
  <1>8. PICK c : c = append(b, val)
    BY Zenon
  <1>9. /\ c.tail_offset = need + l
        /\ \A i \in 0 .. len - 1 : i < need => c.bytes[i] = b.bytes[i]
        /\ \A j \in 1 .. l : c.bytes[need + j - 1] = val[j]
    <2>1. val \in Seq(Nat)
      BY BytesAreNat, Zenon
    <2>2. b.tail_offset + Len(val) <= len
      BY <1>1, <1>7, Zenon
    <2>3. /\ append(b, val).tail_offset = b.tail_offset + Len(val)
          /\ \A i \in 0 .. len - 1 : i < b.tail_offset =>
                append(b, val).bytes[i] = b.bytes[i]
          /\ \A j \in 1 .. Len(val) :
                append(b, val).bytes[b.tail_offset + j - 1] = val[j]
      BY <2>1, <2>2, Appended, Zenon
    <2> QED BY <1>1, <1>7, <1>8, <2>3, Zenon
  <1>10. \A i \in 1 .. n : /\ E[i] <= need
                           /\ i = n => E[i] = need
                           /\ i < n => T[i + 1] = E[i]
                           /\ \A j \in 1 .. n : i < j => E[i] <= T[j]
    <2>1. \A i \in 1 .. n : /\ pl[i] + Len(its[i].val) <= need
                            /\ i = n => pl[i] + Len(its[i].val) = need
                            /\ i < n => pl[i + 1] = pl[i] + Len(its[i].val)
                            /\ \A j \in 1 .. n : i < j => pl[i] + Len(its[i].val) <= pl[j]
      BY <1>1, <1>4, <1>7, Zenon DEF ItemsLie
    <2>2. \A i \in 1 .. n : i \in 1 .. n + 1 /\ (i < n => i + 1 \in 1 .. n)
      OBVIOUS
    <2>3. \A i \in 1 .. n : T[i] = pl[i] /\ E[i] = pl[i] + Len(its[i].val)
      BY <1>4, <1>5, <2>2, Zenon
    <2> HIDE DEF T, E
    <2> QED BY <2>1, <2>2, <2>3, Zenon
  <1>11. \A i \in 1 .. n : \A j \in 1 .. Len(r[i].val) : b.bytes[t[i] + j - 1] = r[i].val[j]
    <2>1. \A key, j : Free(<<>>, key, j)
      BY DEF Free
    <2>2. \A i \in 1 .. n : \A j \in DOMAIN its[i].val : b.bytes[pl[i] + j - 1] = its[i].val[j]
      BY <1>4, <1>7, <2>1, Zenon DEF ItemsLie
    <2>3. \A i \in 1 .. n : i \in 1 .. n + 1
      OBVIOUS
    <2> QED BY <1>4, <1>5, <1>6, <2>2, <2>3, ZenonT(40)
  <1>12. /\ r[n + 1].val = val /\ T[n + 1] = need /\ E[n + 1] = need + l
         /\ \A i \in 1 .. n + 1 : T[i] \in Nat /\ E[i] \in Nat /\ T[i] <= E[i]
    <2>1. r[n + 1].val = val /\ Len(r[n + 1].val) = l
      BY <1>1, <1>4, Zenon
    <2>2. n + 1 \in 1 .. n + 1
      OBVIOUS
    <2>3. T[n + 1] = need /\ E[n + 1] = need + l
      BY <1>5, <2>1, <2>2, Zenon
    <2>4. ASSUME NEW i \in 1 .. n + 1
          PROVE  T[i] \in Nat /\ E[i] \in Nat /\ T[i] <= E[i]
      <3>1. PICK x \in Nat, y \in Nat : x = t[i] /\ y = Len(r[i].val)
        BY <1>5, <1>6, Zenon
      <3>2. x + y \in Nat /\ x <= x + y
        OBVIOUS
      <3> QED BY <3>1, <3>2, Zenon
    <2> QED BY <2>1, <2>3, <2>4, Zenon
  <1>13. ItemsLie(r, <<>>, need + l, t, c)
    <2>0. \A i \in 1 .. n + 1 : T[i] = t[i] /\ E[i] = t[i] + Len(r[i].val)
      BY Zenon
    <2>1. /\ \A i \in 1 .. n + 1 : E[i] <= need + l
          /\ \A i, j \in 1 .. n + 1 : i < j => E[i] <= T[j]
          /\ \A i \in 1 .. n + 1 : i < n + 1 => T[i + 1] = E[i]
          /\ E[n + 1] = need + l
      <3> HIDE DEF T, E
      <3>1. \A i \in 1 .. n + 1 : i \in 1 .. n \/ i = n + 1
        OBVIOUS
      <3>2. ASSUME NEW i \in 1 .. n + 1
            PROVE  E[i] <= need + l
        <4>1. PICK x \in Nat : x = E[i]
          BY <1>12, Zenon
        <4>2. x <= need \/ x = need + l
          BY <1>10, <1>12, <3>1, <4>1, Zenon
        <4>3. x <= need + l
          BY <4>2
        <4> QED BY <4>1, <4>3, Zenon
      <3>3. ASSUME NEW i \in 1 .. n + 1, NEW j \in 1 .. n + 1, i < j
            PROVE  E[i] <= T[j]
        <4>1. i \in 1 .. n
          BY <3>3
        <4> QED BY <1>10, <1>12, <3>1, <3>3, <4>1, Zenon
      <3>4. ASSUME NEW i \in 1 .. n + 1, i < n + 1
            PROVE  T[i + 1] = E[i]
        <4>1. i \in 1 .. n /\ (i < n \/ i = n)
          BY <3>4
        <4> QED BY <1>10, <1>12, <4>1, Zenon
      <3> QED BY <1>12, <3>2, <3>3, <3>4, Zenon
    <2>2. \A i \in 1 .. n + 1 : i < n + 1 => i + 1 \in 1 .. n + 1
      OBVIOUS
    <2>3. ASSUME NEW i \in 1 .. n + 1, NEW j \in 1 .. Len(r[i].val)
          PROVE  c.bytes[t[i] + j - 1] = r[i].val[j]
      <3>1. CASE i = n + 1
        BY <1>1, <1>5, <1>9, <1>12, <3>1, Zenon
      <3>2. CASE i \in 1 .. n
        <4>1. PICK x \in Nat, y \in Nat : x = t[i] /\ y = Len(r[i].val) /\ x + y <= need
          <5>1. t[i] \in Nat /\ Len(r[i].val) \in Nat /\ E[i] <= need
            BY <1>5, <1>6, <1>10, <3>2, Zenon
          <5> QED BY <5>1, <2>0, Zenon
        <4>2. x + j - 1 \in 0 .. len - 1 /\ x + j - 1 < need
          <5>1. need <= len
            BY <1>1
          <5>2. j \in 1 .. y
            BY <4>1, Zenon
          <5> QED BY <4>1, <5>1, <5>2, InSpan, Zenon
        <4> QED BY <1>9, <1>11, <3>2, <4>1, <4>2, Zenon
      <3> QED BY <3>1, <3>2
    <2> HIDE DEF T, E
    <2>4. \A i \in DOMAIN r : t[i] + Len(r[i].val) <= need + l
      BY <1>4, <2>0, <2>1, Zenon
    <2>5. \A i, j \in DOMAIN r : i < j => t[i] + Len(r[i].val) <= t[j]
      BY <1>4, <2>0, <2>1, ZenonT(40)
    <2>6. \A i \in DOMAIN r : i < Len(r) => t[i + 1] = t[i] + Len(r[i].val)
      BY <1>4, <2>0, <2>1, <2>2, Zenon
    <2>7. \A i \in DOMAIN r : i = Len(r) => t[i] + Len(r[i].val) = need + l
      BY <1>4, <2>0, <2>1, Zenon
    <2> QED BY <1>4, <1>6, <2>3, <2>4, <2>5, <2>6, <2>7, Zenon DEF ItemsLie
  <1>14. Laid(r, <<>>, need + l, t, c)
    <2>1. DOMAIN <<>> = {}
      OBVIOUS
    <2> QED BY <1>9, <1>13, <2>1, Zenon DEF Laid
  <1> QED BY <1>1, <1>2, <1>3, <1>7, <1>8, <1>14, Zenon

\* The bytes of a span that lies apart from the pointer at o.
LEMMA Apart ==
    ASSUME NEW x \in Nat, NEW m \in Nat, NEW o \in Nat, x + m <= o \/ o + PtrSize <= x,
           NEW k \in 1 .. m
    PROVE  x + k - 1 \notin o .. o + PtrSize - 1
  BY DEF PtrSize

\* Only the pointer at o changes below the end of the values.
OnlyAt(b, d, o, need, len) ==
    \A i \in 0 .. len - 1 : i < need /\ i \notin o .. o + PtrSize - 1 => d.bytes[i] = b.bytes[i]

\* A value stays where it lies when bytes elsewhere change.
LEMMA LiesStill ==
    ASSUME NEW b, NEW d, NEW o \in Nat, NEW need \in Nat, NEW len \in Nat, need <= len,
           OnlyAt(b, d, o, need, len), NEW x \in Nat, NEW v, NEW m \in Nat, m = Len(v),
           x + m <= need, x + m <= o \/ o + PtrSize <= x, Lies(b, x, v)
    PROVE  Lies(d, x, v)
  <1> SUFFICES ASSUME NEW k \in 1 .. m PROVE d.bytes[x + k - 1] = v[k]
    BY Zenon DEF Lies
  <1>1. x + k - 1 \in 0 .. len - 1 /\ x + k - 1 < need
    BY InSpan, Zenon
  <1>2. x + k - 1 \notin o .. o + PtrSize - 1
    BY Apart, Zenon
  <1>3. d.bytes[x + k - 1] = b.bytes[x + k - 1]
    BY <1>1, <1>2, Zenon DEF OnlyAt
  <1>4. b.bytes[x + k - 1] = v[k]
    BY Zenon DEF Lies
  <1> QED BY <1>3, <1>4, Zenon

\* What a note makes of the buffer.
LEMMA NotedBytes ==
    ASSUME NEW len \in Nat, NEW b \in BufferOf(len), NEW v \in Seq(Byte), NEW need \in Nat,
           b.tail_offset = need, need + Len(v) <= len, NEW o \in Nat, o + PtrSize <= need
    PROVE  LET d == put(append(b, v), Address(need), o) IN
           /\ d.tail_offset = need + Len(v)
           /\ Lies(d, o, Address(need)) /\ Lies(d, need, v)
           /\ OnlyAt(b, d, o, need, len)
  <1>1. PICK c \in BufferOf(len) : c = append(b, v)
    BY BytesAreNat, Appended, Zenon
  <1>2. PICK l \in Nat : l = Len(v)
    OBVIOUS
  <1>3. /\ c.tail_offset = need + l
        /\ \A i \in 0 .. len - 1 : i < need => c.bytes[i] = b.bytes[i]
        /\ \A j \in 1 .. l : c.bytes[need + j - 1] = v[j]
    <2>1. v \in Seq(Nat) /\ b.tail_offset + Len(v) <= len
      BY BytesAreNat, Zenon
    <2>2. /\ append(b, v).tail_offset = b.tail_offset + Len(v)
          /\ \A i \in 0 .. len - 1 : i < b.tail_offset => append(b, v).bytes[i] = b.bytes[i]
          /\ \A j \in 1 .. Len(v) : append(b, v).bytes[b.tail_offset + j - 1] = v[j]
      BY <2>1, Appended, Zenon
    <2> QED BY <1>1, <1>2, <2>2, Zenon
  <1>4. PICK data \in Seq(Nat) :
          data = Address(need) /\ Len(data) = PtrSize /\ DOMAIN data = 1 .. PtrSize
    BY AddressBytes
  <1>5. PtrSize \in Nat /\ need <= len /\ o + PtrSize <= len
    BY DEF PtrSize
  <1>6. PICK d : d = put(c, data, o)
    BY Zenon
  <1>7. /\ d.tail_offset = IF c.tail_offset >= o + PtrSize THEN c.tail_offset ELSE o + PtrSize
        /\ \A i \in 0 .. len - 1 : d.bytes[i] =
                IF i - o + 1 \in 1 .. PtrSize THEN data[i - o + 1] ELSE c.bytes[i]
    <2>1. o + Len(data) <= len
      BY <1>4, <1>5, Zenon
    <2>2. /\ put(c, data, o).tail_offset =
                IF c.tail_offset >= o + Len(data) THEN c.tail_offset ELSE o + Len(data)
          /\ \A i \in 0 .. len - 1 : put(c, data, o).bytes[i] =
                IF i - o + 1 \in DOMAIN data THEN data[i - o + 1] ELSE c.bytes[i]
      BY <2>1, Overwritten
    <2> QED BY <1>4, <1>6, <2>2, Zenon
  <1>8. d.tail_offset = need + l
    BY <1>3, <1>5, <1>7
  <1>9. Lies(d, o, data)
    <2>1. ASSUME NEW k \in 1 .. PtrSize PROVE d.bytes[o + k - 1] = data[k]
      <3>1. o + k - 1 \in 0 .. len - 1 /\ (o + k - 1) - o + 1 = k
        BY <1>5
      <3> QED BY <1>7, <3>1, Zenon
    <2> QED BY <1>4, <2>1, Zenon DEF Lies
  <1>10. \A i \in 0 .. len - 1 : i \notin o .. o + PtrSize - 1 => d.bytes[i] = c.bytes[i]
    <2>1. \A i \in 0 .. len - 1 : i \notin o .. o + PtrSize - 1 => i - o + 1 \notin 1 .. PtrSize
      BY <1>5
    <2> QED BY <1>7, <2>1, Zenon
  <1>11. Lies(d, need, v)
    <2>1. ASSUME NEW j \in 1 .. l PROVE d.bytes[need + j - 1] = v[j]
      <3>1. need + j - 1 \in 0 .. len - 1
        BY <1>2
      <3>2. need + j - 1 \notin o .. o + PtrSize - 1
        BY Apart, Zenon
      <3> QED BY <1>3, <1>10, <3>1, <3>2, Zenon
    <2> QED BY <1>2, <2>1, Zenon DEF Lies
  <1>12. OnlyAt(b, d, o, need, len)
    BY <1>3, <1>10, Zenon DEF OnlyAt
  <1> QED BY <1>1, <1>2, <1>4, <1>6, <1>8, <1>9, <1>11, <1>12, Zenon

\* The keys are all different.
OwnKeys(its) == \A i, j \in DOMAIN its : its[i].key = its[j].key => i = j

\* The pointer of a note is inside its item, and apart from those of others.
NewPlace(its, nts, i, note) ==
    /\ i \in DOMAIN its /\ its[i].key = note.key
    /\ note.offset + PtrSize <= Len(its[i].val)
    /\ \A n \in DOMAIN nts : nts[n].key = note.key =>
          nts[n].offset \notin note.offset - PtrSize + 1 .. note.offset + PtrSize - 1

\* A note puts its value behind everything, and disturbs no other note.
LEMMA NoteLaid ==
    ASSUME NEW len \in Nat, NEW b \in BufferOf(len), NEW need \in Nat, NEW its \in Seq(Item),
           NEW pl \in Seq(Nat), Len(pl) = Len(its), NEW nts \in Seq(Note), NEW note \in Note,
           Laid(its, nts, need, pl, b), need + Len(note.val) <= len, OwnKeys(its),
           NEW i0, NewPlace(its, nts, i0, note)
    PROVE  Laid(its, Append(nts, note), need + Len(note.val), pl,
                put(append(b, note.val), Address(need), pl[i0] + note.offset))
  <1>1. PICK v \in Seq(Byte), offset \in Nat, l \in Nat :
          v = note.val /\ offset = note.offset /\ l = Len(v)
    <2>1. note.val \in Seq(Byte) /\ note.offset \in Nat
      BY Zenon DEF Note
    <2> QED BY <2>1
  <1>2. /\ DOMAIN its = DOMAIN pl
        /\ \A i \in DOMAIN its : pl[i] \in Nat /\ Len(its[i].val) \in Nat
    BY SMTT(30) DEF Item
  <1>3. /\ b.tail_offset = need /\ ItemsLie(its, nts, need, pl, b)
        /\ \A n \in DOMAIN nts : \E i \in DOMAIN its, a \in Nat :
              NoteLies(its, nts[n], need, pl, b, i, a)
    BY Zenon DEF Laid
  <1>4. \A i \in DOMAIN its : pl[i] + Len(its[i].val) <= need
    BY <1>3, Zenon DEF ItemsLie
  <1>5. PICK x0 \in Nat, l0 \in Nat : x0 = pl[i0] /\ l0 = Len(its[i0].val)
    BY <1>2, Zenon DEF NewPlace
  <1>6. offset + PtrSize <= l0 /\ x0 + l0 <= need
    BY <1>1, <1>4, <1>5, Zenon DEF NewPlace
  <1>7. PICK o \in Nat : o = x0 + offset /\ x0 <= o /\ o + PtrSize <= x0 + l0
    <2>1. x0 + offset \in Nat /\ x0 <= x0 + offset /\ (x0 + offset) + PtrSize <= x0 + l0
      BY <1>6 DEF PtrSize
    <2> QED BY <2>1, Zenon
  <1>8. PtrSize \in Nat /\ o + PtrSize <= need /\ need <= len /\ need + l <= len
    <2>1. need + l <= len
      BY <1>1, Zenon
    <2> QED BY <1>6, <1>7, <2>1 DEF PtrSize
  <1>9. PICK d : d = put(append(b, v), Address(need), o)
    BY Zenon
  <1>10. /\ d.tail_offset = need + l
         /\ Lies(d, o, Address(need)) /\ Lies(d, need, v)
         /\ OnlyAt(b, d, o, need, len)
    <2>1. need + Len(v) <= len
      BY <1>1, <1>8, Zenon
    <2>2. LET e == put(append(b, v), Address(need), o) IN
          /\ e.tail_offset = need + Len(v)
          /\ Lies(e, o, Address(need)) /\ Lies(e, need, v)
          /\ OnlyAt(b, e, o, need, len)
      BY <1>3, <1>8, <2>1, NotedBytes, SMTT(30)
    <2> QED BY <1>1, <1>9, <2>2, Zenon
  \* Another item lies apart from the one the pointer is in.
  <1>11. ASSUME NEW i \in DOMAIN its, i # i0, NEW x \in Nat, NEW y \in Nat,
                x = pl[i], y = Len(its[i].val)
         PROVE  x + y <= o \/ o + PtrSize <= x
    <2>1. i < i0 \/ i0 < i
      <3>1. i \in Nat /\ i0 \in Nat
        BY SMTT(30) DEF NewPlace
      <3> QED BY <1>11, <3>1, SMTT(30)
    <2>2. x + y <= x0 \/ x0 + l0 <= x
      BY <1>3, <1>5, <1>11, <2>1, Zenon DEF ItemsLie, NewPlace
    <2> QED BY <1>7, <1>8, <2>2, SMTT(30)
  <1>12. PICK ns \in Seq(Note) : ns = Append(nts, note)
    <2>1. Append(nts, note) \in Seq(Note)
      OBVIOUS
    <2> QED BY <2>1, Zenon
  <1>13. /\ ns # <<>>
         /\ \A n \in DOMAIN ns : (n \in DOMAIN nts /\ ns[n] = nts[n]) \/ ns[n] = note
         /\ \A n \in DOMAIN nts : n \in DOMAIN ns /\ ns[n] = nts[n]
         /\ \E n \in DOMAIN ns : ns[n] = note
    <2>1. PICK k \in Nat : k = Len(nts)
      OBVIOUS
    <2>2. /\ DOMAIN nts = 1 .. k /\ DOMAIN ns = 1 .. k + 1 /\ ns[k + 1] = note
          /\ \A n \in 1 .. k : ns[n] = nts[n]
      BY <1>12, <2>1
    <2>3. ns # <<>>
      BY <2>1, <2>2
    <2>4. /\ \A n \in 1 .. k + 1 : n \in 1 .. k \/ n = k + 1
          /\ \A n \in 1 .. k : n \in 1 .. k + 1
          /\ k + 1 \in 1 .. k + 1
      OBVIOUS
    <2> QED BY <2>2, <2>3, <2>4, Zenon
  <1>14. ItemsLie(its, ns, need + l, pl, d)
    <2>1. \A i \in DOMAIN its : pl[i] + Len(its[i].val) <= need + l
      <3> SUFFICES ASSUME NEW i \in DOMAIN its PROVE pl[i] + Len(its[i].val) <= need + l
        BY Zenon
      <3>1. PICK x \in Nat, y \in Nat : x = pl[i] /\ y = Len(its[i].val)
        BY <1>2, Zenon
      <3>2. x + y <= need
        BY <1>4, <3>1, Zenon
      <3>3. x + y <= need + l
        BY <3>2
      <3> QED BY <3>1, <3>3, Zenon
    <2>2. ASSUME NEW i \in DOMAIN its, NEW j \in DOMAIN its[i].val, Free(ns, its[i].key, j)
          PROVE  d.bytes[pl[i] + j - 1] = its[i].val[j]
      <3>1. PICK x \in Nat, y \in Nat : x = pl[i] /\ y = Len(its[i].val)
        BY <1>2, Zenon
      <3>2. j \in 1 .. y /\ x + y <= need
        <4>1. DOMAIN its[i].val = 1 .. Len(its[i].val)
          BY SMTT(30) DEF Item
        <4> QED BY <1>4, <3>1, <4>1, Zenon
      <3>3. Free(nts, its[i].key, j)
        BY <1>13, <2>2, Zenon DEF Free
      <3>4. b.bytes[x + j - 1] = its[i].val[j]
        BY <1>3, <2>2, <3>1, <3>3, Zenon DEF ItemsLie
      <3>5. x + j - 1 \notin o .. o + PtrSize - 1
        <4>1. CASE i = i0
          <5>1. j \notin offset + 1 .. offset + PtrSize
            BY <1>1, <1>13, <2>2, <4>1, Zenon DEF Free, NewPlace
          <5>2. x = x0
            BY <1>5, <3>1, <4>1, Zenon
          <5> QED BY <1>7, <1>8, <3>2, <5>1, <5>2, SMTT(30)
        <4>2. CASE i # i0
          BY <1>11, <3>1, <3>2, <4>2, Apart, Zenon
        <4> QED BY <4>1, <4>2, Zenon
      <3>6. x + j - 1 \in 0 .. len - 1 /\ x + j - 1 < need
        BY <1>8, <3>2, InSpan, Zenon
      <3>7. d.bytes[x + j - 1] = b.bytes[x + j - 1]
        BY <1>10, <3>5, <3>6, Zenon DEF OnlyAt
      <3> QED BY <3>1, <3>4, <3>7, Zenon
    <2> QED BY <1>3, <1>13, <2>1, <2>2, Zenon DEF ItemsLie
  <1>15. ASSUME NEW n \in DOMAIN nts
         PROVE  \E i \in DOMAIN its, a \in Nat : NoteLies(its, nts[n], need + l, pl, d, i, a)
    <2>1. PICK i \in DOMAIN its, a \in Nat : NoteLies(its, nts[n], need, pl, b, i, a)
      BY <1>3, <1>15, Zenon
    <2>2. PICK w \in Seq(Byte), f \in Nat, m \in Nat :
            w = nts[n].val /\ f = nts[n].offset /\ m = Len(w)
      <3>1. nts[n] \in Note
        BY <1>15
      <3>2. nts[n].val \in Seq(Byte) /\ nts[n].offset \in Nat
        BY <3>1, Zenon DEF Note
      <3> QED BY <3>2, SMTT(30)
    <2>3. PICK x \in Nat, y \in Nat : x = pl[i] /\ y = Len(its[i].val)
      BY <1>2, Zenon
    <2>4. /\ its[i].key = nts[n].key /\ f + PtrSize <= y
          /\ \A j \in DOMAIN its : pl[j] + Len(its[j].val) <= a
          /\ a + m <= need /\ Lies(b, x + f, Address(a)) /\ Lies(b, a, w)
      BY <2>1, <2>2, <2>3, Zenon DEF NoteLies
    <2>5. x + y <= need /\ x0 + l0 <= a
      BY <1>4, <1>5, <2>3, <2>4, Zenon DEF NewPlace
    <2>6. Lies(d, a, w)
      <3>1. o + PtrSize <= a
        BY <1>7, <1>8, <2>5
      <3> QED BY <1>8, <1>10, <2>2, <2>4, <3>1, LiesStill, Zenon
    <2>7. PICK z \in Nat : z = x + f /\ z + PtrSize <= x + y
      <3>1. x + f \in Nat /\ (x + f) + PtrSize <= x + y
        <4>1. f + PtrSize <= y /\ PtrSize \in Nat
          BY <1>8, <2>4, Zenon
        <4> QED BY <4>1
      <3> QED BY <3>1, Zenon
    <2>8. z + PtrSize <= o \/ o + PtrSize <= z
      <3>1. CASE i = i0
        <4>1. f \notin offset - PtrSize + 1 .. offset + PtrSize - 1
          BY <1>1, <2>2, <2>4, <3>1, Zenon DEF NewPlace
        <4>2. x = x0
          BY <1>5, <2>3, <3>1, Zenon
        <4> QED BY <1>7, <1>8, <2>7, <4>1, <4>2, SMTT(30)
      <3>2. CASE i # i0
        <4>1. x + y <= o \/ o + PtrSize <= x
          BY <1>11, <2>3, <3>2, Zenon
        <4> QED BY <1>8, <2>7, <4>1
      <3> QED BY <3>1, <3>2, Zenon
    <2>9. Lies(d, z, Address(a))
      <3>1. PtrSize = Len(Address(a))
        BY AddressBytes, Zenon
      <3>2. z + PtrSize <= need
        BY <1>8, <2>5, <2>7, SMTT(30)
      <3> QED BY <1>8, <1>10, <2>4, <2>7, <2>8, <3>1, <3>2, LiesStill, Zenon
    <2>10. a + m <= need + l
      BY <2>4
    <2>11. NoteLies(its, nts[n], need + l, pl, d, i, a)
      BY <2>2, <2>3, <2>4, <2>6, <2>7, <2>9, <2>10, Zenon DEF NoteLies
    <2> QED BY <2>11, Zenon
  <1>16. NoteLies(its, note, need + l, pl, d, i0, need)
    <2>1. need + l <= need + l
      OBVIOUS
    <2> QED BY <1>1, <1>4, <1>5, <1>7, <1>10, <2>1, Zenon DEF NoteLies, NewPlace
  <1>17. Laid(its, ns, need + l, pl, d)
    <2>1. \A n \in DOMAIN ns : \E i \in DOMAIN its, a \in Nat :
              NoteLies(its, ns[n], need + l, pl, d, i, a)
      BY <1>13, <1>15, <1>16, Zenon DEF NewPlace
    <2> QED BY <1>10, <1>14, <2>1, Zenon DEF Laid
  <1> QED BY <1>1, <1>5, <1>7, <1>9, <1>12, <1>17, Zenon

\* The objects and the names, when an item or a note is read.
LEMMA AppendItem ==
    ASSUME NEW s \in Seq(Item), NEW x \in Item
    PROVE  /\ Append(s, x) \in Seq(Item) /\ Len(Append(s, x)) = Len(s) + 1
           /\ DOMAIN Append(s, x) = 1 .. Len(s) + 1 /\ DOMAIN s = 1 .. Len(s)
           /\ Append(s, x)[Len(s) + 1] = x
           /\ \A i \in 1 .. Len(s) : Append(s, x)[i] = s[i]
  OBVIOUS

\* Append on a sequence of numbers.
LEMMA AppendNat ==
    ASSUME NEW s \in Seq(Nat), NEW x \in Nat
    PROVE  /\ Append(s, x) \in Seq(Nat) /\ Len(Append(s, x)) = Len(s) + 1
           /\ DOMAIN Append(s, x) = 1 .. Len(s) + 1 /\ DOMAIN s = 1 .. Len(s)
           /\ Append(s, x)[Len(s) + 1] = x
           /\ \A i \in 1 .. Len(s) : Append(s, x)[i] = s[i]
  OBVIOUS

\* The new item is found under its key, and the old ones under theirs.
LEMMA ItemHeld ==
    ASSUME NEW its \in Seq(Item), NEW item \in Item, NEW base \in Nat, NEW pl \in Seq(Nat),
           NEW q \in Seq(Nat), NEW w, Held(its, base, pl, q, w),
           \A i \in DOMAIN its : its[i].key # item.key, NEW tail \in Nat
    PROVE  /\ Append(its, item) \in Seq(Item) /\ Append(pl, tail) \in Seq(Nat)
           /\ Append(q, tail) \in Seq(Nat)
           /\ Held(Append(its, item), base, Append(pl, tail), Append(q, tail),
                   With(w, item.key, Len(q)))
  <1>1. PICK n \in Nat : n = Len(its) /\ n = Len(pl) /\ Len(q) = base + n
    <2>1. Len(its) \in Nat /\ Len(pl) = Len(its) /\ Len(q) = base + Len(pl)
      BY DEF Held
    <2> QED BY <2>1, Zenon
  <1>2. PICK r \in Seq(Item) : r = Append(its, item)
    <2>1. Append(its, item) \in Seq(Item)
      OBVIOUS
    <2> QED BY <2>1, Zenon
  <1>3. PICK t \in Seq(Nat) : t = Append(pl, tail)
    <2>1. Append(pl, tail) \in Seq(Nat)
      OBVIOUS
    <2> QED BY <2>1, Zenon
  <1>4. PICK u \in Seq(Nat) : u = Append(q, tail)
    <2>1. Append(q, tail) \in Seq(Nat)
      OBVIOUS
    <2> QED BY <2>1, Zenon
  <1>5. PICK key, x : key = item.key /\ x = With(w, key, Len(q))
    BY Zenon
  <1>6. /\ Len(r) = n + 1 /\ DOMAIN r = 1 .. n + 1 /\ DOMAIN its = 1 .. n
        /\ r[n + 1] = item /\ \A i \in 1 .. n : r[i] = its[i]
    <2>1. /\ Append(its, item) \in Seq(Item) /\ Len(Append(its, item)) = Len(its) + 1
         /\ DOMAIN Append(its, item) = 1 .. Len(its) + 1 /\ DOMAIN its = 1 .. Len(its)
         /\ Append(its, item)[Len(its) + 1] = item
         /\ \A i \in 1 .. Len(its) : Append(its, item)[i] = its[i]
      BY AppendItem, Zenon
    <2> QED BY <1>1, <1>2, <2>1, Zenon
  <1>7. Len(t) = n + 1 /\ t[n + 1] = tail /\ \A i \in 1 .. n : t[i] = pl[i]
    <2>1. /\ Append(pl, tail) \in Seq(Nat) /\ Len(Append(pl, tail)) = Len(pl) + 1
         /\ DOMAIN Append(pl, tail) = 1 .. Len(pl) + 1 /\ DOMAIN pl = 1 .. Len(pl)
         /\ Append(pl, tail)[Len(pl) + 1] = tail
         /\ \A i \in 1 .. Len(pl) : Append(pl, tail)[i] = pl[i]
      BY AppendNat, Zenon
    <2> QED BY <1>1, <1>3, <2>1, Zenon
  <1>8. /\ Len(u) = base + n + 1 /\ u[base + n + 1] = tail
        /\ \A i \in 1 .. base + n : u[i] = q[i]
    <2>1. PICK k \in Nat : k = base + n /\ k = Len(q)
      BY <1>1
    <2>2. /\ Append(q, tail) \in Seq(Nat) /\ Len(Append(q, tail)) = Len(q) + 1
         /\ DOMAIN Append(q, tail) = 1 .. Len(q) + 1 /\ DOMAIN q = 1 .. Len(q)
         /\ Append(q, tail)[Len(q) + 1] = tail
         /\ \A i \in 1 .. Len(q) : Append(q, tail)[i] = q[i]
      BY AppendNat, Zenon
    <2> QED BY <1>4, <2>1, <2>2, Zenon
  <1>9. /\ DOMAIN x = DOMAIN w \cup {key} /\ x[key] = base + n
        /\ \A k \in DOMAIN w : k # key => x[k] = w[k]
    <2>1. /\ DOMAIN With(w, key, Len(q)) = DOMAIN w \cup {key}
          /\ With(w, key, Len(q))[key] = Len(q)
          /\ \A k \in DOMAIN w : k # key => With(w, key, Len(q))[k] = w[k]
      BY Zenon DEF With
    <2> QED BY <1>1, <1>5, <2>1, Zenon
  <1>10. MapOK(x, u)
    <2>1. ASSUME NEW k \in DOMAIN x PROVE x[k] \in Nat /\ x[k] + 1 <= Len(u)
      <3>1. CASE k = key
        BY <1>8, <1>9, <3>1
      <3>2. CASE k # key
        <4>1. PICK y \in Nat : y = x[k] /\ y + 1 <= base + n
          BY <1>1, <1>9, <3>2, Zenon DEF Held, MapOK
        <4> QED BY <1>8, <4>1, SMTT(30)
      <3> QED BY <3>1, <3>2, Zenon
    <2> QED BY <2>1, Zenon DEF MapOK
  <1>11. \A i \in 1 .. n + 1 : i \in 1 .. n \/ i = n + 1
    OBVIOUS
  <1>12. \A i \in 1 .. n + 1 : u[base + i] = t[i]
    <2>1. \A i \in 1 .. n : q[base + i] = pl[i]
      BY <1>6, Zenon DEF Held
    <2>2. /\ base + (n + 1) = base + n + 1
          /\ \A i \in 1 .. n : base + i \in 1 .. base + n
      OBVIOUS
    <2> QED BY <1>7, <1>8, <1>11, <2>1, <2>2, Zenon
  <1>13. ASSUME NEW i \in 1 .. n + 1
         PROVE  r[i].key \in DOMAIN x /\ x[r[i].key] = base + i - 1
    <2>1. CASE i = n + 1
      <3>1. base + (n + 1) - 1 = base + n
        OBVIOUS
      <3> QED BY <1>5, <1>6, <1>9, <2>1, <3>1, Zenon
    <2>2. CASE i \in 1 .. n
      BY <1>5, <1>6, <1>9, <2>2, ZenonT(40) DEF Held
    <2> QED BY <1>11, <2>1, <2>2, Zenon
  <1>14. Len(t) = Len(r) /\ Len(u) = base + Len(t)
    BY <1>6, <1>7, <1>8
  <1>15. Held(r, base, t, u, x)
    BY <1>6, <1>10, <1>12, <1>13, <1>14, Zenon DEF Held
  <1> QED BY <1>2, <1>3, <1>4, <1>5, <1>15, Zenon

\* A note makes no object.
LEMMA NoteHeld ==
    ASSUME NEW its, NEW base \in Nat, NEW pl, NEW q, NEW w, Held(its, base, pl, q, w),
           NEW i \in DOMAIN its
    PROVE  Held(its, base, pl, q, NotedMap(w, its[i].key))
  <1>1. PICK key : key = its[i].key
    BY Zenon
  <1>2. PICK x : x = NotedMap(w, key)
    BY Zenon
  <1>3. key \in DOMAIN w
    BY <1>1, Zenon DEF Held
  <1>4. DOMAIN x = DOMAIN w /\ \A k \in DOMAIN w : x[k] = w[k]
    <2>1. x = With(w, key, w[key])
      BY <1>2, <1>3, Zenon DEF NotedMap
    <2>2. /\ DOMAIN With(w, key, w[key]) = DOMAIN w \cup {key}
          /\ With(w, key, w[key])[key] = w[key]
          /\ \A k \in DOMAIN w : k # key => With(w, key, w[key])[k] = w[k]
      BY Zenon DEF With
    <2> QED BY <1>3, <2>1, <2>2, Zenon
  <1>5. Held(its, base, pl, q, x)
    BY <1>4, Zenon DEF Held, MapOK
  <1> QED BY <1>1, <1>2, <1>5, Zenon

\* A handler that does not know what it popped reads no more.
LEMMA Stuck ==
    ASSUME NEW events \in Seq(JsonEvent), NEW more \in Seq(JsonEvent), NEW start, NEW garbage,
           NEW h, Read(events, start, garbage) = h, h.status # "ok"
    PROVE  Read(events \o more, start, garbage) = h
  <1>1. PICK N \in Nat : N = Len(more)
    OBVIOUS
  <1> DEFINE Upto(n) == events \o SubSeq(more, 1, n)
             Bad == {n \in 0 .. N : Read(Upto(n), start, garbage) # h}
  <1>2. Upto(N) = events \o more
    BY <1>1
  <1>3. Upto(0) = events
    OBVIOUS
  <1>4. ASSUME NEW n \in 1 .. N
        PROVE  /\ Upto(n - 1) \in Seq(JsonEvent) /\ more[n] \in JsonEvent
               /\ Upto(n) = Append(Upto(n - 1), more[n])
    BY <1>1
  <1> HIDE DEF Upto
  <1>5. Bad = {}
    <2> SUFFICES ASSUME Bad # {} PROVE FALSE
      BY Zenon
    <2>1. PICK n \in Bad : \A k \in Bad : n <= k
      <3>1. Bad \subseteq Nat
        OBVIOUS
      <3> HIDE DEF Bad
      <3> QED BY <3>1, LeastNumber, Zenon
    <2>2. n \in 0 .. N /\ Read(Upto(n), start, garbage) # h
      BY Zenon
    <2>3. n # 0
      BY <1>3, <2>2, Zenon
    <2>4. n \in 1 .. N /\ n - 1 \in 0 .. N /\ ~(n <= n - 1)
      BY <2>2, <2>3
    <2>5. Read(Upto(n - 1), start, garbage) = h
      BY <2>1, <2>4, Zenon
    <2>6. Read(Append(Upto(n - 1), more[n]), start, garbage) = h
      BY <1>4, <2>4, <2>5, ReadAppend, SMTT(30)
    <2> QED BY <1>4, <2>2, <2>4, <2>6, Zenon
  <1>6. N \in 0 .. N
    OBVIOUS
  <1>7. Read(Upto(N), start, garbage) = h
    BY <1>5, <1>6, Zenon
  <1> QED BY <1>2, <1>7, Zenon

\* ItemLaid and ItemHeld of what ItemRead reads.
LEMMA ItemPlaced ==
    ASSUME NEW len \in Nat, NEW b \in BufferOf(len), NEW need \in Nat, NEW its \in Seq(Item),
           NEW pl \in Seq(Nat), NEW q \in Seq(Nat), NEW w, NEW base \in Nat,
           Held(its, base, pl, q, w), need <= len => Laid(its, <<>>, need, pl, b),
           NEW item \in Item, \A i \in DOMAIN its : its[i].key # item.key
    PROVE  /\ append(b, item.val) \in BufferOf(len) /\ Append(q, b.tail_offset) \in Seq(Nat)
           /\ Append(pl, b.tail_offset) \in Seq(Nat)
           /\ Held(Append(its, item), base, Append(pl, b.tail_offset),
                   Append(q, b.tail_offset), With(w, item.key, Len(q)))
           /\ need + Len(item.val) <= len =>
                Laid(Append(its, item), <<>>, need + Len(item.val),
                     Append(pl, b.tail_offset), append(b, item.val))
  <1>1. PICK val \in Seq(Byte), l \in Nat : val = item.val /\ l = Len(val)
    <2>1. item.val \in Seq(Byte)
      BY Zenon DEF Item
    <2> QED BY <2>1
  <1>2. append(b, val) \in BufferOf(len)
    BY BytesAreNat, Appended, Zenon
  <1>3. PICK tail \in Nat : tail = b.tail_offset
    BY DEF BufferOf
  <1>4. /\ Append(pl, tail) \in Seq(Nat) /\ Append(q, tail) \in Seq(Nat)
        /\ Held(Append(its, item), base, Append(pl, tail), Append(q, tail),
                With(w, item.key, Len(q)))
    BY ItemHeld, Zenon
  <1>5. ASSUME need + Len(item.val) <= len
        PROVE  Laid(Append(its, item), <<>>, need + Len(item.val),
                    Append(pl, b.tail_offset), append(b, item.val))
    <2>1. need <= len
      <3>1. need + l <= len
        BY <1>1, <1>5, Zenon
      <3> QED BY <3>1
    <2>2. Len(pl) = Len(its)
      BY Zenon DEF Held
    <2> QED BY <1>5, <2>1, <2>2, ItemLaid, Zenon
  <1> QED BY <1>1, <1>2, <1>3, <1>4, <1>5, Zenon

\* NoteLaid and NoteHeld of what NoteRead reads.
LEMMA NotePlaced ==
    ASSUME NEW len \in Nat, NEW b \in BufferOf(len), NEW need \in Nat, NEW its \in Seq(Item),
           NEW pl \in Seq(Nat), NEW q \in Seq(Nat), NEW w, NEW base \in Nat,
           NEW nts \in Seq(Note), NEW note \in Note,
           Held(its, base, pl, q, w), need <= len => Laid(its, nts, need, pl, b),
           OwnKeys(its), NEW i, NewPlace(its, nts, i, note)
    PROVE  LET x == NotedMap(w, note.key)
               d == NotedBuffer(q, w, b, note.key, note.offset, note.val)
           IN  /\ d \in BufferOf(len) /\ Held(its, base, pl, q, x)
               /\ need + Len(note.val) <= len =>
                    Laid(its, Append(nts, note), need + Len(note.val), pl, d)
  <1>1. PICK val \in Seq(Byte), offset \in Nat, l \in Nat :
          val = note.val /\ offset = note.offset /\ l = Len(val)
    <2>1. note.val \in Seq(Byte) /\ note.offset \in Nat
      BY Zenon DEF Note
    <2> QED BY <2>1
  <1>2. i \in DOMAIN its /\ note.key = its[i].key
    BY Zenon DEF NewPlace
  <1>3. PICK d : d = NotedBuffer(q, w, b, note.key, note.offset, note.val)
    BY Zenon
  <1>4. /\ Held(its, base, pl, q, NotedMap(w, note.key))
        /\ d = put(append(b, val), Address(b.tail_offset), pl[i] + offset)
    <2>1. Held(its, base, pl, q, NotedMap(w, its[i].key))
      BY <1>2, NoteHeld, Zenon
    <2>2. its[i].key \in DOMAIN w /\ w[its[i].key] = base + i - 1 /\ q[base + i] = pl[i]
      BY <1>2, Zenon DEF Held
    <2>3. (base + i - 1) + 1 = base + i
      BY <1>2
    <2> QED BY <1>1, <1>2, <1>3, <2>1, <2>2, <2>3, Zenon DEF NotedBuffer
  <1>5. Len(pl) = Len(its)
    BY Zenon DEF Held
  <1>6. d \in BufferOf(len)
    <2>1. PICK c \in BufferOf(len) : c = append(b, val)
      BY BytesAreNat, Appended, Zenon
    <2>2. PICK t \in Nat : t = b.tail_offset
      BY DEF BufferOf
    <2>3. Address(t) \in Seq(Nat)
      BY AddressBytes, Zenon
    <2>4. PICK o \in Nat : o = pl[i] + offset
      <3>1. pl[i] \in Nat
        BY <1>2, <1>5
      <3>2. pl[i] + offset \in Nat
        BY <3>1, SMTT(30)
      <3> QED BY <3>2, Zenon
    <2>5. put(c, Address(t), o) \in BufferOf(len)
      BY <2>3, PutBuffer, Zenon
    <2> QED BY <1>4, <2>1, <2>2, <2>4, <2>5, Zenon
  <1>7. ASSUME need + Len(note.val) <= len
        PROVE  Laid(its, Append(nts, note), need + Len(note.val), pl, d)
    <2>1. need <= len
      <3>1. need + l <= len
        BY <1>1, <1>7, Zenon
      <3> QED BY <3>1
    <2>2. Laid(its, nts, need, pl, b)
      BY <2>1, Zenon
    <2>3. b.tail_offset = need
      BY <2>2, Zenon DEF Laid
    <2>4. Laid(its, Append(nts, note), need + Len(note.val), pl,
               put(append(b, note.val), Address(need), pl[i] + note.offset))
      BY <1>5, <1>7, <2>2, NoteLaid, Zenon
    <2> QED BY <1>1, <1>4, <2>3, <2>4, Zenon
  <1> QED BY <1>3, <1>4, <1>6, <1>7, Zenon

-----------------------------------------------------------------------------
(* What parse makes of the text after each of the writer calls. *)

\* Arrays that earlier packets left on the stack.
LEMMA BelowPacket ==
    ASSUME NEW s \in Seq(ArrayItem)
    PROVE  s \in Seq(StackItem) /\ (s # <<>> => top(s).type # "KEY")
  <1>1. \A x \in ArrayItem : x \in StackItem /\ x.type = "ARRAY"
    <2>1. ParseItem("ARRAY", NoName) \in StackItem
      BY Zenon DEF ParseItem, StackItem, ParseType
    <2>2. ParseItem("ARRAY", NoName).type = "ARRAY"
      BY Zenon DEF ParseItem
    <2> QED BY <2>1, <2>2, Zenon DEF ArrayItem
  <1>2. \A k \in 1 .. Len(s) : s[k] \in ArrayItem
    OBVIOUS
  <1>3. s \in Seq(StackItem)
    <2>1. \A k \in 1 .. Len(s) : s[k] \in StackItem
      BY <1>1, <1>2, Zenon
    <2> QED BY <2>1
  <1>4. s # <<>> => Len(s) \in 1 .. Len(s)
    OBVIOUS
  <1>5. s # <<>> => top(s).type = "ARRAY"
    BY <1>1, <1>2, <1>4, Zenon DEF top
  <1> QED BY <1>3, <1>5, Zenon

\* The stack in each state of the packet.
LEMMA StackParts ==
    ASSUME NEW s \in Seq(StackItem)
    PROVE  /\ On(s, "ARRAY", NoName) \in Seq(StackItem)
           /\ Stack(s, "between") = On(s, "ARRAY", NoName)
           /\ Stack(s, "object") = On(On(s, "ARRAY", NoName), "OBJECT", NoName)
           /\ Stack(s, "notes") =
                On(On(On(s, "ARRAY", NoName), "OBJECT", NoName), "ARRAY", NoName)
           /\ Stack(s, "closed") = s
  <1>1. On(s, "ARRAY", NoName) \in Seq(StackItem)
    BY OnStack, Zenon DEF ParseType
  <1> QED BY <1>1, Zenon DEF Stack

\* set_packet_header starts a text that reads as its items.
LEMMA HeaderReadsAs ==
    ASSUME NEW h \in Seq(Byte)
    PROVE  /\ HeaderText(h) \in Seq(JsonEvent)
           /\ ReadsAs(HeaderText(h), "between", <<[key |-> "PacketHeader", val |-> h]>>, <<>>,
                      Len(h))
  <1>1. HeaderText(h) \in Seq(JsonEvent)
    <2> DEFINE a1 == Structure("StartArray")
               a2 == Structure("StartObject")
               a3 == Pair("SegmentType", "Uint", 0)
               a4 == Pair("PacketHeader", "String", h)
               a5 == Structure("EndObject")
    <2>1. /\ a1 \in Seq(JsonEvent) /\ a2 \in Seq(JsonEvent) /\ a3 \in Seq(JsonEvent)
          /\ a4 \in Seq(JsonEvent) /\ a5 \in Seq(JsonEvent)
      BY StructureIn, PairIn, ValIn, Zenon
    <2> HIDE DEF a1, a2, a3, a4, a5
    <2>2. PICK e2 \in Seq(JsonEvent) : e2 = a1 \o a2
      BY <2>1, Follow, Zenon
    <2>3. PICK e3 \in Seq(JsonEvent) : e3 = e2 \o a3
      BY <2>1, Follow, Zenon
    <2>4. PICK e4 \in Seq(JsonEvent) : e4 = e3 \o a4
      BY <2>1, Follow, Zenon
    <2>5. e4 \o a5 \in Seq(JsonEvent)
      BY <2>1, Follow, Zenon
    <2> QED BY <2>2, <2>3, <2>4, <2>5, Zenon DEF HeaderText, a1, a2, a3, a4, a5
  <1> DEFINE item == [key |-> "PacketHeader", val |-> h]
  <1>2. item \in Item /\ item.key = "PacketHeader" /\ item.val = h
    BY ValIn, Zenon DEF Item
  <1>3. ASSUME NEW m, NEW s \in Seq(ArrayItem), NEW p \in Seq(Nat), NEW len \in Nat,
               NEW garbage \in {"KEY", "OBJECT"}, MapOK(m, p), s = <<>> /\ garbage = "KEY"
        PROVE  Read(HeaderText(h), Reader(s, p, m, NewBuffer(len)), garbage) =
                    Lost(s, p, m, NewBuffer(len))
    <2> DEFINE start == Reader(s, p, m, NewBuffer(len))
               lost == Lost(s, p, m, NewBuffer(len))
               e1 == Structure("StartArray")
               a2 == Structure("StartObject")
               a3 == Pair("SegmentType", "Uint", 0)
               a4 == Pair("PacketHeader", "String", h)
               a5 == Structure("EndObject")
    <2>1. /\ e1 \in Seq(JsonEvent) /\ a2 \in Seq(JsonEvent) /\ a3 \in Seq(JsonEvent)
          /\ a4 \in Seq(JsonEvent) /\ a5 \in Seq(JsonEvent) /\ <<>> \in Seq(JsonEvent)
      BY StructureIn, PairIn, ValIn
    <2>2. Read(e1, start, garbage) = lost
      <3>0. PICK e0 \in Seq(JsonEvent) : e0 = <<>>
        BY <2>1, Zenon
      <3>1. Reads(e0, start, garbage, s, p, m, NewBuffer(len))
        BY <3>0, ReadNothing, Zenon DEF Reads
      <3>2. Read(e0 \o Structure("StartArray"), start, garbage) =
              Handled(start, Event("StartArray", <<>>), garbage)
        BY <3>1, ReadStructure
      <3>3. e0 \o e1 = e1
        BY <2>1, <3>0, ConcatEmptySeq, Zenon
      <3>4. Handled(start, Event("StartArray", <<>>), garbage) = StartArray(start, garbage)
        BY Callbacks, SMTT(30)
      <3>5. start.parse_stack = <<>>
        BY <1>3, ReaderParts
      <3> HIDE DEF start
      <3>6. StartArray(start, garbage) = [start EXCEPT !.status = "undefined"]
        BY <1>3, <3>5, Zenon DEF StartArray
      <3> QED BY <3>2, <3>3, <3>4, <3>6, Zenon DEF Lost, start
    <2>3. lost.status # "ok"
      BY Zenon DEF Lost, Reader
    <2> HIDE DEF start, lost, e1, a2, a3, a4, a5
    <2>4. PICK e2 \in Seq(JsonEvent) : e2 = e1 \o a2
      BY <2>1, Follow, Zenon
    <2>5. PICK e3 \in Seq(JsonEvent) : e3 = e2 \o a3
      BY <2>1, Follow, Zenon
    <2>6. PICK e4 \in Seq(JsonEvent) : e4 = e3 \o a4
      BY <2>1, Follow, Zenon
    <2>7. Read(e2, start, garbage) = lost
      BY <2>1, <2>2, <2>3, <2>4, Stuck, SMTT(30)
    <2>8. Read(e3, start, garbage) = lost
      BY <2>1, <2>3, <2>5, <2>7, Stuck, SMTT(30)
    <2>9. Read(e4, start, garbage) = lost
      BY <2>1, <2>3, <2>6, <2>8, Stuck, SMTT(30)
    <2>10. Read(e4 \o a5, start, garbage) = lost
      BY <2>1, <2>3, <2>9, Stuck, SMTT(30)
    <2> QED BY <2>4, <2>5, <2>6, <2>10, Zenon DEF HeaderText, start, lost, e1, a2, a3, a4, a5
  <1>4. ASSUME NEW m, NEW s \in Seq(ArrayItem), NEW p \in Seq(Nat), NEW len \in Nat,
               NEW garbage \in {"KEY", "OBJECT"}, MapOK(m, p), ~(s = <<>> /\ garbage = "KEY")
        PROVE  ReadTo(HeaderText(h), "between", <<item>>, <<>>, Len(h), s, p, m, len, garbage)
    <2> HIDE DEF item
    <2>1. PICK b \in BufferOf(len) : b = NewBuffer(len) /\ b.tail_offset = 0
      <3>1. NewBuffer(len) \in BufferOf(len)
        BY NewBufferOf, Zenon
      <3>2. NewBuffer(len).tail_offset = 0
        BY Zenon DEF NewBuffer
      <3> QED BY <3>1, <3>2, Zenon
    <2>2. /\ s \in Seq(StackItem)
          /\ IF s = <<>> THEN garbage # "KEY" ELSE top(s).type # "KEY"
      BY <1>4, BelowPacket, Zenon
    <2>3. PICK base \in Nat : base = Len(p)
      OBVIOUS
    <2>4. /\ <<>> \in Seq(Item) /\ <<>> \in Seq(Nat) /\ DOMAIN <<>> = {} /\ Len(<<>>) = 0
          /\ Append(<<>>, item) = <<item>> /\ base = base + 0
      OBVIOUS
    <2>5. Held(<<>>, base, <<>>, p, m)
      BY <1>4, <2>3, <2>4, Zenon DEF Held
    <2>6. Laid(<<>>, <<>>, 0, <<>>, b)
      BY <2>1, <2>4, Zenon DEF Laid, ItemsLie
    <2> DEFINE w == With(m, "PacketHeader", Len(p))
    <2> HIDE DEF w
    <2>7. PICK q \in Seq(Nat), pl \in Seq(Nat), d \in BufferOf(len) :
            /\ q = Append(p, b.tail_offset) /\ d = append(b, h)
            /\ Held(<<item>>, base, pl, q, w)
            /\ 0 + Len(h) <= len => Laid(<<item>>, <<>>, 0 + Len(h), pl, d)
      <3>1. /\ append(b, item.val) \in BufferOf(len) /\ Append(p, b.tail_offset) \in Seq(Nat)
            /\ Append(<<>>, b.tail_offset) \in Seq(Nat)
            /\ Held(Append(<<>>, item), base, Append(<<>>, b.tail_offset),
                   Append(p, b.tail_offset), With(m, item.key, Len(p)))
            /\ 0 + Len(item.val) <= len =>
                Laid(Append(<<>>, item), <<>>, 0 + Len(item.val),
                     Append(<<>>, b.tail_offset), append(b, item.val))
        BY <1>2, <2>4, <2>5, <2>6, ItemPlaced, Zenon
      <3> QED BY <1>2, <2>4, <3>1, Zenon DEF w
    <2>8. Reads(HeaderText(h), Reader(s, p, m, b), garbage, On(s, "ARRAY", NoName), q, w, d)
      BY <2>2, <2>7, HeaderRead, Zenon DEF w
    <2>9. 0 + Len(h) = Len(h)
      OBVIOUS
    <2>10. Stack(s, "between") = On(s, "ARRAY", NoName)
      BY <2>2, StackParts, Zenon
    <2> QED BY <2>1, <2>3, <2>7, <2>8, <2>9, <2>10, Zenon DEF ReadTo
  <1>5. ReadsAs(HeaderText(h), "between", <<item>>, <<>>, Len(h))
    <2> HIDE DEF item
    <2> QED BY <1>3, <1>4, Zenon DEF ReadsAs
  <1> QED BY <1>1, <1>5, Zenon

\* What a handler made of events that it could not read on from, it makes of more.
Extends(events, more) ==
    /\ events \in Seq(JsonEvent) /\ more \in Seq(JsonEvent)
    /\ \A start, garbage : Read(events, start, garbage).status # "ok" =>
          Read(more, start, garbage) = Read(events, start, garbage)

\* A text that is extended is still a text.
LEMMA ExtendsMore ==
    ASSUME NEW events, NEW more, Extends(events, more), NEW a \in Seq(JsonEvent)
    PROVE  Extends(events, more \o a)
  <1>1. events \in Seq(JsonEvent) /\ more \in Seq(JsonEvent)
    BY Zenon DEF Extends
  <1>2. more \o a \in Seq(JsonEvent)
    BY <1>1, Follow, Zenon
  <1>3. ASSUME NEW start, NEW garbage, Read(events, start, garbage).status # "ok"
        PROVE  Read(more \o a, start, garbage) = Read(events, start, garbage)
    <2>1. PICK h : h = Read(events, start, garbage)
      BY Zenon
    <2>2. Read(more, start, garbage) = h /\ h.status # "ok"
      BY <1>3, <2>1, Zenon DEF Extends
    <2>3. Read(more \o a, start, garbage) = h
      BY <1>1, <2>2, Stuck, SMTT(30)
    <2> QED BY <2>1, <2>3, Zenon
  <1> QED BY <1>1, <1>2, <1>3, Zenon DEF Extends

\* An optional part of a text is a text.
LEMMA IfIn ==
    ASSUME NEW c \in BOOLEAN, NEW events \in Seq(JsonEvent)
    PROVE  If(c, events) \in Seq(JsonEvent)
  BY DEF If

\* A handler that is lost takes no further event.
LEMMA LostStatus == ASSUME NEW s, NEW p, NEW m, NEW b PROVE Lost(s, p, m, b).status # "ok"
  BY Zenon DEF Lost, Reader

\* set_packet_item only adds to the text.
LEMMA ItemTextExtends ==
    ASSUME NEW events \in Seq(JsonEvent), NEW key \in Val, NEW v \in Val,
           NEW opens \in BOOLEAN, NEW closes \in BOOLEAN
    PROVE  Extends(events, ItemText(events, key, v, opens, closes))
  <1> DEFINE a0 == Structure("StartObject") \o Pair("SegmentType", "Uint", 1)
             a1 == If(opens, a0)
             a2 == Pair(key, "String", v)
             a3 == If(closes, Structure("EndObject"))
  <1>1. Structure("StartObject") \in Seq(JsonEvent) /\ Structure("EndObject") \in Seq(JsonEvent)
    BY StructureIn, Zenon
  <1>2. Pair("SegmentType", "Uint", 1) \in Seq(JsonEvent) /\ a2 \in Seq(JsonEvent)
    BY PairIn, ValIn, Zenon
  <1>3. a0 \in Seq(JsonEvent)
    BY <1>1, <1>2, Follow, Zenon
  <1> HIDE DEF a0
  <1>4. a1 \in Seq(JsonEvent) /\ a3 \in Seq(JsonEvent)
    BY <1>1, <1>3, IfIn, Zenon
  <1> HIDE DEF a1, a2, a3
  <1>5. Extends(events, events)
    BY Zenon DEF Extends
  <1>6. Extends(events, events \o a1)
    BY <1>4, <1>5, ExtendsMore, Zenon
  <1>7. Extends(events, events \o a1 \o a2)
    BY <1>2, <1>6, ExtendsMore, Zenon
  <1>8. Extends(events, events \o a1 \o a2 \o a3)
    BY <1>4, <1>7, ExtendsMore, Zenon
  <1> QED BY <1>8, Zenon DEF ItemText, a0, a1, a2, a3

\* set_note_for_ptr only adds to the text.
LEMMA NoteTextExtends ==
    ASSUME NEW events \in Seq(JsonEvent), NEW key \in Val, NEW offset \in Val, NEW v \in Val,
           NEW opens \in BOOLEAN, NEW closes \in BOOLEAN
    PROVE  Extends(events, NoteText(events, key, offset, v, opens, closes))
  <1> DEFINE b1 == Structure("StartObject")
             b2 == Pair("SegmentType", "Uint", 2)
             b3 == <<Event("Key", "note_arry")>>
             b4 == Structure("StartArray")
             b5 == Structure("EndArray")
             a1 == If(opens, NotesBegin)
             a3 == Pair("ptr_key", "String", key)
             a4 == Pair("ptr_offset", "Uint", offset)
             a5 == Pair("ptr_val", "String", v)
             a6 == Structure("EndObject")
             a7 == If(closes, NotesEnd)
  <1>1. /\ b1 \in Seq(JsonEvent) /\ b4 \in Seq(JsonEvent) /\ b5 \in Seq(JsonEvent)
        /\ a6 \in Seq(JsonEvent)
    BY StructureIn, Zenon
  <1>2. /\ b2 \in Seq(JsonEvent) /\ a3 \in Seq(JsonEvent) /\ a4 \in Seq(JsonEvent)
        /\ a5 \in Seq(JsonEvent)
    BY PairIn, ValIn, Zenon
  <1>3. b3 \in Seq(JsonEvent)
    <2>1. Event("Key", "note_arry") \in JsonEvent
      BY EventIn, ValIn, Zenon
    <2> QED BY <2>1
  <1> HIDE DEF b1, b2, b3, b4, b5, a3, a4, a5, a6
  <1>4. NotesBegin \in Seq(JsonEvent)
    <2>1. PICK c2 \in Seq(JsonEvent) : c2 = b1 \o b2
      BY <1>1, <1>2, Follow, Zenon
    <2>2. PICK c3 \in Seq(JsonEvent) : c3 = c2 \o b3
      BY <1>3, Follow, Zenon
    <2>3. c3 \o b4 \in Seq(JsonEvent)
      BY <1>1, Follow, Zenon
    <2> QED BY <2>1, <2>2, <2>3, Zenon DEF NotesBegin, b1, b2, b3, b4
  <1>5. NotesEnd \in Seq(JsonEvent)
    <2>1. PICK c2 \in Seq(JsonEvent) : c2 = b5 \o a6
      BY <1>1, Follow, Zenon
    <2>2. c2 \o b5 \in Seq(JsonEvent)
      BY <1>1, Follow, Zenon
    <2> QED BY <2>1, <2>2, Zenon DEF NotesEnd, b5, a6
  <1>6. a1 \in Seq(JsonEvent) /\ a7 \in Seq(JsonEvent)
    BY <1>4, <1>5, IfIn, Zenon
  <1> HIDE DEF a1, a7
  <1>7. Extends(events, events)
    BY Zenon DEF Extends
  <1>8. Extends(events, events \o a1)
    BY <1>6, <1>7, ExtendsMore, Zenon
  <1>9. Extends(events, events \o a1 \o b1)
    BY <1>1, <1>8, ExtendsMore, Zenon
  <1>10. Extends(events, events \o a1 \o b1 \o a3)
    BY <1>2, <1>9, ExtendsMore, Zenon
  <1>11. Extends(events, events \o a1 \o b1 \o a3 \o a4)
    BY <1>2, <1>10, ExtendsMore, Zenon
  <1>12. Extends(events, events \o a1 \o b1 \o a3 \o a4 \o a5)
    BY <1>2, <1>11, ExtendsMore, Zenon
  <1>13. Extends(events, events \o a1 \o b1 \o a3 \o a4 \o a5 \o a6)
    BY <1>1, <1>12, ExtendsMore, Zenon
  <1>14. Extends(events, events \o a1 \o b1 \o a3 \o a4 \o a5 \o a6 \o a7)
    BY <1>6, <1>13, ExtendsMore, Zenon
  <1> QED BY <1>14, Zenon DEF NoteText, a1, b1, a3, a4, a5, a6, a7

\* set_packet_item keeps a text that reads as its items.
LEMMA ItemReadsAs ==
    ASSUME NEW events \in Seq(JsonEvent), NEW its \in Seq(Item), NEW need \in Nat,
           NEW opens \in BOOLEAN, NEW closes \in BOOLEAN,
           ReadsAs(events, IF opens THEN "between" ELSE "object", its, <<>>, need),
           NEW item \in Item, item.key # "ptr_key", item.key # "ptr_val",
           \A i \in DOMAIN its : its[i].key # item.key
    PROVE  ReadsAs(ItemText(events, item.key, item.val, opens, closes),
                   IF closes THEN "between" ELSE "object", Append(its, item), <<>>,
                   need + Len(item.val))
  <1> DEFINE before == IF opens THEN "between" ELSE "object"
             after == IF closes THEN "between" ELSE "object"
             more == ItemText(events, item.key, item.val, opens, closes)
  <1>1. PICK key \in Val, v \in Val : key = item.key /\ v = item.val
    <2>1. item.key \in Val /\ item.val \in Val
      BY ValIn, Zenon DEF Item
    <2> QED BY <2>1, Zenon
  <1>2. ASSUME NEW m, NEW s \in Seq(ArrayItem), NEW p \in Seq(Nat), NEW len \in Nat,
               NEW garbage \in {"KEY", "OBJECT"}, MapOK(m, p), s = <<>> /\ garbage = "KEY"
        PROVE  Read(more, Reader(s, p, m, NewBuffer(len)), garbage) =
                    Lost(s, p, m, NewBuffer(len))
    <2>1. Read(events, Reader(s, p, m, NewBuffer(len)), garbage) = Lost(s, p, m, NewBuffer(len))
      BY <1>2, Zenon DEF ReadsAs
    <2>2. Lost(s, p, m, NewBuffer(len)).status # "ok"
      BY LostStatus, Zenon
    <2>3. Extends(events, more)
      BY <1>1, ItemTextExtends, Zenon
    <2> HIDE DEF more
    <2> QED BY <2>1, <2>2, <2>3, Zenon DEF Extends
  <1>3. ASSUME NEW m, NEW s \in Seq(ArrayItem), NEW p \in Seq(Nat), NEW len \in Nat,
               NEW garbage \in {"KEY", "OBJECT"}, MapOK(m, p), ~(s = <<>> /\ garbage = "KEY")
        PROVE  ReadTo(more, after, Append(its, item), <<>>, need + Len(item.val),
                      s, p, m, len, garbage)
    <2> DEFINE start == Reader(s, p, m, NewBuffer(len))
    <2> HIDE DEF start
    <2>1. ReadTo(events, before, its, <<>>, need, s, p, m, len, garbage)
      BY <1>3, Zenon DEF ReadsAs
    <2>2. PICK w : \E q \in Seq(Nat), b \in BufferOf(len), pl \in Seq(Nat) :
            /\ Reads(events, start, garbage, Stack(s, before), q, w, b)
            /\ Held(its, Len(p), pl, q, w)
            /\ need <= len => Laid(its, <<>>, need, pl, b)
      BY <2>1, Zenon DEF ReadTo, start
    <2>3. PICK q \in Seq(Nat), b \in BufferOf(len), pl \in Seq(Nat) :
            /\ Reads(events, start, garbage, Stack(s, before), q, w, b)
            /\ Held(its, Len(p), pl, q, w)
            /\ need <= len => Laid(its, <<>>, need, pl, b)
      BY <2>2, Zenon
    <2>4. PICK r \in Seq(StackItem) :
            /\ r = On(s, "ARRAY", NoName) /\ Stack(s, "between") = r
            /\ Stack(s, "object") = On(r, "OBJECT", NoName)
      BY BelowPacket, StackParts, Zenon
    <2>5. /\ Stack(s, before) = IF opens THEN r ELSE On(r, "OBJECT", NoName)
          /\ Stack(s, after) = IF closes THEN r ELSE On(r, "OBJECT", NoName)
      BY <2>4, Zenon
    <2>6. Reads(events, start, garbage, IF opens THEN r ELSE On(r, "OBJECT", NoName), q, w, b)
      BY <2>3, <2>5, Zenon
    <2>7. Reads(more, start, garbage, IF closes THEN r ELSE On(r, "OBJECT", NoName),
                Append(q, b.tail_offset), With(w, key, Len(q)), append(b, v))
      BY <1>1, <2>6, ItemRead, Zenon
    <2>8. PICK base \in Nat : base = Len(p)
      BY SMTT(30)
    <2>9. /\ append(b, item.val) \in BufferOf(len) /\ Append(q, b.tail_offset) \in Seq(Nat)
          /\ Append(pl, b.tail_offset) \in Seq(Nat)
          /\ Held(Append(its, item), base, Append(pl, b.tail_offset),
                  Append(q, b.tail_offset), With(w, item.key, Len(q)))
          /\ need + Len(item.val) <= len =>
                Laid(Append(its, item), <<>>, need + Len(item.val),
                     Append(pl, b.tail_offset), append(b, item.val))
      BY <2>3, <2>8, ItemPlaced
    <2> HIDE DEF more, after
    <2> QED BY <1>1, <2>5, <2>7, <2>8, <2>9, Zenon DEF ReadTo, start
  <1> HIDE DEF more, after
  <1>4. ASSUME NEW m, NEW s \in Seq(ArrayItem), NEW p \in Seq(Nat), NEW len \in Nat,
               NEW garbage \in {"KEY", "OBJECT"}, MapOK(m, p)
        PROVE  IF s = <<>> /\ garbage = "KEY"
               THEN Read(more, Reader(s, p, m, NewBuffer(len)), garbage) =
                        Lost(s, p, m, NewBuffer(len))
               ELSE ReadTo(more, after, Append(its, item), <<>>, need + Len(item.val),
                           s, p, m, len, garbage)
    BY <1>2, <1>3, <1>4, Zenon
  <1>5. ReadsAs(more, after, Append(its, item), <<>>, need + Len(item.val))
    BY ONLY <1>4, Zenon DEF ReadsAs
  <1> QED BY <1>5, Zenon DEF more, after

\* set_note_for_ptr keeps a text that reads as its items and notes.
LEMMA NoteReadsAs ==
    ASSUME NEW events \in Seq(JsonEvent), NEW its \in Seq(Item), NEW nts \in Seq(Note),
           NEW need \in Nat, NEW opens \in BOOLEAN, NEW closes \in BOOLEAN,
           ReadsAs(events, IF opens THEN "between" ELSE "notes", its, nts, need),
           NEW note \in Note, OwnKeys(its), NEW i, NewPlace(its, nts, i, note)
    PROVE  ReadsAs(NoteText(events, note.key, note.offset, note.val, opens, closes),
                   IF closes THEN "closed" ELSE "notes", its, Append(nts, note),
                   need + Len(note.val))
  <1> DEFINE before == IF opens THEN "between" ELSE "notes"
             after == IF closes THEN "closed" ELSE "notes"
             more == NoteText(events, note.key, note.offset, note.val, opens, closes)
  <1>1. PICK key \in Val, offset \in Val, v \in Val :
          key = note.key /\ offset = note.offset /\ v = note.val
    <2>1. note.key \in Val /\ note.offset \in Val /\ note.val \in Val
      BY ValIn, Zenon DEF Note
    <2> QED BY <2>1, Zenon
  <1>2. ASSUME NEW m, NEW s \in Seq(ArrayItem), NEW p \in Seq(Nat), NEW len \in Nat,
               NEW garbage \in {"KEY", "OBJECT"}, MapOK(m, p), s = <<>> /\ garbage = "KEY"
        PROVE  Read(more, Reader(s, p, m, NewBuffer(len)), garbage) =
                    Lost(s, p, m, NewBuffer(len))
    <2>1. Read(events, Reader(s, p, m, NewBuffer(len)), garbage) = Lost(s, p, m, NewBuffer(len))
      BY <1>2, Zenon DEF ReadsAs
    <2>2. Lost(s, p, m, NewBuffer(len)).status # "ok"
      BY LostStatus, Zenon
    <2>3. Extends(events, more)
      BY <1>1, NoteTextExtends, Zenon
    <2> HIDE DEF more
    <2> QED BY <2>1, <2>2, <2>3, Zenon DEF Extends
  <1>3. ASSUME NEW m, NEW s \in Seq(ArrayItem), NEW p \in Seq(Nat), NEW len \in Nat,
               NEW garbage \in {"KEY", "OBJECT"}, MapOK(m, p), ~(s = <<>> /\ garbage = "KEY")
        PROVE  ReadTo(more, after, its, Append(nts, note), need + Len(note.val),
                      s, p, m, len, garbage)
    <2> DEFINE start == Reader(s, p, m, NewBuffer(len))
    <2> HIDE DEF start
    <2>1. ReadTo(events, before, its, nts, need, s, p, m, len, garbage)
      BY <1>3, Zenon DEF ReadsAs
    <2>2. PICK w : \E q \in Seq(Nat), b \in BufferOf(len), pl \in Seq(Nat) :
            /\ Reads(events, start, garbage, Stack(s, before), q, w, b)
            /\ Held(its, Len(p), pl, q, w)
            /\ need <= len => Laid(its, nts, need, pl, b)
      BY <2>1, Zenon DEF ReadTo, start
    <2>3. PICK q \in Seq(Nat), b \in BufferOf(len), pl \in Seq(Nat) :
            /\ Reads(events, start, garbage, Stack(s, before), q, w, b)
            /\ Held(its, Len(p), pl, q, w)
            /\ need <= len => Laid(its, nts, need, pl, b)
      BY <2>2, Zenon
    <2> DEFINE s1 == On(s, "ARRAY", NoName)
               s3 == On(On(On(s, "ARRAY", NoName), "OBJECT", NoName), "ARRAY", NoName)
    <2>4. /\ s \in Seq(StackItem) /\ Stack(s, "between") = s1
          /\ Stack(s, "notes") = s3 /\ Stack(s, "closed") = s
      BY BelowPacket, StackParts, Zenon
    <2>5. /\ Stack(s, before) = IF opens THEN s1 ELSE s3
          /\ Stack(s, after) = IF closes THEN s ELSE s3
      <3> HIDE DEF s1, s3
      <3> QED BY <2>4, Zenon
    <2>6. Reads(events, start, garbage, IF opens THEN s1 ELSE s3, q, w, b)
      <3> HIDE DEF s1, s3
      <3> QED BY <2>3, <2>5, Zenon
    <2> DEFINE x == NotedMap(w, key)
               d == NotedBuffer(q, w, b, key, offset, v)
    <2>7. Reads(more, start, garbage, IF closes THEN s ELSE s3, q, x, d)
      BY <1>1, <2>4, <2>6, NoteRead, Zenon
    <2>8. PICK base \in Nat : base = Len(p)
      OBVIOUS
    <2>9. /\ d \in BufferOf(len) /\ Held(its, base, pl, q, x)
          /\ need + Len(note.val) <= len =>
                Laid(its, Append(nts, note), need + Len(note.val), pl, d)
      BY <1>1, <2>3, <2>8, NotePlaced, Zenon
    <2> HIDE DEF more, after, x, d, s3
    <2> QED BY <2>5, <2>7, <2>8, <2>9, Zenon DEF ReadTo, start
  <1> HIDE DEF more, after
  <1>4. ASSUME NEW m, NEW s \in Seq(ArrayItem), NEW p \in Seq(Nat), NEW len \in Nat,
               NEW garbage \in {"KEY", "OBJECT"}, MapOK(m, p)
        PROVE  IF s = <<>> /\ garbage = "KEY"
               THEN Read(more, Reader(s, p, m, NewBuffer(len)), garbage) =
                        Lost(s, p, m, NewBuffer(len))
               ELSE ReadTo(more, after, its, Append(nts, note), need + Len(note.val),
                           s, p, m, len, garbage)
    BY <1>2, <1>3, <1>4, Zenon
  <1>5. ReadsAs(more, after, its, Append(nts, note), need + Len(note.val))
    BY ONLY <1>4, Zenon DEF ReadsAs
  <1> QED BY <1>5, Zenon DEF more, after

-----------------------------------------------------------------------------
(* The inductive invariant. *)

\* The text is that of the items and notes.
PacketInv ==
    /\ json \in Seq(JsonEvent) /\ items \in Seq(Item) /\ notes \in Seq(Note) /\ needed \in Nat
    /\ open \in {"new", "between", "object", "notes", "closed"}
    /\ open = "new" => items = <<>>
    /\ open \in {"new", "between", "object"} => notes = <<>>
    /\ OwnKeys(items)
    /\ open # "new" => ReadsAs(json, open, items, notes, needed)

\* The handler is in a state that a packet may be read from.
HandleInv ==
    /\ parsed \in BOOLEAN /\ parses \in 0 .. MaxParses
    /\ \E m : \E s \in Seq(ArrayItem), p \in Seq(Nat), len \in Nat : \E b \in BufferOf(len) :
          /\ MapOK(m, p) /\ (parses = 0 => p = <<>>)
          /\ handle = Reader(s, p, m, b) \/ handle = Lost(s, p, m, b)

\* The packet that was parsed is in the buffer.
ParsedInv ==
    parsed /\ handle.status # "undefined" =>
        \E w : \E base \in Nat, q \in Seq(Nat), pl \in Seq(Nat), len \in Nat :
            \E b \in BufferOf(len) :
                /\ handle.object_ptrs = Append(q, b.tail_offset)
                /\ handle.name_id_map = w /\ handle.objectBuffer = b
                /\ Held(items, base, pl, q, w) /\ (parses = 1 => base = 0)
                /\ needed <= len => Laid(items, notes, needed, pl, b)

\* set_packet_header keeps the invariant of the packet.
LEMMA StepHeader ==
    ASSUME PacketInv, NEW h \in NoteValues, set_packet_header(h)
    PROVE  PacketInv'
  <1>1. h \in Seq(Byte) /\ Len(h) \in Nat
    <2>1. h \in Seq(Byte)
      BY ValuesAssumption, Zenon
    <2> QED BY <2>1
  <1>2. /\ open = "new" /\ json' = HeaderText(h) /\ open' = "between" /\ notes' = notes
        /\ items' = <<[key |-> "PacketHeader", val |-> h]>> /\ needed' = Len(h)
    BY Zenon DEF set_packet_header, HeaderText
  <1>3. /\ HeaderText(h) \in Seq(JsonEvent)
        /\ ReadsAs(HeaderText(h), "between", <<[key |-> "PacketHeader", val |-> h]>>, <<>>,
                   Len(h))
    BY <1>1, HeaderReadsAs, Zenon
  <1>4. notes = <<>> /\ <<>> \in Seq(Note)
    BY <1>2, Zenon DEF PacketInv
  <1> DEFINE item == [key |-> "PacketHeader", val |-> h]
  <1>5. item \in Item
    BY <1>1, ValIn, Zenon DEF Item
  <1> HIDE DEF item
  <1>6. <<item>> \in Seq(Item) /\ DOMAIN <<item>> = {1}
    BY <1>5
  <1>7. OwnKeys(<<item>>)
    BY <1>6, Zenon DEF OwnKeys
  <1> QED BY <1>1, <1>2, <1>3, <1>4, <1>6, <1>7, Zenon DEF PacketInv, item

\* A key of an item is not a name of the format.
LEMMA KeyNames == ASSUME NEW key \in Keys PROVE key # "ptr_key" /\ key # "ptr_val"
  BY KeysAssumption, Zenon

\* set_packet_item keeps the invariant of the packet.
LEMMA StepItem ==
    ASSUME PacketInv, NEW key \in Keys, NEW val \in Values, NEW type \in Types,
           set_packet_item(key, val, type)
    PROVE  PacketInv'
  <1> DEFINE item == [key |-> key, val |-> val]
  <1>1. item \in Item /\ item.key = key /\ item.val = val
    <2>1. val \in Seq(Byte)
      BY ValuesAssumption, Zenon
    <2> QED BY <2>1, ValIn, Zenon DEF Item
  <1> HIDE DEF item
  <1>2. PICK opens \in BOOLEAN, closes \in BOOLEAN : opens = Opens(type) /\ closes = Closes(type)
    <2>1. Opens(type) \in BOOLEAN /\ Closes(type) \in BOOLEAN
      BY DEF Opens, Closes
    <2> QED BY <2>1, Zenon
  <1>3. /\ open = IF opens THEN "between" ELSE "object"
        /\ \A i \in DOMAIN items : items[i].key # key
        /\ json' = ItemText(json, key, val, opens, closes)
        /\ open' = IF closes THEN "between" ELSE "object"
        /\ items' = Append(items, item) /\ needed' = needed + Len(val) /\ notes' = notes
    BY <1>2, Zenon DEF set_packet_item, ItemText, item
  <1>4. /\ json \in Seq(JsonEvent) /\ items \in Seq(Item) /\ needed \in Nat
        /\ notes \in Seq(Note) /\ OwnKeys(items)
    BY Zenon DEF PacketInv
  <1>5. open # "new" /\ open \in {"new", "between", "object"}
    BY <1>3, Zenon
  <1>6. notes = <<>> /\ ReadsAs(json, IF opens THEN "between" ELSE "object", items, <<>>, needed)
    BY <1>3, <1>5, Zenon DEF PacketInv
  <1>7. ReadsAs(json', open', items', <<>>, needed')
    <2>1. item.key # "ptr_key" /\ item.key # "ptr_val"
      BY <1>1, KeyNames, Zenon
    <2>2. \A i \in DOMAIN items : items[i].key # item.key
      BY <1>1, <1>3, Zenon
    <2>3. ReadsAs(ItemText(json, item.key, item.val, opens, closes),
                  IF closes THEN "between" ELSE "object", Append(items, item), <<>>,
                  needed + Len(item.val))
      BY <1>1, <1>4, <1>6, <2>1, <2>2, ItemReadsAs, Zenon
    <2> QED BY <1>1, <1>3, <2>3, Zenon
  <1>8. json' \in Seq(JsonEvent)
    <2>1. key \in Val /\ val \in Val
      BY <1>1, ValIn, Zenon DEF Item
    <2>2. Extends(json, ItemText(json, key, val, opens, closes))
      BY <1>4, <2>1, ItemTextExtends, Zenon
    <2> QED BY <1>3, <2>2, Zenon DEF Extends
  <1>9. items' \in Seq(Item) /\ OwnKeys(items')
    <2>1. /\ Append(items, item) \in Seq(Item)
          /\ DOMAIN Append(items, item) = 1 .. Len(items) + 1 /\ DOMAIN items = 1 .. Len(items)
          /\ Append(items, item)[Len(items) + 1] = item
          /\ \A i \in 1 .. Len(items) : Append(items, item)[i] = items[i]
      BY <1>1, <1>4, AppendItem, Zenon
    <2>2. Len(items) \in Nat
      BY <1>4
    <2>3. \A i \in 1 .. Len(items) + 1 : i \in 1 .. Len(items) \/ i = Len(items) + 1
      BY <2>2
    <2> DEFINE r == Append(items, item)
    <2> HIDE DEF r
    <2>4. ASSUME NEW i \in DOMAIN r, NEW j \in DOMAIN r, r[i].key = r[j].key
          PROVE  i = j
      <3>1. /\ (i \in DOMAIN items /\ r[i] = items[i]) \/ (i = Len(items) + 1 /\ r[i] = item)
            /\ (j \in DOMAIN items /\ r[j] = items[j]) \/ (j = Len(items) + 1 /\ r[j] = item)
        BY <2>1, <2>3, Zenon DEF r
      <3> QED BY <1>1, <1>3, <1>4, <2>4, <3>1, Zenon DEF OwnKeys
    <2> QED BY <1>3, <2>1, <2>4, Zenon DEF OwnKeys, r
  <1>10. needed' \in Nat
    <2>1. Len(val) \in Nat
      BY <1>1 DEF Item
    <2> QED BY <1>3, <1>4, <2>1, SMTT(30)
  <1> QED BY <1>3, <1>4, <1>6, <1>7, <1>8, <1>9, <1>10, Zenon DEF PacketInv

\* set_note_for_ptr keeps the invariant of the packet.
LEMMA StepNote ==
    ASSUME PacketInv, NEW key \in Keys, NEW offset \in Offsets, NEW val \in NoteValues,
           NEW type \in Types, set_note_for_ptr(key, offset, val, type)
    PROVE  PacketInv'
  <1> DEFINE note == [key |-> key, offset |-> offset, val |-> val]
  <1>1. note \in Note /\ note.key = key /\ note.offset = offset /\ note.val = val
    <2>1. val \in Seq(Byte) /\ offset \in Nat
      BY ValuesAssumption, Zenon
    <2> QED BY <2>1, ValIn, Zenon DEF Note
  <1> HIDE DEF note
  <1>2. PICK opens \in BOOLEAN, closes \in BOOLEAN : opens = Opens(type) /\ closes = Closes(type)
    <2>1. Opens(type) \in BOOLEAN /\ Closes(type) \in BOOLEAN
      BY DEF Opens, Closes
    <2> QED BY <2>1, Zenon
  <1>3. /\ open = IF opens THEN "between" ELSE "notes"
        /\ json' = NoteText(json, key, offset, val, opens, closes)
        /\ open' = IF closes THEN "closed" ELSE "notes"
        /\ notes' = Append(notes, note) /\ needed' = needed + Len(val) /\ items' = items
    BY <1>2, Zenon DEF set_note_for_ptr, NoteText, NotesBegin, NotesEnd, note
  <1>4. PICK i \in DOMAIN items : NewPlace(items, notes, i, note)
    BY <1>1, Zenon DEF set_note_for_ptr, NewPlace
  <1>5. /\ json \in Seq(JsonEvent) /\ items \in Seq(Item) /\ needed \in Nat
        /\ notes \in Seq(Note) /\ OwnKeys(items)
    BY Zenon DEF PacketInv
  <1>6. ReadsAs(json, IF opens THEN "between" ELSE "notes", items, notes, needed)
    <2>1. open # "new"
      BY <1>3, Zenon
    <2> QED BY <1>3, <2>1, Zenon DEF PacketInv
  <1>7. ReadsAs(json', open', items, notes', needed')
    <2>1. ReadsAs(NoteText(json, note.key, note.offset, note.val, opens, closes),
                  IF closes THEN "closed" ELSE "notes", items, Append(notes, note),
                  needed + Len(note.val))
      BY <1>1, <1>4, <1>5, <1>6, NoteReadsAs, Zenon
    <2> QED BY <1>1, <1>3, <2>1, Zenon
  <1>8. json' \in Seq(JsonEvent)
    <2>1. key \in Val /\ val \in Val /\ offset \in Val
      BY <1>1, ValIn, Zenon DEF Note
    <2>2. Extends(json, NoteText(json, key, offset, val, opens, closes))
      BY <1>5, <2>1, NoteTextExtends, Zenon
    <2> QED BY <1>3, <2>2, Zenon DEF Extends
  <1>9. notes' \in Seq(Note)
    BY <1>1, <1>3, <1>5, SMTT(30)
  <1>10. needed' \in Nat
    <2>1. Len(val) \in Nat
      BY <1>1 DEF Note
    <2> QED BY <1>3, <1>5, <2>1, SMTT(30)
  <1>11. open' \in {"notes", "closed"}
    BY <1>3, Zenon
  <1>12. /\ open' \in {"new", "between", "object", "notes", "closed"}
         /\ open' \notin {"new", "between", "object"} /\ open' # "new"
    BY <1>11, Zenon
  <1> QED BY <1>3, <1>5, <1>7, <1>8, <1>9, <1>10, <1>12, Zenon DEF PacketInv

\* clear_packet makes the invariant of the packet hold.
LEMMA StepClear == ASSUME clear_packet PROVE PacketInv'
  <1>1. /\ <<>> \in Seq(JsonEvent) /\ <<>> \in Seq(Item) /\ <<>> \in Seq(Note) /\ 0 \in Nat
        /\ DOMAIN <<>> = {}
    OBVIOUS
  <1>2. OwnKeys(<<>>)
    BY <1>1, Zenon DEF OwnKeys
  <1> QED BY <1>1, <1>2, Zenon DEF clear_packet, PacketInv

\* A longer list of objects holds what the shorter one did.
LEMMA MapMore ==
    ASSUME NEW m, NEW p \in Seq(Nat), NEW x \in Nat, MapOK(m, p)
    PROVE  MapOK(m, Append(p, x)) /\ Append(p, x) \in Seq(Nat) /\ Append(p, x) # <<>>
  <1>1. /\ Append(p, x) \in Seq(Nat) /\ Len(Append(p, x)) = Len(p) + 1 /\ Len(p) \in Nat
        /\ Append(p, x) # <<>>
    OBVIOUS
  <1>2. \A y \in Nat : y + 1 <= Len(p) => y + 1 <= Len(p) + 1
    BY <1>1, SMTT(30)
  <1> QED BY <1>1, <1>2, Zenon DEF MapOK

\* The parts of a handler that is lost.
LEMMA LostParts ==
    ASSUME NEW s, NEW p, NEW m, NEW b
    PROVE  /\ Lost(s, p, m, b) =
                [parse_stack |-> s, object_ptrs |-> p, name_id_map |-> m, objectBuffer |-> b,
                 status |-> "undefined"]
           /\ Lost(s, p, m, b).parse_stack = s /\ Lost(s, p, m, b).object_ptrs = p
           /\ Lost(s, p, m, b).name_id_map = m /\ Lost(s, p, m, b).objectBuffer = b
           /\ Lost(s, p, m, b).status = "undefined"
  <1>1. Lost(s, p, m, b) =
            [parse_stack |-> s, object_ptrs |-> p, name_id_map |-> m, objectBuffer |-> b,
             status |-> "undefined"]
    BY DEF Reader, Lost
  <1> QED BY <1>1

\* The handler after parse: the end of the buffer is the last of its objects.
LEMMA EndNoted ==
    ASSUME NEW s, NEW p, NEW m, NEW b, NEW x
    PROVE  /\ [Reader(s, p, m, b) EXCEPT !.object_ptrs = Append(@, x)] =
                Reader(s, Append(p, x), m, b)
           /\ [Lost(s, p, m, b) EXCEPT !.object_ptrs = Append(@, x)] =
                Lost(s, Append(p, x), m, b)
  <1>1. [Reader(s, p, m, b) EXCEPT !.object_ptrs = Append(@, x)] =
            Reader(s, Append(p, x), m, b)
    BY SMTT(30) DEF Reader
  <1>2. [Lost(s, p, m, b) EXCEPT !.object_ptrs = Append(@, x)] =
            Lost(s, Append(p, x), m, b)
    <2>1. PICK q : q = Append(p, x)
      BY Zenon
    <2>2. /\ Lost(s, p, m, b) =
                [parse_stack |-> s, object_ptrs |-> p, name_id_map |-> m, objectBuffer |-> b,
                 status |-> "undefined"]
          /\ Lost(s, q, m, b) =
                [parse_stack |-> s, object_ptrs |-> q, name_id_map |-> m, objectBuffer |-> b,
                 status |-> "undefined"]
          /\ Lost(s, p, m, b).object_ptrs = p
      BY LostParts
    <2>3. [Lost(s, p, m, b) EXCEPT !.object_ptrs = q] = Lost(s, q, m, b)
      BY <2>2
    <2> QED BY <2>1, <2>2, <2>3, Zenon
  <1> QED BY <1>1, <1>2, Zenon

\* The handler before parse: what earlier packets left, and a new buffer.
Started(h, len) == [h EXCEPT !.objectBuffer = setBuffer(@, len), !.status = "ok"]

LEMMA StartOf ==
    ASSUME NEW s, NEW p, NEW m, NEW b, NEW len
    PROVE  Started(Reader(s, p, m, b), len) = Reader(s, p, m, NewBuffer(len))
  <1>1. \A c : setBuffer(c, len) = NewBuffer(len)
    BY Zenon DEF setBuffer, NewBuffer
  <1>2. [Reader(s, p, m, b) EXCEPT !.objectBuffer = setBuffer(@, len), !.status = "ok"] =
            [Reader(s, p, m, b) EXCEPT !.objectBuffer = NewBuffer(len), !.status = "ok"]
    BY <1>1, Zenon
  <1>3. [Reader(s, p, m, b) EXCEPT !.objectBuffer = NewBuffer(len), !.status = "ok"] =
            Reader(s, p, m, NewBuffer(len))
    <2>1. PICK c : c = NewBuffer(len)
      BY Zenon
    <2>2. [Reader(s, p, m, b) EXCEPT !.objectBuffer = c] = Reader(s, p, m, c)
      BY DEF Reader
    <2>3. [Reader(s, p, m, c) EXCEPT !.status = "ok"] = Reader(s, p, m, c)
      BY DEF Reader
    <2> QED BY <2>1, <2>2, <2>3, Zenon
  <1> QED BY <1>2, <1>3, Zenon DEF Started

\* A packet that may be parsed leaves at most its array on the stack.
LEMMA BaseStack ==
    ASSUME NEW s \in Seq(ArrayItem), NEW opn \in {"between", "closed"}
    PROVE  Stack(s, opn) \in Seq(ArrayItem)
  <1>1. ParseItem("ARRAY", NoName) \in ArrayItem
    BY Zenon DEF ArrayItem
  <1>2. On(s, "ARRAY", NoName) \in Seq(ArrayItem)
    BY <1>1 DEF On
  <1>3. s \in Seq(StackItem)
    BY BelowPacket, Zenon
  <1> QED BY <1>2, <1>3, StackParts, Zenon

\* parse keeps the invariant, and lays the packet out in the buffer.
LEMMA StepParse ==
    ASSUME PacketInv, HandleInv, NEW garbage \in {"KEY", "OBJECT"}, NEW len \in Nat,
           parse(garbage, len)
    PROVE  PacketInv' /\ HandleInv' /\ ParsedInv'
  <1>1. /\ open \in {"between", "closed"} /\ parses < MaxParses /\ handle.status # "undefined"
        /\ parsed' = TRUE /\ parses' = parses + 1
        /\ UNCHANGED <<json, open, items, notes, needed>>
    BY Zenon DEF parse
  <1>2. PacketInv'
    BY <1>1, Zenon DEF PacketInv
  <1>3. PICK m : \E s \in Seq(ArrayItem), p \in Seq(Nat), l \in Nat : \E b \in BufferOf(l) :
          /\ MapOK(m, p) /\ (parses = 0 => p = <<>>)
          /\ handle = Reader(s, p, m, b) \/ handle = Lost(s, p, m, b)
    BY Zenon DEF HandleInv
  <1>4. PICK s \in Seq(ArrayItem), p \in Seq(Nat) :
          /\ MapOK(m, p) /\ (parses = 0 => p = <<>>)
          /\ \E b : handle = Reader(s, p, m, b) \/ handle = Lost(s, p, m, b)
    BY <1>3, Zenon
  <1>5. PICK b0 : handle = Reader(s, p, m, b0)
    <2>1. PICK b : handle = Reader(s, p, m, b) \/ handle = Lost(s, p, m, b)
      BY <1>4, Zenon
    <2>2. Lost(s, p, m, b).status = "undefined"
      BY LostParts
    <2> QED BY <1>1, <2>1, <2>2, Zenon
  <1> DEFINE read == Read(json, Reader(s, p, m, NewBuffer(len)), garbage)
  <1>6. handle' = [read EXCEPT !.object_ptrs = Append(@, read.objectBuffer.tail_offset)]
    <2> DEFINE start == Started(handle, len)
    <2>1. start = Reader(s, p, m, NewBuffer(len))
      <3>1. Started(Reader(s, p, m, b0), len) = Reader(s, p, m, NewBuffer(len))
        BY StartOf
      <3> QED BY <1>5, <3>1, Zenon
    <2>2. handle' = [Read(json, start, garbage) EXCEPT
                        !.object_ptrs =
                            Append(@, Read(json, start, garbage).objectBuffer.tail_offset)]
      BY Zenon DEF parse, Started
    <2> HIDE DEF start
    <2> QED BY <2>1, <2>2, Zenon
  <1> HIDE DEF read
  <1>7. /\ parsed' \in BOOLEAN /\ parses' \in 0 .. MaxParses /\ parses' # 0
        /\ parses' = 1 => p = <<>>
    <2>1. parses \in Nat /\ MaxParses \in Nat
      BY ValuesAssumption DEF HandleInv
    <2> QED BY <1>1, <1>4, <2>1, SMTT(30)
  <1>8. /\ ReadsAs(json, open, items, notes, needed) /\ items' = items /\ notes' = notes
        /\ needed' = needed
    <2>1. open # "new"
      BY <1>1, Zenon
    <2> QED BY <1>1, <2>1, Zenon DEF PacketInv
  <1>9. CASE s = <<>> /\ garbage = "KEY"
    <2>1. PICK b \in BufferOf(len), x \in Nat : b = NewBuffer(len) /\ x = b.tail_offset
      <3>1. NewBuffer(len) \in BufferOf(len) /\ NewBuffer(len).tail_offset \in Nat
        BY NewBufferOf, Zenon DEF NewBuffer
      <3> QED BY <3>1, Zenon
    <2>2. read = Lost(s, p, m, b)
      BY <1>4, <1>8, <1>9, <2>1, Zenon DEF ReadsAs, read
    <2>3. handle' = Lost(s, Append(p, x), m, b)
      <3>1. /\ [Lost(s, p, m, b) EXCEPT !.object_ptrs = Append(@, x)] =
                    Lost(s, Append(p, x), m, b)
            /\ Lost(s, p, m, b).objectBuffer = b
        BY EndNoted, LostParts
      <3> QED BY <1>6, <2>1, <2>2, <3>1, Zenon
    <2>4. PICK p1 \in Seq(Nat) : p1 = Append(p, x) /\ MapOK(m, p1)
      BY <1>4, MapMore, Zenon
    <2>5. handle' = Lost(s, p1, m, b)
      BY <2>3, <2>4, Zenon
    <2>6. HandleInv'
      BY <1>7, <2>4, <2>5, Zenon DEF HandleInv
    <2>7. handle'.status = "undefined"
      <3>1. Lost(s, p1, m, b).status = "undefined"
        BY LostParts
      <3> QED BY <2>5, <3>1, Zenon
    <2> QED BY <1>2, <2>6, <2>7, Zenon DEF ParsedInv
  <1>10. CASE ~(s = <<>> /\ garbage = "KEY")
    <2>1. ReadTo(json, open, items, notes, needed, s, p, m, len, garbage)
      BY <1>4, <1>8, <1>10, Zenon DEF ReadsAs
    <2>2. PICK w : \E q \in Seq(Nat), b \in BufferOf(len), pl \in Seq(Nat) :
            /\ read = Reader(Stack(s, open), q, w, b)
            /\ Held(items, Len(p), pl, q, w)
            /\ needed <= len => Laid(items, notes, needed, pl, b)
      BY <2>1, Zenon DEF ReadTo, Reads, read
    <2>3. PICK q \in Seq(Nat), b \in BufferOf(len), pl \in Seq(Nat) :
            /\ read = Reader(Stack(s, open), q, w, b)
            /\ Held(items, Len(p), pl, q, w)
            /\ needed <= len => Laid(items, notes, needed, pl, b)
      BY <2>2, Zenon
    <2>4. PICK x \in Nat : x = b.tail_offset
      BY DEF BufferOf
    <2>5. handle' = Reader(Stack(s, open), Append(q, x), w, b)
      <3>1. PICK t : t = Stack(s, open)
        BY Zenon
      <3>2. /\ [Reader(t, q, w, b) EXCEPT !.object_ptrs = Append(@, x)] =
                    Reader(t, Append(q, x), w, b)
            /\ Reader(t, q, w, b).objectBuffer = b
        BY EndNoted, ReaderParts
      <3> QED BY <1>6, <2>3, <2>4, <3>1, <3>2, Zenon
    <2>6. PICK q1 \in Seq(Nat) : q1 = Append(q, x) /\ MapOK(w, q1)
      BY <2>3, MapMore, Zenon DEF Held
    <2>7. PICK t \in Seq(ArrayItem) : t = Stack(s, open)
      BY <1>1, BaseStack, Zenon
    <2>8. handle' = Reader(t, q1, w, b)
      BY <2>5, <2>6, <2>7, Zenon
    <2>9. HandleInv'
      BY <1>7, <2>6, <2>8, Zenon DEF HandleInv
    <2>10. PICK base \in Nat : base = Len(p) /\ (p = <<>> => base = 0)
      OBVIOUS
    <2>11. /\ handle'.object_ptrs = Append(q, b.tail_offset) /\ handle'.name_id_map = w
           /\ handle'.objectBuffer = b
      <3>1. /\ Reader(t, q1, w, b).object_ptrs = q1 /\ Reader(t, q1, w, b).name_id_map = w
            /\ Reader(t, q1, w, b).objectBuffer = b
        BY ReaderParts
      <3> QED BY <2>4, <2>6, <2>8, <3>1, Zenon
    <2>12. Held(items', base, pl, q, w) /\ (parses' = 1 => base = 0)
      BY <1>7, <1>8, <2>3, <2>10, Zenon
    <2>13. needed' <= len => Laid(items', notes', needed', pl, b)
      BY <1>8, <2>3, Zenon
    <2>14. ParsedInv'
      BY <2>11, <2>12, <2>13, Zenon DEF ParsedInv
    <2> QED BY <1>2, <2>9, <2>14, Zenon
  <1> QED BY <1>9, <1>10, Zenon

\* The invariant holds at first.
LEMMA InvInit == ASSUME Init PROVE PacketInv /\ HandleInv /\ ParsedInv
  <1>1. /\ <<>> \in Seq(JsonEvent) /\ <<>> \in Seq(Item) /\ <<>> \in Seq(Note) /\ 0 \in Nat
        /\ <<>> \in Seq(ArrayItem) /\ <<>> \in Seq(Nat) /\ DOMAIN <<>> = {}
    OBVIOUS
  <1>2. OwnKeys(<<>>)
    BY <1>1, Zenon DEF OwnKeys
  <1>3. PacketInv
    BY <1>1, <1>2, Zenon DEF Init, PacketInv
  <1>4. MapOK(<<>>, <<>>)
    BY <1>1, Zenon DEF MapOK
  <1>5. PICK b \in BufferOf(0) : b = [bytes |-> <<>>, length |-> 0, tail_offset |-> 0]
    <2>1. 0 .. 0 - 1 = {} /\ 0 \in 0 .. 0
      OBVIOUS
    <2>2. <<>> \in [{} -> Nat]
      OBVIOUS
    <2> QED BY <2>1, <2>2, Zenon DEF BufferOf
  <1>6. handle = Reader(<<>>, <<>>, <<>>, b)
    BY <1>5, Zenon DEF Init, Reader
  <1>7. PICK e \in Seq(ArrayItem), p \in Seq(Nat) : e = <<>> /\ p = <<>>
    BY <1>1, Zenon
  <1>8. parsed \in BOOLEAN /\ parses \in 0 .. MaxParses /\ ~parsed
    <2>1. parses = 0 /\ parsed = FALSE
      BY Zenon DEF Init
    <2>2. 0 \in 0 .. MaxParses
      BY ValuesAssumption
    <2> QED BY <2>1, <2>2, Zenon
  <1>9. \E m : handle = Reader(e, p, m, b) /\ MapOK(m, p)
    BY <1>4, <1>6, <1>7, Zenon
  <1>10. HandleInv
    BY <1>1, <1>7, <1>8, <1>9, Zenon DEF HandleInv
  <1> QED BY <1>3, <1>8, <1>10, Zenon DEF ParsedInv

\* The handler is left alone by a call of the writer, and what it has read is not
\* this packet.
LEMMA WriterKeeps ==
    ASSUME HandleInv, UNCHANGED <<handle, parses>>, parsed' = FALSE
    PROVE  HandleInv' /\ ParsedInv'
  <1>1. handle' = handle /\ parses' = parses /\ parsed' \in BOOLEAN
    BY Zenon
  <1>2. HandleInv'
    BY <1>1, Zenon DEF HandleInv
  <1> QED BY <1>2, Zenon DEF ParsedInv

\* Every step keeps the invariant.
LEMMA InvNext ==
    ASSUME PacketInv, HandleInv, ParsedInv, [Next]_vars
    PROVE  PacketInv' /\ HandleInv' /\ ParsedInv'
  <1>1. ASSUME NEW h \in NoteValues, set_packet_header(h)
        PROVE  PacketInv' /\ HandleInv' /\ ParsedInv'
    <2>1. UNCHANGED <<handle, parses>> /\ parsed' = FALSE
      BY <1>1, Zenon DEF set_packet_header
    <2> QED BY <1>1, <2>1, StepHeader, WriterKeeps, Zenon
  <1>2. ASSUME NEW key \in Keys, NEW val \in Values, NEW type \in Types,
               set_packet_item(key, val, type)
        PROVE  PacketInv' /\ HandleInv' /\ ParsedInv'
    <2>1. UNCHANGED <<handle, parses>> /\ parsed' = FALSE
      BY <1>2, Zenon DEF set_packet_item
    <2> QED BY <1>2, <2>1, StepItem, WriterKeeps, Zenon
  <1>3. ASSUME NEW key \in Keys, NEW offset \in Offsets, NEW val \in NoteValues,
               NEW type \in Types, set_note_for_ptr(key, offset, val, type)
        PROVE  PacketInv' /\ HandleInv' /\ ParsedInv'
    <2>1. UNCHANGED <<handle, parses>> /\ parsed' = FALSE
      BY <1>3, Zenon DEF set_note_for_ptr
    <2> QED BY <1>3, <2>1, StepNote, WriterKeeps, Zenon
  <1>4. ASSUME clear_packet PROVE PacketInv' /\ HandleInv' /\ ParsedInv'
    <2>1. UNCHANGED <<handle, parses>> /\ parsed' = FALSE
      BY <1>4, Zenon DEF clear_packet
    <2> QED BY <1>4, <2>1, StepClear, WriterKeeps, Zenon
  <1>5. ASSUME NEW garbage \in {"KEY", "OBJECT"}, NEW spare \in Spare, needed + spare >= 0,
               parse(garbage, needed + spare)
        PROVE  PacketInv' /\ HandleInv' /\ ParsedInv'
    <2>1. needed + spare \in Nat
      <3>1. spare \in Int /\ needed \in Nat
        BY ValuesAssumption, Zenon DEF PacketInv
      <3> QED BY <1>5, <3>1
    <2> QED BY <1>5, <2>1, StepParse, Zenon
  <1>6. CASE UNCHANGED vars
    <2>1. /\ json' = json /\ open' = open /\ items' = items /\ notes' = notes
          /\ needed' = needed /\ handle' = handle /\ parsed' = parsed /\ parses' = parses
      BY <1>6, Zenon DEF vars
    <2>2. PacketInv'
      BY <2>1, Zenon DEF PacketInv
    <2>3. HandleInv'
      BY <2>1, Zenon DEF HandleInv
    <2>4. ParsedInv'
      BY <2>1, ZenonT(40) DEF ParsedInv
    <2> QED BY <2>2, <2>3, <2>4, Zenon
  <1> QED BY <1>1, <1>2, <1>3, <1>4, <1>5, <1>6, Zenon DEF Next

\* Every state of the specification has the three invariants.
THEOREM PacketInvariance == Spec => [](PacketInv /\ HandleInv /\ ParsedInv)
  BY InvInit, InvNext, PTL DEF Spec

-----------------------------------------------------------------------------
(* What the invariant says of a packet that was parsed. *)

\* What the invariant says of the handler.
LEMMA TypeHolds == ASSUME PacketInv, HandleInv PROVE TypeOK /\ NoParseError
  <1>1. PICK m : \E s \in Seq(ArrayItem), p \in Seq(Nat), l \in Nat : \E b \in BufferOf(l) :
          /\ MapOK(m, p)
          /\ handle = Reader(s, p, m, b) \/ handle = Lost(s, p, m, b)
    BY Zenon DEF HandleInv
  <1>2. PICK s \in Seq(ArrayItem), p \in Seq(Nat), l \in Nat :
          /\ MapOK(m, p)
          /\ \E b \in BufferOf(l) : handle = Reader(s, p, m, b) \/ handle = Lost(s, p, m, b)
    BY <1>1, Zenon
  <1>3. PICK b \in BufferOf(l) : handle = Reader(s, p, m, b) \/ handle = Lost(s, p, m, b)
    BY <1>2, Zenon
  <1>4. /\ handle.parse_stack = s /\ handle.object_ptrs = p /\ handle.name_id_map = m
        /\ handle.objectBuffer = b /\ handle.status \in {"ok", "undefined"}
    <2>1. CASE handle = Reader(s, p, m, b)
      <3>1. /\ Reader(s, p, m, b).parse_stack = s /\ Reader(s, p, m, b).object_ptrs = p
            /\ Reader(s, p, m, b).name_id_map = m /\ Reader(s, p, m, b).objectBuffer = b
            /\ Reader(s, p, m, b).status = "ok"
        BY ReaderParts
      <3> QED BY <2>1, <3>1, Zenon
    <2>2. CASE handle = Lost(s, p, m, b)
      <3>1. /\ Lost(s, p, m, b).parse_stack = s /\ Lost(s, p, m, b).object_ptrs = p
            /\ Lost(s, p, m, b).name_id_map = m /\ Lost(s, p, m, b).objectBuffer = b
            /\ Lost(s, p, m, b).status = "undefined"
        BY LostParts
      <3> QED BY <2>2, <3>1, Zenon
    <2> QED BY <1>3, <2>1, <2>2, Zenon
  <1>5. /\ b.tail_offset \in 0 .. b.length /\ DOMAIN b.bytes = 0 .. b.length - 1
    BY Zenon DEF BufferOf
  <1>6. \A i \in DOMAIN s : s[i].type \in ParseType
    <2>1. \A x \in ArrayItem : x.type \in ParseType
      <3>1. ParseItem("ARRAY", NoName).type = "ARRAY" /\ "ARRAY" \in ParseType
        BY Zenon DEF ParseItem, ParseType
      <3> QED BY <3>1, Zenon DEF ArrayItem
    <2>2. \A i \in DOMAIN s : s[i] \in ArrayItem
      OBVIOUS
    <2> QED BY <2>1, <2>2, Zenon
  <1>7. \A k \in DOMAIN m : m[k] + 1 \in DOMAIN p
    <2>1. DOMAIN p = 1 .. Len(p) /\ Len(p) \in Nat
      OBVIOUS
    <2>2. \A y \in Nat : y + 1 <= Len(p) => y + 1 \in 1 .. Len(p)
      BY <2>1
    <2> QED BY <1>2, <2>1, <2>2, Zenon DEF MapOK
  <1>8. /\ handle.status \in {"ok", "error", "undefined"} /\ handle.status # "error"
    BY <1>4, Zenon
  <1>9. /\ open \in {"new", "between", "object", "notes", "closed"}
        /\ parsed \in BOOLEAN /\ parses \in 0 .. MaxParses
    BY Zenon DEF PacketInv, HandleInv
  <1> QED BY <1>4, <1>5, <1>6, <1>7, <1>8, <1>9, Zenon DEF TypeOK, NoParseError

\* The objects and the buffer of a packet that can be read.
Parsed(base, q, pl, b) ==
    /\ handle.object_ptrs = Append(q, needed) /\ handle.objectBuffer = b
    /\ Held(items, base, pl, q, handle.name_id_map) /\ (parses = 1 => base = 0)
    /\ Laid(items, notes, needed, pl, b)

\* A packet that can be read lies in the buffer.
LEMMA ParsedParts ==
    ASSUME PacketInv, ParsedInv, Readable
    PROVE  \E base \in Nat, q \in Seq(Nat), pl \in Seq(Nat), len \in Nat :
                needed <= len /\ \E b \in BufferOf(len) : Parsed(base, q, pl, b)
  <1>1. PICK w : \E base \in Nat, q \in Seq(Nat), pl \in Seq(Nat), len \in Nat :
            \E b \in BufferOf(len) :
                /\ handle.object_ptrs = Append(q, b.tail_offset)
                /\ handle.name_id_map = w /\ handle.objectBuffer = b
                /\ Held(items, base, pl, q, w) /\ (parses = 1 => base = 0)
                /\ needed <= len => Laid(items, notes, needed, pl, b)
    BY Zenon DEF ParsedInv, Readable
  <1>2. PICK base \in Nat, q \in Seq(Nat), pl \in Seq(Nat), len \in Nat :
            \E b \in BufferOf(len) :
                /\ handle.object_ptrs = Append(q, b.tail_offset)
                /\ handle.name_id_map = w /\ handle.objectBuffer = b
                /\ Held(items, base, pl, q, w) /\ (parses = 1 => base = 0)
                /\ needed <= len => Laid(items, notes, needed, pl, b)
    BY <1>1, Zenon
  <1>3. PICK b \in BufferOf(len) :
                /\ handle.object_ptrs = Append(q, b.tail_offset)
                /\ handle.name_id_map = w /\ handle.objectBuffer = b
                /\ Held(items, base, pl, q, w) /\ (parses = 1 => base = 0)
                /\ needed <= len => Laid(items, notes, needed, pl, b)
    BY <1>2, Zenon
  <1>4. needed <= len
    <2>1. b.length = len /\ needed \in Nat
      BY Zenon DEF BufferOf, PacketInv
    <2>2. b.length >= needed
      BY <1>3, Zenon DEF Readable
    <2> QED BY <2>1, <2>2, Zenon
  <1>5. Parsed(base, q, pl, b)
    BY <1>3, <1>4, Zenon DEF Parsed, Laid
  <1> QED BY <1>4, <1>5, Zenon

\* The place of an object and of the one after it.
LEMMA NextIn ==
    ASSUME NEW n \in Nat, NEW base \in Nat, NEW i \in 1 .. n
    PROVE  /\ base + i \in 1 .. base + n /\ base + (i + 1) = base + i + 1
           /\ i < n => i + 1 \in 1 .. n /\ base + i + 1 \in 1 .. base + n
  OBVIOUS

\* Where the i-th item of such a packet is, and where it ends.
LEMMA ItemAt ==
    ASSUME PacketInv, NEW base \in Nat, NEW q \in Seq(Nat), NEW pl \in Seq(Nat), NEW b,
           Parsed(base, q, pl, b), NEW i \in DOMAIN items
    PROVE  /\ pl[i] \in Nat /\ Len(items[i].val) \in Nat /\ needed \in Nat
           /\ get_packet_item_ptr(items[i].key) = pl[i]
           /\ handle.object_ptrs[base + i] = pl[i]
           /\ pl[i] + Len(items[i].val) <= needed
           /\ i < Len(items) => get_packet_item_size(items[i].key) = Len(items[i].val)
           /\ get_packet_item_size(items[i].key) >= Len(items[i].val)
  <1>1. /\ Len(pl) = Len(items) /\ Len(q) = base + Len(pl)
        /\ \A k \in DOMAIN items : q[base + k] = pl[k]
        /\ items[i].key \in DOMAIN handle.name_id_map
        /\ handle.name_id_map[items[i].key] = base + i - 1
        /\ handle.object_ptrs = Append(q, needed)
        /\ ItemsLie(items, notes, needed, pl, b)
    BY Zenon DEF Parsed, Held, Laid
  <1>2. items \in Seq(Item) /\ needed \in Nat
    BY Zenon DEF PacketInv
  <1>3. PICK n \in Nat : n = Len(items) /\ DOMAIN items = 1 .. n
    BY <1>2
  <1>4. /\ pl[i] \in Nat /\ q[base + i] = pl[i] /\ base + i \in 1 .. Len(q) /\ Len(q) = base + n
        /\ i < n => pl[i + 1] \in Nat /\ q[base + i + 1] = pl[i + 1] /\ base + i + 1 \in 1 .. Len(q)
    <2>1. i \in 1 .. n /\ Len(pl) = n /\ Len(q) = base + n
      BY <1>1, <1>3, Zenon
    <2>2. \A k \in 1 .. n : pl[k] \in Nat
      BY <2>1
    <2>3. /\ base + i \in 1 .. base + n /\ base + (i + 1) = base + i + 1
          /\ i < n => i + 1 \in 1 .. n /\ base + i + 1 \in 1 .. base + n
      BY <2>1, NextIn, Zenon
    <2>4. \A k \in 1 .. n : q[base + k] = pl[k]
      BY <1>1, <1>3, Zenon
    <2>5. pl[i] \in Nat /\ q[base + i] = pl[i] /\ base + i \in 1 .. Len(q)
      BY <2>1, <2>2, <2>3, <2>4, Zenon
    <2>6. ASSUME i < n
          PROVE  pl[i + 1] \in Nat /\ q[base + i + 1] = pl[i + 1] /\ base + i + 1 \in 1 .. Len(q)
      <3>1. i + 1 \in 1 .. n /\ base + i + 1 \in 1 .. base + n
        BY <2>3, <2>6, Zenon
      <3>2. q[base + (i + 1)] = pl[i + 1] /\ pl[i + 1] \in Nat
        BY <2>2, <2>4, <3>1, Zenon
      <3> QED BY <2>1, <2>3, <3>1, <3>2, Zenon
    <2> QED BY <2>1, <2>5, <2>6, Zenon
  <1>5. PICK x \in Nat : x = Len(items[i].val)
    <2>1. items[i] \in Item
      BY <1>2
    <2>2. items[i].val \in Seq(Byte)
      BY <2>1, Zenon DEF Item
    <2>3. Len(items[i].val) \in Nat
      BY <2>2
    <2> QED BY <2>3, Zenon
  <1>6. /\ pl[i] + x <= needed
        /\ i < n => pl[i + 1] = pl[i] + x
    BY <1>1, <1>3, <1>5, Zenon DEF ItemsLie
  <1>7. Index(handle, items[i].key) = base + i - 1
    BY <1>1, Zenon DEF Index
  <1>8. /\ handle.object_ptrs[base + i] = pl[i]
        /\ i < n => handle.object_ptrs[base + i + 1] = pl[i + 1]
        /\ i = n => handle.object_ptrs[base + i + 1] = needed
    <2>1. /\ \A k \in 1 .. Len(q) : Append(q, needed)[k] = q[k]
          /\ Append(q, needed)[Len(q) + 1] = needed
      BY <1>2, AppendNat, Zenon
    <2>2. base + n + 1 = Len(q) + 1
      BY <1>4, Zenon
    <2> QED BY <1>1, <1>4, <2>1, <2>2, Zenon
  <1>9. base + i - 1 + 1 = base + i /\ base + i - 1 + 2 = base + i + 1
    BY <1>3
  <1>10. PICK y : y = handle.object_ptrs[base + i + 1]
    BY Zenon
  <1>11. /\ get_packet_item_ptr(items[i].key) = pl[i]
         /\ get_packet_item_size(items[i].key) = y - pl[i]
    BY <1>7, <1>8, <1>9, <1>10, Zenon DEF get_packet_item_ptr, get_packet_item_size
  <1>12. (i < n => y - pl[i] = x) /\ y - pl[i] >= x
    <2>1. i < n \/ i = n
      BY <1>3
    <2>2. PICK z \in Nat : z = pl[i]
      BY <1>4, Zenon
    <2>3. CASE i < n
      <3>1. y = z + x
        BY <1>6, <1>8, <1>10, <2>3, <2>2, Zenon
      <3>2. y - z = x /\ y - z >= x
        BY <3>1
      <3> QED BY <2>2, <3>2, Zenon
    <2>4. CASE i = n
      <3>1. y = needed
        BY <1>8, <1>10, <2>4, Zenon
      <3>2. y - z >= x /\ ~(i < n)
        BY <1>2, <1>6, <2>4, <2>2, <3>1, SMTT(30)
      <3> QED BY <2>2, <3>2, Zenon
    <2> QED BY <2>1, <2>3, <2>4, Zenon
  <1> QED BY <1>2, <1>3, <1>4, <1>5, <1>6, <1>8, <1>11, <1>12, Zenon

\* The bytes of a span of the buffer.
LEMMA AtSpan ==
    ASSUME NEW len \in Nat, NEW b \in BufferOf(len), handle.objectBuffer = b,
           NEW x \in Nat, NEW y \in Nat, x + y <= len
    PROVE  \A j \in 1 .. y : At(x, y)[j] = b.bytes[x + j - 1]
  <1>1. DOMAIN b.bytes = 0 .. len - 1
    BY Zenon DEF BufferOf
  <1>2. ASSUME NEW j \in 1 .. y PROVE x + j - 1 \in 0 .. len - 1
    OBVIOUS
  <1> QED BY <1>1, <1>2, Zenon DEF At

\* A value that lies in the buffer is what is read there.
LEMMA AtValue ==
    ASSUME NEW len \in Nat, NEW b \in BufferOf(len), handle.objectBuffer = b,
           NEW v \in Seq(Nat), NEW x \in Nat, x + Len(v) <= len, Lies(b, x, v)
    PROVE  At(x, Len(v)) = v
  <1>1. PICK y \in Nat : y = Len(v)
    OBVIOUS
  <1>2. \A j \in 1 .. y : At(x, y)[j] = v[j]
    <2>1. x + y <= len
      BY <1>1, Zenon
    <2>2. \A j \in 1 .. y : At(x, y)[j] = b.bytes[x + j - 1]
      BY <2>1, AtSpan, Zenon
    <2>3. \A j \in 1 .. y : b.bytes[x + j - 1] = v[j]
      BY <1>1, Zenon DEF Lies
    <2> QED BY <2>2, <2>3, Zenon
  <1>3. DOMAIN At(x, y) = 1 .. y
    BY Zenon DEF At
  <1>4. PICK f : f = At(x, y)
    BY Zenon
  <1>5. f = [j \in 1 .. y |-> f[j]]
    BY <1>4, Zenon DEF At
  <1>6. v = [j \in 1 .. y |-> v[j]]
    BY <1>1
  <1> QED BY <1>1, <1>2, <1>4, <1>5, <1>6, Zenon

\* Every item is found under its key.
LEMMA ByKeyHolds == ASSUME PacketInv, ParsedInv PROVE ByKey
  <1> SUFFICES ASSUME Readable, NEW i \in DOMAIN items
               PROVE  LET key == items[i].key
                          val == items[i].val
                          got == At(get_packet_item_ptr(key), Len(val))
                      IN  /\ \A j \in DOMAIN val \ NotePlaces(key) : got[j] = val[j]
                          /\ i < Len(items) => get_packet_item_size(key) = Len(val)
                          /\ get_packet_item_size(key) >= Len(val)
    BY Zenon DEF ByKey
  <1>1. PICK base \in Nat, q \in Seq(Nat), pl \in Seq(Nat), len \in Nat :
            needed <= len /\ \E b \in BufferOf(len) : Parsed(base, q, pl, b)
    BY ParsedParts, Zenon
  <1>2. PICK b \in BufferOf(len) : Parsed(base, q, pl, b)
    BY <1>1, Zenon
  <1>3. /\ pl[i] \in Nat /\ Len(items[i].val) \in Nat /\ needed \in Nat
        /\ get_packet_item_ptr(items[i].key) = pl[i]
        /\ pl[i] + Len(items[i].val) <= needed
        /\ i < Len(items) => get_packet_item_size(items[i].key) = Len(items[i].val)
        /\ get_packet_item_size(items[i].key) >= Len(items[i].val)
    BY <1>2, ItemAt, Zenon
  <1>4. PICK x \in Nat, y \in Nat : x = pl[i] /\ y = Len(items[i].val)
    BY <1>3, Zenon
  <1>5. x + y <= len
    <2>1. x + y <= needed
      BY <1>3, <1>4, Zenon
    <2> QED BY <1>1, <1>3, <2>1, SMTT(30)
  <1>6. \A j \in 1 .. y : At(x, y)[j] = b.bytes[x + j - 1]
    <2>1. handle.objectBuffer = b
      BY <1>2, Zenon DEF Parsed
    <2> QED BY <1>5, <2>1, AtSpan, ZenonT(40)
  <1>7. ASSUME NEW j \in DOMAIN items[i].val \ NotePlaces(items[i].key)
        PROVE  At(x, y)[j] = items[i].val[j]
    <2>1. Free(notes, items[i].key, j)
      BY <1>7, Zenon DEF Free, NotePlaces
    <2>2. b.bytes[pl[i] + j - 1] = items[i].val[j]
      BY <1>2, <2>1, Zenon DEF Parsed, Laid, ItemsLie
    <2>3. j \in 1 .. y
      <3>1. items[i] \in Item
        BY DEF PacketInv
      <3>2. items[i].val \in Seq(Byte)
        BY <3>1, Zenon DEF Item
      <3>3. DOMAIN items[i].val = 1 .. Len(items[i].val)
        BY <3>2
      <3> QED BY <1>4, <3>3, Zenon
    <2> QED BY <1>4, <1>6, <2>2, <2>3, Zenon
  <1> QED BY <1>3, <1>4, <1>7, Zenon

\* In the first packet the objects are the items in their order.
LEMMA ByIndexHolds == ASSUME PacketInv, ParsedInv PROVE ByIndex
  <1> SUFFICES ASSUME Readable, parses = 1, NEW i \in DOMAIN items
               PROVE  handle.object_ptrs[i] = get_packet_item_ptr(items[i].key)
    BY Zenon DEF ByIndex
  <1>1. PICK base \in Nat, q \in Seq(Nat), pl \in Seq(Nat), len \in Nat :
            needed <= len /\ \E b \in BufferOf(len) : Parsed(base, q, pl, b)
    BY ParsedParts, Zenon
  <1>2. PICK b \in BufferOf(len) : Parsed(base, q, pl, b)
    BY <1>1, Zenon
  <1>3. /\ get_packet_item_ptr(items[i].key) = pl[i]
        /\ handle.object_ptrs[base + i] = pl[i]
    BY <1>2, ItemAt, Zenon
  <1>4. base + i = i
    <2>1. base = 0
      BY <1>2, Zenon DEF Parsed
    <2>2. i \in Nat
      BY DEF PacketInv
    <2> QED BY <2>1, <2>2
  <1> QED BY <1>3, <1>4, Zenon

\* Every noted pointer leads to its value.
LEMMA PointersHold == ASSUME PacketInv, ParsedInv PROVE PointersResolve
  <1> SUFFICES ASSUME Readable, NEW n \in DOMAIN notes
               PROVE  \E a \in 0 .. handle.objectBuffer.length :
                        /\ At(get_packet_item_ptr(notes[n].key) + notes[n].offset, PtrSize) =
                                Address(a)
                        /\ At(a, Len(notes[n].val)) = notes[n].val
    BY Zenon DEF PointersResolve
  <1>1. PICK base \in Nat, q \in Seq(Nat), pl \in Seq(Nat), len \in Nat :
            needed <= len /\ \E b \in BufferOf(len) : Parsed(base, q, pl, b)
    BY ParsedParts, Zenon
  <1>2. PICK b \in BufferOf(len) : Parsed(base, q, pl, b)
    BY <1>1, Zenon
  <1>3. handle.objectBuffer = b /\ b.length = len
    BY <1>2, Zenon DEF Parsed, BufferOf
  <1>4. PICK note \in Note : note = notes[n]
    BY DEF PacketInv
  <1>5. PICK i \in DOMAIN items, a \in Nat : NoteLies(items, note, needed, pl, b, i, a)
    BY <1>2, <1>4, Zenon DEF Parsed, Laid
  <1>6. /\ pl[i] \in Nat /\ Len(items[i].val) \in Nat /\ needed \in Nat
        /\ get_packet_item_ptr(items[i].key) = pl[i]
        /\ pl[i] + Len(items[i].val) <= needed
    BY <1>2, ItemAt, Zenon
  <1>7. /\ items[i].key = note.key /\ note.offset + PtrSize <= Len(items[i].val)
        /\ a + Len(note.val) <= needed
        /\ Lies(b, pl[i] + note.offset, Address(a))
        /\ Lies(b, a, note.val)
    BY <1>5, Zenon DEF NoteLies
  <1>8. PICK v \in Seq(Nat), d \in Nat : v = note.val /\ d = note.offset
    <2>1. note.val \in Seq(Byte) /\ note.offset \in Nat
      BY Zenon DEF Note
    <2>2. note.val \in Seq(Nat)
      BY <2>1, BytesAreNat, Zenon
    <2> QED BY <2>1, <2>2, Zenon
  <1>9. PICK x \in Nat, y \in Nat : x = pl[i] /\ y = Len(items[i].val)
    BY <1>6, Zenon
  <1>10. PICK z \in Seq(Nat) : z = Address(a) /\ Len(z) = PtrSize
    BY AddressBytes, Zenon
  <1>11. PICK u \in Nat : u = x + d /\ u + PtrSize <= len
    <2>1. d + PtrSize <= y /\ x + y <= needed
      BY <1>6, <1>7, <1>8, <1>9, Zenon
    <2> QED BY <1>1, <1>6, <2>1, SMTT(30) DEF PtrSize
  <1>12. At(u, PtrSize) = Address(a)
    <2>1. Lies(b, u, z) /\ u + Len(z) <= len
      BY <1>7, <1>8, <1>9, <1>10, <1>11, Zenon
    <2>2. At(u, Len(z)) = z
      BY <1>3, <2>1, AtValue, Zenon
    <2> QED BY <1>10, <2>2, Zenon
  <1>13. At(a, Len(v)) = v /\ a \in 0 .. len
    <2>1. Lies(b, a, v) /\ a + Len(v) <= needed
      BY <1>7, <1>8, Zenon
    <2>2. a + Len(v) <= len /\ a \in 0 .. len
      BY <1>1, <1>6, <2>1, SMTT(30)
    <2>3. At(a, Len(v)) = v
      BY <1>3, <2>1, <2>2, AtValue, Zenon
    <2> QED BY <2>2, <2>3, Zenon
  <1>14. get_packet_item_ptr(note.key) + note.offset = u
    BY <1>6, <1>7, <1>8, <1>9, <1>11, Zenon
  <1> QED BY <1>3, <1>4, <1>8, <1>12, <1>13, <1>14, Zenon

-----------------------------------------------------------------------------
\* The state of BufferReadHandler stays well formed: the tail of the buffer is in
\* the buffer, and every name in name_id_map leads to an object.
THEOREM TypeCorrect == Spec => []TypeOK
  BY PacketInvariance, TypeHolds, PTL

\* No packet made by the writer calls meets the errors of EndObject and EndArray.
THEOREM ParseSucceeds == Spec => []NoParseError
  BY PacketInvariance, TypeHolds, PTL

\* get_packet_item_ptr and get_packet_item_size give, for the key of an item, the
\* bytes that set_packet_item was called with, outside the noted pointers.
THEOREM KeysFindItems == Spec => []ByKey
  BY PacketInvariance, ByKeyHolds, PTL

\* The objects of the first packet that is parsed are in the order of its items.
THEOREM IndicesFindItems == Spec => []ByIndex
  BY PacketInvariance, ByIndexHolds, PTL

\* The address that Pointed puts at a noted offset is that of the noted value.
THEOREM NotesResolve == Spec => []PointersResolve
  BY PacketInvariance, PointersHold, PTL
=============================================================================
