----------------------------- MODULE Connections ----------------------------
(***************************************************************************)
(* The connections of one LibeventHandle.  Application threads, and the    *)
(* event thread in its callbacks, call sendMessage, which looks its peer   *)
(* up in bev_map, connects if there is no entry, and sends; the event      *)
(* thread adds the connections it accepts; and at any time, since nothing  *)
(* in it waits for the others, free_handle throws them all away.           *)
(*                                                                         *)
(* bev_map is accessed under bev_map_rw_lock_singal, the lock of RwSignal, *)
(* between whose loads and fetches other threads run.  An access is the    *)
(* step that ends with the load of the unlock.  Accesses that overlap,     *)
(* and whatever else the language leaves undefined, may have any effect:   *)
(* the action Undefined ends the behaviour, the others have the effect a   *)
(* build shows that survives.                                              *)
(***************************************************************************)
EXTENDS Integers, Sequences, FiniteSets

CONSTANTS
    Callers,        \* application threads
    Event,          \* the event thread
    Freer,          \* the thread that calls free_handle ...
    Remover,        \* ... and its second lock, taken in remove_buffevent
    Peers,          \* [ip, port] of the listening handles, ports in host order
    Sources,        \* [peer, port]: the peers that connect, from which ports
    MaxBev,         \* bound: bufferevents made in a behaviour
    MaxCalls,       \* bound: calls of sendMessage and of connlistener_cb
    NULL            \* no entry

PortWord == 65536           \* number of values of a port

Threads == Callers \cup {Event}
LockUsers == Threads \cup {Freer, Remover}

ASSUME ThreadsAssumption ==
    /\ IsFiniteSet(Callers) /\ Event \notin Callers
    /\ Freer \notin Threads /\ Remover \notin Threads \cup {Freer}
ASSUME PortsAssumption ==
    /\ \A p \in Peers : p.port \in 0 .. PortWord - 1
    /\ \A s \in Sources : s.peer \in Peers /\ s.port \in 0 .. PortWord - 1
ASSUME BoundAssumption == MaxBev \in Nat /\ MaxCalls \in Nat

Ids == 0 .. MaxBev - 1      \* max_bev_id grows by one with every bufferevent

\* A bufferevent is known by the order in which it was made.  Of `peer' the code
\* has the ip only; the rest says which process is at the other end.
BevInfor == [peer : Peers, port : Int, bev : 0 .. MaxBev, is_listen : BOOLEAN]

ASSUME NullAssumption == NULL \notin BevInfor

VARIABLES
    bev_map,            \* id -> BevInfor or NULL
    max_bev_id,
    listen_id_vector,
    enabled,            \* bufferevents with read callbacks
    isFree,
    pc,                 \* thread -> what it does next
    infor,              \* thread -> the BevInfor it looks for, then makes
    id,                 \* thread -> connect_id, peer_id
    signal_int,         \* bev_map_rw_lock_singal, and where its users are:
    step, role,         \* see RwSignal
    undefined,          \* undefined behaviour has shown
    made, calls,        \* history: number of bufferevents and of calls
    kept,               \* history: read locks that send has kept
    mixed,              \* history: a reader and a writer were past the load at once
    overlapped,         \* history: two threads chose an id at the same time
    raced               \* history: two threads missed the same peer

table == <<bev_map, max_bev_id, listen_id_vector, enabled>>
locals == <<pc, infor, id>>
lock == <<signal_int, step, role>>
history == <<made, calls, kept, mixed, overlapped, raced>>
vars == <<table, isFree, locals, lock, undefined, history>>

Rw == INSTANCE RwSignal
        WITH Threads <- LockUsers, Roles <- [t \in LockUsers |-> {}], Rounds <- 0,
             rounds <- [t \in LockUsers |-> 0]

Places == {"idle", "lookup", "connect", "bump", "insert", "enable", "listen", "send",
           "write", "receive", "free", "remove", "done"}

TypeOK ==
    /\ bev_map \in [Ids -> BevInfor \cup {NULL}]
    /\ max_bev_id \in 0 .. MaxBev
    /\ listen_id_vector \in Seq(Ids)
    /\ enabled \subseteq 1 .. MaxBev
    /\ isFree \in BOOLEAN /\ undefined \in BOOLEAN
    /\ pc \in [Threads \cup {Freer} -> Places]
    /\ infor \in [Threads -> BevInfor \cup {NULL}]
    /\ id \in [Threads -> Ids \cup {-1}]
    /\ Rw!TypeOK
    /\ made \in 0 .. MaxBev /\ calls \in 0 .. MaxCalls /\ kept \in Nat
    /\ mixed \in BOOLEAN /\ overlapped \in BOOLEAN /\ raced \in BOOLEAN

Init ==
    /\ bev_map = [i \in Ids |-> NULL] /\ max_bev_id = 0
    /\ listen_id_vector = <<>> /\ enabled = {}
    /\ isFree = FALSE /\ undefined = FALSE
    /\ pc = [t \in Threads \cup {Freer} |-> "idle"]
    /\ infor = [t \in Threads |-> NULL]
    /\ id = [t \in Threads |-> -1]
    /\ Rw!Init
    /\ made = 0 /\ calls = 0 /\ kept = 0
    /\ mixed = FALSE /\ overlapped = FALSE /\ raced = FALSE

-----------------------------------------------------------------------------
\* The accesses to bev_map that lock it: get_connection_id, send and the functions
\* that receive for reading; add_bufferevent_connect and _listen, free_handle and remove_buffevent for writing.
Wants(t, r) ==
    \/ r = Rw!Reader /\ t \in Threads /\ pc[t] \in {"lookup", "send", "receive"}
    \/ r = Rw!Writer /\ t \in Threads /\ pc[t] = "insert"
    \/ r = Rw!Writer /\ t = Freer /\ pc[Freer] = "free"
    \/ r = Rw!Writer /\ t = Remover /\ pc[Freer] = "remove"

\* The load that ends the loop of rw_r_lock or rw_w_lock, ...
LockTest(t, r) ==
    /\ Wants(t, r) /\ Rw!LockTest(t, r)
    /\ mixed' = (mixed \/ \E u \in LockUsers : role[u] = -r)
    /\ UNCHANGED <<table, isFree, locals, undefined, made, calls, kept, overlapped, raced>>

\* ... its fetch, and the fetch of rw_r_unlock or rw_w_unlock.
LockFetch(t) ==
    /\ Rw!LockFetch(t) \/ Rw!UnlockFetch(t)
    /\ UNCHANGED <<table, isFree, locals, undefined, history>>

\* Outside of the lock functions.
Outside(t) == step[t] = "idle"

\* The end of a call.
Return(t) ==
    /\ pc' = [pc EXCEPT ![t] = "idle"]
    /\ infor' = [infor EXCEPT ![t] = NULL]
    /\ id' = [id EXCEPT ![t] = -1]

-----------------------------------------------------------------------------
\* sendMessage, by an application or by a callback of the event thread.
sendMessage(t, peer) ==
    /\ pc[t] = "idle" /\ Outside(t) /\ calls < MaxCalls
    /\ calls' = calls + 1
    /\ infor' = [infor EXCEPT ![t] = [peer |-> peer, port |-> peer.port, bev |-> 0,
                                      is_listen |-> FALSE]]
    /\ pc' = [pc EXCEPT ![t] = "lookup"]
    /\ UNCHANGED <<table, isFree, id, lock, undefined, made, kept, mixed, overlapped, raced>>

\* The bytes of a port in the other order, as a 16-bit number and as an int.
htons(port) == (port % 256) * 256 + port \div 256
ntohl(sin_port) ==
    LET high == htons(sin_port) IN
    (IF 2 * high < PortWord THEN high ELSE high - PortWord) * PortWord

\* connlistener_cb: the port is stored as it is in the socket address.
connlistener_cb(source) ==
    /\ pc[Event] = "idle" /\ Outside(Event) /\ ~isFree /\ calls < MaxCalls
    /\ calls' = calls + 1
    /\ infor' = [infor EXCEPT ![Event] = [peer |-> source.peer, port |-> htons(source.port),
                                          bev |-> 0, is_listen |-> TRUE]]
    /\ pc' = [pc EXCEPT ![Event] = "lookup"]
    /\ UNCHANGED <<table, isFree, id, lock, undefined, made, kept, mixed, overlapped, raced>>

\* Mutants of Matching: the ip is not compared, or only accepted connections are.
MatchingPort(ip, port) == {i \in Ids : bev_map[i] # NULL /\ bev_map[i].port = port}
MatchingListen(ip, port) ==
    {i \in Ids : bev_map[i] # NULL /\ bev_map[i].peer.ip = ip
                 /\ bev_map[i].port = port /\ bev_map[i].is_listen}

\* The ids under which get_connection_id(ip, port) finds an entry; the smallest
\* is the first in the map.
Matching(ip, port) ==
    {i \in Ids : bev_map[i] # NULL /\ bev_map[i].peer.ip = ip /\ bev_map[i].port = port}
First(S) == CHOOSE i \in S : \A j \in S : i <= j

\* On its way to an outgoing connection that is not in bev_map yet.
Connecting(t) == pc[t] \in {"connect", "bump", "insert"} /\ ~infor[t].is_listen

\* What a lookup finds: an accepted connection is looked up under its converted
\* port, and left alone if it is there.
LookupResult(t) ==
    LET found == Matching(infor[t].peer.ip,
                          IF infor[t].is_listen THEN ntohl(infor[t].port) ELSE infor[t].port)
    IN  /\ IF found = {} THEN pc' = [pc EXCEPT ![t] = "connect"] /\ UNCHANGED <<infor, id>>
           ELSE IF infor[t].is_listen THEN Return(t)
           ELSE /\ pc' = [pc EXCEPT ![t] = "send"]
                /\ id' = [id EXCEPT ![t] = First(found)]
                /\ UNCHANGED infor
        /\ raced' = (raced \/ /\ found = {} /\ ~infor[t].is_listen
                              /\ \E u \in Threads \ {t} :
                                    Connecting(u) /\ infor[u].peer = infor[t].peer)


\* get_connection_id(ip, port, ...).
Lookup(t) ==
    /\ pc[t] = "lookup" /\ Rw!UnlockTest(t)
    /\ LookupResult(t)
    /\ UNCHANGED <<table, isFree, undefined, made, calls, kept, mixed, overlapped>>

-----------------------------------------------------------------------------
\* Mutant of Connect: the id is the incremented one.
ConnectTakesNext(t) ==
    /\ pc[t] = "connect" /\ Outside(t) /\ made < MaxBev
    /\ made' = made + 1
    /\ infor' = [infor EXCEPT ![t].bev = made + 1]
    /\ id' = [id EXCEPT ![t] = max_bev_id + 1]
    /\ pc' = [pc EXCEPT ![t] = "bump"]
    /\ overlapped' = (overlapped \/ \E u \in Threads \ {t} : pc[u] = "bump")
    /\ UNCHANGED <<table, isFree, lock, undefined, calls, kept, mixed, raced>>

\* add_bufferevent_connect and add_bufferevent_listen make a bufferevent and take
\* peer_id = max_bev_id.load() ...
Connect(t) ==
    /\ pc[t] = "connect" /\ Outside(t) /\ made < MaxBev
    /\ made' = made + 1
    /\ infor' = [infor EXCEPT ![t].bev = made + 1]
    /\ id' = [id EXCEPT ![t] = max_bev_id]
    /\ pc' = [pc EXCEPT ![t] = "bump"]
    /\ overlapped' = (overlapped \/ \E u \in Threads \ {t} : pc[u] = "bump")
    /\ UNCHANGED <<table, isFree, lock, undefined, calls, kept, mixed, raced>>

\* (or the connect of the first fails: send returns false for an id of -1) ...
ConnectFails(t) ==
    /\ pc[t] = "connect" /\ Outside(t) /\ ~infor[t].is_listen
    /\ Return(t)
    /\ UNCHANGED <<table, isFree, lock, undefined, history>>

\* Mutant of BumpId: the increment is forgotten.
NoBump(t) ==
    /\ pc[t] = "bump"
    /\ pc' = [pc EXCEPT ![t] = "insert"]
    /\ UNCHANGED <<table, isFree, infor, id, lock, undefined, history>>

\* ... and max_bev_id.fetch_add(1) in two steps; ...
BumpId(t) ==
    /\ pc[t] = "bump"
    /\ max_bev_id' = max_bev_id + 1
    /\ pc' = [pc EXCEPT ![t] = "insert"]
    /\ UNCHANGED <<bev_map, listen_id_vector, enabled, isFree, infor, id, lock, undefined,
                   history>>

Insert(t) ==
    /\ pc[t] = "insert" /\ Rw!UnlockTest(t)
    /\ bev_map' = [bev_map EXCEPT ![id[t]] = infor[t]]
    /\ pc' = [pc EXCEPT ![t] = "enable"]
    /\ UNCHANGED <<max_bev_id, listen_id_vector, enabled, isFree, infor, id, undefined, history>>

\* ... then set_connection_cb, without the lock: the bufferevent is the one under
\* the id now.  If the entry is gone, bev_map[id] makes one with a null pointer,
\* which libevent follows.
Enable(t) ==
    /\ pc[t] = "enable" /\ Outside(t)
    /\ IF bev_map[id[t]] = NULL
       THEN undefined' = TRUE /\ UNCHANGED <<enabled, pc>>
       ELSE /\ enabled' = enabled \cup {bev_map[id[t]].bev}
            /\ pc' = [pc EXCEPT ![t] = IF infor[t].is_listen THEN "listen" ELSE "send"]
            /\ UNCHANGED undefined
    /\ UNCHANGED <<bev_map, max_bev_id, listen_id_vector, isFree, infor, id, lock, history>>

\* add_bufferevent_listen ends with the list of accepted connections, whose own
\* signal only writers take here: they never wait (RwSignal).
Listen(t) ==
    /\ pc[t] = "listen"
    /\ listen_id_vector' = Append(listen_id_vector, id[t])
    /\ Return(t)
    /\ UNCHANGED <<bev_map, max_bev_id, enabled, isFree, lock, undefined, history>>

-----------------------------------------------------------------------------
\* Mutant of Send: every way out keeps the read lock.
SendKeepsLock(t) ==
    /\ pc[t] = "send" /\ step[t] = "inside"
    /\ Rw!Leave(t)
    /\ pc' = [pc EXCEPT ![t] = "write"]
    /\ UNCHANGED <<table, isFree, infor, id, signal_int, undefined, history>>

\* send finds the entry and unlocks; an unknown id returns with the lock held.
Send(t) ==
    /\ pc[t] = "send"
    /\ \/ /\ bev_map[id[t]] # NULL
          /\ Rw!UnlockTest(t)
          /\ pc' = [pc EXCEPT ![t] = "write"]
          /\ UNCHANGED <<infor, id, kept>>
       \/ /\ bev_map[id[t]] = NULL /\ step[t] = "inside"
          /\ Rw!Leave(t)
          /\ kept' = kept + 1
          /\ Return(t)
          /\ UNCHANGED signal_int
    /\ UNCHANGED <<table, isFree, undefined, made, calls, mixed, overlapped, raced>>

\* writeBufferOnce, through the reference that send took into bev_map.
Write(t) ==
    /\ pc[t] = "write" /\ Outside(t)
    /\ Return(t)
    /\ UNCHANGED <<table, isFree, lock, undefined, history>>

\* A message is received: get_connection_id(bev), in the event thread, and
\* get_recive_buffer_length and the recive functions, in any, look an entry up ...
Receive(t) ==
    /\ pc[t] = "idle" /\ Outside(t) /\ calls < MaxCalls
    /\ enabled # {}
    /\ calls' = calls + 1
    /\ pc' = [pc EXCEPT ![t] = "receive"]
    /\ UNCHANGED <<table, isFree, infor, id, lock, undefined, made, kept, mixed, overlapped,
                   raced>>

\* ... and unlock, whether it is there or not.
Received(t) ==
    /\ pc[t] = "receive" /\ Rw!UnlockTest(t)
    /\ Return(t)
    /\ UNCHANGED <<table, isFree, undefined, history>>

-----------------------------------------------------------------------------
\* free_handle: a second call returns at once, the first stops the listener.
\* It waits neither for the event thread nor for the callers.
free_handle ==
    /\ pc[Freer] = "idle" /\ ~isFree
    /\ isFree' = TRUE
    /\ pc' = [pc EXCEPT ![Freer] = "free"]
    /\ UNCHANGED <<table, infor, id, lock, undefined, history>>

MapEmpty == \A i \in Ids : bev_map[i] = NULL

\* while (bev_map.empty()) ...
FreeLoop ==
    /\ pc[Freer] = "free" /\ step[Freer] = "inside" /\ Outside(Remover) /\ MapEmpty
    /\ pc' = [pc EXCEPT ![Freer] = "remove"]
    /\ UNCHANGED <<table, isFree, infor, id, lock, undefined, history>>

\* listen_id_vector.erase(begin() + i): an id taken for a position.
EraseAt(list, i) ==
    IF i < Len(list) THEN SubSeq(list, 1, i) \o SubSeq(list, i + 2, Len(list)) ELSE list

\* ... remove_buffevent(i), with the write lock a second time; i, the key at the
\* beginning of an empty map, may be any number, also that of a new entry.
remove_buffevent(i) ==
    /\ pc[Freer] = "remove" /\ Rw!UnlockTest(Remover)
    /\ IF i \in Ids /\ bev_map[i] # NULL
       THEN /\ enabled' = enabled \ {bev_map[i].bev}
            /\ listen_id_vector' = IF bev_map[i].is_listen THEN EraseAt(listen_id_vector, i)
                                   ELSE listen_id_vector
            /\ bev_map' = [bev_map EXCEPT ![i] = NULL]
       ELSE UNCHANGED <<enabled, listen_id_vector, bev_map>>
    /\ pc' = [pc EXCEPT ![Freer] = "free"]
    /\ UNCHANGED <<max_bev_id, isFree, infor, id, undefined, history>>

\* The loop ends when there is an entry; the bufferevents are not freed.
FreeClear ==
    /\ pc[Freer] = "free" /\ Outside(Remover) /\ ~MapEmpty
    /\ Rw!UnlockTest(Freer)
    /\ bev_map' = [i \in Ids |-> NULL]
    /\ listen_id_vector' = <<>>
    /\ pc' = [pc EXCEPT ![Freer] = "done"]
    /\ UNCHANGED <<max_bev_id, enabled, isFree, infor, id, undefined, history>>

-----------------------------------------------------------------------------
\* Two threads are in bev_map and one of them writes (Freer and Remover are one
\* thread; set_connection_cb is in it without the lock).
DataRace ==
    \E t, u \in LockUsers :
        /\ t # u /\ {t, u} # {Freer, Remover}
        /\ step[t] = "inside" /\ role[t] = Rw!Writer
        /\ step[u] = "inside" \/ (u \in Threads /\ pc[u] = "enable")

\* The bufferevent has an entry.
Mapped(b) == \E i \in Ids : bev_map[i] # NULL /\ bev_map[i].bev = b

\* What may end the process, or leave it in any state: a data race; the iterator
\* of an empty map; an erase past the end; a reference to an entry that is gone;
\* get_connection_id(bev), which has no return for a bufferevent it does not find;
\* a thread inside when event_base_free and the destructor have run.
Undefined ==
    /\ \/ DataRace
       \/ pc[Freer] = "free" /\ step[Freer] = "inside" /\ MapEmpty
       \/ /\ pc[Freer] = "remove" /\ step[Remover] = "inside"
          /\ \E i \in Ids : /\ bev_map[i] # NULL /\ bev_map[i].is_listen
                            /\ i >= Len(listen_id_vector)
       \/ \E t \in Threads : pc[t] = "write" /\ bev_map[id[t]] = NULL
       \/ pc[Event] = "receive" /\ \E b \in enabled : ~Mapped(b)
       \/ pc[Freer] = "done" /\ \E t \in Threads : pc[t] # "idle"
    /\ undefined' = TRUE
    /\ UNCHANGED <<table, isFree, locals, lock, history>>

Access(t) ==
    \/ Lookup(t) \/ Connect(t) \/ ConnectFails(t) \/ BumpId(t) \/ Insert(t)
    \/ Enable(t) \/ Listen(t) \/ Send(t) \/ Write(t) \/ Received(t)
Locking(t) == LockFetch(t) \/ \E r \in {Rw!Reader, Rw!Writer} : LockTest(t, r)
Freeing == FreeLoop \/ (\E i \in Ids \cup {-1} : remove_buffevent(i)) \/ FreeClear

Next ==
    /\ ~undefined
    /\ \/ \E t \in Threads, peer \in Peers : sendMessage(t, peer)
       \/ \E source \in Sources : connlistener_cb(source)
       \/ \E t \in Threads : Receive(t)
       \/ \E t \in Threads : Access(t)
       \/ \E t \in LockUsers : Locking(t)
       \/ free_handle \/ Freeing
       \/ Undefined

Spec == Init /\ [][Next]_vars

\* A call that has begun runs on; nobody has to begin one.
FairSpec ==
    /\ Spec
    /\ \A t \in Threads : WF_vars(~undefined /\ Access(t))
    /\ \A t \in LockUsers : WF_vars(~undefined /\ Locking(t))
    /\ WF_vars(~undefined /\ Freeing)

-----------------------------------------------------------------------------
\* A message goes to the process it is addressed to, and not to another whose
\* connection got the same id or whose raw port looks like a listening port:
\* for every order of lookups, connects, accepts and free_handle in which no two
\* threads are between the load and the fetch_add of max_bev_id, if no two
\* processes share an ip.
RightPeer ==
    (~overlapped /\ \A p, q \in Peers : p.ip = q.ip => p = q) =>
        \A t \in Threads :
            (pc[t] \in {"send", "write"} /\ bev_map[id[t]] # NULL) =>
                bev_map[id[t]].peer = infor[t].peer

\* A bufferevent that may call default_bufferevent_read_cb is in bev_map, so that
\* get_connection_id(bev), which returns nothing for an unknown one, finds it:
\* until free_handle clears the map, its removals included, and under the same
\* proviso on max_bev_id.
ReadableIsMapped ==
    ~overlapped /\ pc[Freer] # "done" =>
        \A b \in enabled : Mapped(b)

\* There is one outgoing connection to a peer, unless two threads looked it up
\* before either had added it.
OneConnection ==
    ~raced => \A i, j \in Ids :
        (bev_map[i] # NULL /\ bev_map[j] # NULL /\ i # j) =>
            (bev_map[i].is_listen \/ bev_map[j].is_listen
                \/ bev_map[i].peer # bev_map[j].peer)

\* As long as no reader and writer have passed their loads together, the signal
\* of bev_map counts the threads inside and the read locks that send has kept;
\* and send keeps none before free_handle has begun, because no id is ever given
\* to it that has no entry: every other way out of an access unlocks.
SignalAccounted ==
    /\ ~mixed => signal_int = Cardinality(Rw!Holding(Rw!Reader))
                              - Cardinality(Rw!Holding(Rw!Writer)) + kept
    /\ kept > 0 => isFree

=============================================================================
