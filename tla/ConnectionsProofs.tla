-------------------------- MODULE ConnectionsProofs -------------------------
(***************************************************************************)
(* Which connection a message takes, which bufferevents are in bev_map and *)
(* what its signal counts, for any number of threads, peers and            *)
(* connections.                                                            *)
(***************************************************************************)
EXTENDS Connections, FiniteSetTheorems, TLAPS

Chosen == {"bump", "insert", "enable", "listen", "send", "write"}
Past == {"enable", "listen", "send", "write"}

\* The bufferevents that have no id of their own yet.
Unnumbered == {t \in Threads : pc[t] = "bump"}

\* Every bufferevent gets one step of max_bev_id.
Numbers == max_bev_id + Cardinality(Unnumbered) = made

\* What a thread knows where.
Known ==
    /\ \A t \in Threads : pc[t] \notin {"idle", "receive"} => infor[t] \in BevInfor
    /\ \A t \in Threads : pc[t] \in Chosen => id[t] \in Ids
    /\ \A t \in Threads : pc[t] \in {"bump", "insert", "enable"} => infor[t].bev # 0
    /\ \A i \in Ids : bev_map[i] # NULL => bev_map[i].bev # 0

\* An id that a thread goes to bev_map with has an entry until free_handle.
Found ==
    /\ pc[Freer] # "idle" => isFree
    /\ ~isFree => \A t \in Threads : pc[t] \in {"enable", "send"} => bev_map[id[t]] # NULL

\* Ids without overlap: one thread at most has the next id, the others are past,
\* and an id that waits for its entry is nobody else's.
Separate ==
    /\ \A t, u \in Threads : pc[t] = "bump" /\ pc[u] = "bump" => t = u
    /\ \A t \in Threads : pc[t] = "bump" => id[t] = max_bev_id
    /\ \A t \in Threads : pc[t] = "insert" => id[t] < max_bev_id
    /\ \A t \in Threads : pc[t] \in Past => id[t] < max_bev_id
    /\ \A i \in Ids : bev_map[i] # NULL => i < max_bev_id
    /\ \A t, u \in Threads :
          pc[t] = "insert" /\ pc[u] \in Past \cup {"insert"} /\ t # u => id[t] # id[u]
    /\ \A t \in Threads : pc[t] = "insert" => bev_map[id[t]] = NULL

DistinctIps == \A p, q \in Peers : p.ip = q.ip => p = q

\* Where a thread's id leads, if it still leads anywhere.
LeadsTo(t) == bev_map[id[t]] # NULL => bev_map[id[t]].peer = infor[t].peer

Leads ==
    /\ \A t \in Threads : pc[t] = "enable" => LeadsTo(t)
    /\ DistinctIps => \A t \in Threads : pc[t] \in {"send", "write"} => LeadsTo(t)

AllMapped == pc[Freer] # "done" => \A b \in enabled : Mapped(b)

Apart == ~overlapped => Separate /\ Leads /\ AllMapped

TableInv == Numbers /\ Known /\ Found /\ Apart

\* An outgoing connection is in the map under the port its peer listens on.
Outgoing(i) == bev_map[i] # NULL /\ ~bev_map[i].is_listen

OwnPorts ==
    /\ \A i \in Ids : Outgoing(i) => bev_map[i].port = bev_map[i].peer.port
    /\ \A t \in Threads : pc[t] = "lookup" /\ ~infor[t].is_listen =>
          infor[t].port = infor[t].peer.port
    /\ \A t \in Threads : Connecting(t) => infor[t].port = infor[t].peer.port

\* As long as nobody has raced, a peer has one outgoing connection at most,
\* counting the ones that threads are about to add.
Single ==
    ~raced =>
        /\ \A i, j \in Ids :
              Outgoing(i) /\ Outgoing(j) /\ i # j => bev_map[i].peer # bev_map[j].peer
        /\ \A i \in Ids, t \in Threads :
              Outgoing(i) /\ Connecting(t) => bev_map[i].peer # infor[t].peer
        /\ \A t, u \in Threads :
              Connecting(t) /\ Connecting(u) /\ t # u => infor[t].peer # infor[u].peer

\* The users of the signal are on one side, and the read locks that send has
\* kept are on the readers' ...
OneSided ==
    \/ \A t \in LockUsers : role[t] # Rw!Writer
    \/ kept = 0 /\ \A t \in LockUsers : role[t] # Rw!Reader

\* ... as long as no reader and writer have met; and a thread writes only where
\* it adds its entry.
Locked ==
    /\ \A t \in LockUsers : step[t] = "idle" <=> role[t] = Rw!Nobody
    /\ \A t \in Threads : role[t] = Rw!Writer => pc[t] \in {"insert", "enable"}
    /\ ~mixed => OneSided
    /\ ~mixed => signal_int = Cardinality(Rw!Holding(Rw!Reader))
                              - Cardinality(Rw!Holding(Rw!Writer)) + kept
    /\ kept > 0 => isFree

IInv == TypeOK /\ TableInv /\ Locked

-----------------------------------------------------------------------------
\* The lock.  Its users are finitely many, so the holders can be counted.
LEMMA HoldingFinite ==
    ASSUME NEW r
    PROVE  IsFiniteSet(Rw!Holding(r)) /\ Cardinality(Rw!Holding(r)) \in Nat
  <1>1. Rw!Holding(r) \subseteq LockUsers
    BY Zenon DEF Rw!Holding
  <1>2. IsFiniteSet(LockUsers)
    <2>1. IsFiniteSet(Threads)
      BY ThreadsAssumption, FS_AddElement, Zenon DEF Threads
    <2>2. LockUsers = (Threads \cup {Freer}) \cup {Remover}
      BY Zenon DEF LockUsers
    <2> QED BY <2>1, <2>2, FS_AddElement, Zenon
  <1> QED BY <1>1, <1>2, FS_Subset, FS_CardinalityType, Zenon

\* The types of the lock's variables, for every step that a thread takes in it.
LEMMA LockTypes ==
    ASSUME Rw!TypeOK, NEW t \in LockUsers, NEW r \in {Rw!Reader, Rw!Writer},
           \/ Rw!LockTest(t, r) \/ Rw!LockFetch(t) \/ Rw!UnlockTest(t) \/ Rw!UnlockFetch(t)
           \/ Rw!Leave(t) /\ UNCHANGED signal_int
           \/ UNCHANGED lock
    PROVE  Rw!TypeOK'
  <1> USE DEF Rw!TypeOK, Rw!Reader, Rw!Writer, Rw!Nobody
  <1>1. CASE Rw!LockTest(t, r)
    BY <1>1 DEF Rw!LockTest
  <1>2. CASE Rw!LockFetch(t)
    BY <1>2 DEF Rw!LockFetch
  <1>3. CASE Rw!UnlockTest(t)
    BY <1>3 DEF Rw!UnlockTest, Rw!Leave
  <1>4. CASE Rw!UnlockFetch(t)
    BY <1>4 DEF Rw!UnlockFetch, Rw!Leave
  <1>5. CASE Rw!Leave(t) /\ UNCHANGED signal_int
    BY <1>5 DEF Rw!Leave
  <1>6. CASE UNCHANGED lock
    BY <1>6 DEF lock
  <1> QED BY <1>1, <1>2, <1>3, <1>4, <1>5, <1>6, Zenon

\* Nothing about the lock changes.
LEMMA LockedSame ==
    ASSUME Locked, UNCHANGED <<lock, kept, mixed>>, isFree => isFree',
           \A t \in Threads : role[t] = Rw!Writer => pc'[t] \in {"insert", "enable"}
    PROVE  Locked'
  <1>1. Rw!Holding(Rw!Reader)' = Rw!Holding(Rw!Reader) /\ Rw!Holding(Rw!Writer)' = Rw!Holding(Rw!Writer)
    BY DEF lock, Rw!Holding, Rw!Reader, Rw!Writer
  <1> QED BY <1>1 DEF Locked, OneSided, lock, Rw!Reader, Rw!Writer, Rw!Nobody

\* LockTest: who passes the load meets nobody of the other role, or is recorded.
LEMMA LockedTest ==
    ASSUME TypeOK, Locked, NEW t \in LockUsers, NEW r \in {Rw!Reader, Rw!Writer}, LockTest(t, r)
    PROVE  Locked'
  <1> USE DEF Rw!Reader, Rw!Writer, Rw!Nobody
  <1>1. /\ step \in [LockUsers -> {"idle", "fetch", "inside", "leave"}]
        /\ role \in [LockUsers -> {1, -1, 0}] /\ signal_int \in Int /\ kept \in Nat
        /\ mixed \in BOOLEAN /\ Threads \subseteq LockUsers
    BY DEF TypeOK, Rw!TypeOK, LockUsers
  <1>2. /\ step[t] = "idle" /\ step' = [step EXCEPT ![t] = "fetch"]
        /\ role' = [role EXCEPT ![t] = r]
        /\ signal_int' = signal_int /\ ~(r * signal_int < 0)
        /\ mixed' = (mixed \/ \E u \in LockUsers : role[u] = -r)
        /\ kept' = kept /\ isFree' = isFree /\ pc' = pc
        /\ t \in Threads /\ r = -1 => pc[t] = "insert"
    BY ThreadsAssumption DEF LockTest, Rw!LockTest, Wants, locals
  <1>3. Rw!Holding(1)' = Rw!Holding(1) /\ Rw!Holding(-1)' = Rw!Holding(-1)
    BY <1>1, <1>2 DEF Rw!Holding
  <1>4. /\ \A u \in LockUsers : step'[u] = "idle" <=> role'[u] = 0
        /\ \A u \in Threads : role'[u] = -1 => pc'[u] \in {"insert", "enable"}
    BY <1>1, <1>2 DEF Locked
  <1>5. ~mixed' => OneSided'
    <2> SUFFICES ASSUME ~mixed' PROVE OneSided'
      OBVIOUS
    <2>1. ~mixed /\ \A u \in LockUsers : role[u] # -r
      BY <1>1, <1>2, ZenonT(40)
    <2>2. CASE r = 1
      <3>1. \A u \in LockUsers : role'[u] # -1
        BY <1>1, <1>2, <2>1, <2>2
      <3> QED BY <3>1, Zenon DEF OneSided
    <2>3. CASE r = -1
      <3>1. \A u \in LockUsers : role'[u] # 1
        BY <1>1, <1>2, <2>1, <2>3
      <3>2. kept = 0
        <4>1. CASE \A u \in LockUsers : role[u] # -1
          <5>1. Rw!Holding(-1) = {}
            BY <4>1, Zenon DEF Rw!Holding
          <5>2. Cardinality(Rw!Holding(-1)) = 0 /\ Cardinality(Rw!Holding(1)) \in Nat
            BY <5>1, FS_EmptySet, HoldingFinite, Zenon
          <5>3. signal_int = Cardinality(Rw!Holding(1)) - Cardinality(Rw!Holding(-1)) + kept
            BY <2>1 DEF Locked
          <5>4. signal_int <= 0
            BY <1>1, <1>2, <2>3
          <5> QED BY <1>1, <5>2, <5>3, <5>4
        <4> QED BY <2>1, <4>1 DEF Locked, OneSided
      <3> QED BY <1>2, <3>1, <3>2 DEF OneSided
    <2> QED BY <2>2, <2>3
  <1>6. ~mixed' => signal_int' = Cardinality(Rw!Holding(1)') - Cardinality(Rw!Holding(-1)') + kept'
    BY <1>1, <1>2, <1>3 DEF Locked
  <1>7. kept' > 0 => isFree'
    BY <1>2 DEF Locked
  <1> QED BY <1>4, <1>5, <1>6, <1>7 DEF Locked

\* A user that goes in or out changes the number of those inside by one.
LEMMA HoldingIn ==
    ASSUME Rw!TypeOK, NEW t \in LockUsers, NEW r \in {1, -1}, role[t] = r, Rw!LockFetch(t)
    PROVE  /\ Cardinality(Rw!Holding(r)') = Cardinality(Rw!Holding(r)) + 1
           /\ Rw!Holding(-r)' = Rw!Holding(-r)
  <1>1. /\ t \notin Rw!Holding(r)
        /\ Rw!Holding(r)' = Rw!Holding(r) \cup {t}
        /\ Rw!Holding(-r)' = Rw!Holding(-r)
    BY DEF Rw!Holding, Rw!LockFetch, Rw!TypeOK
  <1> QED BY <1>1, HoldingFinite, FS_AddElement, ZenonT(40)

LEMMA HoldingOut ==
    ASSUME Rw!TypeOK, NEW t \in LockUsers, NEW r \in {1, -1}, role[t] = r,
           step[t] \in {"inside", "leave"}, Rw!Leave(t)
    PROVE  /\ Cardinality(Rw!Holding(r)') = Cardinality(Rw!Holding(r)) - 1
           /\ Rw!Holding(-r)' = Rw!Holding(-r)
  <1>1. /\ t \in Rw!Holding(r)
        /\ Rw!Holding(r)' = Rw!Holding(r) \ {t}
        /\ Rw!Holding(-r)' = Rw!Holding(-r)
    BY DEF Rw!Holding, Rw!Leave, Rw!TypeOK, Rw!Nobody
  <1> QED BY <1>1, HoldingFinite, FS_RemoveElement, ZenonT(40)

\* The fetch of a lock function, and the fetch of an unlock function.
LEMMA LockedFetch ==
    ASSUME TypeOK, Locked, NEW t \in LockUsers, LockFetch(t)
    PROVE  Locked'
  <1> USE DEF Rw!Reader, Rw!Writer, Rw!Nobody
  <1>1. /\ step \in [LockUsers -> {"idle", "fetch", "inside", "leave"}]
        /\ role \in [LockUsers -> {1, -1, 0}] /\ signal_int \in Int /\ kept \in Nat
        /\ Rw!TypeOK /\ Threads \subseteq LockUsers
    BY DEF TypeOK, Rw!TypeOK, LockUsers
  <1>2. UNCHANGED <<kept, mixed, isFree, pc>>
    BY Zenon DEF LockFetch, history, locals
  <1>3. step[t] # "idle"
    BY DEF LockFetch, Rw!LockFetch, Rw!UnlockFetch
  <1>4. PICK r \in {1, -1} : role[t] = r
    BY <1>1, <1>3 DEF Locked
  <1>5. Cardinality(Rw!Holding(1)) \in Nat /\ Cardinality(Rw!Holding(-1)) \in Nat
    BY HoldingFinite, Zenon
  <1>6. CASE Rw!LockFetch(t)
    <2>1. /\ step' = [step EXCEPT ![t] = "inside"] /\ role' = role
          /\ signal_int' = signal_int + r
      BY <1>4, <1>6 DEF Rw!LockFetch
    <2>2. /\ Cardinality(Rw!Holding(r)') = Cardinality(Rw!Holding(r)) + 1
          /\ Rw!Holding(-r)' = Rw!Holding(-r)
      BY <1>1, <1>4, <1>6, HoldingIn, Zenon
    <2>3. ~mixed' => signal_int' = Cardinality(Rw!Holding(1)') - Cardinality(Rw!Holding(-1)') + kept'
      <3>1. CASE r = 1  BY <3>1, <1>1, <1>2, <1>5, <2>1, <2>2 DEF Locked
      <3>2. CASE r = -1  BY <3>2, <1>1, <1>2, <1>5, <2>1, <2>2 DEF Locked
      <3> QED BY <3>1, <3>2
    <2> QED BY <1>1, <1>2, <1>3, <2>1, <2>3 DEF Locked, OneSided
  <1>7. CASE Rw!UnlockFetch(t)
    <2>1. /\ Rw!Leave(t) /\ step[t] \in {"inside", "leave"} /\ signal_int' = signal_int - r
          /\ step' = [step EXCEPT ![t] = "idle"] /\ role' = [role EXCEPT ![t] = 0]
      BY <1>4, <1>7 DEF Rw!UnlockFetch, Rw!Leave
    <2>2. /\ Cardinality(Rw!Holding(r)') = Cardinality(Rw!Holding(r)) - 1
          /\ Rw!Holding(-r)' = Rw!Holding(-r)
      BY <1>1, <1>4, <2>1, HoldingOut, Zenon
    <2>3. ~mixed' => signal_int' = Cardinality(Rw!Holding(1)') - Cardinality(Rw!Holding(-1)') + kept'
      <3>1. CASE r = 1  BY <3>1, <1>1, <1>2, <1>5, <2>1, <2>2 DEF Locked
      <3>2. CASE r = -1  BY <3>2, <1>1, <1>2, <1>5, <2>1, <2>2 DEF Locked
      <3> QED BY <3>1, <3>2
    <2> QED BY <1>1, <1>2, <1>3, <2>1, <2>3 DEF Locked, OneSided
  <1> QED BY <1>6, <1>7, Zenon DEF LockFetch

\* The load of an unlock function: as long as no reader and writer have met, the
\* holder itself makes the sign its own, and the fetch is not skipped.
LEMMA LockedUnlock ==
    ASSUME TypeOK, Locked, NEW t \in LockUsers, Rw!UnlockTest(t), UNCHANGED <<kept, mixed, isFree>>,
           \A u \in Threads : role[u] = Rw!Writer => pc'[u] \in {"insert", "enable"}
    PROVE  Locked'
  <1> USE DEF Rw!Reader, Rw!Writer, Rw!Nobody
  <1>1. /\ step \in [LockUsers -> {"idle", "fetch", "inside", "leave"}]
        /\ role \in [LockUsers -> {1, -1, 0}] /\ signal_int \in Int /\ kept \in Nat
        /\ Rw!TypeOK /\ Threads \subseteq LockUsers
    BY DEF TypeOK, Rw!TypeOK, LockUsers
  <1>2. step[t] = "inside" /\ signal_int' = signal_int
    BY DEF Rw!UnlockTest
  <1>3. /\ \A u \in LockUsers : step'[u] = "idle" <=> role'[u] = 0
        /\ \A u \in LockUsers : role'[u] \in {role[u], 0}
    BY <1>1, <1>2 DEF Rw!UnlockTest, Rw!Leave, Locked
  <1>4. ~mixed => role[t] * signal_int > 0
    <2> SUFFICES ASSUME ~mixed PROVE role[t] * signal_int > 0
      OBVIOUS
    <2>1. role[t] \in {1, -1} /\ t \in Rw!Holding(role[t])
      BY <1>1, <1>2 DEF Locked, Rw!Holding
    <2>2. signal_int = Cardinality(Rw!Holding(1)) - Cardinality(Rw!Holding(-1)) + kept
      BY DEF Locked
    <2>3. Cardinality(Rw!Holding(1)) \in Nat /\ Cardinality(Rw!Holding(-1)) \in Nat
      BY HoldingFinite, Zenon
    <2>4. CASE role[t] = 1
      <3>1. Rw!Holding(-1) = {}
        BY <2>4 DEF Locked, OneSided, Rw!Holding
      <3>2. Cardinality(Rw!Holding(-1)) = 0 /\ Cardinality(Rw!Holding(1)) # 0
        BY <2>1, <2>4, <3>1, HoldingFinite, FS_EmptySet
      <3> QED BY <1>1, <2>2, <2>3, <2>4, <3>2
    <2>5. CASE role[t] = -1
      <3>1. Rw!Holding(1) = {} /\ kept = 0
        BY <2>5 DEF Locked, OneSided, Rw!Holding
      <3>2. Cardinality(Rw!Holding(1)) = 0 /\ Cardinality(Rw!Holding(-1)) # 0
        BY <2>1, <2>5, <3>1, HoldingFinite, FS_EmptySet
      <3> QED BY <1>1, <2>2, <2>3, <2>5, <3>1, <3>2
    <2> QED BY <2>1, <2>4, <2>5
  <1>5. ~mixed => step' = [step EXCEPT ![t] = "leave"] /\ role' = role
    BY <1>4 DEF Rw!UnlockTest
  <1>6. ~mixed => Rw!Holding(1)' = Rw!Holding(1) /\ Rw!Holding(-1)' = Rw!Holding(-1)
    BY <1>1, <1>2, <1>5 DEF Rw!Holding
  <1>7. ~mixed' => OneSided'
    BY <1>5 DEF Locked, OneSided
  <1>8. ~mixed' => signal_int' = Cardinality(Rw!Holding(1)') - Cardinality(Rw!Holding(-1)') + kept'
    BY <1>2, <1>6 DEF Locked
  <1>9. \A u \in Threads : role'[u] = -1 => pc'[u] \in {"insert", "enable"}
    BY <1>1, <1>3
  <1> QED BY <1>3, <1>7, <1>8, <1>9 DEF Locked

\* send for an id that is gone: the signal counts the kept lock instead.
LEMMA LockedKept ==
    ASSUME TypeOK, Locked, NEW t \in Threads, pc[t] = "send", step[t] = "inside",
           Rw!Leave(t), signal_int' = signal_int, kept' = kept + 1, mixed' = mixed,
           isFree' = isFree, isFree, \A u \in Threads : u # t => pc'[u] = pc[u]
    PROVE  Locked'
  <1> USE DEF Rw!Reader, Rw!Writer, Rw!Nobody
  <1>1. /\ step \in [LockUsers -> {"idle", "fetch", "inside", "leave"}]
        /\ role \in [LockUsers -> {1, -1, 0}] /\ signal_int \in Int /\ kept \in Nat
        /\ Rw!TypeOK /\ Threads \subseteq LockUsers
    BY DEF TypeOK, Rw!TypeOK, LockUsers
  <1>2. step' = [step EXCEPT ![t] = "idle"] /\ role' = [role EXCEPT ![t] = 0]
    BY DEF Rw!Leave
  <1>3. role[t] = 1
    BY <1>1 DEF Locked
  <1>4. /\ Cardinality(Rw!Holding(1)') = Cardinality(Rw!Holding(1)) - 1
        /\ Rw!Holding(-1)' = Rw!Holding(-1)
    BY <1>1, <1>3, HoldingOut
  <1>5. Cardinality(Rw!Holding(1)) \in Nat /\ Cardinality(Rw!Holding(-1)) \in Nat
    BY HoldingFinite, Zenon
  <1>6. ~mixed' => OneSided'
    BY <1>1, <1>2, <1>3 DEF Locked, OneSided
  <1>7. ~mixed' => signal_int' = Cardinality(Rw!Holding(1)') - Cardinality(Rw!Holding(-1)') + kept'
    BY <1>1, <1>4, <1>5 DEF Locked
  <1>8. /\ \A u \in LockUsers : step'[u] = "idle" <=> role'[u] = 0
        /\ \A u \in Threads : role'[u] = -1 => pc'[u] \in {"insert", "enable"}
    BY <1>1, <1>2 DEF Locked
  <1> QED BY <1>6, <1>7, <1>8 DEF Locked

\* Every step keeps the lock's part of the invariant.
LEMMA LockedNext ==
    ASSUME TypeOK, TableInv, Locked, Next
    PROVE  Locked'
  <1> USE DEF Rw!Reader, Rw!Writer, Rw!Nobody
  <1>1. /\ Threads \subseteq LockUsers /\ Freer \in LockUsers /\ Remover \in LockUsers
        /\ Freer \notin Threads /\ Remover \notin Threads /\ Freer # Remover
        /\ pc \in [Threads \cup {Freer} -> Places]
    BY ThreadsAssumption DEF LockUsers, TypeOK
  <1>2. \A t \in Threads : role[t] = -1 => pc[t] \in {"insert", "enable"} /\ ~Outside(t)
    BY <1>1 DEF Locked, Outside
  \* Steps outside of the lock functions.
  <1>3. ASSUME NEW t \in Threads \cup {Freer}, UNCHANGED <<lock, kept, mixed, isFree>>,
               \/ Outside(t) \/ t = Freer
               \/ pc[t] \in {"bump", "listen"},
               \A u \in Threads : u # t => pc'[u] = pc[u]
        PROVE  Locked'
    <2>1. \A u \in Threads : role[u] = -1 => pc'[u] \in {"insert", "enable"}
      BY <1>1, <1>2, <1>3
    <2> QED BY <1>3, <2>1, LockedSame, Zenon
  <1>4. ASSUME NEW t \in Threads, NEW peer \in Peers, sendMessage(t, peer) PROVE Locked'
    BY <1>1, <1>3, <1>4 DEF sendMessage
  <1>5. ASSUME NEW source \in Sources, connlistener_cb(source) PROVE Locked'
    BY <1>1, <1>3, <1>5 DEF connlistener_cb, Threads
  <1>6. ASSUME NEW t \in Threads,
               \/ Connect(t) \/ ConnectFails(t) \/ BumpId(t) \/ Enable(t) \/ Listen(t)
               \/ Write(t) \/ Receive(t)
        PROVE  Locked'
    BY <1>1, <1>3, <1>6
      DEF Connect, ConnectFails, BumpId, Enable, Listen, Write, Receive, Return, history
  <1>7. CASE free_handle
    <2>1. \A u \in Threads : pc'[u] = pc[u]
      BY <1>1, <1>7 DEF free_handle
    <2> QED BY <1>2, <1>7, <2>1, LockedSame DEF free_handle, history
  <1>8. CASE FreeLoop
    BY <1>1, <1>3, <1>8 DEF FreeLoop, history
  <1>9. CASE Undefined
    BY <1>2, <1>9, LockedSame DEF Undefined, locals, history
  \* Steps of the lock functions.
  <1>10. ASSUME NEW t \in LockUsers, Locking(t) PROVE Locked'
    BY <1>10, LockedTest, LockedFetch, Zenon DEF Locking
  \* Steps that end with the load of an unlock function.
  <1>11. ASSUME NEW t \in Threads, Rw!UnlockTest(t), UNCHANGED <<kept, mixed, isFree>>,
                pc[t] # "insert" \/ pc'[t] = "enable", pc[t] # "enable",
                \A u \in Threads : u # t => pc'[u] = pc[u]
         PROVE  Locked'
    <2>1. \A u \in Threads : role[u] = -1 => pc'[u] \in {"insert", "enable"}
      BY <1>2, <1>11
    <2> QED BY <1>1, <1>11, <2>1, LockedUnlock
  <1>12. ASSUME NEW t \in Threads, Lookup(t) PROVE Locked'
    BY <1>1, <1>11, <1>12 DEF Lookup, LookupResult, Return
  <1>13. ASSUME NEW t \in Threads, Insert(t) \/ Received(t) PROVE Locked'
    BY <1>1, <1>11, <1>13 DEF Insert, Received, Return, history
  <1>14. ASSUME NEW t \in Threads, Send(t) PROVE Locked'
    <2>1. CASE bev_map[id[t]] # NULL
      BY <1>1, <1>11, <1>14, <2>1 DEF Send
    <2>2. CASE bev_map[id[t]] = NULL
      <3>1. isFree
        BY <1>14, <2>2 DEF Send, TableInv, Found, TypeOK
      <3> QED BY <1>1, <1>14, <2>2, <3>1, LockedKept DEF Send, Return
    <2> QED BY <2>1, <2>2, Zenon
  <1>15. ASSUME NEW i \in Ids \cup {-1}, remove_buffevent(i) PROVE Locked'
    <2>1. \A u \in Threads : pc'[u] = pc[u]
      BY <1>1, <1>15 DEF remove_buffevent
    <2> QED BY <1>1, <1>2, <1>15, <2>1, LockedUnlock DEF remove_buffevent, history
  <1>16. CASE FreeClear
    <2>1. \A u \in Threads : pc'[u] = pc[u]
      BY <1>1, <1>16 DEF FreeClear
    <2> QED BY <1>1, <1>2, <1>16, <2>1, LockedUnlock DEF FreeClear, history
  <1> QED
    BY <1>4, <1>5, <1>6, <1>7, <1>8, <1>9, <1>10, <1>12, <1>13, <1>14, <1>15, <1>16, Zenon
      DEF Next, Access, Freeing

-----------------------------------------------------------------------------
\* The first of the ids get_connection_id meets is one of them.
LEMMA FirstIn ==
    ASSUME NEW S, S \subseteq Nat, S # {}
    PROVE  First(S) \in S
  <1> DEFINE Less == {ss \in Nat \X Nat : ss[1] < ss[2]}
  <1>1. OpToRel(<, Nat) = Less
    BY Zenon DEF OpToRel
  <1>2. IsWellFoundedOn(Less, Nat)
    BY <1>1, NatLessThanWellFounded, Zenon
  <1>3. \E i \in S : \A j \in S : ~(<<j, i>> \in Less)
    <2> HIDE DEF Less
    <2> QED BY <1>2, WFMin, Zenon
  <1>4. \A i, j \in S : ~(<<j, i>> \in Less) => i <= j
    OBVIOUS
  <1>5. \E i \in S : \A j \in S : i <= j
    <2> HIDE DEF Less
    <2> QED BY <1>3, <1>4, Zenon
  <1> QED
    BY <1>5, Zenon DEF First

\* A 16-bit number with its bytes exchanged is a number.
LEMMA HtonsType ==
    ASSUME NEW port \in Int
    PROVE  htons(port) \in Int
  <1> QED
    BY SMT DEF htons

LEMMA ThreadsFinite == IsFiniteSet(Threads)
  BY ThreadsAssumption, FS_AddElement, Zenon DEF Threads

LEMMA UnnumberedFinite == IsFiniteSet(Unnumbered) /\ Cardinality(Unnumbered) \in Nat
  <1>1. Unnumbered \in SUBSET Threads
    BY Zenon DEF Unnumbered
  <1>2. IsFiniteSet(Unnumbered)
    BY <1>1, ThreadsFinite, FS_Subset, Zenon
  <1> QED
    BY <1>2, FS_CardinalityType, Zenon

\* How the count of bufferevents follows the three steps that change it.
LEMMA NumbersKept ==
    ASSUME TypeOK, Numbers, Unnumbered' = Unnumbered, max_bev_id' = max_bev_id, made' = made
    PROVE  Numbers'
  BY Zenon DEF Numbers

LEMMA NumbersMade ==
    ASSUME TypeOK, Numbers, NEW t, t \notin Unnumbered, Unnumbered' = Unnumbered \cup {t},
           max_bev_id' = max_bev_id, made' = made + 1
    PROVE  Numbers'
  <1>1. Cardinality(Unnumbered') = Cardinality(Unnumbered) + 1
    BY UnnumberedFinite, FS_AddElement, Zenon
  <1>2. max_bev_id \in Nat /\ made \in Nat
    BY BoundAssumption DEF TypeOK
  <1> QED
    BY <1>1, <1>2, UnnumberedFinite DEF Numbers

LEMMA NumbersBumped ==
    ASSUME TypeOK, Numbers, NEW t \in Unnumbered, Unnumbered' = Unnumbered \ {t},
           max_bev_id' = max_bev_id + 1, made' = made
    PROVE  Numbers' /\ max_bev_id < MaxBev
  <1>1. Cardinality(Unnumbered') = Cardinality(Unnumbered) - 1
    BY UnnumberedFinite, FS_RemoveElement, Zenon
  <1>2. Cardinality(Unnumbered) > 0
    BY UnnumberedFinite, FS_EmptySet
  <1>3. max_bev_id \in Nat /\ made \in Nat /\ made <= MaxBev
    BY BoundAssumption DEF TypeOK
  <1> QED
    BY <1>1, <1>2, <1>3, UnnumberedFinite, BoundAssumption DEF Numbers

\* A bufferevent without an id leaves room for one.
LEMMA IdLeft ==
    ASSUME TypeOK, Numbers, NEW t \in Unnumbered
    PROVE  max_bev_id \in Ids
  <1>1. Cardinality(Unnumbered) > 0
    BY UnnumberedFinite, FS_EmptySet
  <1>2. max_bev_id \in Nat /\ made \in Nat /\ made <= MaxBev
    BY BoundAssumption DEF TypeOK
  <1> QED
    BY <1>1, <1>2, UnnumberedFinite, BoundAssumption DEF Numbers, Ids

\* listen_id_vector stays a list of ids.
LEMMA EraseAtType ==
    ASSUME NEW list \in Seq(Ids), NEW i \in Nat
    PROVE  EraseAt(list, i) \in Seq(Ids)
  <1>1. CASE i < Len(list)
    <2>1. SubSeq(list, 1, i) \in Seq(Ids) /\ SubSeq(list, i + 2, Len(list)) \in Seq(Ids)
      BY <1>1
    <2> QED BY <1>1, <2>1 DEF EraseAt
  <1> QED BY <1>1 DEF EraseAt

\* What get_connection_id finds is one of the ids it looks for.
LEMMA MatchingFirst ==
    ASSUME NEW ip, NEW port, Matching(ip, port) # {}
    PROVE  First(Matching(ip, port)) \in Matching(ip, port)
  <1> QED BY FirstIn, BoundAssumption DEF Matching, Ids

LEMMA TypesInit == Init => TypeOK
  <1> SUFFICES ASSUME Init PROVE TypeOK
    OBVIOUS
  <1>1. max_bev_id \in 0 .. MaxBev /\ made \in 0 .. MaxBev /\ calls \in 0 .. MaxCalls /\ kept \in Nat
    BY BoundAssumption DEF Init
  <1>2. bev_map \in [Ids -> BevInfor \cup {NULL}] /\ infor \in [Threads -> BevInfor \cup {NULL}]
        /\ id \in [Threads -> Ids \cup {-1}]
    BY Zenon DEF Init
  <1>3. listen_id_vector \in Seq(Ids) /\ enabled \subseteq 1 .. MaxBev
    BY DEF Init
  <1>4. Rw!TypeOK
    BY DEF Init, Rw!Init, Rw!TypeOK, Rw!Nobody
  <1> QED
    BY <1>1, <1>2, <1>3, <1>4, Zenon DEF Init, TypeOK, Places

\* Every step keeps the types; that max_bev_id and the ids stay in their range
\* rests on the count of bufferevents.
LEMMA TypesNext ==
    ASSUME TypeOK, TableInv, Next
    PROVE  TypeOK'
  <1> USE DEF TableInv, Places
  <1>1. /\ Threads \subseteq LockUsers /\ Freer \in LockUsers /\ Remover \in LockUsers
        /\ Freer \notin Threads /\ Event \in Threads
        /\ Rw!Reader \in {Rw!Reader, Rw!Writer} /\ MaxBev \in Nat /\ MaxCalls \in Nat
        /\ Rw!TypeOK
    BY ThreadsAssumption, BoundAssumption, Zenon DEF LockUsers, Threads, TypeOK
  <1>2. ASSUME NEW t \in LockUsers,
               \/ Rw!LockFetch(t) \/ Rw!UnlockTest(t) \/ Rw!UnlockFetch(t)
               \/ Rw!Leave(t) /\ UNCHANGED signal_int
               \/ UNCHANGED lock
        PROVE  Rw!TypeOK'
    BY <1>1, <1>2, LockTypes, Zenon
  <1>3. ASSUME NEW t \in Threads, Return(t)
        PROVE  /\ pc' \in [Threads \cup {Freer} -> Places]
               /\ infor' \in [Threads -> BevInfor \cup {NULL}]
               /\ id' \in [Threads -> Ids \cup {-1}]
    BY <1>3 DEF Return, TypeOK
  <1>4. ASSUME NEW t \in Threads, NEW peer \in Peers, sendMessage(t, peer) PROVE TypeOK'
    <2>1. Rw!TypeOK'
      BY <1>1, <1>2, <1>4, Zenon DEF sendMessage
    <2>2. infor' \in [Threads -> BevInfor \cup {NULL}]
      <3>1. peer.port \in Int
        BY PortsAssumption
      <3>2. [peer |-> peer, port |-> peer.port, bev |-> 0, is_listen |-> FALSE] \in BevInfor
        BY <1>1, <3>1 DEF BevInfor
      <3> QED BY <1>4, <3>2, Zenon DEF sendMessage, TypeOK
    <2>3. calls' \in 0 .. MaxCalls
      BY <1>1, <1>4 DEF sendMessage, TypeOK
    <2> QED BY <1>4, <2>1, <2>2, <2>3 DEF sendMessage, TypeOK, table
  <1>5. ASSUME NEW source \in Sources, connlistener_cb(source) PROVE TypeOK'
    <2>1. Rw!TypeOK'
      BY <1>1, <1>2, <1>5, Zenon DEF connlistener_cb
    <2>2. source.peer \in Peers /\ htons(source.port) \in Int
      <3>1. source.peer \in Peers /\ source.port \in Int
        BY PortsAssumption
      <3> QED BY <3>1, HtonsType, Zenon
    <2>3. infor' \in [Threads -> BevInfor \cup {NULL}]
      BY <1>1, <1>5, <2>2 DEF connlistener_cb, TypeOK, BevInfor
    <2>4. calls' \in 0 .. MaxCalls
      BY <1>1, <1>5 DEF connlistener_cb, TypeOK
    <2> QED BY <1>5, <2>1, <2>3, <2>4 DEF connlistener_cb, TypeOK, table
  <1>6. ASSUME NEW t \in Threads, Receive(t) PROVE TypeOK'
    <2>1. Rw!TypeOK'
      BY <1>1, <1>2, <1>6, Zenon DEF Receive
    <2> QED BY <1>1, <1>6, <2>1 DEF Receive, TypeOK, table
  <1>7. ASSUME NEW t \in LockUsers, Locking(t) PROVE TypeOK'
    <2>1. Rw!TypeOK'
      BY <1>1, <1>2, <1>7, LockTypes, Zenon DEF Locking, LockTest, LockFetch
    <2> QED BY <1>7, <2>1, ZenonT(40) DEF Locking, LockTest, LockFetch, TypeOK, table, locals, history
  <1>8. ASSUME NEW t \in Threads, Lookup(t) PROVE TypeOK'
    <2> DEFINE port == IF infor[t].is_listen THEN ntohl(infor[t].port) ELSE infor[t].port
               found == Matching(infor[t].peer.ip, port)
    <2>1. Rw!TypeOK'
      BY <1>1, <1>2, <1>8, Zenon DEF Lookup
    <2>2. found # {} => First(found) \in Ids
      <3> HIDE DEF port
      <3>1. found # {} => First(found) \in found
        BY MatchingFirst, Zenon
      <3> QED BY <3>1, Zenon DEF Matching
    <2>3. /\ pc' \in [Threads \cup {Freer} -> Places]
          /\ infor' \in [Threads -> BevInfor \cup {NULL}]
          /\ id' \in [Threads -> Ids \cup {-1}]
      <3>1. CASE found = {}
        BY <1>8, <3>1 DEF Lookup, LookupResult, TypeOK
      <3>2. CASE found # {} /\ infor[t].is_listen
        BY <1>3, <1>8, <3>2, Zenon DEF Lookup, LookupResult
      <3>3. CASE found # {} /\ ~infor[t].is_listen
        BY <1>8, <2>2, <3>3, ZenonT(40) DEF Lookup, LookupResult, TypeOK
      <3> QED BY <3>1, <3>2, <3>3, Zenon
    <2>4. raced' \in BOOLEAN
      BY <1>8 DEF Lookup, LookupResult, TypeOK
    <2> QED BY <1>8, <2>1, <2>3, <2>4 DEF Lookup, TypeOK, table
  <1>9. ASSUME NEW t \in Threads, Connect(t) PROVE TypeOK'
    <2>1. Rw!TypeOK'
      BY <1>1, <1>2, <1>9, Zenon DEF Connect
    <2>2. made' \in 1 .. MaxBev
      BY <1>1, <1>9 DEF Connect, TypeOK
    <2>3. max_bev_id \in Ids
      BY <1>1, <1>9, UnnumberedFinite DEF Connect, TypeOK, Numbers, Ids
    <2>4. infor' \in [Threads -> BevInfor \cup {NULL}]
      <3>1. infor[t] \in BevInfor
        BY <1>9 DEF Connect, Known
      <3>2. [infor[t] EXCEPT !.bev = made'] \in BevInfor
        BY <2>2, <3>1 DEF BevInfor
      <3>3. infor' = [infor EXCEPT ![t] = [infor[t] EXCEPT !.bev = made']]
        BY <1>9 DEF Connect
      <3> QED BY <3>2, <3>3, Zenon DEF TypeOK
    <2> QED BY <1>9, <2>1, <2>2, <2>3, <2>4 DEF Connect, TypeOK, table
  <1>10. ASSUME NEW t \in Threads, ConnectFails(t) \/ Write(t) PROVE TypeOK'
    <2>1. Rw!TypeOK' /\ Return(t)
      BY <1>1, <1>2, <1>10, Zenon DEF ConnectFails, Write
    <2> QED BY <1>3, <1>10, <2>1, Zenon DEF ConnectFails, Write, TypeOK, table, history
  <1>11. ASSUME NEW t \in Threads, BumpId(t) PROVE TypeOK'
    <2>1. Rw!TypeOK'
      BY <1>1, <1>2, <1>11, Zenon DEF BumpId
    <2>2. t \in Unnumbered
      BY <1>11, Zenon DEF BumpId, Unnumbered
    <2>3. max_bev_id' \in 0 .. MaxBev
      BY <1>1, <1>11, <2>2, IdLeft DEF BumpId, Ids
    <2> QED BY <1>11, <2>1, <2>3 DEF BumpId, TypeOK, history
  <1>12. ASSUME NEW t \in Threads, Insert(t) PROVE TypeOK'
    <2>1. Rw!TypeOK'
      BY <1>1, <1>2, <1>12, Zenon DEF Insert
    <2>2. bev_map' \in [Ids -> BevInfor \cup {NULL}]
      BY <1>12 DEF Insert, TypeOK, Known, Chosen
    <2> QED BY <1>12, <2>1, <2>2 DEF Insert, TypeOK, history
  <1>13. ASSUME NEW t \in Threads, Enable(t) PROVE TypeOK'
    <2>1. Rw!TypeOK'
      BY <1>1, <1>2, <1>13, Zenon DEF Enable
    <2>2. enabled' \subseteq 1 .. MaxBev
      <3>1. id[t] \in Ids
        BY <1>13, Zenon DEF Enable, Known, Chosen
      <3>2. bev_map[id[t]] # NULL => bev_map[id[t]] \in BevInfor /\ bev_map[id[t]].bev # 0
        BY <3>1, Zenon DEF TypeOK, Known
      <3>3. bev_map[id[t]] # NULL => bev_map[id[t]].bev \in 1 .. MaxBev
        BY <1>1, <3>2 DEF BevInfor
      <3> QED BY <1>13, <3>3, Zenon DEF Enable, TypeOK
    <2>3. pc' \in [Threads \cup {Freer} -> Places]
      BY <1>13 DEF Enable, TypeOK
    <2>4. undefined' \in BOOLEAN
      BY <1>13, Zenon DEF Enable, TypeOK
    <2> QED BY <1>13, <2>1, <2>2, <2>3, <2>4, Zenon DEF Enable, TypeOK, history
  <1>14. ASSUME NEW t \in Threads, Listen(t) PROVE TypeOK'
    <2>1. Rw!TypeOK' /\ Return(t)
      BY <1>1, <1>2, <1>14, Zenon DEF Listen
    <2>2. listen_id_vector' \in Seq(Ids)
      BY <1>14 DEF Listen, TypeOK, Known, Chosen
    <2> QED BY <1>3, <1>14, <2>1, <2>2, Zenon DEF Listen, TypeOK, history
  <1>15. ASSUME NEW t \in Threads, Send(t) PROVE TypeOK'
    <2>1. Rw!TypeOK'
      BY <1>1, <1>2, <1>15, Zenon DEF Send
    <2>2. kept' \in Nat
      BY <1>15 DEF Send, TypeOK
    <2>3. /\ pc' \in [Threads \cup {Freer} -> Places]
          /\ infor' \in [Threads -> BevInfor \cup {NULL}]
          /\ id' \in [Threads -> Ids \cup {-1}]
      <3>1. CASE bev_map[id[t]] # NULL
        BY <1>15, <3>1 DEF Send, TypeOK
      <3>2. CASE bev_map[id[t]] = NULL
        BY <1>3, <1>15, <3>2, Zenon DEF Send
      <3> QED BY <3>1, <3>2, Zenon
    <2> QED BY <1>15, <2>1, <2>2, <2>3, Zenon DEF Send, TypeOK, table
  <1>16. ASSUME NEW t \in Threads, Received(t) PROVE TypeOK'
    <2>1. Rw!TypeOK' /\ Return(t)
      BY <1>1, <1>2, <1>16, Zenon DEF Received
    <2> QED BY <1>3, <1>16, <2>1, Zenon DEF Received, TypeOK, table, history
  <1>17. CASE free_handle \/ FreeLoop \/ Undefined
    <2>1. Rw!TypeOK'
      BY <1>1, <1>2, <1>17, Zenon DEF free_handle, FreeLoop, Undefined
    <2> QED BY <1>17, <2>1, ZenonT(40) DEF free_handle, FreeLoop, Undefined, TypeOK, table, locals, history
  <1>18. ASSUME NEW i \in Ids \cup {-1}, remove_buffevent(i) PROVE TypeOK'
    <2>1. Rw!TypeOK'
      BY <1>1, <1>2, <1>18, Zenon DEF remove_buffevent
    <2>2. listen_id_vector' \in Seq(Ids)
      <3>1. i \in Ids => i \in Nat
        BY <1>1 DEF Ids
      <3>2. listen_id_vector \in Seq(Ids)
        BY Zenon DEF TypeOK
      <3>3. i \in Ids => EraseAt(listen_id_vector, i) \in Seq(Ids)
        BY <3>1, <3>2, EraseAtType, Zenon
      <3> QED BY <1>18, <3>2, <3>3, Zenon DEF remove_buffevent
    <2>3. bev_map' \in [Ids -> BevInfor \cup {NULL}] /\ enabled' \subseteq 1 .. MaxBev
      BY <1>18, Zenon DEF remove_buffevent, TypeOK
    <2>4. pc' \in [Threads \cup {Freer} -> Places]
      BY <1>18 DEF remove_buffevent, TypeOK
    <2> QED BY <1>18, <2>1, <2>2, <2>3, <2>4, Zenon DEF remove_buffevent, TypeOK, history
  <1>19. CASE FreeClear
    <2>1. Rw!TypeOK'
      BY <1>1, <1>2, <1>19, Zenon DEF FreeClear
    <2>2. bev_map' \in [Ids -> BevInfor \cup {NULL}] /\ listen_id_vector' \in Seq(Ids)
      BY <1>19 DEF FreeClear
    <2>3. pc' \in [Threads \cup {Freer} -> Places]
      BY <1>19 DEF FreeClear, TypeOK
    <2> QED BY <1>19, <2>1, <2>2, <2>3, Zenon DEF FreeClear, TypeOK, history
  <1> QED
    BY <1>4, <1>5, <1>6, <1>7, <1>8, <1>9, <1>10, <1>11, <1>12, <1>13, <1>14, <1>15, <1>16,
       <1>17, <1>18, <1>19, Zenon
      DEF Next, Access, Freeing

-----------------------------------------------------------------------------
\* The map, the ids and the threads' knowledge of them.
LEMMA TableInit == Init => TableInv
  <1> SUFFICES ASSUME Init PROVE TableInv
    OBVIOUS
  <1>1. Unnumbered = {}
    BY Zenon DEF Init, Unnumbered
  <1>2. Numbers
    BY <1>1, FS_EmptySet DEF Init, Numbers
  <1>3. \A t \in Threads : pc[t] = "idle"
    BY Zenon DEF Init
  <1>4. Known /\ Found
    BY <1>3, Zenon DEF Init, Known, Found, Chosen
  <1>5. Apart
    BY <1>3, Zenon DEF Init, Apart, Separate, Leads, AllMapped, Past
  <1> QED BY <1>2, <1>4, <1>5, Zenon DEF TableInv

\* Steps that leave the map and the threads where they are: those of the lock,
\* of free_handle before it clears the map, and Undefined.
LEMMA TableSame ==
    ASSUME TypeOK, TableInv,
           UNCHANGED <<bev_map, max_bev_id, enabled, infor, id, made, overlapped>>,
           \A t \in Threads : pc'[t] = pc[t], isFree => isFree',
           pc[Freer] = "done" => pc'[Freer] = "done",
           pc'[Freer] # "idle" => isFree'
    PROVE  TableInv'
  <1>1. Unnumbered' = Unnumbered
    BY Zenon DEF Unnumbered
  <1>2. Numbers'
    BY <1>1, NumbersKept, Zenon DEF TableInv
  <1>3. Known' /\ Found'
    BY Zenon DEF TableInv, Known, Found
  <1>4. Separate => Separate'
    BY Zenon DEF Separate
  <1>5. Leads => Leads'
    BY Zenon DEF Leads, LeadsTo
  <1>6. AllMapped => AllMapped'
    BY Zenon DEF AllMapped, Mapped
  <1> QED BY <1>2, <1>3, <1>4, <1>5, <1>6, Zenon DEF TableInv, Apart

\* Steps of one thread that leave the map as it is and neither take nor give an
\* id: it begins, it returns, or it goes on with what it has.
LEMMA TableMove ==
    ASSUME TypeOK, TableInv, NEW t \in Threads,
           UNCHANGED <<bev_map, max_bev_id, enabled, isFree, made, overlapped>>,
           \A u \in Threads : u # t => pc'[u] = pc[u] /\ infor'[u] = infor[u] /\ id'[u] = id[u],
           pc[t] # "bump", pc'[Freer] = pc[Freer],
           \/ pc'[t] \in {"idle", "receive"}
           \/ pc'[t] \in {"lookup", "connect"} /\ infor'[t] \in BevInfor
           \/ pc[t] = "send" /\ pc'[t] = "write" /\ infor'[t] = infor[t] /\ id'[t] = id[t]
    PROVE  TableInv'
  <1> USE DEF TableInv
  <1>1. Unnumbered' = Unnumbered
    BY DEF Unnumbered
  <1>2. Numbers'
    BY <1>1, NumbersKept, Zenon
  <1>3. Known'
    BY DEF Known, Chosen
  <1>4. Found'
    BY DEF Found
  <1>5. Separate => Separate'
    BY SMTT(30) DEF Separate, Past
  <1>6. Leads => Leads'
    BY DEF Leads, LeadsTo, DistinctIps
  <1>7. AllMapped => AllMapped'
    BY Zenon DEF AllMapped, Mapped
  <1> QED BY <1>2, <1>3, <1>4, <1>5, <1>6, <1>7, Zenon DEF Apart

\* get_connection_id hands out the id of an entry.
LEMMA TableLookup ==
    ASSUME TypeOK, TableInv, NEW t \in Threads, Lookup(t)
    PROVE  TableInv'
  <1> DEFINE port == IF infor[t].is_listen THEN ntohl(infor[t].port) ELSE infor[t].port
             found == Matching(infor[t].peer.ip, port)
             i == First(found)
  <1> USE DEF TableInv
  <1>1. /\ Freer \notin Threads /\ infor[t] \in BevInfor /\ pc[t] = "lookup"
        /\ bev_map \in [Ids -> BevInfor \cup {NULL}]
        /\ pc \in [Threads \cup {Freer} -> Places]
        /\ infor \in [Threads -> BevInfor \cup {NULL}] /\ id \in [Threads -> Ids \cup {-1}]
    BY ThreadsAssumption DEF Lookup, Known, TypeOK
  <1>2. UNCHANGED <<bev_map, max_bev_id, enabled, isFree, made, overlapped>>
    BY Zenon DEF Lookup, table
  <1>3. CASE found = {} \/ infor[t].is_listen
    <2>1. /\ \A u \in Threads : u # t => pc'[u] = pc[u] /\ infor'[u] = infor[u] /\ id'[u] = id[u]
          /\ pc'[Freer] = pc[Freer]
          /\ pc'[t] = "idle" \/ (pc'[t] = "connect" /\ infor'[t] = infor[t])
      BY <1>1, <1>3 DEF Lookup, LookupResult, Return
    <2> QED BY <1>1, <1>2, <2>1, TableMove, SMTT(30)
  <1>4. CASE found # {} /\ ~infor[t].is_listen
    <2>1. i \in Ids /\ bev_map[i] # NULL /\ bev_map[i].peer.ip = infor[t].peer.ip
      <3> HIDE DEF port
      <3>1. i \in found
        BY <1>4, MatchingFirst, Zenon
      <3> QED BY <3>1, Zenon DEF Matching
    <2>2. /\ pc' = [pc EXCEPT ![t] = "send"] /\ id' = [id EXCEPT ![t] = i] /\ infor' = infor
      BY <1>4, Zenon DEF Lookup, LookupResult
    <2> HIDE DEF i, found
    <2>3. Unnumbered' = Unnumbered
      BY <1>1, <2>2 DEF Unnumbered
    <2>4. Numbers'
      BY <1>2, <2>3, NumbersKept, Zenon
    <2>5. Known'
      BY <1>1, <1>2, <2>1, <2>2 DEF Known, Chosen
    <2>6. Found'
      BY <1>1, <1>2, <2>1, <2>2 DEF Found
    <2>7. Separate => Separate'
      BY <1>1, <1>2, <2>1, <2>2 DEF Separate, Past
    <2>8. Leads => Leads'
      <3>1. DistinctIps => bev_map[i].peer = infor[t].peer
        BY <1>1, <2>1 DEF DistinctIps, BevInfor
      <3> QED BY <1>1, <1>2, <2>1, <2>2, <3>1 DEF Leads, LeadsTo, DistinctIps
    <2>9. AllMapped => AllMapped'
      BY <1>1, <1>2, <2>2 DEF AllMapped, Mapped
    <2> QED BY <1>2, <2>4, <2>5, <2>6, <2>7, <2>8, <2>9, Zenon DEF Apart
  <1> QED BY <1>3, <1>4, Zenon

\* A bufferevent is made, and its id is the next one.
LEMMA TableConnect ==
    ASSUME TypeOK, TableInv, NEW t \in Threads, Connect(t)
    PROVE  TableInv'
  <1> USE DEF TableInv
  <1>1. /\ Freer \notin Threads /\ infor[t] \in BevInfor /\ pc[t] = "connect"
        /\ made \in Nat
        /\ pc \in [Threads \cup {Freer} -> Places]
        /\ infor \in [Threads -> BevInfor \cup {NULL}] /\ id \in [Threads -> Ids \cup {-1}]
    BY ThreadsAssumption, SMTT(30) DEF Connect, Known, TypeOK
  <1>0. max_bev_id \in Ids
    BY BoundAssumption, UnnumberedFinite DEF Connect, TypeOK, Numbers, Ids
  <1>2. /\ UNCHANGED <<bev_map, max_bev_id, enabled, isFree>> /\ made' = made + 1
        /\ pc' = [pc EXCEPT ![t] = "bump"] /\ id' = [id EXCEPT ![t] = max_bev_id]
        /\ infor'[t] = [infor[t] EXCEPT !.bev = made + 1]
        /\ \A u \in Threads : u # t => infor'[u] = infor[u]
        /\ ~overlapped' => ~overlapped /\ \A u \in Threads : u # t => pc[u] # "bump"
    BY <1>1, Zenon DEF Connect, table
  <1>3. infor'[t] \in BevInfor /\ infor'[t].bev # 0 /\ infor'[t].peer = infor[t].peer
    <2>1. made + 1 \in 0 .. MaxBev /\ made + 1 # 0
      BY <1>1, BoundAssumption DEF Connect, TypeOK
    <2> QED BY <1>1, <1>2, <2>1 DEF BevInfor
  <1>4. Numbers'
    <2>1. t \notin Unnumbered /\ Unnumbered' = Unnumbered \cup {t}
      BY <1>1, <1>2, Zenon DEF Unnumbered
    <2> QED BY <1>2, <2>1, NumbersMade, Zenon
  <1>5. Known'
    BY <1>0, <1>1, <1>2, <1>3, ZenonT(40) DEF Known, Chosen
  <1>6. Found'
    BY <1>1, <1>2 DEF Found
  <1>7. ~overlapped' /\ Separate => Separate'
    BY <1>1, <1>2 DEF Separate, Past
  <1>8. Leads => Leads'
    BY <1>1, <1>2, <1>3 DEF Leads, LeadsTo, DistinctIps
  <1>9. AllMapped => AllMapped'
    BY <1>1, <1>2 DEF AllMapped, Mapped
  <1> QED BY <1>2, <1>4, <1>5, <1>6, <1>7, <1>8, <1>9, Zenon DEF Apart

\* max_bev_id passes the id that was taken from it.
LEMMA TableBumpId ==
    ASSUME TypeOK, TableInv, NEW t \in Threads, BumpId(t)
    PROVE  TableInv'
  <1> USE DEF TableInv
  <1>1. /\ Freer \notin Threads /\ pc[t] = "bump" /\ max_bev_id \in Nat
        /\ pc \in [Threads \cup {Freer} -> Places]
        /\ bev_map \in [Ids -> BevInfor \cup {NULL}] /\ \A i \in Ids : i \in Int
        /\ id \in [Threads -> Ids \cup {-1}]
    BY ThreadsAssumption, BoundAssumption DEF BumpId, TypeOK, Ids
  <1>2. /\ UNCHANGED <<bev_map, enabled, isFree, made, infor, id, overlapped>>
        /\ max_bev_id' = max_bev_id + 1 /\ pc' = [pc EXCEPT ![t] = "insert"]
    BY Zenon DEF BumpId, history
  <1>3. Numbers'
    <2>1. t \in Unnumbered /\ Unnumbered' = Unnumbered \ {t}
      BY <1>1, <1>2, Zenon DEF Unnumbered
    <2> QED BY <1>2, <2>1, NumbersBumped, Zenon
  <1>4. Known'
    BY <1>1, <1>2 DEF Known, Chosen
  <1>5. Found'
    BY <1>1, <1>2 DEF Found
  <1>6. Separate => Separate'
    <2> SUFFICES ASSUME Separate PROVE Separate'
      OBVIOUS
    <2>1. \A u \in Threads : u # t => pc'[u] = pc[u] /\ pc[u] # "bump"
      BY <1>1, <1>2 DEF Separate
    <2>2. pc'[t] = "insert" /\ id[t] = max_bev_id /\ id[t] \in Ids
      BY <1>1, <1>2 DEF Separate, Known, Chosen
    <2>3. \A u \in Threads : u # t /\ pc[u] \in Past \cup {"insert"} => id[u] < max_bev_id /\ id[u] \in Ids
      BY Zenon DEF Separate, Known, Chosen, Past
    <2>4. bev_map[id[t]] = NULL
      BY <1>1, <2>2 DEF Separate
    <2>5. \A i \in Ids : bev_map[i] # NULL => i < max_bev_id + 1
      BY <1>1 DEF Separate
    <2>6. \A u \in Threads : pc'[u] \in Past \cup {"insert"} => id[u] < max_bev_id + 1
      BY <1>1, <2>1, <2>2, <2>3 DEF Past
    <2>7. \A u, v \in Threads :
             pc'[u] = "insert" /\ pc'[v] \in Past \cup {"insert"} /\ u # v => id[u] # id[v]
      <3>1. \A v \in Threads : v # t /\ pc[v] \in Past \cup {"insert"} => id[t] # id[v]
        BY <1>1, <2>2, <2>3
      <3> QED BY <2>1, <2>2, <3>1 DEF Separate, Past
    <2> QED BY <1>2, <2>1, <2>2, <2>4, <2>5, <2>6, <2>7 DEF Separate
  <1>7. Leads => Leads'
    BY <1>1, <1>2 DEF Leads, LeadsTo, DistinctIps
  <1>8. AllMapped => AllMapped'
    BY <1>1, <1>2 DEF AllMapped, Mapped
  <1> QED BY <1>2, <1>3, <1>4, <1>5, <1>6, <1>7, <1>8, Zenon DEF Apart

\* The entry goes where there is none, unless ids have overlapped.
LEMMA TableInsert ==
    ASSUME TypeOK, TableInv, NEW t \in Threads, Insert(t)
    PROVE  TableInv'
  <1> USE DEF TableInv
  <1>1. /\ Freer \notin Threads /\ pc[t] = "insert" /\ id[t] \in Ids /\ infor[t] \in BevInfor
        /\ infor[t] # NULL /\ infor[t].bev # 0
        /\ pc \in [Threads \cup {Freer} -> Places]
        /\ bev_map \in [Ids -> BevInfor \cup {NULL}]
    BY ThreadsAssumption, NullAssumption DEF Insert, TypeOK, Known, Chosen
  <1>2. /\ UNCHANGED <<max_bev_id, enabled, isFree, made, infor, id, overlapped>>
        /\ bev_map' = [bev_map EXCEPT ![id[t]] = infor[t]] /\ pc' = [pc EXCEPT ![t] = "enable"]
    BY Zenon DEF Insert, history
  <1>3. Numbers'
    <2>1. Unnumbered' = Unnumbered
      BY <1>1, <1>2 DEF Unnumbered
    <2> QED BY <1>2, <2>1, NumbersKept, Zenon
  <1>4. Known'
    BY <1>1, <1>2 DEF Known, Chosen
  <1>5. Found'
    <2>1. \A u \in Threads : pc'[u] \in {"enable", "send"} => bev_map'[id[u]] # NULL \/ isFree
      BY <1>1, <1>2, ZenonT(40) DEF Found, Known, Chosen
    <2> QED BY <1>1, <1>2, <2>1, ZenonT(40) DEF Found
  <1>6. Separate => Separate'
    BY <1>1, <1>2, ZenonT(40) DEF Separate, Known, Chosen, Past
  <1>7. Separate /\ Leads => Leads'
    <2> SUFFICES ASSUME Separate, Leads PROVE Leads'
      OBVIOUS
    <2>1. LeadsTo(t)'
      BY <1>1, <1>2, ZenonT(40) DEF LeadsTo
    <2>2. \A u \in Threads : u # t /\ pc[u] \in Past => bev_map'[id[u]] = bev_map[id[u]]
      BY <1>1, <1>2, ZenonT(40) DEF Separate, Past, Known, Chosen
    <2>3. \A u \in Threads : u # t /\ pc[u] \in Past /\ LeadsTo(u) => LeadsTo(u)'
      BY <1>2, <2>2 DEF LeadsTo
    <2>4. \A u \in Threads : u # t => pc'[u] = pc[u]
      BY <1>1, <1>2
    <2> QED BY <1>1, <1>2, <2>1, <2>3, <2>4, ZenonT(40) DEF Leads, Past, DistinctIps
  <1>8. Separate /\ AllMapped => AllMapped'
    <2> SUFFICES ASSUME Separate, AllMapped, pc'[Freer] # "done", NEW b \in enabled PROVE Mapped(b)'
      BY <1>2, ZenonT(40) DEF AllMapped
    <2>1. pc[Freer] # "done"
      BY <1>1, <1>2
    <2>2. PICK i \in Ids : bev_map[i] # NULL /\ bev_map[i].bev = b
      BY <2>1, Zenon DEF AllMapped, Mapped
    <2>3. bev_map'[i] = bev_map[i]
      BY <1>1, <1>2, <2>2 DEF Separate
    <2> QED BY <2>2, <2>3, Zenon DEF Mapped
  <1> QED BY <1>2, <1>3, <1>4, <1>5, <1>6, <1>7, <1>8, Zenon DEF Apart

\* The callback is set on the bufferevent that the id leads to.
LEMMA TableEnable ==
    ASSUME TypeOK, TableInv, NEW t \in Threads, Enable(t)
    PROVE  TableInv'
  <1> USE DEF TableInv
  <1>1. /\ Freer \notin Threads /\ pc[t] = "enable" /\ id[t] \in Ids
        /\ pc \in [Threads \cup {Freer} -> Places]
    BY ThreadsAssumption DEF Enable, TypeOK, Known, Chosen
  <1>2. UNCHANGED <<bev_map, max_bev_id, isFree, made, infor, id, overlapped>>
    BY Zenon DEF Enable, history
  <1>3. CASE bev_map[id[t]] = NULL
    <2> HIDE DEF TableInv
    <2>1. UNCHANGED <<pc, enabled>>
      BY <1>3, Zenon DEF Enable
    <2>2. pc'[Freer] # "idle" => isFree'
      BY <1>2, <2>1, Zenon DEF TableInv, Found
    <2> QED BY <1>2, <2>1, <2>2, TableSame, Zenon
  <1>4. CASE bev_map[id[t]] # NULL
    <2>1. /\ enabled' = enabled \cup {bev_map[id[t]].bev}
          /\ \A u \in Threads : u # t => pc'[u] = pc[u]
          /\ pc'[t] \in {"listen", "send"} /\ pc'[Freer] = pc[Freer]
      BY <1>1, <1>4, ZenonT(40) DEF Enable
    <2>2. Numbers'
      <3>1. Unnumbered' = Unnumbered
        BY <1>1, <2>1, ZenonT(40) DEF Unnumbered
      <3> QED BY <1>2, <3>1, NumbersKept, Zenon
    <2>3. Known'
      BY <1>1, <1>2, <2>1, ZenonT(40) DEF Known, Chosen
    <2>4. Found'
      BY <1>1, <1>2, <1>4, <2>1, ZenonT(40) DEF Found
    <2>5. Separate => Separate'
      BY <1>1, <1>2, <2>1, ZenonT(40) DEF Separate, Past
    <2>6. Leads => Leads'
      BY <1>1, <1>2, <2>1 DEF Leads, LeadsTo, DistinctIps
    <2>7. AllMapped => AllMapped'
      BY <1>1, <1>2, <1>4, <2>1, Zenon DEF AllMapped, Mapped
    <2> QED BY <1>2, <2>2, <2>3, <2>4, <2>5, <2>6, <2>7, Zenon DEF Apart
  <1> QED BY <1>3, <1>4, Zenon

\* An entry goes together with its bufferevent.
LEMMA TableRemove ==
    ASSUME TypeOK, TableInv, NEW i \in Ids \cup {-1}, remove_buffevent(i)
    PROVE  TableInv'
  <1> USE DEF TableInv
  <1>1. /\ Freer \notin Threads /\ pc[Freer] = "remove"
        /\ pc \in [Threads \cup {Freer} -> Places] /\ bev_map \in [Ids -> BevInfor \cup {NULL}]
    BY ThreadsAssumption DEF remove_buffevent, TypeOK
  <1>2. /\ UNCHANGED <<max_bev_id, isFree, made, infor, id, overlapped>>
        /\ \A u \in Threads : pc'[u] = pc[u]
        /\ pc'[Freer] # "done"
    BY <1>1 DEF remove_buffevent, history
  <1>3. CASE ~(i \in Ids /\ bev_map[i] # NULL)
    BY <1>1, <1>2, <1>3, TableSame DEF remove_buffevent, Found
  <1>4. CASE i \in Ids /\ bev_map[i] # NULL
    <2>1. /\ bev_map' = [bev_map EXCEPT ![i] = NULL] /\ enabled' = enabled \ {bev_map[i].bev}
      BY <1>4, Zenon DEF remove_buffevent
    <2>2. \A j \in Ids : bev_map'[j] # NULL => j # i /\ bev_map'[j] = bev_map[j]
      BY <1>1, <1>4, <2>1
    <2>3. Numbers'
      <3>1. Unnumbered' = Unnumbered
        BY <1>2, Zenon DEF Unnumbered
      <3> QED BY <1>2, <3>1, NumbersKept, Zenon
    <2>4. Known'
      BY <1>2, <2>2, Zenon DEF Known
    <2>5. Found'
      BY <1>1, <1>2, ZenonT(40) DEF Found
    <2>6. Separate => Separate'
      <3>1. \A u \in Threads : pc[u] = "insert" /\ bev_map[id[u]] = NULL => bev_map'[id[u]] = NULL
        BY <1>1, <2>1, ZenonT(40) DEF Known, Chosen
      <3> QED BY <1>2, <2>2, <3>1 DEF Separate
    <2>7. Leads => Leads'
      <3>1. \A u \in Threads : pc[u] \in Chosen /\ LeadsTo(u) => LeadsTo(u)'
        BY <1>2, <2>2 DEF LeadsTo, Known
      <3> QED BY <1>2, <3>1 DEF Leads, Chosen, DistinctIps
    <2>8. AllMapped => AllMapped'
      <3> SUFFICES ASSUME AllMapped, NEW b \in enabled' PROVE Mapped(b)'
        BY Zenon DEF AllMapped
      <3>1. b \in enabled /\ b # bev_map[i].bev /\ pc[Freer] # "done"
        BY <1>1, <2>1
      <3>2. PICK j \in Ids : bev_map[j] # NULL /\ bev_map[j].bev = b
        BY <3>1, Zenon DEF AllMapped, Mapped
      <3>3. bev_map'[j] = bev_map[j]
        BY <1>1, <2>1, <3>1, <3>2
      <3> QED BY <3>2, <3>3, Zenon DEF Mapped
    <2> QED BY <1>2, <2>3, <2>4, <2>5, <2>6, <2>7, <2>8, Zenon DEF Apart
  <1> QED BY <1>3, <1>4, Zenon

\* The map is cleared.
LEMMA TableClear ==
    ASSUME TypeOK, TableInv, FreeClear
    PROVE  TableInv'
  <1> USE DEF TableInv
  <1>1. /\ Freer \notin Threads /\ pc \in [Threads \cup {Freer} -> Places]
    BY ThreadsAssumption DEF TypeOK
  <1>2. /\ UNCHANGED <<max_bev_id, isFree, made, infor, id, overlapped>>
        /\ \A u \in Threads : pc'[u] = pc[u]
        /\ pc'[Freer] = "done" /\ \A j \in Ids : bev_map'[j] = NULL
    BY <1>1 DEF FreeClear, history
  <1>3. Numbers'
    <2>1. Unnumbered' = Unnumbered
      BY <1>2, Zenon DEF Unnumbered
    <2> QED BY <1>2, <2>1, NumbersKept, Zenon
  <1>4. Known'
    BY <1>2, Zenon DEF Known
  <1>5. Found'
    <2>1. pc[Freer] # "idle"
      BY DEF FreeClear
    <2>2. isFree'
      BY <1>2, <2>1, Zenon DEF Found
    <2> QED BY <2>2, Zenon DEF Found
  <1>6. Separate => Separate'
    BY <1>2 DEF Separate, Known, Chosen
  <1>7. Leads'
    BY <1>2 DEF Leads, LeadsTo, Known, Chosen
  <1>8. AllMapped'
    BY <1>2, Zenon DEF AllMapped
  <1> QED BY <1>2, <1>3, <1>4, <1>5, <1>6, <1>7, <1>8, Zenon DEF Apart

-----------------------------------------------------------------------------
LEMMA LockedInit == Init => Locked
  <1> SUFFICES ASSUME Init PROVE Locked
    OBVIOUS
  <1>1. \A t \in LockUsers : step[t] = "idle" /\ role[t] = Rw!Nobody
    BY Zenon DEF Init, Rw!Init
  <1>2. \A t \in LockUsers : role[t] # Rw!Reader /\ role[t] # Rw!Writer
    BY <1>1 DEF Rw!Nobody, Rw!Reader, Rw!Writer
  <1>3. Rw!Holding(Rw!Reader) = {} /\ Rw!Holding(Rw!Writer) = {}
    BY <1>2, Zenon DEF Rw!Holding
  <1>4. signal_int = Cardinality(Rw!Holding(Rw!Reader)) - Cardinality(Rw!Holding(Rw!Writer)) + kept
    BY <1>3, FS_EmptySet DEF Init, Rw!Init
  <1>5. kept = 0
    BY Zenon DEF Init
  <1> QED BY <1>1, <1>2, <1>4, <1>5 DEF Locked, OneSided, LockUsers

LEMMA TableNext ==
    ASSUME TypeOK, TableInv, Next
    PROVE  TableInv'
  <1>1. /\ Freer \notin Threads /\ Event \in Threads
        /\ pc \in [Threads \cup {Freer} -> Places]
        /\ infor \in [Threads -> BevInfor \cup {NULL}] /\ id \in [Threads -> Ids \cup {-1}]
        /\ pc[Freer] # "idle" => isFree
    BY ThreadsAssumption, ZenonT(40) DEF TypeOK, Threads, TableInv, Found
  <1>2. ASSUME NEW t \in Threads, Return(t), pc[t] # "bump",
               UNCHANGED <<bev_map, max_bev_id, enabled, isFree, made, overlapped>>
        PROVE  TableInv'
    <2>1. /\ \A u \in Threads : u # t => pc'[u] = pc[u] /\ infor'[u] = infor[u] /\ id'[u] = id[u]
          /\ pc'[t] = "idle" /\ pc'[Freer] = pc[Freer]
      BY <1>1, <1>2 DEF Return
    <2> QED BY <1>2, <2>1, TableMove, ZenonT(40)
  <1>3. ASSUME NEW t \in Threads, NEW peer \in Peers, sendMessage(t, peer) PROVE TableInv'
    <2>1. infor'[t] \in BevInfor
      <3>1. peer.port \in Int /\ MaxBev \in Nat
        BY PortsAssumption, BoundAssumption
      <3>2. [peer |-> peer, port |-> peer.port, bev |-> 0, is_listen |-> FALSE] \in BevInfor
        BY <1>3, <3>1 DEF BevInfor
      <3>3. infor'[t] = [peer |-> peer, port |-> peer.port, bev |-> 0, is_listen |-> FALSE]
        BY <1>1, <1>3 DEF sendMessage
      <3> QED BY <3>2, <3>3, Zenon
    <2> QED BY <1>1, <1>3, <2>1, TableMove, ZenonT(40) DEF sendMessage, table
  <1>4. ASSUME NEW source \in Sources, connlistener_cb(source) PROVE TableInv'
    <2>1. infor'[Event] \in BevInfor
      <3>1. source.peer \in Peers /\ source.port \in Int /\ MaxBev \in Nat
        BY PortsAssumption, BoundAssumption
      <3>2. htons(source.port) \in Int
        BY <3>1, HtonsType, Zenon
      <3> QED BY <1>1, <1>4, <3>1, <3>2 DEF connlistener_cb, BevInfor
    <2> QED BY <1>1, <1>4, <2>1, TableMove, ZenonT(40) DEF connlistener_cb, table
  <1>5. ASSUME NEW t \in Threads, Receive(t) PROVE TableInv'
    BY <1>1, <1>5, TableMove DEF Receive, table
  <1>6. ASSUME NEW t \in LockUsers, Locking(t) PROVE TableInv'
    BY <1>1, <1>6, TableSame, ZenonT(40) DEF Locking, LockTest, LockFetch, table, locals, history
  <1>7. ASSUME NEW t \in Threads, ConnectFails(t) \/ Listen(t) \/ Write(t) \/ Received(t)
        PROVE  TableInv'
    BY <1>2, <1>7, ZenonT(40) DEF ConnectFails, Listen, Write, Received, table, history
  <1>8. ASSUME NEW t \in Threads, Send(t) PROVE TableInv'
    <2>1. CASE bev_map[id[t]] # NULL
      BY <1>1, <1>8, <2>1, TableMove, ZenonT(40) DEF Send, table
    <2>2. CASE bev_map[id[t]] = NULL
      BY <1>2, <1>8, <2>2, ZenonT(40) DEF Send, table
    <2> QED BY <2>1, <2>2, Zenon
  <1>9. CASE free_handle \/ FreeLoop \/ Undefined
    BY <1>1, <1>9, TableSame, ZenonT(40) DEF free_handle, FreeLoop, Undefined, table, locals, history
  <1> QED
    BY <1>3, <1>4, <1>5, <1>6, <1>7, <1>8, <1>9, TableLookup, TableConnect, TableBumpId,
       TableInsert, TableEnable, TableRemove, TableClear, Zenon
      DEF Next, Access, Freeing

LEMMA InvInit == Init => IInv
  BY TypesInit, TableInit, LockedInit, Zenon DEF IInv

LEMMA InvNext == IInv /\ [Next]_vars => IInv'
  <1> SUFFICES ASSUME IInv, [Next]_vars PROVE IInv'
    OBVIOUS
  <1> USE DEF IInv
  <1>1. CASE Next
    BY <1>1, TypesNext, TableNext, LockedNext, Zenon
  <1>2. CASE UNCHANGED vars
    <2>1. UNCHANGED <<table, isFree, locals, lock, undefined, history>>
      BY <1>2, Zenon DEF vars
    <2>2. Rw!TypeOK'
      BY <2>1 DEF TypeOK, lock, Rw!TypeOK, Rw!Reader, Rw!Writer, Rw!Nobody
    <2>3. TypeOK'
      BY <2>1, <2>2, Zenon DEF TypeOK, table, locals, history
    <2>4. TableInv'
      BY <2>1, TableSame, ZenonT(40) DEF table, locals, history, TableInv, Found
    <2>5. Locked'
      BY <2>1, LockedSame DEF locals, history, Locked
    <2> QED BY <2>3, <2>4, <2>5, Zenon
  <1> QED BY <1>1, <1>2, Zenon

\* No order of calls, accepts and free_handle takes a value out of its range: an
\* id that was loaded from max_bev_id always has its place.
THEOREM ConnectionsTypeCorrect == Spec => []TypeOK
  <1>1. IInv => TypeOK
    BY Zenon DEF IInv
  <1> QED
    BY <1>1, InvInit, InvNext, PTL DEF Spec

\* send reaches the process it is called for, for any number of threads, unless
\* two of them choose an id at the same time; free_handle may run at any time.
THEOREM RightPeerAlways == Spec => []RightPeer
  <1>1. IInv => RightPeer
    BY Zenon DEF IInv, TableInv, Apart, Leads, LeadsTo, RightPeer, DistinctIps
  <1> QED
    BY <1>1, InvInit, InvNext, PTL DEF Spec

\* get_connection_id(bev) finds the bufferevent of every read callback, under the
\* same proviso, until free_handle has cleared the map.
THEOREM ReadableIsMappedAlways == Spec => []ReadableIsMapped
  <1>1. IInv => ReadableIsMapped
    BY Zenon DEF IInv, TableInv, Apart, AllMapped, ReadableIsMapped
  <1> QED
    BY <1>1, InvInit, InvNext, PTL DEF Spec

\* The signal of bev_map counts the threads inside and the read locks that send
\* has kept, until a reader and a writer pass their loads together; and send
\* keeps none before free_handle.
THEOREM SignalAccountedAlways == Spec => []SignalAccounted
  <1>1. IInv => SignalAccounted
    BY Zenon DEF IInv, Locked, SignalAccounted
  <1> QED
    BY <1>1, InvInit, InvNext, PTL DEF Spec

-----------------------------------------------------------------------------
\* A step that adds no outgoing connection, to the map or to a thread's plans,
\* keeps them single.
LEMMA SingleKept ==
    ASSUME OwnPorts, Single, raced' = raced,
           \A i \in Ids : Outgoing(i)' => Outgoing(i) /\ bev_map'[i] = bev_map[i],
           \A t \in Threads : pc'[t] = "lookup" /\ ~infor'[t].is_listen =>
                infor'[t].port = infor'[t].peer.port,
           \A t \in Threads : Connecting(t)' =>
                /\ Connecting(t)
                /\ infor'[t].peer = infor[t].peer /\ infor'[t].port = infor[t].port
    PROVE  OwnPorts' /\ Single'
  <1>1. OwnPorts'
    BY ZenonT(40) DEF OwnPorts, Outgoing
  <1>2. Single'
    BY SMTT(30) DEF Single, Outgoing
  <1> QED BY <1>1, <1>2, Zenon

\* A thread that finds no connection to its peer has raced, or nobody else is
\* about to make one.
LEMMA SingleLookup ==
    ASSUME IInv, OwnPorts, Single, NEW t \in Threads, Lookup(t)
    PROVE  OwnPorts' /\ Single'
  <1> DEFINE port == IF infor[t].is_listen THEN ntohl(infor[t].port) ELSE infor[t].port
             found == Matching(infor[t].peer.ip, port)
             peer == infor[t].peer
  <1>1. /\ pc \in [Threads \cup {Freer} -> Places] /\ Freer \notin Threads
        /\ infor \in [Threads -> BevInfor \cup {NULL}] /\ pc[t] = "lookup"
    BY ThreadsAssumption, ZenonT(40) DEF IInv, TypeOK, Lookup
  <1>2. /\ \A u \in Threads : u # t => pc'[u] = pc[u] /\ infor'[u] = infor[u]
        /\ pc'[t] = "connect" => found = {} /\ infor'[t] = infor[t]
        /\ pc'[t] \in {"connect", "send", "idle"}
        /\ bev_map' = bev_map
        /\ raced' = (raced \/ /\ found = {} /\ ~infor[t].is_listen
                              /\ \E u \in Threads \ {t} :
                                    Connecting(u) /\ infor[u].peer = infor[t].peer)
    BY <1>1 DEF Lookup, LookupResult, Return, table
  <1>3. found = {} /\ ~infor[t].is_listen => \A i \in Ids : Outgoing(i) => bev_map[i].peer # peer
    BY <1>1, Zenon DEF OwnPorts, Outgoing, Matching
  <1> HIDE DEF found
  <1>4. /\ Connecting(t)' => found = {} /\ ~infor[t].is_listen /\ infor'[t] = infor[t]
        /\ \A u \in Threads : u # t => Connecting(u)' = Connecting(u)
    BY <1>2, ZenonT(40) DEF Connecting
  <1>5. OwnPorts'
    BY <1>1, <1>2, <1>4, ZenonT(40) DEF OwnPorts, Outgoing
  <1>6. Single'
    <2> SUFFICES ASSUME ~raced' PROVE Single'
      BY Zenon DEF Single
    <2>1. /\ ~raced
          /\ Connecting(t)' => \A u \in Threads : u # t /\ Connecting(u) => infor[u].peer # peer
      BY <1>2, <1>4, Zenon
    <2>2. /\ \A i, j \in Ids :
                Outgoing(i) /\ Outgoing(j) /\ i # j => bev_map[i].peer # bev_map[j].peer
          /\ \A i \in Ids, u \in Threads :
                Outgoing(i) /\ Connecting(u) => bev_map[i].peer # infor[u].peer
          /\ \A u, v \in Threads :
                Connecting(u) /\ Connecting(v) /\ u # v => infor[u].peer # infor[v].peer
      BY <2>1, Zenon DEF Single
    <2>3. \A i \in Ids : Outgoing(i)' = Outgoing(i) /\ bev_map'[i] = bev_map[i]
      BY <1>2, Zenon DEF Outgoing
    <2>4. \A i \in Ids, u \in Threads :
              Outgoing(i)' /\ Connecting(u)' => bev_map'[i].peer # infor'[u].peer
      <3> TAKE i \in Ids, u \in Threads
      <3>1. CASE u = t
        BY <1>3, <1>4, <2>3, <3>1, Zenon
      <3>2. CASE u # t
        <4> SUFFICES ASSUME Outgoing(i)', Connecting(u)' PROVE bev_map'[i].peer # infor'[u].peer
          OBVIOUS
        <4>1. Outgoing(i) /\ bev_map'[i] = bev_map[i]
          BY <2>3, Zenon
        <4>2. Connecting(u) /\ infor'[u] = infor[u]
          BY <1>2, <1>4, <3>2, Zenon
        <4>3. bev_map[i].peer # infor[u].peer
          BY <2>2, <4>1, <4>2, Zenon
        <4> QED BY <4>1, <4>2, <4>3, Zenon
      <3> QED BY <3>1, <3>2, Zenon
    <2>5. \A u, v \in Threads :
              Connecting(u)' /\ Connecting(v)' /\ u # v => infor'[u].peer # infor'[v].peer
      BY <1>2, <1>4, <2>1, <2>2, ZenonT(40)
    <2> QED BY <2>2, <2>3, <2>4, <2>5, ZenonT(40) DEF Single
  <1> QED BY <1>5, <1>6, Zenon

\* The connection that is added is the only one to its peer.
LEMMA SingleInsert ==
    ASSUME IInv, OwnPorts, Single, NEW t \in Threads, Insert(t)
    PROVE  OwnPorts' /\ Single'
  <1>1. /\ id[t] \in Ids /\ bev_map \in [Ids -> BevInfor \cup {NULL}]
        /\ pc \in [Threads \cup {Freer} -> Places]
    BY Zenon DEF IInv, TypeOK, TableInv, Known, Insert, Chosen
  <1>2. /\ bev_map'[id[t]] = infor[t]
        /\ \A i \in Ids : i # id[t] => bev_map'[i] = bev_map[i]
        /\ pc[t] = "insert" /\ pc'[t] = "enable"
        /\ \A u \in Threads : u # t => pc'[u] = pc[u]
        /\ infor' = infor /\ raced' = raced
    BY <1>1, ZenonT(40) DEF Insert, history
  <1>3. /\ ~Connecting(t)' /\ (Connecting(t) <=> ~infor[t].is_listen)
        /\ \A u \in Threads : u # t => Connecting(u)' = Connecting(u)
    BY <1>2, ZenonT(40) DEF Connecting
  <1>4. OwnPorts'
    BY <1>1, <1>2, <1>3, ZenonT(40) DEF OwnPorts, Outgoing
  <1>5. Single'
    BY <1>1, <1>2, <1>3 DEF Single, Outgoing
  <1> QED BY <1>4, <1>5, Zenon

LEMMA SingleNext ==
    ASSUME IInv, OwnPorts, Single, [Next]_vars
    PROVE  OwnPorts' /\ Single'
  <1>1. /\ pc \in [Threads \cup {Freer} -> Places] /\ infor \in [Threads -> BevInfor \cup {NULL}]
        /\ Freer \notin Threads /\ Event \in Threads
    BY ThreadsAssumption DEF IInv, TypeOK, Threads
  \* A step that does not touch the map, and after which its thread is not on its
  \* way to an outgoing connection, or was before.
  <1>2. ASSUME NEW t \in Threads, UNCHANGED <<bev_map, raced>>,
               \A u \in Threads : u # t => pc'[u] = pc[u] /\ infor'[u] = infor[u],
               \/ pc'[t] \notin {"lookup", "connect", "bump", "insert"}
               \/ pc'[t] = "lookup" /\ (infor'[t].is_listen \/ infor'[t].port = infor'[t].peer.port)
               \/ /\ pc[t] \in {"connect", "bump"} /\ pc'[t] \in {"bump", "insert"}
                  /\ infor'[t].peer = infor[t].peer /\ infor'[t].port = infor[t].port
                  /\ infor'[t].is_listen = infor[t].is_listen
        PROVE  OwnPorts' /\ Single'
    <2>1. \A u \in Threads : pc'[u] = "lookup" /\ ~infor'[u].is_listen =>
              infor'[u].port = infor'[u].peer.port
      BY <1>2, ZenonT(40) DEF OwnPorts
    <2>2. \A u \in Threads : Connecting(u)' =>
              /\ Connecting(u)
              /\ infor'[u].peer = infor[u].peer /\ infor'[u].port = infor[u].port
      BY <1>2 DEF Connecting
    <2> QED BY <1>2, <2>1, <2>2, SingleKept, Zenon DEF Outgoing
  <1>3. ASSUME raced' = raced, \A u \in Threads : pc'[u] = pc[u] /\ infor'[u] = infor[u],
               \A i \in Ids : bev_map'[i] # NULL => bev_map'[i] = bev_map[i]
        PROVE  OwnPorts' /\ Single'
    <2>1. \A u \in Threads : pc'[u] = "lookup" /\ ~infor'[u].is_listen =>
              infor'[u].port = infor'[u].peer.port
      BY <1>3, Zenon DEF OwnPorts
    <2> QED BY <1>3, <2>1, SingleKept, Zenon DEF Outgoing, Connecting
  <1>4. ASSUME NEW t \in Threads, NEW peer \in Peers, sendMessage(t, peer)
        PROVE  OwnPorts' /\ Single'
    <2>1. infor'[t].port = infor'[t].peer.port /\ pc'[t] = "lookup"
      BY <1>1, <1>4 DEF sendMessage
    <2> QED BY <1>1, <1>2, <1>4, <2>1, ZenonT(40) DEF sendMessage, table
  <1>5. ASSUME NEW source \in Sources, connlistener_cb(source) PROVE OwnPorts' /\ Single'
    <2>1. infor'[Event].is_listen /\ pc'[Event] = "lookup"
      BY <1>1, <1>5 DEF connlistener_cb
    <2> QED BY <1>1, <1>2, <1>5, <2>1, ZenonT(40) DEF connlistener_cb, table
  <1>6. ASSUME NEW t \in Threads, Connect(t) PROVE OwnPorts' /\ Single'
    <2>1. infor[t] \in BevInfor
      BY <1>6 DEF IInv, TableInv, Known, Connect
    <2>2. /\ infor'[t].peer = infor[t].peer /\ infor'[t].port = infor[t].port
          /\ infor'[t].is_listen = infor[t].is_listen
      BY <1>1, <1>6, <2>1, ZenonT(40) DEF Connect, BevInfor
    <2> QED BY <1>1, <1>2, <1>6, <2>2 DEF Connect, table
  <1>7. ASSUME NEW t \in Threads,
               ConnectFails(t) \/ Listen(t) \/ Write(t) \/ Received(t) \/ Send(t) \/ Receive(t)
        PROVE  OwnPorts' /\ Single'
    BY <1>1, <1>2, <1>7, ZenonT(40) DEF ConnectFails, Listen, Write, Received, Send, Receive, Return, table, history

  <1>8. ASSUME NEW t \in Threads, BumpId(t) PROVE OwnPorts' /\ Single'
    BY <1>1, <1>2, <1>8, ZenonT(40) DEF BumpId, history
  <1>9. ASSUME NEW t \in Threads, Enable(t) PROVE OwnPorts' /\ Single'
    BY <1>1, <1>2, <1>9, ZenonT(40) DEF Enable, history
  <1>10. ASSUME NEW t \in LockUsers, Locking(t) PROVE OwnPorts' /\ Single'
    BY <1>3, <1>10, ZenonT(40) DEF Locking, LockTest, LockFetch, table, locals, history
  <1>11. CASE free_handle \/ FreeLoop \/ Undefined
    BY <1>1, <1>3, <1>11, ZenonT(40) DEF free_handle, FreeLoop, Undefined, table, locals, history
  <1>12. ASSUME NEW i \in Ids \cup {-1}, remove_buffevent(i) PROVE OwnPorts' /\ Single'
    <2>1. \A j \in Ids : bev_map'[j] # NULL => bev_map'[j] = bev_map[j]
      BY <1>12 DEF remove_buffevent, IInv, TypeOK
    <2> QED BY <1>1, <1>3, <1>12, <2>1, ZenonT(40) DEF remove_buffevent, history
  <1>13. CASE FreeClear
    BY <1>1, <1>3, <1>13 DEF FreeClear, history
  <1>14. CASE UNCHANGED vars
    BY <1>3, <1>14, Zenon DEF vars, table, locals, history
  <1> QED
    BY <1>4, <1>5, <1>6, <1>7, <1>8, <1>9, <1>10, <1>11, <1>12, <1>13, <1>14, SingleLookup,
       SingleInsert, Zenon
      DEF Next, Access, Freeing

\* Two outgoing connections lead to one peer only if two threads missed it at the
\* same time, for any number of threads, peers and accepted connections.
THEOREM OneConnectionAlways == Spec => []OneConnection
  <1>1. Init => OwnPorts /\ Single
    BY Zenon DEF Init, OwnPorts, Single, Outgoing, Connecting
  <1>2. OwnPorts /\ Single => OneConnection
    BY Zenon DEF Single, Outgoing, OneConnection
  <1> QED
    BY <1>1, <1>2, InvInit, InvNext, SingleNext, PTL DEF Spec
=============================================================================
