----------------------- MODULE PageLockServiceProofs ------------------------
(***************************************************************************)
(* ExclusiveHolders for any number of hosts, threads and pages, when the   *)
(* callers take write locks only and unlock what they hold.  The inductive *)
(* invariant counts the claims on a table entry, those in flight included: *)
(* every action moves a claim, drops it, or makes one where there was none.*)
(***************************************************************************)
EXTENDS PageLockService, PageLockLemmas

-----------------------------------------------------------------------------
(* The queues. *)

\* What a queue holds after its head was dispatched.
LEMMA TailIndex ==
    ASSUME NEW S, NEW s \in Seq(S), s # <<>>
    PROVE  /\ Head(s) \in S /\ Tail(s) \in Seq(S)
           /\ 1 \in DOMAIN s /\ s[1] = Head(s)
           /\ \A i \in DOMAIN Tail(s) :
                /\ i \in Nat \ {0}
                /\ i + 1 \in DOMAIN s
                /\ Tail(s)[i] = s[i + 1]
  OBVIOUS

\* What a queue holds after a message was added to it.
LEMMA AppendIndex ==
    ASSUME NEW S, NEW s \in Seq(S), NEW x \in S
    PROVE  /\ Append(s, x) \in Seq(S)
           /\ \A i \in DOMAIN Append(s, x) :
                \/ i \in DOMAIN s /\ Append(s, x)[i] = s[i]
                \/ i = Len(s) + 1 /\ Append(s, x)[i] = x
  OBVIOUS

\* What a list holds after readMessage erased element i from it.
LEMMA WithoutIndex ==
    ASSUME NEW S, NEW s \in Seq(S), NEW i \in DOMAIN s
    PROVE  /\ Without(s, i) \in Seq(S)
           /\ \A j \in DOMAIN Without(s, i) :
                /\ j \in Nat \ {0}
                /\ \/ j < i /\ j \in DOMAIN s /\ Without(s, i)[j] = s[j]
                   \/ j >= i /\ j + 1 \in DOMAIN s /\ Without(s, i)[j] = s[j + 1]
  <1>1. i \in 1 .. Len(s) /\ Len(s) \in Nat
    OBVIOUS
  <1>2. DOMAIN Without(s, i) = 1 .. Len(s) - 1
    BY Zenon DEF Without
  <1>3. ASSUME NEW j \in 1 .. Len(s) - 1
        PROVE  Without(s, i)[j] = IF j < i THEN s[j] ELSE s[j + 1]
    BY <1>1, Zenon DEF Without
  <1>4. Without(s, i) \in Seq(S)
    <2>1. Len(s) - 1 \in Nat
      BY <1>1
    <2>2. \A j \in 1 .. Len(s) - 1 : s[j] \in S /\ s[j + 1] \in S
      BY <1>1
    <2> QED BY <2>1, <2>2 DEF Without
  <1> QED BY <1>1, <1>2, <1>3, <1>4

\* sendMessage adds the message at the end of the host's queue, or loses it.
LEMMA SendIndex ==
    ASSUME NEW S, NEW link \in [Hosts -> Seq(S)], NEW h \in Hosts, NEW d,
           NEW m \in S
    PROVE  /\ sendMessage(link, h, d, m) \in [Hosts -> Seq(S)]
           /\ \A g \in Hosts : \A i \in DOMAIN sendMessage(link, h, d, m)[g] :
                \/ /\ i \in DOMAIN link[g]
                   /\ sendMessage(link, h, d, m)[g][i] = link[g][i]
                \/ /\ g = h /\ i = Len(link[h]) + 1
                   /\ sendMessage(link, h, d, m)[g][i] = m
  <1>1. CASE d \in link_up[h]
    <2>1. sendMessage(link, h, d, m) = [link EXCEPT ![h] = Append(link[h], m)]
      BY <1>1, Zenon DEF sendMessage
    <2>2. link[h] \in Seq(S)
      OBVIOUS
    <2> QED BY <2>1, <2>2, AppendIndex
  <1>2. CASE d \notin link_up[h]
    BY <1>2, Zenon DEF sendMessage
  <1> QED BY <1>1, <1>2, Zenon

\* Dispatching the head of one host's queue shifts that queue and no other.
LEMMA PopIndex ==
    ASSUME NEW S, NEW link \in [Hosts -> Seq(S)], NEW h \in Hosts, link[h] # <<>>
    PROVE  LET rest == [link EXCEPT ![h] = Tail(link[h])] IN
           /\ rest \in [Hosts -> Seq(S)]
           /\ \A g \in Hosts : \A i \in DOMAIN rest[g] :
                \/ g # h /\ i \in DOMAIN link[g] /\ rest[g][i] = link[g][i]
                \/ /\ g = h /\ i \in Nat \ {0} /\ i + 1 \in DOMAIN link[h]
                   /\ rest[g][i] = link[h][i + 1]
  <1>1. link[h] \in Seq(S)
    OBVIOUS
  <1> QED BY <1>1, TailIndex

-----------------------------------------------------------------------------
(* Types. *)

\* Strengthens TypeOK: no entry has a waiter and the requests on the wire are
\* of the types the callers use.
Typed ==
    /\ TypeOK
    /\ page_lock_hash \in [Folds -> QuietEntry \cup {NULL}]
    /\ \A h \in Hosts : \A i \in DOMAIN request_link[h] :
            request_link[h][i].lock_type \in CallerTypes \cup {UNLOCK}

\* The initial state is well typed.
LEMMA InitTyped == Init => Typed
  BY DEF Init, Typed, TypeOK

\* Sending a request keeps the types (request_page_lock).
LEMMA RequestTyped ==
    ASSUME Typed, NEW t \in Threads, NEW p \in Pages,
           NEW lt \in CallerTypes \cup {UNLOCK}, request_page_lock(t, p, lt)
    PROVE  Typed'
  <1> DEFINE m == [page |-> p, lock_type |-> lt, thread |-> t]
             h == HostOf[t]
  <1>1. h \in Hosts /\ m \in PageLockRequest
    BY CallerAssumption, Zenon DEF PageLockRequest, PageLockType, R_LOCK, W_LOCK
  <1>2. request_link' = sendMessage(request_link, h, "request", m)
    BY Zenon DEF request_page_lock
  <1>3. m.lock_type \in CallerTypes \cup {UNLOCK}
    OBVIOUS
  <1>4. /\ request_link' \in [Hosts -> Seq(PageLockRequest)]
        /\ \A g \in Hosts : \A i \in DOMAIN request_link'[g] :
             request_link'[g][i].lock_type \in CallerTypes \cup {UNLOCK}
    <2>1. request_link \in [Hosts -> Seq(PageLockRequest)]
      BY Zenon DEF Typed, TypeOK
    <2> HIDE DEF m, h
    <2> QED BY <2>1, <1>1, <1>2, <1>3, SendIndex DEF Typed
  <1>5. call' = [call EXCEPT ![t] = m]
    BY Zenon DEF request_page_lock
  <1>6. call' \in [Threads -> PageLockRequest \cup {NULL}]
    <2> HIDE DEF m
    <2> QED BY <1>1, <1>5, Zenon DEF Typed, TypeOK
  <1>7. holds' \in [Threads -> SUBSET Pages]
    BY Zenon DEF request_page_lock, Typed, TypeOK
  <1> QED BY <1>4, <1>6, <1>7, Zenon DEF request_page_lock, Typed, TypeOK, server

\* The event thread taking a request off the link keeps the types
\* (ParkRequest, lock_request_callback, CallbackWithoutArg).
LEMMA PopRequestTyped ==
    ASSUME Typed, NEW h \in Hosts, request_link[h] # <<>>,
           request_link' = [request_link EXCEPT ![h] = Tail(@)]
    PROVE  /\ Head(request_link[h]) \in PageLockRequest
           /\ Head(request_link[h]).lock_type \in CallerTypes \cup {UNLOCK}
           /\ request_link' \in [Hosts -> Seq(PageLockRequest)]
           /\ \A g \in Hosts : \A i \in DOMAIN request_link'[g] :
                /\ request_link'[g][i].lock_type \in CallerTypes \cup {UNLOCK}
                /\ \/ /\ g # h /\ i \in DOMAIN request_link[g]
                      /\ request_link'[g][i] = request_link[g][i]
                   \/ /\ g = h /\ i \in Nat \ {0} /\ i + 1 \in DOMAIN request_link[h]
                      /\ request_link'[g][i] = request_link[h][i + 1]
  <1>1. request_link \in [Hosts -> Seq(PageLockRequest)]
    BY Zenon DEF Typed, TypeOK
  <1>2. request_link[h] \in Seq(PageLockRequest)
    BY <1>1, Zenon
  <1>3. /\ Head(request_link[h]) \in PageLockRequest
        /\ Head(request_link[h]).lock_type \in CallerTypes \cup {UNLOCK}
    BY <1>2, TailIndex DEF Typed
  <1> QED BY <1>1, <1>3, PopIndex DEF Typed

\* lock_request_callback keeps the types.
LEMMA CallbackTyped ==
    ASSUME Typed, NEW h \in Hosts, lock_request_callback(h)
    PROVE  Typed'
  <1> DEFINE request == Head(request_link[h])
             f == cal_fold(request.page)
             o == check_lock_request(h, request.lock_type, page_lock_hash[f])
             reply == [page |-> request.page, reply_type |-> o.reply_type,
                       thread |-> request.thread]
  <1>1. /\ request_link[h] # <<>>
        /\ request_link' = [request_link EXCEPT ![h] = Tail(@)]
        /\ page_lock_hash' = [page_lock_hash EXCEPT ![f] = o.entry]
        /\ reply_link' = sendMessage(reply_link, h, "reply", reply)
    BY Zenon DEF lock_request_callback
  <1>2. request \in PageLockRequest
    BY <1>1, PopRequestTyped, Zenon
  <1>3. f \in Folds /\ page_lock_hash[f] \in QuietEntry \cup {NULL}
    BY <1>2, FoldType, Zenon DEF Typed, PageLockRequest
  <1>4. o.entry \in QuietEntry /\ o.reply_type \in PageReplyType
    BY <1>2, <1>3, CheckType, Zenon DEF PageLockRequest
  <1>5. reply \in PageLockReply
    BY <1>2, <1>4, Zenon DEF PageLockReply, PageLockRequest
  <1>6. page_lock_hash' \in [Folds -> QuietEntry \cup {NULL}]
    <2> HIDE DEF f, o, request
    <2> QED BY <1>1, <1>3, <1>4, Zenon DEF Typed
  <1>7. reply_link' \in [Hosts -> Seq(PageLockReply)]
    <2>1. reply_link \in [Hosts -> Seq(PageLockReply)]
      BY Zenon DEF Typed, TypeOK
    <2> HIDE DEF reply
    <2> QED BY <2>1, <1>1, <1>5, SendIndex, Zenon
  <1>8. /\ request_link' \in [Hosts -> Seq(PageLockRequest)]
        /\ \A g \in Hosts : \A i \in DOMAIN request_link'[g] :
             request_link'[g][i].lock_type \in CallerTypes \cup {UNLOCK}
    BY <1>1, PopRequestTyped, Zenon
  <1>9. UNCHANGED <<handler, parked, link_up, unprocessed_mess_list, call, holds>>
    BY Zenon DEF lock_request_callback, clients
  <1> HIDE DEF f, o, request, reply
  <1> QED BY <1>6, <1>7, <1>8, <1>9, Zenon DEF Typed, TypeOK, QuietEntry

\* Every step keeps the types; one case per action of Next.
LEMMA StepTyped == Typed /\ [Next]_vars => Typed'
  <1> SUFFICES ASSUME Typed, [Next]_vars PROVE Typed'
    OBVIOUS
  <1>1. CASE register_recive_handler \/ RegisterArg
    BY <1>1, Zenon DEF register_recive_handler, RegisterArg, Typed, TypeOK, links, clients
  <1>2. ASSUME NEW t \in Threads, Lock(t) \/ Unlock(t) PROVE Typed'
    <2> PICK p \in Pages, lt \in CallerTypes \cup {UNLOCK} : request_page_lock(t, p, lt)
      BY <1>2, Zenon DEF Lock, Unlock
    <2> QED BY RequestTyped, Zenon
  <1>3. ASSUME NEW h \in Hosts, ParkRequest(h) PROVE Typed'
    <2>1. /\ request_link[h] # <<>>
          /\ request_link' = [request_link EXCEPT ![h] = Tail(@)]
          /\ parked' = Append(parked, Head(request_link[h]))
      BY <1>3, Zenon DEF ParkRequest
    <2>2. parked' \in Seq(PageLockRequest)
      BY <2>1, PopRequestTyped, AppendIndex, Zenon DEF Typed, TypeOK
    <2> QED BY <2>1, <2>2, <1>3, PopRequestTyped, Zenon DEF ParkRequest, Typed, TypeOK, clients
  <1>4. ASSUME NEW h \in Hosts, lock_request_callback(h) PROVE Typed'
    BY <1>4, CallbackTyped, Zenon
  <1>5. ASSUME NEW h \in Hosts, CallbackWithoutArg(h) PROVE Typed'
    <2>1. /\ request_link[h] # <<>>
          /\ request_link' = [request_link EXCEPT ![h] = Tail(@)]
      BY <1>5, Zenon DEF CallbackWithoutArg
    <2> QED BY <2>1, <1>5, PopRequestTyped, Zenon
      DEF CallbackWithoutArg, Typed, TypeOK, clients
  <1>6. ASSUME NEW h \in Hosts, StoreReply(h) PROVE Typed'
    <2>1. /\ reply_link \in [Hosts -> Seq(PageLockReply)]
          /\ unprocessed_mess_list \in [Hosts -> Seq(PageLockReply)]
          /\ reply_link[h] # <<>>
      BY <1>6, Zenon DEF StoreReply, Typed, TypeOK
    <2>2. Head(reply_link[h]) \in PageLockReply
      BY <2>1, TailIndex, Zenon
    <2>3. reply_link' \in [Hosts -> Seq(PageLockReply)]
      BY <2>1, <1>6, PopIndex, Zenon DEF StoreReply
    <2>4. unprocessed_mess_list' \in [Hosts -> Seq(PageLockReply)]
      BY <2>1, <2>2, <1>6, AppendIndex, Zenon DEF StoreReply
    <2> QED BY <2>3, <2>4, <1>6, Zenon DEF StoreReply, Typed, TypeOK, server
  <1>7. ASSUME NEW t \in Threads, wait_for_lock_reply(t) PROVE Typed'
    <2> DEFINE h == HostOf[t]
               list == unprocessed_mess_list[h]
    <2>1. h \in Hosts /\ list \in Seq(PageLockReply)
      BY CallerAssumption, Zenon DEF Typed, TypeOK
    <2> PICK i \in DOMAIN list :
          /\ unprocessed_mess_list' = [unprocessed_mess_list EXCEPT ![h] = Without(list, i)]
          /\ holds' = IF call[t].lock_type # UNLOCK /\ list[i].reply_type = "LOCK_SUCCESS"
                      THEN [holds EXCEPT ![t] = @ \cup {call[t].page}] ELSE holds
      BY <1>7, Zenon DEF wait_for_lock_reply
    <2>2. unprocessed_mess_list' \in [Hosts -> Seq(PageLockReply)]
      <3> HIDE DEF h, list
      <3> QED BY <2>1, WithoutIndex, Zenon DEF Typed, TypeOK
    <2>3. call[t] \in PageLockRequest
      BY <1>7, Zenon DEF wait_for_lock_reply, Typed, TypeOK
    <2>4. holds' \in [Threads -> SUBSET Pages]
      BY <2>3, Zenon DEF Typed, TypeOK, PageLockRequest
    <2>5. call' \in [Threads -> PageLockRequest \cup {NULL}]
      BY <1>7, Zenon DEF wait_for_lock_reply, Typed, TypeOK
    <2> HIDE DEF h, list
    <2> QED BY <2>2, <2>4, <2>5, <1>7, Zenon
      DEF wait_for_lock_reply, Typed, TypeOK, server, links
  <1>8. ASSUME NEW h \in Hosts, BreakRequestLink(h) PROVE Typed'
    BY <1>8 DEF BreakRequestLink, Typed, TypeOK, server, clients
  <1>9. ASSUME NEW h \in Hosts, BreakReplyLink(h) PROVE Typed'
    BY <1>9 DEF BreakReplyLink, Typed, TypeOK, server, clients
  <1>10. CASE UNCHANGED vars
    BY <1>10, Zenon DEF vars, server, links, clients, Typed, TypeOK
  <1> QED BY <1>1, <1>2, <1>3, <1>4, <1>5, <1>6, <1>7, <1>8, <1>9, <1>10, Zenon
    DEF Next, Dispatch

\* Typed is an invariant of the service.
LEMMA TypedInvariant == Spec => []Typed
  BY InitTyped, StepTyped, PTL DEF Spec

\* The server's table, the queues and the clients' state keep their types in
\* every execution, with any callers.
THEOREM ServiceTypeCorrect == Spec => []TypeOK
  <1>1. Typed => TypeOK
    BY Zenon DEF Typed
  <1> QED BY <1>1, TypedInvariant, PTL

-----------------------------------------------------------------------------
(* Claims. *)

IsHold(c, f) ==
    \E t \in Threads, p \in Pages :
        c = <<"hold", t, p>> /\ p \in holds[t] /\ cal_fold(p) = f
IsUnlock(c, f) ==
    \E h \in Hosts : \E i \in DOMAIN request_link[h] :
        c = <<"unlock", h, i>> /\ UnlockOf(request_link[h][i], f)
IsSent(c, f) ==
    \E h \in Hosts : \E i \in DOMAIN reply_link[h] :
        c = <<"sent", h, i>> /\ GrantOf(reply_link[h][i], f)
IsStored(c, f) ==
    \E h \in Hosts : \E i \in DOMAIN unprocessed_mess_list[h] :
        c = <<"stored", h, i>> /\ GrantOf(unprocessed_mess_list[h][i], f)

ClaimsByKind ==
    \A f : \A c : c \in Claims(f) <=>
        IsHold(c, f) \/ IsUnlock(c, f) \/ IsSent(c, f) \/ IsStored(c, f)

\* Membership in Claims, one kind at a time.
LEMMA ClaimKinds == ClaimsByKind
  <1> SUFFICES ASSUME NEW f, NEW c
               PROVE  c \in Claims(f) <=>
                        IsHold(c, f) \/ IsUnlock(c, f) \/ IsSent(c, f) \/ IsStored(c, f)
    BY Zenon DEF ClaimsByKind
  <1>1. c \in HoldClaims(f) <=> IsHold(c, f)
    <2>1. ASSUME c \in HoldClaims(f) PROVE IsHold(c, f)
      <3> PICK d \in {x \in Threads \X Pages : x[2] \in holds[x[1]] /\ cal_fold(x[2]) = f} :
                 c = <<"hold", d[1], d[2]>>
        BY <2>1, Zenon DEF HoldClaims
      <3> QED BY Zenon DEF IsHold
    <2>2. ASSUME IsHold(c, f) PROVE c \in HoldClaims(f)
      <3> PICK t \in Threads, p \in Pages :
                 c = <<"hold", t, p>> /\ p \in holds[t] /\ cal_fold(p) = f
        BY <2>2, Zenon DEF IsHold
      <3> DEFINE d == <<t, p>>
      <3>1. d \in {x \in Threads \X Pages : x[2] \in holds[x[1]] /\ cal_fold(x[2]) = f}
        OBVIOUS
      <3>2. c = <<"hold", d[1], d[2]>>
        OBVIOUS
      <3> QED BY <3>1, <3>2, Zenon DEF HoldClaims
    <2> QED BY <2>1, <2>2, Zenon
  <1>2. c \in UnlockClaims(f) <=> IsUnlock(c, f)
    BY DEF UnlockClaims, IsUnlock
  <1>3. c \in SentClaims(f) <=> IsSent(c, f)
    BY DEF SentClaims, IsSent
  <1>4. c \in StoredClaims(f) <=> IsStored(c, f)
    BY DEF StoredClaims, IsStored
  <1> QED BY <1>1, <1>2, <1>3, <1>4, Zenon DEF Claims

\* The same after a step.
LEMMA ClaimKindsNext == ClaimsByKind'
  BY ClaimKinds, PTL

\* Taking messages off the request links never adds a claim: the step of
\* ParkRequest and CallbackWithoutArg.
LEMMA DropRequestClaims ==
    ASSUME Typed, ClaimsBacked, NEW h \in Hosts, request_link[h] # <<>>,
           request_link' = [request_link EXCEPT ![h] = Tail(@)],
           UNCHANGED <<page_lock_hash, reply_link, unprocessed_mess_list, holds>>
    PROVE  ClaimsBacked'
  <1>1. \A g \in Hosts : \A i \in DOMAIN request_link'[g] :
          \/ /\ g # h /\ i \in DOMAIN request_link[g]
             /\ request_link'[g][i] = request_link[g][i]
          \/ /\ g = h /\ i \in Nat \ {0} /\ i + 1 \in DOMAIN request_link[h]
             /\ request_link'[g][i] = request_link[h][i + 1]
    <2>1. request_link \in [Hosts -> Seq(PageLockRequest)]
      BY Zenon DEF Typed, TypeOK
    <2> QED BY <2>1, PopIndex
  <1> SUFFICES ASSUME NEW f \in Folds
               PROVE  /\ \A c, d \in Claims(f)' : c = d
                      /\ Claims(f)' # {} =>
                           page_lock_hash'[f] # NULL /\ page_lock_hash'[f].lock_type = W_LOCK
    BY Zenon DEF ClaimsBacked
  <1> DEFINE Pre(c) == IF c[1] = "unlock" /\ c[2] = h
                       THEN <<"unlock", h, c[3] + 1>> ELSE c
  <1>2. ASSUME NEW c \in Claims(f)'
        PROVE  /\ Pre(c) \in Claims(f)
               /\ c = <<c[1], c[2], c[3]>>
               /\ c[1] = "unlock" => c[3] \in Nat
    <2>1. CASE IsHold(c, f)'
      BY <2>1, ClaimKinds DEF ClaimsByKind, IsHold
    <2>2. CASE IsUnlock(c, f)'
      <3> PICK g \in Hosts : \E i \in DOMAIN request_link'[g] :
                 c = <<"unlock", g, i>> /\ UnlockOf(request_link'[g][i], f)
        BY <2>2, Zenon DEF IsUnlock, UnlockOf
      <3> PICK i \in DOMAIN request_link'[g] :
                 c = <<"unlock", g, i>> /\ UnlockOf(request_link'[g][i], f)
        OBVIOUS
      <3>1. \/ /\ g # h /\ i \in DOMAIN request_link[g]
               /\ request_link'[g][i] = request_link[g][i]
            \/ /\ g = h /\ i \in Nat \ {0} /\ i + 1 \in DOMAIN request_link[h]
               /\ request_link'[g][i] = request_link[h][i + 1]
        BY <1>1, Zenon
      <3>2. CASE g # h
        <4>1. i \in Nat
          BY <3>1, <3>2 DEF Typed, TypeOK
        <4>2. IsUnlock(c, f)
          BY <3>1, <3>2, Zenon DEF IsUnlock
        <4> QED BY <3>2, <4>1, <4>2, ClaimKinds, Zenon DEF ClaimsByKind
      <3>3. CASE g = h
        <4>1. IsUnlock(<<"unlock", h, i + 1>>, f)
          BY <3>1, <3>3, Zenon DEF IsUnlock
        <4> QED BY <3>1, <3>3, <4>1, ClaimKinds, Zenon DEF ClaimsByKind
      <3> QED BY <3>2, <3>3, Zenon
    <2>3. CASE IsSent(c, f)'
      BY <2>3, ClaimKinds DEF ClaimsByKind, IsSent, GrantOf
    <2>4. CASE IsStored(c, f)'
      BY <2>4, ClaimKinds DEF ClaimsByKind, IsStored, GrantOf
    <2> QED BY <2>1, <2>2, <2>3, <2>4, ClaimKindsNext, Zenon DEF ClaimsByKind
  <1>3. ASSUME NEW c \in Claims(f)', NEW d \in Claims(f)' PROVE c = d
    <2>1. Pre(c) = Pre(d)
      BY <1>2, Zenon DEF ClaimsBacked
    <2> QED BY <1>2, <2>1
  <1>4. ASSUME NEW c \in Claims(f)' PROVE Claims(f) # {}
    BY <1>2, Zenon
  <1> QED BY <1>3, <1>4, Zenon DEF ClaimsBacked

\* A step that leaves the table alone and adds no claim keeps ClaimsBacked.
LEMMA ShrinkClaims ==
    ASSUME ClaimsBacked, UNCHANGED page_lock_hash,
           \A f \in Folds : \A c \in Claims(f)' : c \in Claims(f)
    PROVE  ClaimsBacked'
  BY Zenon DEF ClaimsBacked

\* A connection that breaks takes claims with it and adds none
\* (BreakRequestLink, BreakReplyLink).
LEMMA BreakClaims ==
    ASSUME Typed, ClaimsBacked, NEW h \in Hosts,
           BreakRequestLink(h) \/ BreakReplyLink(h)
    PROVE  ClaimsBacked'
  <1>1. UNCHANGED <<page_lock_hash, unprocessed_mess_list, holds>>
    BY Zenon DEF BreakRequestLink, BreakReplyLink, server, clients
  <1>2. \A g \in Hosts : \A i \in DOMAIN request_link'[g] :
          i \in DOMAIN request_link[g] /\ request_link'[g][i] = request_link[g][i]
    <2>1. \A g \in Hosts : request_link'[g] = request_link[g] \/ request_link'[g] = <<>>
      BY Zenon DEF BreakRequestLink, BreakReplyLink, Typed, TypeOK
    <2>2. DOMAIN <<>> = {}
      OBVIOUS
    <2> QED BY <2>1, <2>2, Zenon
  <1>3. \A g \in Hosts : \A i \in DOMAIN reply_link'[g] :
          i \in DOMAIN reply_link[g] /\ reply_link'[g][i] = reply_link[g][i]
    <2>1. \A g \in Hosts : reply_link'[g] = reply_link[g] \/ reply_link'[g] = <<>>
      BY Zenon DEF BreakRequestLink, BreakReplyLink, Typed, TypeOK
    <2>2. DOMAIN <<>> = {}
      OBVIOUS
    <2> QED BY <2>1, <2>2, Zenon
  <1>4. ASSUME NEW f \in Folds, NEW c \in Claims(f)' PROVE c \in Claims(f)
    <2>1. IsHold(c, f)' => IsHold(c, f)
      BY <1>1, Zenon DEF IsHold
    <2>2. IsUnlock(c, f)' => IsUnlock(c, f)
      BY <1>2, Zenon DEF IsUnlock, UnlockOf
    <2>3. IsSent(c, f)' => IsSent(c, f)
      BY <1>3, Zenon DEF IsSent, GrantOf
    <2>4. IsStored(c, f)' => IsStored(c, f)
      BY <1>1, Zenon DEF IsStored, GrantOf
    <2> QED BY <2>1, <2>2, <2>3, <2>4, ClaimKinds, ClaimKindsNext, Zenon DEF ClaimsByKind
  <1> QED BY <1>1, <1>4, ShrinkClaims, Zenon

\* Sending a request: a lock request adds no claim, an UNLOCK turns the hold of
\* its thread into a claim of the message (request_page_lock).
LEMMA RequestClaims ==
    ASSUME Typed, ClaimsBacked, NEW t \in Threads, NEW p \in Pages,
           NEW lt \in CallerTypes \cup {UNLOCK}, request_page_lock(t, p, lt),
           lt = UNLOCK => p \in holds[t]
    PROVE  ClaimsBacked'
  <1> DEFINE m == [page |-> p, lock_type |-> lt, thread |-> t]
             h == HostOf[t]
             n == Len(request_link[h]) + 1
  <1>1. UNCHANGED <<page_lock_hash, reply_link, unprocessed_mess_list>>
    BY Zenon DEF request_page_lock, server
  <1>2. \A g \in Hosts : \A i \in DOMAIN request_link'[g] :
          \/ i \in DOMAIN request_link[g] /\ request_link'[g][i] = request_link[g][i]
          \/ g = h /\ i = n /\ request_link'[g][i] = m
    <2>1. request_link \in [Hosts -> Seq(PageLockRequest)]
      BY Zenon DEF Typed, TypeOK
    <2>2. h \in Hosts /\ m \in PageLockRequest
      BY CallerAssumption, Zenon DEF PageLockRequest, PageLockType, R_LOCK, W_LOCK
    <2>3. request_link' = sendMessage(request_link, h, "request", m)
      BY Zenon DEF request_page_lock
    <2> HIDE DEF m, h
    <2> QED BY <2>1, <2>2, <2>3, SendIndex
  <1>3. ASSUME NEW f \in Folds, NEW c \in Claims(f)'
        PROVE  \/ c \in Claims(f) /\ (lt = UNLOCK => c # <<"hold", t, p>>)
               \/ c = <<"unlock", h, n>> /\ lt = UNLOCK /\ cal_fold(p) = f
    <2>1. IsHold(c, f)' => IsHold(c, f) /\ (lt = UNLOCK => c # <<"hold", t, p>>)
      BY DEF IsHold, request_page_lock, Typed, TypeOK
    <2>2. ASSUME IsUnlock(c, f)'
          PROVE  \/ IsUnlock(c, f) /\ c # <<"hold", t, p>>
                 \/ c = <<"unlock", h, n>> /\ lt = UNLOCK /\ cal_fold(p) = f
      <3> PICK g \in Hosts : \E i \in DOMAIN request_link'[g] :
                 c = <<"unlock", g, i>> /\ UnlockOf(request_link'[g][i], f)
        BY <2>2, Zenon DEF IsUnlock, UnlockOf
      <3> PICK i \in DOMAIN request_link'[g] :
                 c = <<"unlock", g, i>> /\ UnlockOf(request_link'[g][i], f)
        OBVIOUS
      <3>1. CASE i \in DOMAIN request_link[g] /\ request_link'[g][i] = request_link[g][i]
        BY <3>1, Zenon DEF IsUnlock
      <3>2. CASE g = h /\ i = n /\ request_link'[g][i] = m
        <4>1. UnlockOf(m, f)
          BY <3>2, Zenon
        <4>2. lt = UNLOCK /\ cal_fold(p) = f
          BY <4>1, Zenon DEF UnlockOf
        <4> QED BY <3>2, <4>2, Zenon
      <3> QED BY <1>2, <3>1, <3>2, Zenon
    <2>3. IsSent(c, f)' => IsSent(c, f) /\ c # <<"hold", t, p>>
      BY <1>1 DEF IsSent, GrantOf
    <2>4. IsStored(c, f)' => IsStored(c, f) /\ c # <<"hold", t, p>>
      BY <1>1 DEF IsStored, GrantOf
    <2> HIDE DEF h, n
    <2> QED BY <2>1, <2>2, <2>3, <2>4, ClaimKinds, ClaimKindsNext, Zenon DEF ClaimsByKind
  <1>4. CASE lt # UNLOCK
    BY <1>1, <1>3, <1>4, ShrinkClaims, Zenon
  <1>5. CASE lt = UNLOCK
    <2> SUFFICES ASSUME NEW f \in Folds
                 PROVE  /\ \A c, d \in Claims(f)' : c = d
                        /\ Claims(f)' # {} =>
                             /\ page_lock_hash[f] # NULL
                             /\ page_lock_hash[f].lock_type = W_LOCK
      BY <1>1, Zenon DEF ClaimsBacked
    <2>1. CASE cal_fold(p) # f
      BY <1>3, <2>1, Zenon DEF ClaimsBacked
    <2>2. CASE cal_fold(p) = f
      <3>1. <<"hold", t, p>> \in Claims(f)
        BY <1>5, <2>2, ClaimKinds, Zenon DEF ClaimsByKind, IsHold
      <3>2. \A c \in Claims(f)' : c = <<"unlock", h, n>>
        BY <1>3, <1>5, <3>1, Zenon DEF ClaimsBacked
      <3> QED BY <3>1, <3>2, Zenon DEF ClaimsBacked
    <2> QED BY <2>1, <2>2, Zenon
  <1> QED BY <1>4, <1>5, Zenon

\* StoreReply moves the first claim of the reply link to the end of the list.
LEMMA StoreClaims ==
    ASSUME Typed, ClaimsBacked, NEW h \in Hosts, StoreReply(h)
    PROVE  ClaimsBacked'
  <1> DEFINE n == Len(unprocessed_mess_list[h]) + 1
             Pre(c) == IF c[1] = "sent" /\ c[2] = h THEN <<"sent", h, c[3] + 1>>
                       ELSE IF c = <<"stored", h, n>> THEN <<"sent", h, 1>> ELSE c
  <1>1. UNCHANGED <<page_lock_hash, request_link, holds>>
    BY Zenon DEF StoreReply, server
  <1>2. /\ reply_link \in [Hosts -> Seq(PageLockReply)]
        /\ unprocessed_mess_list \in [Hosts -> Seq(PageLockReply)]
        /\ reply_link[h] \in Seq(PageLockReply)
        /\ unprocessed_mess_list[h] \in Seq(PageLockReply)
        /\ reply_link[h] # <<>>
    BY Zenon DEF StoreReply, Typed, TypeOK
  <1>3. /\ Head(reply_link[h]) \in PageLockReply
        /\ 1 \in DOMAIN reply_link[h] /\ reply_link[h][1] = Head(reply_link[h])
    BY <1>2, TailIndex, Zenon
  <1>4. \A g \in Hosts : \A i \in DOMAIN reply_link'[g] :
          \/ g # h /\ i \in DOMAIN reply_link[g] /\ reply_link'[g][i] = reply_link[g][i]
          \/ /\ g = h /\ i \in Nat \ {0} /\ i + 1 \in DOMAIN reply_link[h]
             /\ reply_link'[g][i] = reply_link[h][i + 1]
    BY <1>2, PopIndex DEF StoreReply
  <1>5. \A g \in Hosts : \A i \in DOMAIN unprocessed_mess_list'[g] :
          \/ /\ i \in DOMAIN unprocessed_mess_list[g]
             /\ unprocessed_mess_list'[g][i] = unprocessed_mess_list[g][i]
          \/ /\ g = h /\ i = n
             /\ unprocessed_mess_list'[g][i] = reply_link[h][1]
    BY <1>2, <1>3, AppendIndex DEF StoreReply
  <1>6. n \notin DOMAIN unprocessed_mess_list[h] /\ n \in Nat
    BY <1>2
  <1> SUFFICES ASSUME NEW f \in Folds
               PROVE  /\ \A c, d \in Claims(f)' : c = d
                      /\ Claims(f)' # {} =>
                           page_lock_hash[f] # NULL /\ page_lock_hash[f].lock_type = W_LOCK
    BY <1>1, Zenon DEF ClaimsBacked
  <1> HIDE DEF n
  <1>7. ASSUME NEW c \in Claims(f)'
        PROVE  /\ Pre(c) \in Claims(f)
               /\ c = <<c[1], c[2], c[3]>>
               /\ c[1] = "sent" => c[3] \in Nat \ {0}
    <2>1. CASE IsHold(c, f)'
      BY <2>1, <1>1, ClaimKinds DEF ClaimsByKind, IsHold
    <2>2. CASE IsUnlock(c, f)'
      BY <2>2, <1>1, ClaimKinds DEF ClaimsByKind, IsUnlock, UnlockOf
    <2>3. CASE IsSent(c, f)'
      <3> PICK g \in Hosts : \E i \in DOMAIN reply_link'[g] :
                 c = <<"sent", g, i>> /\ GrantOf(reply_link'[g][i], f)
        BY <2>3, Zenon DEF IsSent, GrantOf
      <3> PICK i \in DOMAIN reply_link'[g] :
                 c = <<"sent", g, i>> /\ GrantOf(reply_link'[g][i], f)
        OBVIOUS
      <3>1. CASE g # h
        <4>1. i \in DOMAIN reply_link[g] /\ reply_link'[g][i] = reply_link[g][i]
          BY <1>4, <3>1, Zenon
        <4>2. i \in Nat \ {0}
          BY <4>1, <1>2
        <4>3. IsSent(c, f)
          BY <4>1, Zenon DEF IsSent
        <4> QED BY <3>1, <4>2, <4>3, ClaimKinds, Zenon DEF ClaimsByKind
      <3>2. CASE g = h
        <4>1. /\ i \in Nat \ {0} /\ i + 1 \in DOMAIN reply_link[h]
              /\ reply_link'[g][i] = reply_link[h][i + 1]
          BY <1>4, <3>2, Zenon
        <4>2. IsSent(<<"sent", h, i + 1>>, f)
          BY <4>1, Zenon DEF IsSent
        <4> QED BY <3>2, <4>1, <4>2, ClaimKinds, Zenon DEF ClaimsByKind
      <3> QED BY <3>1, <3>2, Zenon
    <2>4. CASE IsStored(c, f)'
      <3> PICK g \in Hosts : \E i \in DOMAIN unprocessed_mess_list'[g] :
                 c = <<"stored", g, i>> /\ GrantOf(unprocessed_mess_list'[g][i], f)
        BY <2>4, Zenon DEF IsStored, GrantOf
      <3> PICK i \in DOMAIN unprocessed_mess_list'[g] :
                 c = <<"stored", g, i>> /\ GrantOf(unprocessed_mess_list'[g][i], f)
        OBVIOUS
      <3>1. CASE /\ i \in DOMAIN unprocessed_mess_list[g]
                 /\ unprocessed_mess_list'[g][i] = unprocessed_mess_list[g][i]
        <4>1. IsStored(c, f)
          BY <3>1, Zenon DEF IsStored
        <4>2. c # <<"stored", h, n>>
          BY <3>1, <1>6, Zenon
        <4> QED BY <4>1, <4>2, ClaimKinds, Zenon DEF ClaimsByKind
      <3>2. CASE g = h /\ i = n /\ unprocessed_mess_list'[g][i] = reply_link[h][1]
        <4>1. IsSent(<<"sent", h, 1>>, f)
          BY <3>2, <1>3, Zenon DEF IsSent
        <4> QED BY <3>2, <4>1, ClaimKinds, Zenon DEF ClaimsByKind
      <3> QED BY <1>5, <3>1, <3>2, Zenon
    <2> HIDE DEF Pre
    <2> QED BY <2>1, <2>2, <2>3, <2>4, ClaimKindsNext, Zenon DEF ClaimsByKind
  <1>8. ASSUME NEW c \in Claims(f)', NEW d \in Claims(f)' PROVE c = d
    <2>1. Pre(c) = Pre(d)
      BY <1>7 DEF ClaimsBacked
    <2> QED BY <1>7, <2>1
  <1>9. ASSUME NEW c \in Claims(f)' PROVE Claims(f) # {}
    BY <1>7, Zenon
  <1> QED BY <1>8, <1>9, Zenon DEF ClaimsBacked

\* Polling: the reply a thread takes off the list becomes its hold, or is gone
\* (wait_for_lock_reply).  Whose request the reply answered does not matter.
LEMMA PollClaims ==
    ASSUME Typed, ClaimsBacked, NEW t \in Threads, wait_for_lock_reply(t)
    PROVE  ClaimsBacked'
  <1> DEFINE h == HostOf[t]
             list == unprocessed_mess_list[h]
             p == call[t].page
  <1>1. h \in Hosts /\ list \in Seq(PageLockReply)
    BY CallerAssumption, Zenon DEF Typed, TypeOK
  <1>2. PICK i \in DOMAIN list :
          /\ list[i].page = p
          /\ unprocessed_mess_list' = [unprocessed_mess_list EXCEPT ![h] = Without(list, i)]
          /\ holds' = IF call[t].lock_type # UNLOCK /\ list[i].reply_type = "LOCK_SUCCESS"
                      THEN [holds EXCEPT ![t] = @ \cup {p}] ELSE holds
    BY Zenon DEF wait_for_lock_reply, PageLockReplyFilter
  <1>3. UNCHANGED <<page_lock_hash, request_link, reply_link>>
    BY Zenon DEF wait_for_lock_reply, server, links
  <1> DEFINE took == list[i].reply_type = "LOCK_SUCCESS"
             Pre(c) == IF c[1] = "stored" /\ c[2] = h /\ c[3] >= i
                       THEN <<"stored", h, c[3] + 1>>
                       ELSE IF c = <<"hold", t, p>> /\ took
                            THEN <<"stored", h, i>> ELSE c
  <1>4. i \in Nat \ {0}
    BY <1>1, <1>2
  <1>5. \A g \in Hosts : \A j \in DOMAIN unprocessed_mess_list'[g] :
          \/ /\ g # h /\ j \in DOMAIN unprocessed_mess_list[g]
             /\ unprocessed_mess_list'[g][j] = unprocessed_mess_list[g][j]
          \/ /\ g = h /\ j \in Nat /\ j < i /\ j \in DOMAIN list
             /\ unprocessed_mess_list'[g][j] = list[j]
          \/ /\ g = h /\ j \in Nat /\ j >= i /\ j + 1 \in DOMAIN list
             /\ unprocessed_mess_list'[g][j] = list[j + 1]
    <2>1. \A j \in DOMAIN Without(list, i) :
            /\ j \in Nat \ {0}
            /\ \/ j < i /\ j \in DOMAIN list /\ Without(list, i)[j] = list[j]
               \/ j >= i /\ j + 1 \in DOMAIN list /\ Without(list, i)[j] = list[j + 1]
      BY <1>1, <1>2, WithoutIndex
    <2>2. unprocessed_mess_list \in [Hosts -> Seq(PageLockReply)]
      BY Zenon DEF Typed, TypeOK
    <2>3. /\ unprocessed_mess_list'[h] = Without(list, i)
          /\ \A g \in Hosts : g # h => unprocessed_mess_list'[g] = unprocessed_mess_list[g]
      <3> HIDE DEF h, list
      <3> QED BY <1>1, <1>2, <2>2, Zenon
    <2> HIDE DEF h, list
    <2> QED BY <2>1, <2>3, Zenon
  <1> SUFFICES ASSUME NEW f \in Folds
               PROVE  /\ \A c, d \in Claims(f)' : c = d
                      /\ Claims(f)' # {} =>
                           page_lock_hash[f] # NULL /\ page_lock_hash[f].lock_type = W_LOCK
    BY <1>3, Zenon DEF ClaimsBacked
  <1>6. ASSUME NEW c \in Claims(f)'
        PROVE  /\ Pre(c) \in Claims(f)
               /\ c = <<c[1], c[2], c[3]>>
               /\ c[1] = "stored" => c[3] \in Nat
    <2>1. CASE IsHold(c, f)'
      <3> PICK u \in Threads, q \in Pages :
                 c = <<"hold", u, q>> /\ q \in holds'[u] /\ cal_fold(q) = f
        BY <2>1, Zenon DEF IsHold
      <3>1. CASE q \in holds[u] /\ ~(c = <<"hold", t, p>> /\ took)
        <4>1. IsHold(c, f)
          BY <3>1, Zenon DEF IsHold
        <4> QED BY <3>1, <4>1, ClaimKinds, Zenon DEF ClaimsByKind
      <3>2. CASE c = <<"hold", t, p>> /\ took
        <4>1. cal_fold(p) = f
          BY <3>2
        <4>2. GrantOf(list[i], f)
          BY <4>1, <3>2, <1>2, Zenon DEF GrantOf
        <4>3. IsStored(<<"stored", h, i>>, f)
          BY <1>1, <1>2, <4>2, Zenon DEF IsStored
        <4> QED BY <3>2, <4>3, ClaimKinds DEF ClaimsByKind
      <3>3. q \notin holds[u] => u = t /\ q = p /\ took
        BY <1>2, Zenon DEF Typed, TypeOK
      <3> QED BY <3>1, <3>2, <3>3, Zenon
    <2>2. CASE IsUnlock(c, f)'
      <3>1. IsUnlock(c, f)
        BY <2>2, <1>3, Zenon DEF IsUnlock, UnlockOf
      <3>2. c = <<c[1], c[2], c[3]>> /\ c[1] = "unlock"
        BY <3>1 DEF IsUnlock
      <3>3. Pre(c) = c
        BY <3>2
      <3>4. c \in Claims(f)
        BY <3>1, ClaimKinds, Zenon DEF ClaimsByKind
      <3> HIDE DEF Pre
      <3> QED BY <3>2, <3>3, <3>4, Zenon
    <2>3. CASE IsSent(c, f)'
      <3>1. IsSent(c, f)
        BY <2>3, <1>3, Zenon DEF IsSent, GrantOf
      <3>2. c = <<c[1], c[2], c[3]>> /\ c[1] = "sent"
        BY <3>1 DEF IsSent
      <3>3. Pre(c) = c
        BY <3>2
      <3>4. c \in Claims(f)
        BY <3>1, ClaimKinds, Zenon DEF ClaimsByKind
      <3> HIDE DEF Pre
      <3> QED BY <3>2, <3>3, <3>4, Zenon
    <2>4. CASE IsStored(c, f)'
      <3> PICK g \in Hosts : \E j \in DOMAIN unprocessed_mess_list'[g] :
                 c = <<"stored", g, j>> /\ GrantOf(unprocessed_mess_list'[g][j], f)
        BY <2>4, Zenon DEF IsStored, GrantOf
      <3> PICK j \in DOMAIN unprocessed_mess_list'[g] :
                 c = <<"stored", g, j>> /\ GrantOf(unprocessed_mess_list'[g][j], f)
        OBVIOUS
      <3>1. CASE /\ g # h /\ j \in DOMAIN unprocessed_mess_list[g]
                 /\ unprocessed_mess_list'[g][j] = unprocessed_mess_list[g][j]
        <4>1. IsStored(c, f) /\ j \in Nat
          BY <3>1 DEF IsStored, Typed, TypeOK
        <4> QED BY <3>1, <4>1, ClaimKinds, Zenon DEF ClaimsByKind
      <3>2. CASE /\ g = h /\ j \in Nat /\ j < i /\ j \in DOMAIN list
                 /\ unprocessed_mess_list'[g][j] = list[j]
        <4>1. IsStored(c, f)
          BY <3>2, <1>1, Zenon DEF IsStored
        <4>2. c \in Claims(f)
          BY <4>1, ClaimKinds, Zenon DEF ClaimsByKind
        <4>3. c = <<c[1], c[2], c[3]>> /\ c[1] = "stored" /\ c[3] = j
          OBVIOUS
        <4> HIDE DEF h, list, p, took
        <4>4. Pre(c) = c
          BY <3>2, <1>4, <4>3
        <4> HIDE DEF Pre
        <4> QED BY <3>2, <4>2, <4>3, <4>4, Zenon
      <3>3. CASE /\ g = h /\ j \in Nat /\ j >= i /\ j + 1 \in DOMAIN list
                 /\ unprocessed_mess_list'[g][j] = list[j + 1]
        <4>1. IsStored(<<"stored", h, j + 1>>, f)
          BY <3>3, <1>1, Zenon DEF IsStored
        <4>2. <<"stored", h, j + 1>> \in Claims(f)
          BY <4>1, ClaimKinds, Zenon DEF ClaimsByKind
        <4>3. /\ c = <<c[1], c[2], c[3]>> /\ c[1] = "stored"
              /\ c[2] = g /\ c[3] = j
          OBVIOUS
        <4> HIDE DEF h, list, p, took
        <4>4. Pre(c) = <<"stored", h, j + 1>>
          BY <3>3, <1>4, <4>3, Zenon
        <4> HIDE DEF Pre
        <4> QED BY <3>3, <4>2, <4>3, <4>4, Zenon
      <3> QED BY <1>5, <3>1, <3>2, <3>3, Zenon
    <2> HIDE DEF Pre
    <2> QED BY <2>1, <2>2, <2>3, <2>4, ClaimKindsNext, Zenon DEF ClaimsByKind
  <1> HIDE DEF took, p, h, list
  <1>7. ASSUME NEW c \in Claims(f)', NEW d \in Claims(f)' PROVE c = d
    <2>1. Pre(c) = Pre(d)
      BY <1>6, Zenon DEF ClaimsBacked
    <2> QED BY <1>4, <1>6, <2>1
  <1>8. ASSUME NEW c \in Claims(f)' PROVE Claims(f) # {}
    BY <1>6, Zenon
  <1> QED BY <1>7, <1>8, Zenon DEF ClaimsBacked

\* Serving a request (lock_request_callback): an UNLOCK uses up the only claim
\* on the entry, a refusal adds none, and a grant finds the entry without one.
LEMMA CallbackClaims ==
    ASSUME WriteOnlyCallers, Typed, ClaimsBacked, NEW h \in Hosts,
           lock_request_callback(h)
    PROVE  ClaimsBacked'
  <1> DEFINE request == Head(request_link[h])
             lt == request.lock_type
             e == cal_fold(request.page)
             o == check_lock_request(h, lt, page_lock_hash[e])
             reply == [page |-> request.page, reply_type |-> o.reply_type,
                       thread |-> request.thread]
             n == Len(reply_link[h]) + 1
             Pre(c) == IF c[1] = "unlock" /\ c[2] = h
                       THEN <<"unlock", h, c[3] + 1>> ELSE c
  <1>1. /\ request_link[h] # <<>>
        /\ request_link' = [request_link EXCEPT ![h] = Tail(@)]
        /\ page_lock_hash' = [page_lock_hash EXCEPT ![e] = o.entry]
        /\ reply_link' = sendMessage(reply_link, h, "reply", reply)
        /\ UNCHANGED <<unprocessed_mess_list, holds>>
    BY Zenon DEF lock_request_callback, clients
  <1>2. /\ request_link \in [Hosts -> Seq(PageLockRequest)]
        /\ request_link[h] \in Seq(PageLockRequest)
        /\ reply_link \in [Hosts -> Seq(PageLockReply)]
        /\ page_lock_hash \in [Folds -> QuietEntry \cup {NULL}]
    BY Zenon DEF Typed, TypeOK
  <1>3. /\ request \in PageLockRequest
        /\ 1 \in DOMAIN request_link[h] /\ request_link[h][1] = request
    BY <1>1, <1>2, TailIndex, Zenon
  <1>4. lt \in {W_LOCK, UNLOCK} /\ lt \in PageLockType
    BY <1>3, Zenon DEF Typed, WriteOnlyCallers, PageLockRequest
  <1>5. e \in Folds /\ page_lock_hash[e] \in QuietEntry \cup {NULL}
    BY <1>2, <1>3, FoldType, Zenon DEF PageLockRequest
  <1>6. o.entry \in QuietEntry /\ o.reply_type \in PageReplyType
    BY <1>4, <1>5, CheckType, Zenon
  <1>7. reply \in PageLockReply
    BY <1>3, <1>6, Zenon DEF PageLockReply, PageLockRequest
  <1>8. \A g \in Hosts : \A i \in DOMAIN request_link'[g] :
          \/ /\ g # h /\ i \in DOMAIN request_link[g]
             /\ request_link'[g][i] = request_link[g][i]
          \/ /\ g = h /\ i \in Nat \ {0} /\ i + 1 \in DOMAIN request_link[h]
             /\ request_link'[g][i] = request_link[h][i + 1]
    BY <1>1, <1>2, PopIndex, SMTT(30)
  <1>9. \A g \in Hosts : \A i \in DOMAIN reply_link'[g] :
          \/ i \in DOMAIN reply_link[g] /\ reply_link'[g][i] = reply_link[g][i]
          \/ g = h /\ i = n /\ reply_link'[g][i] = reply
    <2>1. reply_link' = sendMessage(reply_link, h, "reply", reply)
      BY <1>1, Zenon
    <2>2. reply_link \in [Hosts -> Seq(PageLockReply)]
      BY <1>2, Zenon
    <2> HIDE DEF reply
    <2> QED BY <2>1, <2>2, <1>7, SendIndex
  <1>10. /\ page_lock_hash'[e] = o.entry /\ o.entry # NULL
         /\ \A f \in Folds : f # e => page_lock_hash'[f] = page_lock_hash[f]
    <2>1. o.entry # NULL
      BY <1>6, NullAssumption, Zenon DEF QuietEntry
    <2> HIDE DEF e, o
    <2> QED BY <2>1, <1>1, <1>2, <1>5, Zenon
  <1> SUFFICES ASSUME NEW f \in Folds
               PROVE  /\ \A c, d \in Claims(f)' : c = d
                      /\ Claims(f)' # {} =>
                           page_lock_hash'[f] # NULL /\ page_lock_hash'[f].lock_type = W_LOCK
    BY Zenon DEF ClaimsBacked
  <1>11. GrantOf(reply, f) <=> o.reply_type = "LOCK_SUCCESS" /\ f = e
    BY Zenon DEF GrantOf
  <1>12. lt = UNLOCK /\ f = e => <<"unlock", h, 1>> \in Claims(f)
    <2>1. lt = UNLOCK /\ f = e => UnlockOf(request_link[h][1], f)
      BY <1>3, Zenon DEF UnlockOf
    <2> HIDE DEF lt, e
    <2> QED BY <2>1, <1>3, ClaimKinds, Zenon DEF ClaimsByKind, IsUnlock
  <1> HIDE DEF request, lt, e, o, reply, n
  <1>13. ASSUME NEW c \in Claims(f)'
         PROVE  \/ c = <<"sent", h, n>> /\ GrantOf(reply, f)
                \/ /\ Pre(c) \in Claims(f)
                   /\ Pre(c) # <<"unlock", h, 1>>
                   /\ c = <<c[1], c[2], c[3]>>
                   /\ c[1] = "unlock" => c[3] \in Nat \ {0}
    <2>1. CASE IsHold(c, f)'
      <3>1. IsHold(c, f)
        BY <2>1, <1>1, Zenon DEF IsHold
      <3>2. c = <<c[1], c[2], c[3]>> /\ c[1] = "hold"
        BY <3>1 DEF IsHold
      <3>3. Pre(c) = c
        BY <3>2, Zenon
      <3>4. c # <<"unlock", h, 1>>
        BY <3>2
      <3>5. c \in Claims(f)
        BY <3>1, ClaimKinds, Zenon DEF ClaimsByKind
      <3> HIDE DEF Pre
      <3> QED BY <3>2, <3>3, <3>4, <3>5, Zenon
    <2>2. CASE IsUnlock(c, f)'
      <3> PICK g \in Hosts : \E i \in DOMAIN request_link'[g] :
                 c = <<"unlock", g, i>> /\ UnlockOf(request_link'[g][i], f)
        BY <2>2, Zenon DEF IsUnlock, UnlockOf
      <3> PICK i \in DOMAIN request_link'[g] :
                 c = <<"unlock", g, i>> /\ UnlockOf(request_link'[g][i], f)
        OBVIOUS
      <3>1. CASE g # h
        <4>1. /\ i \in DOMAIN request_link[g]
              /\ request_link'[g][i] = request_link[g][i]
          BY <1>8, <3>1, Zenon
        <4>2. i \in Nat \ {0}
          BY <4>1, <1>2
        <4>3. IsUnlock(c, f)
          BY <4>1, Zenon DEF IsUnlock
        <4> QED BY <3>1, <4>2, <4>3, ClaimKinds, Zenon DEF ClaimsByKind
      <3>2. CASE g = h
        <4>1. /\ i \in Nat \ {0} /\ i + 1 \in DOMAIN request_link[h]
              /\ request_link'[g][i] = request_link[h][i + 1]
          BY <1>8, <3>2, Zenon
        <4>2. IsUnlock(<<"unlock", h, i + 1>>, f)
          BY <4>1, Zenon DEF IsUnlock
        <4>3. <<"unlock", h, i + 1>> \in Claims(f)
          BY <4>2, ClaimKinds, Zenon DEF ClaimsByKind
        <4>4. /\ c = <<c[1], c[2], c[3]>> /\ c[1] = "unlock"
              /\ c[2] = g /\ c[3] = i
          OBVIOUS
        <4>5. Pre(c) = <<"unlock", h, i + 1>>
          BY <3>2, <4>4, Zenon
        <4>6. Pre(c) # <<"unlock", h, 1>>
          BY <4>1, <4>5
        <4> HIDE DEF Pre
        <4> QED BY <4>1, <4>3, <4>4, <4>5, <4>6, Zenon
      <3> QED BY <3>1, <3>2, Zenon
    <2>3. CASE IsSent(c, f)'
      <3> PICK g \in Hosts : \E i \in DOMAIN reply_link'[g] :
                 c = <<"sent", g, i>> /\ GrantOf(reply_link'[g][i], f)
        BY <2>3, Zenon DEF IsSent, GrantOf
      <3> PICK i \in DOMAIN reply_link'[g] :
                 c = <<"sent", g, i>> /\ GrantOf(reply_link'[g][i], f)
        OBVIOUS
      <3>1. CASE i \in DOMAIN reply_link[g] /\ reply_link'[g][i] = reply_link[g][i]
        <4>1. IsSent(c, f)
          BY <3>1, Zenon DEF IsSent
        <4> QED BY <4>1, ClaimKinds, Zenon DEF ClaimsByKind
      <3>2. CASE g = h /\ i = n /\ reply_link'[g][i] = reply
        BY <3>2, Zenon
      <3> QED BY <1>9, <3>1, <3>2, Zenon
    <2>4. CASE IsStored(c, f)'
      <3>1. IsStored(c, f)
        BY <2>4, <1>1, Zenon DEF IsStored, GrantOf
      <3>2. c = <<c[1], c[2], c[3]>> /\ c[1] = "stored"
        BY <3>1 DEF IsStored
      <3>3. Pre(c) = c
        BY <3>2, Zenon
      <3>4. c # <<"unlock", h, 1>>
        BY <3>2
      <3>5. c \in Claims(f)
        BY <3>1, ClaimKinds, Zenon DEF ClaimsByKind
      <3> HIDE DEF Pre
      <3> QED BY <3>2, <3>3, <3>4, <3>5, Zenon
    <2> HIDE DEF Pre
    <2> QED BY <2>1, <2>2, <2>3, <2>4, ClaimKindsNext, Zenon DEF ClaimsByKind
  <1>14. CASE GrantOf(reply, f)
    <2>1. f = e /\ o.reply_type = "LOCK_SUCCESS"
      BY <1>11, <1>14, Zenon
    <2>2. lt = UNLOCK => page_lock_hash[e] # NULL
      BY <1>12, <2>1, Zenon DEF ClaimsBacked
    <2>3. lt = W_LOCK /\ (page_lock_hash[e] # NULL => page_lock_hash[e].lock_type # W_LOCK)
      <3>1. CASE page_lock_hash[e] = NULL
        BY <3>1, <2>2, <1>4, Zenon
      <3>2. CASE page_lock_hash[e] # NULL
        <4>1. lt # UNLOCK
          BY <3>2, <2>1, <1>5, CheckUnlock, Zenon DEF o
        <4>2. Granted(page_lock_hash[e], lt)
          BY <3>2, <2>1, <4>1, <1>4, <1>5, CheckRefuse, Zenon DEF o
        <4>3. lt = W_LOCK
          BY <4>1, <1>4, Zenon
        <4> QED BY <3>2, <4>2, <4>3, <1>5, WriteGranted DEF W_LOCK, UNLOCK
      <3> QED BY <3>1, <3>2, Zenon
    <2>4. Claims(f) = {}
      BY <2>1, <2>3, Zenon DEF ClaimsBacked
    <2>5. o.entry.lock_type = W_LOCK
      <3>1. CASE page_lock_hash[e] = NULL
        BY <3>1, <2>3, <1>4, CheckInsert, Zenon DEF o
      <3>2. CASE page_lock_hash[e] # NULL
        <4>1. lt # UNLOCK
          BY <3>2, <2>1, <1>5, CheckUnlock, Zenon DEF o
        <4>2. Granted(page_lock_hash[e], lt)
          BY <3>2, <2>1, <4>1, <1>4, <1>5, CheckRefuse, Zenon DEF o
        <4> QED BY <3>2, <4>1, <4>2, <2>3, <1>4, <1>5, CheckGrant, Zenon DEF o
      <3> QED BY <3>1, <3>2, Zenon
    <2>6. \A c \in Claims(f)' : c = <<"sent", h, n>>
      BY <2>4, <1>13, Zenon
    <2> QED BY <2>1, <2>5, <2>6, <1>10, Zenon
  <1>15. CASE ~GrantOf(reply, f)
    <2>1. ASSUME NEW c \in Claims(f)', NEW d \in Claims(f)' PROVE c = d
      <3>1. Pre(c) = Pre(d)
        BY <1>13, <1>15 DEF ClaimsBacked
      <3> QED BY <1>13, <1>15, <3>1
    <2>2. ASSUME NEW c \in Claims(f)'
          PROVE  page_lock_hash'[f] # NULL /\ page_lock_hash'[f].lock_type = W_LOCK
      <3>1. Pre(c) \in Claims(f) /\ Pre(c) # <<"unlock", h, 1>>
        BY <1>13, <1>15, Zenon
      <3>2. page_lock_hash[f] # NULL /\ page_lock_hash[f].lock_type = W_LOCK
        BY <3>1, Zenon DEF ClaimsBacked
      <3>3. CASE f # e
        BY <3>2, <3>3, <1>10, Zenon
      <3>4. CASE f = e
        <4>1. lt # UNLOCK
          BY <3>1, <3>4, <1>12, Zenon DEF ClaimsBacked
        <4>2. lt = W_LOCK
          BY <4>1, <1>4, Zenon
        <4>3. ~Granted(page_lock_hash[e], lt)
          BY <3>2, <3>4, <4>2, <1>5, WriteGranted DEF W_LOCK, UNLOCK
        <4>4. o.entry.lock_type = W_LOCK
          BY <3>2, <3>4, <4>1, <4>3, <1>4, <1>5, CheckRefuse, Zenon DEF o
        <4> QED BY <3>4, <4>4, <1>10, Zenon
      <3> QED BY <3>3, <3>4, Zenon
    <2> QED BY <2>1, <2>2, Zenon
  <1> QED BY <1>14, <1>15, Zenon

-----------------------------------------------------------------------------
\* Every step keeps ClaimsBacked; one case per action of Next.
LEMMA StepClaims ==
    ASSUME WriteOnlyCallers
    PROVE  Typed /\ ClaimsBacked /\ [Next]_vars => ClaimsBacked'
  <1> SUFFICES ASSUME Typed, ClaimsBacked, [Next]_vars PROVE ClaimsBacked'
    OBVIOUS
  <1>1. ASSUME UNCHANGED <<page_lock_hash, request_link, reply_link,
                           unprocessed_mess_list, holds>>
        PROVE  ClaimsBacked'
    <2>1. ASSUME NEW f \in Folds PROVE Claims(f)' = Claims(f)
      BY <1>1, SMTT(30) DEF Claims, HoldClaims, UnlockClaims, SentClaims, StoredClaims,
                  UnlockOf, GrantOf
    <2> QED BY <1>1, <2>1, ShrinkClaims, Zenon
  <1>2. CASE register_recive_handler \/ RegisterArg \/ UNCHANGED vars
    BY <1>1, <1>2, Zenon DEF register_recive_handler, RegisterArg, vars, server, links, clients
  <1>3. ASSUME NEW t \in Threads, Lock(t) \/ Unlock(t) PROVE ClaimsBacked'
    <2>1. UNLOCK \notin CallerTypes
      BY CallerAssumption DEF R_LOCK, W_LOCK, UNLOCK
    <2> PICK p \in Pages, lt \in CallerTypes \cup {UNLOCK} :
               request_page_lock(t, p, lt) /\ (lt = UNLOCK => p \in holds[t])
      BY <1>3, <2>1, Zenon DEF Lock, Unlock, WriteOnlyCallers
    <2> QED BY RequestClaims, Zenon
  <1>4. ASSUME NEW h \in Hosts, ParkRequest(h) \/ CallbackWithoutArg(h)
        PROVE  ClaimsBacked'
    <2>1. /\ request_link[h] # <<>>
          /\ request_link' = [request_link EXCEPT ![h] = Tail(@)]
          /\ UNCHANGED <<page_lock_hash, reply_link, unprocessed_mess_list, holds>>
      BY <1>4, Zenon DEF ParkRequest, CallbackWithoutArg, clients
    <2> QED BY <2>1, DropRequestClaims, Zenon
  <1>5. ASSUME NEW h \in Hosts, lock_request_callback(h) PROVE ClaimsBacked'
    BY <1>5, CallbackClaims, Zenon
  <1>6. ASSUME NEW h \in Hosts, StoreReply(h) PROVE ClaimsBacked'
    BY <1>6, StoreClaims, Zenon
  <1>7. ASSUME NEW t \in Threads, wait_for_lock_reply(t) PROVE ClaimsBacked'
    BY <1>7, PollClaims, Zenon
  <1>8. ASSUME NEW h \in Hosts, BreakRequestLink(h) \/ BreakReplyLink(h)
        PROVE  ClaimsBacked'
    BY <1>8, BreakClaims, Zenon
  <1> QED BY <1>2, <1>3, <1>4, <1>5, <1>6, <1>7, <1>8, Zenon DEF Next, Dispatch

\* At most one claim per table entry, messages in flight included, and a write
\* locked entry behind it, for callers that take write locks only and unlock
\* what they hold.
THEOREM ClaimsBackedAlways ==
    ASSUME WriteOnlyCallers PROVE Spec => []ClaimsBacked
  <1>1. Init => ClaimsBacked
    <2> SUFFICES ASSUME Init, NEW f \in Folds, NEW c \in Claims(f) PROVE FALSE
      BY Zenon DEF ClaimsBacked
    <2>1. /\ \A t \in Threads : holds[t] = {}
          /\ \A h \in Hosts : /\ DOMAIN request_link[h] = {}
                              /\ DOMAIN reply_link[h] = {}
                              /\ DOMAIN unprocessed_mess_list[h] = {}
      BY DEF Init
    <2> QED BY <2>1, ClaimKinds, Zenon DEF ClaimsByKind, IsHold, IsUnlock, IsSent, IsStored
  <1> QED BY <1>1, StepClaims, TypedInvariant, PTL DEF Spec

\* No two threads ever hold pages of the same table entry, for every number of
\* hosts, threads and pages, through swapped replies, shared folds, the
\* registration race and lost connections.
THEOREM ExclusiveHoldersAlways ==
    ASSUME WriteOnlyCallers PROVE Spec => []ExclusiveHolders
  <1>1. Typed /\ ClaimsBacked => ExclusiveHolders
    <2> SUFFICES ASSUME Typed, ClaimsBacked, NEW t \in Threads, NEW u \in Threads,
                        NEW p \in holds[t], NEW q \in holds[u],
                        cal_fold(p) = cal_fold(q)
                 PROVE  t = u /\ p = q
      BY Zenon DEF ExclusiveHolders
    <2>1. p \in Pages /\ q \in Pages
      BY Zenon DEF Typed, TypeOK
    <2>2. cal_fold(p) \in Folds
      BY <2>1, FoldType, Zenon
    <2>3. /\ <<"hold", t, p>> \in Claims(cal_fold(p))
          /\ <<"hold", u, q>> \in Claims(cal_fold(p))
      BY <2>1, ClaimKinds, Zenon DEF ClaimsByKind, IsHold
    <2> QED BY <2>2, <2>3, Zenon DEF ClaimsBacked
  <1> QED BY <1>1, ClaimsBackedAlways, TypedInvariant, PTL

-----------------------------------------------------------------------------
(* One thread per host: at most one message is outstanding for a host. *)

OneThreadPerHost == \A t, u \in Threads : HostOf[t] = HostOf[u] => t = u

ReplyTo(t, r) == [page |-> call[t].page, reply_type |-> r, thread |-> t]

\* Nothing travels for host h.
Silent(h) ==
    request_link[h] = <<>> /\ reply_link[h] = <<>> /\ unprocessed_mess_list[h] = <<>>

\* The call of thread t has its request on the link, its reply on the link, or
\* its reply in the list of the host.
Requesting(h, t) ==
    /\ request_link[h] = <<call[t]>> /\ reply_link[h] = <<>>
    /\ unprocessed_mess_list[h] = <<>>
Answering(h, t, r) ==
    /\ request_link[h] = <<>> /\ reply_link[h] = <<ReplyTo(t, r)>>
    /\ unprocessed_mess_list[h] = <<>>
Answered(h, t, r) ==
    /\ request_link[h] = <<>> /\ reply_link[h] = <<>>
    /\ unprocessed_mess_list[h] = <<ReplyTo(t, r)>>

Calling(h, t) == HostOf[t] = h /\ call[t] # NULL /\ call[t].thread = t

OutstandingAt(h) ==
    \/ Silent(h)
    \/ \E t \in Threads :
        /\ Calling(h, t)
        /\ \/ Requesting(h, t)
           \/ \E r \in PageReplyType : Answering(h, t, r) \/ Answered(h, t, r)

Outstanding == \A h \in Hosts : OutstandingAt(h)

\* A step that does not touch host g's messages and calls leaves it as it was.
LEMMA OutstandingElsewhere ==
    ASSUME NEW g \in Hosts, OutstandingAt(g),
           request_link'[g] = request_link[g], reply_link'[g] = reply_link[g],
           unprocessed_mess_list'[g] = unprocessed_mess_list[g],
           \A t \in Threads : HostOf[t] = g => call'[t] = call[t]
    PROVE  OutstandingAt(g)'
  <1>1. CASE Silent(g)
    BY <1>1, Zenon DEF Silent, OutstandingAt
  <1>2. CASE ~Silent(g)
    <2> PICK t \in Threads :
          /\ Calling(g, t)
          /\ \/ Requesting(g, t)
             \/ \E r \in PageReplyType : Answering(g, t, r) \/ Answered(g, t, r)
      BY <1>2, Zenon DEF OutstandingAt
    <2>1. call'[t] = call[t]
      BY Zenon DEF Calling
    <2>2. Calling(g, t)'
      BY <2>1, Zenon DEF Calling
    <2>3. Requesting(g, t) => Requesting(g, t)'
      BY <2>1, Zenon DEF Requesting
    <2>4. ASSUME NEW r
          PROVE  /\ Answering(g, t, r) => Answering(g, t, r)'
                 /\ Answered(g, t, r) => Answered(g, t, r)'
      BY <2>1, Zenon DEF Answering, Answered, ReplyTo
    <2> QED BY <2>2, <2>3, <2>4, Zenon DEF OutstandingAt
  <1> QED BY <1>1, <1>2, Zenon

\* With one thread per host, a thread outside request_page_lock has nothing
\* travelling for its host.
LEMMA IdleIsSilent ==
    ASSUME OneThreadPerHost, Outstanding, NEW t \in Threads, call[t] = NULL
    PROVE  Silent(HostOf[t])
  BY CallerAssumption DEF Outstanding, OutstandingAt, Calling, OneThreadPerHost

\* The request of a call is the only message of its host (request_page_lock).
LEMMA RequestOutstanding ==
    ASSUME OneThreadPerHost, Typed, Outstanding, NEW t \in Threads, NEW p \in Pages,
           NEW lt \in CallerTypes \cup {UNLOCK}, request_page_lock(t, p, lt)
    PROVE  Outstanding'
  <1> DEFINE m == [page |-> p, lock_type |-> lt, thread |-> t]
             h == HostOf[t]
  <1>1. h \in Hosts
    BY CallerAssumption, Zenon
  <1>2. Silent(h)
    BY IdleIsSilent, Zenon DEF request_page_lock
  <1>3. /\ request_link' = sendMessage(request_link, h, "request", m)
        /\ call' = [call EXCEPT ![t] = m]
        /\ UNCHANGED <<reply_link, unprocessed_mess_list>>
    BY Zenon DEF request_page_lock
  <1>4. m \in PageLockRequest
    BY CallerAssumption, Zenon DEF PageLockRequest, PageLockType, R_LOCK, W_LOCK
  <1>5. call'[t] = m /\ m # NULL /\ m.thread = t
    BY <1>3, <1>4, NullRequestAssumption, Zenon DEF Typed, TypeOK
  <1>6. ASSUME NEW g \in Hosts, g # h PROVE OutstandingAt(g)'
    <2>1. request_link'[g] = request_link[g]
      BY <1>3, <1>6, Zenon DEF sendMessage, Typed, TypeOK
    <2>2. \A u \in Threads : HostOf[u] = g => call'[u] = call[u]
      BY <1>3, <1>6, Zenon DEF Typed, TypeOK
    <2> HIDE DEF m, h
    <2> QED BY <1>3, <2>1, <2>2, OutstandingElsewhere, Zenon DEF Outstanding
  <1>7. OutstandingAt(h)'
    <2>1. CASE "request" \in link_up[h]
      <3>1. request_link'[h] = <<m>>
        <4>1. request_link' = [request_link EXCEPT ![h] = Append(@, m)]
          BY <1>3, <2>1, Zenon DEF sendMessage
        <4>2. request_link[h] = <<>>
          BY <1>2, Zenon DEF Silent
        <4> HIDE DEF m, h
        <4> QED BY <4>1, <4>2, <1>1 DEF Typed, TypeOK
      <3>2. Requesting(h, t)'
        BY <3>1, <1>2, <1>3, <1>5, Zenon DEF Silent, Requesting
      <3>3. Calling(h, t)'
        BY <1>5, Zenon DEF Calling
      <3> QED BY <3>2, <3>3, Zenon DEF OutstandingAt
    <2>2. CASE "request" \notin link_up[h]
      BY <2>2, <1>2, <1>3, Zenon DEF sendMessage, Silent, OutstandingAt
    <2> QED BY <2>1, <2>2, Zenon
  <1> QED BY <1>6, <1>7, Zenon DEF Outstanding

\* A request taken off the link is the only message of its host.
LEMMA RequestAlone ==
    ASSUME Outstanding, NEW h \in Hosts, request_link[h] # <<>>
    PROVE  \E t \in Threads : Calling(h, t) /\ Requesting(h, t)
  BY Zenon DEF Outstanding, OutstandingAt, Silent, Answering, Answered

\* A reply taken off the link is the only message of its host.
LEMMA ReplyAlone ==
    ASSUME Outstanding, NEW h \in Hosts, reply_link[h] # <<>>
    PROVE  \E t \in Threads, r \in PageReplyType : Calling(h, t) /\ Answering(h, t, r)
  BY Zenon DEF Outstanding, OutstandingAt, Silent, Requesting, Answered

\* A reply in the list is the only message of its host.
LEMMA StoredAlone ==
    ASSUME Outstanding, NEW h \in Hosts, unprocessed_mess_list[h] # <<>>
    PROVE  \E t \in Threads, r \in PageReplyType : Calling(h, t) /\ Answered(h, t, r)
  BY Zenon DEF Outstanding, OutstandingAt, Silent, Requesting, Answering

\* A request that is parked, or that meets a callback without its argument,
\* leaves nothing travelling (ParkRequest, CallbackWithoutArg).
LEMMA DropOutstanding ==
    ASSUME Typed, Outstanding, NEW h \in Hosts, request_link[h] # <<>>,
           request_link' = [request_link EXCEPT ![h] = Tail(@)],
           UNCHANGED <<reply_link, unprocessed_mess_list, call>>
    PROVE  Outstanding'
  <1> PICK t \in Threads : Calling(h, t) /\ Requesting(h, t)
    BY RequestAlone, Zenon
  <1>1. request_link'[h] = <<>>
    <2>1. request_link'[h] = Tail(<<call[t]>>)
      BY Zenon DEF Requesting, Typed, TypeOK
    <2> QED BY <2>1
  <1>2. OutstandingAt(h)'
    BY <1>1, Zenon DEF Requesting, Silent, OutstandingAt
  <1>3. ASSUME NEW g \in Hosts, g # h PROVE OutstandingAt(g)'
    <2>1. request_link'[g] = request_link[g]
      BY <1>3, Zenon DEF Typed, TypeOK
    <2> QED BY <2>1, OutstandingElsewhere, Zenon DEF Outstanding
  <1> QED BY <1>2, <1>3, Zenon DEF Outstanding

\* What lock_request_callback finds and does when it takes the one request of
\* host h: the reply, if its connection works, takes the place of the request.
LEMMA CallbackAlone ==
    ASSUME Typed, Outstanding, NEW h \in Hosts, lock_request_callback(h)
    PROVE  \E t \in Threads :
             LET m == call[t]
                 f == cal_fold(m.page)
                 o == check_lock_request(h, m.lock_type, page_lock_hash[f])
             IN  /\ Calling(h, t) /\ Requesting(h, t)
                 /\ m \in PageLockRequest
                 /\ m.lock_type \in CallerTypes \cup {UNLOCK}
                 /\ f \in Folds /\ page_lock_hash[f] \in QuietEntry \cup {NULL}
                 /\ o.reply_type \in PageReplyType
                 /\ page_lock_hash' = [page_lock_hash EXCEPT ![f] = o.entry]
                 /\ request_link' = [request_link EXCEPT ![h] = <<>>]
                 /\ reply_link' = IF "reply" \in link_up[h]
                                  THEN [reply_link EXCEPT ![h] = <<ReplyTo(t, o.reply_type)>>]
                                  ELSE reply_link
                 /\ UNCHANGED <<handler, parked, link_up, unprocessed_mess_list, call, holds>>
  <1> PICK t \in Threads : Calling(h, t) /\ Requesting(h, t)
    BY RequestAlone, Zenon DEF lock_request_callback
  <1> DEFINE m == call[t]
             f == cal_fold(m.page)
             o == check_lock_request(h, m.lock_type, page_lock_hash[f])
             reply == [page |-> m.page, reply_type |-> o.reply_type, thread |-> m.thread]
  <1>1. request_link[h] = <<m>> /\ Head(<<m>>) = m /\ Tail(<<m>>) = <<>>
    BY DEF Requesting
  <1>2. /\ page_lock_hash' = [page_lock_hash EXCEPT ![f] = o.entry]
        /\ reply_link' = sendMessage(reply_link, h, "reply", reply)
        /\ request_link' = [request_link EXCEPT ![h] = <<>>]
        /\ UNCHANGED <<handler, parked, link_up, unprocessed_mess_list, call, holds>>
    BY <1>1, Zenon DEF lock_request_callback, clients
  <1>3. m \in PageLockRequest /\ m.lock_type \in CallerTypes \cup {UNLOCK}
    <2>1. /\ Head(request_link[h]) \in PageLockRequest
          /\ Head(request_link[h]).lock_type \in CallerTypes \cup {UNLOCK}
      BY PopRequestTyped, Zenon DEF lock_request_callback
    <2> QED BY <2>1, <1>1, Zenon
  <1>4. f \in Folds /\ page_lock_hash[f] \in QuietEntry \cup {NULL}
    BY <1>3, FoldType, Zenon DEF Typed, PageLockRequest
  <1>5. o.reply_type \in PageReplyType
    BY <1>3, <1>4, CheckType, Zenon DEF PageLockRequest
  <1>6. reply = ReplyTo(t, o.reply_type)
    BY Zenon DEF ReplyTo, Calling
  <1>7. reply_link' = IF "reply" \in link_up[h]
                      THEN [reply_link EXCEPT ![h] = <<reply>>] ELSE reply_link
    <2>1. Append(reply_link[h], reply) = <<reply>>
      <3>1. reply_link[h] = <<>>
        BY Zenon DEF Requesting
      <3> HIDE DEF reply
      <3> QED BY <3>1
    <2> HIDE DEF reply
    <2> QED BY <1>2, <2>1, Zenon DEF sendMessage
  <1> HIDE DEF f, o, reply
  <1> QED BY <1>2, <1>3, <1>4, <1>5, <1>6, <1>7, Zenon DEF f, o

\* The reply is the only message of its host (lock_request_callback).
LEMMA CallbackOutstanding ==
    ASSUME Typed, Outstanding, NEW h \in Hosts, lock_request_callback(h)
    PROVE  Outstanding'
  <1> PICK t \in Threads, r \in PageReplyType :
         /\ Calling(h, t) /\ Requesting(h, t)
         /\ request_link' = [request_link EXCEPT ![h] = <<>>]
         /\ reply_link' = IF "reply" \in link_up[h]
                          THEN [reply_link EXCEPT ![h] = <<ReplyTo(t, r)>>]
                          ELSE reply_link
         /\ UNCHANGED <<unprocessed_mess_list, call>>
    BY CallbackAlone, Zenon
  <1>1. request_link'[h] = <<>> /\ reply_link'[h] \in {<<>>, <<ReplyTo(t, r)>>}
    BY Zenon DEF Typed, TypeOK, Requesting
  <1>2. OutstandingAt(h)'
    <2>1. CASE reply_link'[h] = <<>>
      BY <1>1, <2>1, Zenon DEF Requesting, Silent, OutstandingAt
    <2>2. CASE reply_link'[h] = <<ReplyTo(t, r)>>
      <3>1. Calling(h, t)'
        BY Zenon DEF Calling
      <3>2. Answering(h, t, r)'
        BY <1>1, <2>2, Zenon DEF Requesting, Answering, ReplyTo
      <3> QED BY <3>1, <3>2, Zenon DEF OutstandingAt
    <2> QED BY <1>1, <2>1, <2>2, Zenon
  <1>3. ASSUME NEW g \in Hosts, g # h PROVE OutstandingAt(g)'
    <2>1. request_link'[g] = request_link[g] /\ reply_link'[g] = reply_link[g]
      BY <1>3, Zenon DEF Typed, TypeOK
    <2> QED BY <2>1, OutstandingElsewhere, Zenon DEF Outstanding
  <1> QED BY <1>2, <1>3, Zenon DEF Outstanding

\* What StoreReply finds and does: the one reply of host h moves to its list.
LEMMA StoreAlone ==
    ASSUME Typed, Outstanding, NEW h \in Hosts, StoreReply(h)
    PROVE  \E t \in Threads, r \in PageReplyType :
             /\ Calling(h, t) /\ Answering(h, t, r)
             /\ reply_link' = [reply_link EXCEPT ![h] = <<>>]
             /\ unprocessed_mess_list' =
                    [unprocessed_mess_list EXCEPT ![h] = <<ReplyTo(t, r)>>]
             /\ UNCHANGED <<server, request_link, link_up, call, holds>>
  <1> PICK t \in Threads, r \in PageReplyType : Calling(h, t) /\ Answering(h, t, r)
    BY ReplyAlone, Zenon DEF StoreReply
  <1> DEFINE m == ReplyTo(t, r)
  <1>1. reply_link[h] = <<m>> /\ unprocessed_mess_list[h] = <<>>
    BY Zenon DEF Answering
  <1>2. Head(<<m>>) = m /\ Tail(<<m>>) = <<>> /\ Append(<<>>, m) = <<m>>
    OBVIOUS
  <1>3. /\ reply_link' = [reply_link EXCEPT ![h] = <<>>]
        /\ unprocessed_mess_list' = [unprocessed_mess_list EXCEPT ![h] = <<m>>]
    <2> HIDE DEF m
    <2> QED BY <1>1, <1>2, Zenon DEF StoreReply
  <1> QED BY <1>3, Zenon DEF StoreReply

\* The stored reply is the only message of its host (StoreReply).
LEMMA StoreOutstanding ==
    ASSUME Typed, Outstanding, NEW h \in Hosts, StoreReply(h)
    PROVE  Outstanding'
  <1> PICK t \in Threads, r \in PageReplyType :
         /\ Calling(h, t) /\ Answering(h, t, r)
         /\ reply_link' = [reply_link EXCEPT ![h] = <<>>]
         /\ unprocessed_mess_list' =
                [unprocessed_mess_list EXCEPT ![h] = <<ReplyTo(t, r)>>]
         /\ UNCHANGED <<server, request_link, link_up, call, holds>>
    BY StoreAlone, Zenon
  <1>1. OutstandingAt(h)'
    <2>1. Calling(h, t)'
      BY Zenon DEF Calling
    <2>2. Answered(h, t, r)'
      BY Zenon DEF Answering, Answered, ReplyTo, Typed, TypeOK
    <2> QED BY <2>1, <2>2, Zenon DEF OutstandingAt
  <1>2. ASSUME NEW g \in Hosts, g # h PROVE OutstandingAt(g)'
    <2>1. /\ reply_link'[g] = reply_link[g]
          /\ unprocessed_mess_list'[g] = unprocessed_mess_list[g]
      BY <1>2, Zenon DEF Typed, TypeOK
    <2> QED BY <2>1, OutstandingElsewhere, Zenon DEF Outstanding
  <1> QED BY <1>1, <1>2, Zenon DEF Outstanding

\* What wait_for_lock_reply finds and does, with one thread per host: the one
\* message in the list is the reply to the thread's own call.
LEMMA PollAlone ==
    ASSUME OneThreadPerHost, Typed, Outstanding, NEW t \in Threads,
           wait_for_lock_reply(t)
    PROVE  \E r \in PageReplyType :
             /\ Calling(HostOf[t], t) /\ Answered(HostOf[t], t, r)
             /\ unprocessed_mess_list' = [unprocessed_mess_list EXCEPT ![HostOf[t]] = <<>>]
             /\ holds' = IF call[t].lock_type # UNLOCK /\ r = "LOCK_SUCCESS"
                         THEN [holds EXCEPT ![t] = @ \cup {call[t].page}] ELSE holds
             /\ call' = [call EXCEPT ![t] = NULL]
             /\ UNCHANGED <<server, links>>
  <1> DEFINE h == HostOf[t]
             list == unprocessed_mess_list[h]
  <1>1. h \in Hosts
    BY CallerAssumption, Zenon
  <1> PICK i \in DOMAIN list :
        /\ unprocessed_mess_list' = [unprocessed_mess_list EXCEPT ![h] = Without(list, i)]
        /\ holds' = IF call[t].lock_type # UNLOCK /\ list[i].reply_type = "LOCK_SUCCESS"
                    THEN [holds EXCEPT ![t] = @ \cup {call[t].page}] ELSE holds
    BY Zenon DEF wait_for_lock_reply
  <1>2. list # <<>>
    <2>1. i \in DOMAIN list /\ DOMAIN <<>> = {}
      OBVIOUS
    <2> QED BY <2>1, Zenon
  <1> PICK u \in Threads, r \in PageReplyType : Calling(h, u) /\ Answered(h, u, r)
    BY <1>1, <1>2, StoredAlone, Zenon
  <1>3. u = t
    BY Zenon DEF Calling, OneThreadPerHost
  <1>4. list = <<ReplyTo(t, r)>>
    BY <1>3, Zenon DEF Answered
  <1>5. i = 1 /\ list[i] = ReplyTo(t, r) /\ Len(list) = 1
    BY <1>4
  <1>6. list[i].reply_type = r
    BY <1>5 DEF ReplyTo
  <1>7. Without(list, i) = <<>>
    <2>1. DOMAIN Without(list, i) = {}
      BY <1>5 DEF Without
    <2>2. Without(list, i) \in Seq(PageLockReply)
      BY <1>1, WithoutIndex, Zenon DEF Typed, TypeOK
    <2> HIDE DEF list
    <2> QED BY <2>1, <2>2
  <1> HIDE DEF h, list
  <1>8. holds' = IF call[t].lock_type # UNLOCK /\ r = "LOCK_SUCCESS"
                 THEN [holds EXCEPT ![t] = @ \cup {call[t].page}] ELSE holds
    BY <1>6, Zenon
  <1>9. unprocessed_mess_list' = [unprocessed_mess_list EXCEPT ![h] = <<>>]
    BY <1>7, Zenon
  <1>10. call' = [call EXCEPT ![t] = NULL] /\ UNCHANGED <<server, links>>
    BY Zenon DEF wait_for_lock_reply
  <1>11. Calling(h, t) /\ Answered(h, t, r)
    BY <1>3, Zenon
  <1> QED BY <1>8, <1>9, <1>10, <1>11, Zenon DEF h

\* A call that returns leaves nothing behind (wait_for_lock_reply).
LEMMA PollOutstanding ==
    ASSUME OneThreadPerHost, Typed, Outstanding, NEW t \in Threads,
           wait_for_lock_reply(t)
    PROVE  Outstanding'
  <1> DEFINE h == HostOf[t]
  <1>1. h \in Hosts
    BY CallerAssumption, Zenon
  <1> PICK r \in PageReplyType :
        /\ Calling(h, t) /\ Answered(h, t, r)
        /\ unprocessed_mess_list' = [unprocessed_mess_list EXCEPT ![h] = <<>>]
        /\ call' = [call EXCEPT ![t] = NULL]
        /\ UNCHANGED <<server, links>>
    BY PollAlone, Zenon
  <1>2. OutstandingAt(h)'
    BY <1>1, Zenon DEF Answered, Silent, OutstandingAt, Typed, TypeOK, links
  <1>3. ASSUME NEW g \in Hosts, g # h PROVE OutstandingAt(g)'
    <2>1. unprocessed_mess_list'[g] = unprocessed_mess_list[g]
      BY <1>3, Zenon DEF Typed, TypeOK
    <2>2. \A u \in Threads : HostOf[u] = g => call'[u] = call[u]
      BY <1>3, Zenon DEF Typed, TypeOK
    <2> HIDE DEF h
    <2> QED BY <2>1, <2>2, OutstandingElsewhere, Zenon DEF Outstanding, links
  <1> QED BY <1>2, <1>3, Zenon DEF Outstanding

\* A connection that breaks takes the message on it (BreakRequestLink,
\* BreakReplyLink).
LEMMA BreakOutstanding ==
    ASSUME Typed, Outstanding, NEW h \in Hosts,
           BreakRequestLink(h) \/ BreakReplyLink(h)
    PROVE  Outstanding'
  <1>1. UNCHANGED <<unprocessed_mess_list, call>>
    BY Zenon DEF BreakRequestLink, BreakReplyLink, clients
  <1>2. ASSUME NEW g \in Hosts, g # h PROVE OutstandingAt(g)'
    <2>1. request_link'[g] = request_link[g] /\ reply_link'[g] = reply_link[g]
      BY <1>2, Zenon DEF BreakRequestLink, BreakReplyLink, Typed, TypeOK
    <2> QED BY <1>1, <2>1, OutstandingElsewhere, Zenon DEF Outstanding
  <1>3. OutstandingAt(h)'
    <2>1. \/ request_link'[h] = <<>> /\ reply_link'[h] = reply_link[h]
          \/ request_link'[h] = request_link[h] /\ reply_link'[h] = <<>>
      BY Zenon DEF BreakRequestLink, BreakReplyLink, Typed, TypeOK
    <2>2. CASE request_link'[h] = request_link[h] /\ reply_link'[h] = reply_link[h]
      BY <1>1, <2>2, OutstandingElsewhere, Zenon DEF Outstanding
    <2>3. CASE request_link[h] # <<>> /\ request_link'[h] = <<>>
      BY <1>1, <2>1, <2>3, RequestAlone, Zenon DEF Requesting, Silent, OutstandingAt
    <2>4. CASE reply_link[h] # <<>> /\ reply_link'[h] = <<>>
      BY <1>1, <2>1, <2>4, ReplyAlone, Zenon DEF Answering, Silent, OutstandingAt
    <2> QED BY <2>1, <2>2, <2>3, <2>4, Zenon
  <1> QED BY <1>2, <1>3, Zenon DEF Outstanding

\* Every step keeps Outstanding; one case per action of Next.
LEMMA StepOutstanding ==
    ASSUME OneThreadPerHost
    PROVE  Typed /\ Outstanding /\ [Next]_vars => Outstanding'
  <1> SUFFICES ASSUME Typed, Outstanding, [Next]_vars PROVE Outstanding'
    OBVIOUS
  <1>1. CASE register_recive_handler \/ RegisterArg \/ UNCHANGED vars
    <2>1. UNCHANGED <<request_link, reply_link, unprocessed_mess_list, call>>
      BY <1>1, Zenon DEF register_recive_handler, RegisterArg, vars, links, clients
    <2> QED BY <2>1, OutstandingElsewhere, Zenon DEF Outstanding
  <1>2. ASSUME NEW t \in Threads, Lock(t) \/ Unlock(t) PROVE Outstanding'
    <2> PICK p \in Pages, lt \in CallerTypes \cup {UNLOCK} : request_page_lock(t, p, lt)
      BY <1>2, Zenon DEF Lock, Unlock
    <2> QED BY RequestOutstanding, Zenon
  <1>3. ASSUME NEW h \in Hosts, ParkRequest(h) \/ CallbackWithoutArg(h)
        PROVE  Outstanding'
    <2>1. /\ request_link[h] # <<>>
          /\ request_link' = [request_link EXCEPT ![h] = Tail(@)]
          /\ UNCHANGED <<reply_link, unprocessed_mess_list, call>>
      BY <1>3, Zenon DEF ParkRequest, CallbackWithoutArg, clients
    <2> QED BY <2>1, DropOutstanding, Zenon
  <1>4. ASSUME NEW h \in Hosts, lock_request_callback(h) PROVE Outstanding'
    BY <1>4, CallbackOutstanding, Zenon
  <1>5. ASSUME NEW h \in Hosts, StoreReply(h) PROVE Outstanding'
    BY <1>5, StoreOutstanding, Zenon
  <1>6. ASSUME NEW t \in Threads, wait_for_lock_reply(t) PROVE Outstanding'
    BY <1>6, PollOutstanding, Zenon
  <1>7. ASSUME NEW h \in Hosts, BreakRequestLink(h) \/ BreakReplyLink(h)
        PROVE  Outstanding'
    BY <1>7, BreakOutstanding, Zenon
  <1> QED BY <1>1, <1>2, <1>3, <1>4, <1>5, <1>6, <1>7, Zenon DEF Next, Dispatch

\* With one thread per host, at most one message is under way for a host.
LEMMA OutstandingInvariant ==
    ASSUME OneThreadPerHost PROVE Spec => []Outstanding
  <1>1. Init => Outstanding
    BY Zenon DEF Init, Outstanding, OutstandingAt, Silent
  <1> QED BY <1>1, StepOutstanding, TypedInvariant, PTL DEF Spec

\* A call returns with its own reply, for any callers, pages and number of
\* hosts, through the registration race and lost connections, when a host has
\* one thread: the reply filter looks at the page only, and that is enough
\* exactly because the host has no other call under way.
THEOREM OwnReplyAlways ==
    ASSUME OneThreadPerHost PROVE Spec => []OwnReply
  <1>1. Outstanding => OwnReply
    <2> SUFFICES ASSUME Outstanding, NEW h \in Hosts,
                        NEW i \in DOMAIN unprocessed_mess_list[h]
                 PROVE  LET reply == unprocessed_mess_list[h][i] IN
                        /\ call[reply.thread] # NULL
                        /\ call[reply.thread].page = reply.page
      BY Zenon DEF OwnReply
    <2>1. unprocessed_mess_list[h] # <<>>
      <3>1. DOMAIN <<>> = {}
        OBVIOUS
      <3> QED BY <3>1, Zenon
    <2> PICK t \in Threads, r \in PageReplyType : Calling(h, t) /\ Answered(h, t, r)
      BY <2>1, StoredAlone, Zenon
    <2>2. unprocessed_mess_list[h] = <<ReplyTo(t, r)>>
      BY Zenon DEF Answered
    <2>3. unprocessed_mess_list[h][i] = ReplyTo(t, r)
      BY <2>2
    <2> QED BY <2>3 DEF ReplyTo, Calling
  <1> QED BY <1>1, OutstandingInvariant, PTL

-----------------------------------------------------------------------------
(* No write lock without somebody behind it. *)

\* A LOCK_SUCCESS is under way only for a call that asked for a lock.
GrantUnderWay(t) ==
    \/ reply_link[HostOf[t]] = <<ReplyTo(t, "LOCK_SUCCESS")>>
    \/ unprocessed_mess_list[HostOf[t]] = <<ReplyTo(t, "LOCK_SUCCESS")>>

GrantsAreLocks ==
    \A t \in Threads : GrantUnderWay(t) => call[t].lock_type # UNLOCK

\* Entries are made by the callback with its argument, and it stays in place.
EntriesByCallback == \A f \in Folds : page_lock_hash[f] # NULL => handler = "ready"

AllUp == \A h \in Hosts : link_up[h] = {"request", "reply"}

WriteLocked(f) == page_lock_hash[f] # NULL /\ page_lock_hash[f].lock_type = W_LOCK

Claimed(f) == \E c : IsHold(c, f) \/ IsUnlock(c, f) \/ IsSent(c, f) \/ IsStored(c, f)

Backed == AllUp => \A f \in Folds : WriteLocked(f) => Claimed(f)

\* Backed is NoOrphanLock with the kinds of claims spelled out.
LEMMA BackedIsNoOrphan == Backed <=> NoOrphanLock
  <1>1. \A f : Claims(f) # {} <=> Claimed(f)
    BY ClaimKinds, Zenon DEF ClaimsByKind, Claimed
  <1> QED BY <1>1, Zenon DEF Backed, NoOrphanLock, AllUp, WriteLocked

\* Every step keeps the table empty until the handler is in place.
LEMMA StepEntries == Typed /\ EntriesByCallback /\ [Next]_vars => EntriesByCallback'
  <1> SUFFICES ASSUME Typed, EntriesByCallback, [Next]_vars PROVE EntriesByCallback'
    OBVIOUS
  <1>1. CASE register_recive_handler \/ RegisterArg \/ UNCHANGED vars
    BY <1>1, Zenon DEF register_recive_handler, RegisterArg, vars, server, EntriesByCallback
  <1>2. ASSUME NEW t \in Threads, Lock(t) \/ Unlock(t) \/ wait_for_lock_reply(t)
        PROVE  EntriesByCallback'
    BY <1>2, Zenon DEF Lock, Unlock, request_page_lock, wait_for_lock_reply, server,
                EntriesByCallback
  <1>3. ASSUME NEW h \in Hosts, Dispatch(h) PROVE EntriesByCallback'
    <2>1. CASE ParkRequest(h)
      BY <2>1, Zenon DEF ParkRequest, EntriesByCallback
    <2>2. CASE lock_request_callback(h)
      BY <2>2, Zenon DEF lock_request_callback, EntriesByCallback
    <2>3. CASE CallbackWithoutArg(h)
      BY <2>3, Zenon DEF CallbackWithoutArg, EntriesByCallback
    <2> QED BY <1>3, <2>1, <2>2, <2>3, Zenon DEF Dispatch
  <1>4. ASSUME NEW h \in Hosts,
               StoreReply(h) \/ BreakRequestLink(h) \/ BreakReplyLink(h)
        PROVE  EntriesByCallback'
    BY <1>4, Zenon DEF StoreReply, BreakRequestLink, BreakReplyLink, server, EntriesByCallback
  <1> QED BY <1>1, <1>2, <1>3, <1>4, Zenon DEF Next

\* An UNLOCK is never answered LOCK_SUCCESS: it is a claim, so the server has
\* an entry for the page (lock_request_callback).
LEMMA CallbackGrants ==
    ASSUME Typed, ClaimsBacked, Outstanding, NEW h \in Hosts, NEW t \in Threads,
           Requesting(h, t), call[t] \in PageLockRequest, call[t].lock_type = UNLOCK
    PROVE  LET f == cal_fold(call[t].page) IN
           /\ page_lock_hash[f] # NULL
           /\ check_lock_request(h, UNLOCK, page_lock_hash[f]).reply_type =
                "UNLOCK_SUCCESS"
           /\ check_lock_request(h, UNLOCK, page_lock_hash[f]).entry.lock_type = UNLOCK
  <1> DEFINE f == cal_fold(call[t].page)
  <1>1. f \in Folds
    BY FoldType, Zenon DEF PageLockRequest
  <1>2. IsUnlock(<<"unlock", h, 1>>, f)
    <2>1. 1 \in DOMAIN request_link[h] /\ request_link[h][1] = call[t]
      BY DEF Requesting
    <2> QED BY <2>1, Zenon DEF IsUnlock, UnlockOf
  <1>3. page_lock_hash[f] # NULL
    BY <1>1, <1>2, ClaimKinds, Zenon DEF ClaimsByKind, ClaimsBacked
  <1>4. page_lock_hash[f] \in QuietEntry
    BY <1>1, <1>3, Zenon DEF Typed
  <1> HIDE DEF f
  <1>5. /\ check_lock_request(h, UNLOCK, page_lock_hash[f]).reply_type = "UNLOCK_SUCCESS"
        /\ check_lock_request(h, UNLOCK, page_lock_hash[f]).entry.lock_type = UNLOCK
    BY <1>4, CheckUnlock, Zenon
  <1> QED BY <1>3, <1>5, Zenon DEF f


\* A step that adds no reply for the host of t, and leaves its call alone.
LEMMA GrantsElsewhere ==
    ASSUME NEW t \in Threads, GrantUnderWay(t)', call'[t] = call[t],
           reply_link'[HostOf[t]] \in {<<>>, reply_link[HostOf[t]]},
           unprocessed_mess_list'[HostOf[t]] \in {<<>>, unprocessed_mess_list[HostOf[t]]}
    PROVE  GrantUnderWay(t)
  <1>1. ReplyTo(t, "LOCK_SUCCESS")' = ReplyTo(t, "LOCK_SUCCESS")
    BY Zenon DEF ReplyTo
  <1>2. <<ReplyTo(t, "LOCK_SUCCESS")>> # <<>>
    OBVIOUS
  <1> QED BY <1>1, <1>2, Zenon DEF GrantUnderWay

\* Every step keeps GrantsAreLocks; one case per action of Next.
LEMMA StepGrants ==
    ASSUME OneThreadPerHost
    PROVE  Typed /\ ClaimsBacked /\ Outstanding /\ GrantsAreLocks /\ [Next]_vars
             => GrantsAreLocks'
  <1> SUFFICES ASSUME Typed, ClaimsBacked, Outstanding, GrantsAreLocks, [Next]_vars,
                      NEW u \in Threads, GrantUnderWay(u)'
               PROVE  call'[u].lock_type # UNLOCK
    BY Zenon DEF GrantsAreLocks
  <1> DEFINE Done == call'[u].lock_type # UNLOCK
  <1>0. HostOf[u] \in Hosts
    BY CallerAssumption, Zenon
  <1>1. ASSUME call'[u] = call[u],
               reply_link'[HostOf[u]] \in {<<>>, reply_link[HostOf[u]]},
               unprocessed_mess_list'[HostOf[u]] \in
                    {<<>>, unprocessed_mess_list[HostOf[u]]}
        PROVE  Done
    BY <1>1, GrantsElsewhere, Zenon DEF GrantsAreLocks
  <1>2. CASE register_recive_handler \/ RegisterArg \/ UNCHANGED vars
    BY <1>1, <1>2, Zenon DEF register_recive_handler, RegisterArg, vars, links, clients
  <1>3. ASSUME NEW t \in Threads, Lock(t) \/ Unlock(t) PROVE Done
    <2>1. /\ call[t] = NULL
          /\ \A v \in Threads : v # t => call'[v] = call[v]
          /\ UNCHANGED <<reply_link, unprocessed_mess_list>>
      BY <1>3, Zenon DEF Lock, Unlock, request_page_lock, Typed, TypeOK
    <2>2. CASE u = t
      <3>1. Silent(HostOf[u])
        BY <2>1, <2>2, IdleIsSilent, Zenon
      <3>2. <<ReplyTo(u, "LOCK_SUCCESS")'>> # <<>>
        OBVIOUS
      <3> QED BY <3>1, <3>2, <2>1, Zenon DEF Silent, GrantUnderWay
    <2> QED BY <1>1, <2>1, <2>2, Zenon
  <1>4. ASSUME NEW h \in Hosts, ParkRequest(h) \/ CallbackWithoutArg(h) PROVE Done
    BY <1>1, <1>4, Zenon DEF ParkRequest, CallbackWithoutArg, clients
  <1>5. ASSUME NEW h \in Hosts, lock_request_callback(h) PROVE Done
    <2> PICK t \in Threads :
          LET m == call[t]
              f == cal_fold(m.page)
              o == check_lock_request(h, m.lock_type, page_lock_hash[f])
          IN  /\ Calling(h, t) /\ Requesting(h, t)
              /\ m \in PageLockRequest
              /\ reply_link' = IF "reply" \in link_up[h]
                               THEN [reply_link EXCEPT ![h] = <<ReplyTo(t, o.reply_type)>>]
                               ELSE reply_link
              /\ UNCHANGED <<unprocessed_mess_list, call>>
      BY <1>5, CallbackAlone, Zenon
    <2> DEFINE o == check_lock_request(h, call[t].lock_type,
                                       page_lock_hash[cal_fold(call[t].page)])
    <2>1. CASE HostOf[u] # h \/ "reply" \notin link_up[h]
      BY <1>0, <1>1, <2>1, Zenon DEF Typed, TypeOK
    <2>2. CASE HostOf[u] = h /\ "reply" \in link_up[h]
      <3>1. u = t
        BY <2>2, Zenon DEF Calling, OneThreadPerHost
      <3>2. reply_link'[h] = <<ReplyTo(t, o.reply_type)>>
        BY <2>2, Zenon DEF Typed, TypeOK
      <3>3. unprocessed_mess_list'[h] = <<>>
        BY Zenon DEF Requesting
      <3>4. ReplyTo(t, "LOCK_SUCCESS")' = ReplyTo(t, "LOCK_SUCCESS")
        BY Zenon DEF ReplyTo
      <3>5. <<ReplyTo(t, o.reply_type)>> = <<ReplyTo(t, "LOCK_SUCCESS")>>
        <4>1. <<ReplyTo(t, "LOCK_SUCCESS")>> # <<>>
          OBVIOUS
        <4> HIDE DEF o
        <4> QED BY <2>2, <3>1, <3>2, <3>3, <3>4, <4>1, Zenon DEF GrantUnderWay
      <3>6. ReplyTo(t, o.reply_type) = ReplyTo(t, "LOCK_SUCCESS")
        <4> HIDE DEF o
        <4> QED BY <3>5, Zenon
      <3>7. o.reply_type = "LOCK_SUCCESS"
        <4> HIDE DEF o
        <4> QED BY <3>6, Zenon DEF ReplyTo
      <3>8. call[t].lock_type # UNLOCK
        BY <3>7, CallbackGrants, Zenon
      <3> QED BY <3>1, <3>8, Zenon
    <2> QED BY <2>1, <2>2, Zenon
  <1>6. ASSUME NEW h \in Hosts, StoreReply(h) PROVE Done
    <2> PICK t \in Threads, r \in PageReplyType :
          /\ Calling(h, t) /\ Answering(h, t, r)
          /\ reply_link' = [reply_link EXCEPT ![h] = <<>>]
          /\ unprocessed_mess_list' =
                 [unprocessed_mess_list EXCEPT ![h] = <<ReplyTo(t, r)>>]
          /\ UNCHANGED <<server, request_link, link_up, call, holds>>
      BY <1>6, StoreAlone, Zenon
    <2>1. CASE HostOf[u] # h
      BY <1>0, <1>1, <2>1, Zenon DEF Typed, TypeOK
    <2>2. CASE HostOf[u] = h
      <3>1. u = t
        BY <2>2, Zenon DEF Calling, OneThreadPerHost
      <3>2. /\ reply_link[h] = <<ReplyTo(t, r)>>
            /\ reply_link'[h] = <<>>
            /\ unprocessed_mess_list'[h] = <<ReplyTo(t, r)>>
        BY Zenon DEF Typed, TypeOK, Answering
      <3>3. ReplyTo(t, "LOCK_SUCCESS")' = ReplyTo(t, "LOCK_SUCCESS")
        BY Zenon DEF ReplyTo
      <3>4. <<ReplyTo(t, "LOCK_SUCCESS")>> # <<>>
        OBVIOUS
      <3>5. GrantUnderWay(u)
        BY <2>2, <3>1, <3>2, <3>3, <3>4, Zenon DEF GrantUnderWay
      <3> QED BY <3>5, Zenon DEF GrantsAreLocks
    <2> QED BY <2>1, <2>2, Zenon
  <1>7. ASSUME NEW t \in Threads, wait_for_lock_reply(t) PROVE Done
    <2> PICK r \in PageReplyType :
          /\ Calling(HostOf[t], t) /\ Answered(HostOf[t], t, r)
          /\ unprocessed_mess_list' = [unprocessed_mess_list EXCEPT ![HostOf[t]] = <<>>]
          /\ call' = [call EXCEPT ![t] = NULL]
          /\ UNCHANGED <<server, links>>
      BY <1>7, PollAlone, Zenon
    <2>1. CASE u = t
      <3>1. reply_link'[HostOf[u]] = <<>> /\ unprocessed_mess_list'[HostOf[u]] = <<>>
        BY <1>0, <2>1, Zenon DEF Answered, links, Typed, TypeOK
      <3> QED BY <3>1 DEF GrantUnderWay
    <2>2. CASE u # t
      <3>1. HostOf[u] # HostOf[t]
        BY <2>2, Zenon DEF OneThreadPerHost
      <3>2. call'[u] = call[u]
        BY <2>2, Zenon DEF Typed, TypeOK
      <3>3. unprocessed_mess_list'[HostOf[u]] = unprocessed_mess_list[HostOf[u]]
        BY <1>0, <3>1, Zenon DEF Typed, TypeOK
      <3> QED BY <1>1, <3>2, <3>3, Zenon DEF links
    <2> QED BY <2>1, <2>2, Zenon
  <1>8. ASSUME NEW h \in Hosts, BreakRequestLink(h) \/ BreakReplyLink(h) PROVE Done
    BY <1>0, <1>1, <1>8, Zenon DEF BreakRequestLink, BreakReplyLink, clients, Typed, TypeOK
  <1> QED BY <1>2, <1>3, <1>4, <1>5, <1>6, <1>7, <1>8, Zenon DEF Next, Dispatch

\* A claim stays where the step leaves its place alone.
LEMMA ClaimStays ==
    ASSUME NEW f, NEW c,
           \/ IsHold(c, f) /\ \A t \in Threads : holds[t] \subseteq holds'[t]
           \/ /\ IsUnlock(c, f)
              /\ \A h \in Hosts : \A i \in DOMAIN request_link[h] :
                   UnlockOf(request_link[h][i], f)
                   => i \in DOMAIN request_link'[h] /\ request_link'[h][i] = request_link[h][i]
           \/ /\ IsSent(c, f)
              /\ \A h \in Hosts : \A i \in DOMAIN reply_link[h] :
                   i \in DOMAIN reply_link'[h] /\ reply_link'[h][i] = reply_link[h][i]
           \/ /\ IsStored(c, f)
              /\ \A h \in Hosts : \A i \in DOMAIN unprocessed_mess_list[h] :
                   /\ i \in DOMAIN unprocessed_mess_list'[h]
                   /\ unprocessed_mess_list'[h][i] = unprocessed_mess_list[h][i]
    PROVE  Claimed(f)'
  <1>1. CASE IsHold(c, f) /\ \A t \in Threads : holds[t] \subseteq holds'[t]
    <2>1. IsHold(c, f)'
      BY <1>1, Zenon DEF IsHold
    <2> QED BY <2>1, Zenon DEF Claimed
  <1>2. CASE /\ IsUnlock(c, f)
             /\ \A h \in Hosts : \A i \in DOMAIN request_link[h] :
                  UnlockOf(request_link[h][i], f)
                  => i \in DOMAIN request_link'[h] /\ request_link'[h][i] = request_link[h][i]
    <2>1. IsUnlock(c, f)'
      BY <1>2, Zenon DEF IsUnlock, UnlockOf
    <2> QED BY <2>1, Zenon DEF Claimed
  <1>3. CASE /\ IsSent(c, f)
             /\ \A h \in Hosts : \A i \in DOMAIN reply_link[h] :
                  i \in DOMAIN reply_link'[h] /\ reply_link'[h][i] = reply_link[h][i]
    <2>1. IsSent(c, f)'
      BY <1>3, Zenon DEF IsSent, GrantOf
    <2> QED BY <2>1, Zenon DEF Claimed
  <1>4. CASE /\ IsStored(c, f)
             /\ \A h \in Hosts : \A i \in DOMAIN unprocessed_mess_list[h] :
                  /\ i \in DOMAIN unprocessed_mess_list'[h]
                  /\ unprocessed_mess_list'[h][i] = unprocessed_mess_list[h][i]
    <2>1. IsStored(c, f)'
      BY <1>4, Zenon DEF IsStored, GrantOf
    <2> QED BY <2>1, Zenon DEF Claimed
  <1> QED BY <1>1, <1>2, <1>3, <1>4, Zenon

\* An UNLOCK on its way to the server takes the place of the hold it gives up
\* (request_page_lock).
LEMMA RequestBacked ==
    ASSUME Typed, Outstanding, OneThreadPerHost, AllUp,
           NEW t \in Threads, NEW p \in Pages, NEW lt \in CallerTypes \cup {UNLOCK},
           request_page_lock(t, p, lt), NEW f \in Folds, Claimed(f)
    PROVE  Claimed(f)'
  <1> DEFINE m == [page |-> p, lock_type |-> lt, thread |-> t]
             h == HostOf[t]
  <1>1. h \in Hosts
    BY CallerAssumption, Zenon
  <1>2. request_link[h] = <<>>
    BY IdleIsSilent, Zenon DEF Silent, request_page_lock
  <1>3. request_link' = [request_link EXCEPT ![h] = <<m>>]
    <2>1. "request" \in link_up[h]
      BY <1>1, Zenon DEF AllUp
    <2>2. request_link' = [request_link EXCEPT ![h] = Append(request_link[h], m)]
      BY <2>1, Zenon DEF request_page_lock, sendMessage
    <2>3. Append(<<>>, m) = <<m>>
      OBVIOUS
    <2> HIDE DEF m, h
    <2> QED BY <1>2, <2>2, <2>3, Zenon
  <1>4. \A g \in Hosts : \A i \in DOMAIN request_link[g] :
          i \in DOMAIN request_link'[g] /\ request_link'[g][i] = request_link[g][i]
    <2>1. DOMAIN request_link[h] = {}
      BY <1>2
    <2> HIDE DEF m, h
    <2> QED BY <1>1, <1>3, <2>1, Zenon DEF Typed, TypeOK
  <1>5. UNCHANGED <<reply_link, unprocessed_mess_list>>
    BY Zenon DEF request_page_lock
  <1>6. CASE lt = UNLOCK /\ cal_fold(p) = f
    <2>1. request_link'[h] = <<m>>
      <3> HIDE DEF m, h
      <3> QED BY <1>1, <1>3, Zenon DEF Typed, TypeOK
    <2>2. 1 \in DOMAIN request_link'[h] /\ request_link'[h][1] = m
      <3> HIDE DEF m
      <3> QED BY <2>1
    <2>3. UnlockOf(m, f)
      BY <1>6, Zenon DEF UnlockOf
    <2>4. IsUnlock(<<"unlock", h, 1>>, f)'
      BY <1>1, <2>2, <2>3, Zenon DEF IsUnlock, UnlockOf
    <2> QED BY <2>4, Zenon DEF Claimed
  <1>7. CASE lt # UNLOCK \/ cal_fold(p) # f
    <2> PICK c : IsHold(c, f) \/ IsUnlock(c, f) \/ IsSent(c, f) \/ IsStored(c, f)
      BY Zenon DEF Claimed
    <2>1. CASE IsHold(c, f)
      <3> PICK u \in Threads, q \in Pages :
                 c = <<"hold", u, q>> /\ q \in holds[u] /\ cal_fold(q) = f
        BY <2>1, Zenon DEF IsHold
      <3>1. q \in holds'[u]
        BY <1>7, Zenon DEF request_page_lock, Typed, TypeOK
      <3>2. IsHold(c, f)'
        BY <3>1, Zenon DEF IsHold
      <3> QED BY <3>2, Zenon DEF Claimed
    <2>2. CASE ~IsHold(c, f)
      <3> HIDE DEF m, h
      <3> QED BY <1>4, <1>5, <2>2, ClaimStays, Zenon
    <2> QED BY <2>1, <2>2, Zenon
  <1> QED BY <1>6, <1>7, Zenon

\* An entry that is write locked after the callback has a claim: the grant on
\* its way, or the claim it had before (lock_request_callback).
LEMMA CallbackBacked ==
    ASSUME Typed, ClaimsBacked, Outstanding, WriteOnlyCallers, AllUp, Backed,
           NEW h \in Hosts, lock_request_callback(h),
           NEW f \in Folds, WriteLocked(f)'
    PROVE  Claimed(f)'
  <1> PICK t \in Threads :
        LET m == call[t]
            e == cal_fold(m.page)
            o == check_lock_request(h, m.lock_type, page_lock_hash[e])
        IN  /\ Calling(h, t) /\ Requesting(h, t)
            /\ m \in PageLockRequest
            /\ m.lock_type \in CallerTypes \cup {UNLOCK}
            /\ e \in Folds /\ page_lock_hash[e] \in QuietEntry \cup {NULL}
            /\ o.reply_type \in PageReplyType
            /\ page_lock_hash' = [page_lock_hash EXCEPT ![e] = o.entry]
            /\ request_link' = [request_link EXCEPT ![h] = <<>>]
            /\ reply_link' = IF "reply" \in link_up[h]
                             THEN [reply_link EXCEPT ![h] = <<ReplyTo(t, o.reply_type)>>]
                             ELSE reply_link
            /\ UNCHANGED <<handler, parked, link_up, unprocessed_mess_list, call, holds>>
    BY CallbackAlone, Zenon
  <1> DEFINE lt == call[t].lock_type
             e == cal_fold(call[t].page)
             o == check_lock_request(h, lt, page_lock_hash[e])
  <1>1. e \in Folds /\ lt \in {W_LOCK, UNLOCK} /\ lt \in PageLockType
    BY Zenon DEF WriteOnlyCallers, PageLockRequest
  <1>2. reply_link' = [reply_link EXCEPT ![h] = <<ReplyTo(t, o.reply_type)>>]
    <2>1. "reply" \in link_up[h]
      BY Zenon DEF AllUp
    <2> QED BY <2>1, Zenon
  <1>3. /\ page_lock_hash'[e] = o.entry
        /\ \A g \in Folds : g # e => page_lock_hash'[g] = page_lock_hash[g]
    <2> HIDE DEF e, o
    <2>1. page_lock_hash' = [page_lock_hash EXCEPT ![e] = o.entry]
      BY Zenon DEF e, o
    <2> QED BY <1>1, <2>1, Zenon DEF Typed, TypeOK
  <1>4. lt = UNLOCK => page_lock_hash[e] # NULL /\ o.entry.lock_type = UNLOCK
    BY CallbackGrants, Zenon
  <1>5. CASE f = e /\ o.reply_type = "LOCK_SUCCESS"
    <2>1. reply_link'[h] = <<ReplyTo(t, "LOCK_SUCCESS")>>
      <3> HIDE DEF o
      <3> QED BY <1>2, <1>5, Zenon DEF Typed, TypeOK
    <2>2. /\ 1 \in DOMAIN reply_link'[h]
          /\ reply_link'[h][1] = ReplyTo(t, "LOCK_SUCCESS")
      BY <2>1
    <2>3. GrantOf(ReplyTo(t, "LOCK_SUCCESS"), f)
      BY <1>5, Zenon DEF GrantOf, ReplyTo
    <2>4. IsSent(<<"sent", h, 1>>, f)'
      BY <2>2, <2>3, Zenon DEF IsSent, GrantOf
    <2> QED BY <2>4, Zenon DEF Claimed
  <1>6. CASE f # e \/ o.reply_type # "LOCK_SUCCESS"
    <2>1. WriteLocked(f) /\ (f = e => lt # UNLOCK)
      <3>1. CASE f # e
        BY <1>3, <3>1, Zenon DEF WriteLocked
      <3>2. CASE f = e
        <4>1. lt # UNLOCK
          BY <1>3, <1>4, <3>2 DEF WriteLocked, W_LOCK, UNLOCK
        <4>2. page_lock_hash[e] \in QuietEntry
          <5>1. page_lock_hash[e] # NULL
            BY <1>1, <1>6, <3>2, CheckInsert, SMTT(30)
          <5> QED BY <5>1, Zenon
        <4>3. ~Granted(page_lock_hash[e], lt)
          BY <1>1, <1>6, <3>2, <4>1, <4>2, CheckGrant
        <4>4. o.entry.lock_type = page_lock_hash[e].lock_type
          BY <1>1, <4>1, <4>2, <4>3, CheckRefuse, Zenon
        <4>5. page_lock_hash[e] # NULL
          BY <4>2, NullAssumption, Zenon DEF QuietEntry
        <4> QED BY <1>3, <3>2, <4>1, <4>4, <4>5, Zenon DEF WriteLocked
      <3> QED BY <3>1, <3>2, Zenon
    <2>2. Claimed(f)
      BY <2>1, Zenon DEF Backed
    <2>3. \A g \in Hosts : \A i \in DOMAIN request_link[g] :
            UnlockOf(request_link[g][i], f)
            => i \in DOMAIN request_link'[g] /\ request_link'[g][i] = request_link[g][i]
      <3> TAKE g \in Hosts
      <3> TAKE i \in DOMAIN request_link[g]
      <3> HAVE UnlockOf(request_link[g][i], f)
      <3>1. g # h
        <4> SUFFICES ASSUME g = h PROVE FALSE
          OBVIOUS
        <4>1. request_link[g][i] = call[t]
          BY DEF Requesting
        <4> QED BY <2>1, <4>1, Zenon DEF UnlockOf
      <3> QED BY <3>1, Zenon DEF Typed, TypeOK
    <2>4. \A g \in Hosts : \A i \in DOMAIN reply_link[g] :
            i \in DOMAIN reply_link'[g] /\ reply_link'[g][i] = reply_link[g][i]
      <3>1. DOMAIN reply_link[h] = {}
        BY DEF Requesting
      <3> HIDE DEF o
      <3> QED BY <1>2, <3>1, Zenon DEF Typed, TypeOK
    <2> PICK c : IsHold(c, f) \/ IsUnlock(c, f) \/ IsSent(c, f) \/ IsStored(c, f)
      BY <2>2, Zenon DEF Claimed
    <2> HIDE DEF o, e, lt
    <2> QED BY <2>3, <2>4, ClaimStays, Zenon
  <1> QED BY <1>5, <1>6, Zenon

\* A grant keeps its claim when it moves to the list of the host (StoreReply).
LEMMA StoreBacked ==
    ASSUME Typed, Outstanding, NEW h \in Hosts, StoreReply(h),
           NEW f \in Folds, Claimed(f)
    PROVE  Claimed(f)'
  <1> PICK t \in Threads, r \in PageReplyType :
        /\ Calling(h, t) /\ Answering(h, t, r)
        /\ reply_link' = [reply_link EXCEPT ![h] = <<>>]
        /\ unprocessed_mess_list' =
               [unprocessed_mess_list EXCEPT ![h] = <<ReplyTo(t, r)>>]
        /\ UNCHANGED <<server, request_link, link_up, call, holds>>
    BY StoreAlone, Zenon
  <1> DEFINE m == ReplyTo(t, r)
  <1>1. reply_link[h] = <<m>> /\ unprocessed_mess_list[h] = <<>>
    BY Zenon DEF Answering
  <1>2. unprocessed_mess_list'[h] = <<m>>
    BY Zenon DEF Typed, TypeOK
  <1> PICK c : IsHold(c, f) \/ IsUnlock(c, f) \/ IsSent(c, f) \/ IsStored(c, f)
    BY Zenon DEF Claimed
  <1>3. CASE IsSent(c, f)
    <2> PICK g \in Hosts : \E i \in DOMAIN reply_link[g] :
               c = <<"sent", g, i>> /\ GrantOf(reply_link[g][i], f)
      BY <1>3, Zenon DEF IsSent
    <2> PICK i \in DOMAIN reply_link[g] : GrantOf(reply_link[g][i], f)
      OBVIOUS
    <2>1. CASE g # h
      <3>1. reply_link'[g] = reply_link[g]
        BY <2>1, Zenon DEF Typed, TypeOK
      <3>2. IsSent(<<"sent", g, i>>, f)'
        BY <3>1, Zenon DEF IsSent, GrantOf
      <3> QED BY <3>2, Zenon DEF Claimed
    <2>2. CASE g = h
      <3> HIDE DEF m
      <3>1. GrantOf(m, f)
        BY <1>1, <2>2
      <3>2. 1 \in DOMAIN unprocessed_mess_list'[h] /\ unprocessed_mess_list'[h][1] = m
        BY <1>2
      <3>3. IsStored(<<"stored", h, 1>>, f)'
        BY <3>1, <3>2, Zenon DEF IsStored, GrantOf
      <3> QED BY <3>3, Zenon DEF Claimed
    <2> QED BY <2>1, <2>2, Zenon
  <1>4. CASE ~IsSent(c, f)
    <2>1. \A g \in Hosts : \A i \in DOMAIN unprocessed_mess_list[g] :
            /\ i \in DOMAIN unprocessed_mess_list'[g]
            /\ unprocessed_mess_list'[g][i] = unprocessed_mess_list[g][i]
      <3>1. DOMAIN unprocessed_mess_list[h] = {}
        BY <1>1
      <3> QED BY <3>1, Zenon DEF Typed, TypeOK
    <2> HIDE DEF m
    <2> QED BY <1>4, <2>1, ClaimStays, Zenon
  <1> QED BY <1>3, <1>4, Zenon

\* A thread that reads a grant holds the page from then on
\* (wait_for_lock_reply).
LEMMA PollBacked ==
    ASSUME OneThreadPerHost, Typed, Outstanding, GrantsAreLocks, NEW t \in Threads,
           wait_for_lock_reply(t), NEW f \in Folds, Claimed(f)
    PROVE  Claimed(f)'
  <1> DEFINE h == HostOf[t]
  <1>1. h \in Hosts
    BY CallerAssumption, Zenon
  <1> PICK r \in PageReplyType :
        /\ Calling(h, t) /\ Answered(h, t, r)
        /\ unprocessed_mess_list' = [unprocessed_mess_list EXCEPT ![h] = <<>>]
        /\ holds' = IF call[t].lock_type # UNLOCK /\ r = "LOCK_SUCCESS"
                    THEN [holds EXCEPT ![t] = @ \cup {call[t].page}] ELSE holds
        /\ UNCHANGED <<server, links>>
    BY PollAlone, Zenon
  <1>2. unprocessed_mess_list[h] = <<ReplyTo(t, r)>>
    BY Zenon DEF Answered
  <1>3. \A u \in Threads : holds[u] \subseteq holds'[u]
    BY Zenon DEF Typed, TypeOK
  <1> PICK c : IsHold(c, f) \/ IsUnlock(c, f) \/ IsSent(c, f) \/ IsStored(c, f)
    BY Zenon DEF Claimed
  <1>4. CASE IsStored(c, f)
    <2> PICK g \in Hosts : \E i \in DOMAIN unprocessed_mess_list[g] :
               c = <<"stored", g, i>> /\ GrantOf(unprocessed_mess_list[g][i], f)
      BY <1>4, Zenon DEF IsStored
    <2> PICK i \in DOMAIN unprocessed_mess_list[g] : GrantOf(unprocessed_mess_list[g][i], f)
      OBVIOUS
    <2>1. CASE g # h
      <3>1. unprocessed_mess_list'[g] = unprocessed_mess_list[g]
        BY <2>1, Zenon DEF Typed, TypeOK
      <3>2. IsStored(<<"stored", g, i>>, f)'
        BY <3>1, Zenon DEF IsStored, GrantOf
      <3> QED BY <3>2, Zenon DEF Claimed
    <2>2. CASE g = h
      <3>1. GrantOf(ReplyTo(t, r), f)
        BY <1>2, <2>2
      <3>2. r = "LOCK_SUCCESS" /\ cal_fold(call[t].page) = f
        BY <3>1, Zenon DEF GrantOf, ReplyTo
      <3>3. call[t].lock_type # UNLOCK
        BY <1>2, <3>2, Zenon DEF GrantsAreLocks, GrantUnderWay
      <3>4. call[t].page \in holds'[t]
        BY <3>2, <3>3, Zenon DEF Typed, TypeOK
      <3>5. call[t].page \in Pages
        BY Zenon DEF Calling, Typed, TypeOK, PageLockRequest
      <3> PICK p \in Pages : p = call[t].page
        BY <3>5, Zenon
      <3>6. IsHold(<<"hold", t, p>>, f)'
        BY <3>2, <3>4, Zenon DEF IsHold
      <3> QED BY <3>6, Zenon DEF Claimed
    <2> QED BY <2>1, <2>2, Zenon
  <1>5. CASE ~IsStored(c, f)
    BY <1>3, <1>5, ClaimStays, Zenon DEF links
  <1> QED BY <1>4, <1>5, Zenon

\* What NoOrphanLock rests on.
OrphanInv == Outstanding /\ EntriesByCallback /\ GrantsAreLocks /\ Backed

\* Every step keeps Backed; one case per action of Next.
LEMMA StepBacked ==
    ASSUME OneThreadPerHost, WriteOnlyCallers
    PROVE  Typed /\ ClaimsBacked /\ OrphanInv /\ [Next]_vars => Backed'
  <1> SUFFICES ASSUME Typed, ClaimsBacked, OrphanInv, [Next]_vars, AllUp',
                      NEW f \in Folds, WriteLocked(f)'
               PROVE  Claimed(f)'
    BY Zenon DEF Backed
  <1> USE DEF OrphanInv
  <1>1. AllUp /\ link_up' = link_up
    <2>1. link_up' = link_up \/ \E h \in Hosts : BreakRequestLink(h) \/ BreakReplyLink(h)
      BY Zenon DEF Next, Dispatch, vars, links, register_recive_handler, RegisterArg, Lock,
             Unlock, request_page_lock, wait_for_lock_reply, ParkRequest,
             lock_request_callback, CallbackWithoutArg, StoreReply
    <2>2. ASSUME NEW h \in Hosts, BreakRequestLink(h) \/ BreakReplyLink(h) PROVE FALSE
      <3>1. link_up'[h] # {"request", "reply"}
        BY <2>2 DEF BreakRequestLink, BreakReplyLink, Typed, TypeOK
      <3> QED BY <3>1, Zenon DEF AllUp
    <2> QED BY <2>1, <2>2, Zenon DEF AllUp
  <1>2. UNCHANGED page_lock_hash => Claimed(f)
    BY <1>1, Zenon DEF Backed, WriteLocked
  <1>3. ASSUME UNCHANGED <<page_lock_hash, request_link, reply_link,
                           unprocessed_mess_list, holds>>
        PROVE  Claimed(f)'
    <2> PICK c : IsHold(c, f) \/ IsUnlock(c, f) \/ IsSent(c, f) \/ IsStored(c, f)
      BY <1>2, <1>3, Zenon DEF Claimed
    <2> QED BY <1>3, ClaimStays, Zenon
  <1>4. CASE register_recive_handler \/ RegisterArg \/ UNCHANGED vars
    BY <1>3, <1>4, Zenon DEF register_recive_handler, RegisterArg, vars, server, links, clients
  <1>5. ASSUME NEW t \in Threads, Lock(t) \/ Unlock(t) PROVE Claimed(f)'
    <2> PICK p \in Pages, lt \in CallerTypes \cup {UNLOCK} : request_page_lock(t, p, lt)
      BY <1>5, Zenon DEF Lock, Unlock
    <2>1. Claimed(f)
      BY <1>2, Zenon DEF request_page_lock, server
    <2> QED BY <1>1, <2>1, RequestBacked, Zenon
  <1>6. ASSUME NEW h \in Hosts, ParkRequest(h) \/ CallbackWithoutArg(h)
        PROVE  FALSE
    <2>1. handler # "ready" /\ UNCHANGED page_lock_hash
      BY <1>6, Zenon DEF ParkRequest, CallbackWithoutArg
    <2> QED BY <2>1, Zenon DEF EntriesByCallback, WriteLocked
  <1>7. ASSUME NEW h \in Hosts, lock_request_callback(h) PROVE Claimed(f)'
    BY <1>1, <1>7, CallbackBacked, Zenon
  <1>8. ASSUME NEW h \in Hosts, StoreReply(h) PROVE Claimed(f)'
    <2>1. Claimed(f)
      BY <1>2, <1>8, Zenon DEF StoreReply, server
    <2> QED BY <1>8, <2>1, StoreBacked, Zenon
  <1>9. ASSUME NEW t \in Threads, wait_for_lock_reply(t) PROVE Claimed(f)'
    <2>1. Claimed(f)
      BY <1>2, <1>9, Zenon DEF wait_for_lock_reply, server
    <2> QED BY <1>9, <2>1, PollBacked, Zenon
  <1>10. ASSUME NEW h \in Hosts, BreakRequestLink(h) \/ BreakReplyLink(h)
         PROVE  FALSE
    BY <1>1, <1>10 DEF BreakRequestLink, BreakReplyLink, Typed, TypeOK
  <1> QED BY <1>4, <1>5, <1>6, <1>7, <1>8, <1>9, <1>10, Zenon DEF Next, Dispatch

\* As long as no connection has broken, an entry is write locked only for a
\* thread that holds the page, a grant on its way or an UNLOCK on its way: with
\* one thread per host, write-only disciplined callers and any number of hosts
\* and pages, the server never keeps a lock nobody will give back.
THEOREM NoOrphanLockAlways ==
    ASSUME OneThreadPerHost, WriteOnlyCallers PROVE Spec => []NoOrphanLock
  <1>1. Init => OrphanInv
    <2>1. Init => Outstanding
      BY Zenon DEF Init, Outstanding, OutstandingAt, Silent
    <2>2. Init => EntriesByCallback /\ Backed
      BY Zenon DEF Init, EntriesByCallback, Backed, WriteLocked
    <2>3. Init => GrantsAreLocks
      <3> SUFFICES ASSUME Init, NEW t \in Threads, GrantUnderWay(t) PROVE FALSE
        BY Zenon DEF GrantsAreLocks
      <3>1. HostOf[t] \in Hosts
        BY CallerAssumption, Zenon
      <3>2. reply_link[HostOf[t]] = <<>> /\ unprocessed_mess_list[HostOf[t]] = <<>>
        BY <3>1, Zenon DEF Init
      <3> QED BY <3>2 DEF GrantUnderWay
    <2> QED BY <2>1, <2>2, <2>3, Zenon DEF OrphanInv
  <1>2. Typed /\ ClaimsBacked /\ OrphanInv /\ [Next]_vars => OrphanInv'
    <2>1. Typed /\ Outstanding /\ [Next]_vars => Outstanding'
      BY StepOutstanding, Zenon
    <2>2. Typed /\ EntriesByCallback /\ [Next]_vars => EntriesByCallback'
      BY StepEntries, Zenon
    <2>3. Typed /\ ClaimsBacked /\ OrphanInv /\ [Next]_vars => GrantsAreLocks' /\ Backed'
      BY StepGrants, StepBacked, Zenon DEF OrphanInv
    <2> QED BY <2>1, <2>2, <2>3, Zenon DEF OrphanInv
  <1>3. Spec => []Typed /\ []ClaimsBacked
    BY TypedInvariant, ClaimsBackedAlways, PTL
  <1>4. OrphanInv => NoOrphanLock
    BY BackedIsNoOrphan, Zenon DEF OrphanInv
  <1> QED BY <1>1, <1>2, <1>3, <1>4, PTL DEF Spec
=============================================================================
