-------------------------- MODULE PageLockService ---------------------------
(***************************************************************************)
(* The centralized page lock end to end: threads of the MySQL hosts call   *)
(* request_page_lock and poll for the reply, requests and replies travel   *)
(* over the host's two connections, the event thread of the lock server    *)
(* dispatches each request, and the server's main thread registers the     *)
(* handler while requests may already be arriving.                         *)
(* The callers of RemotePageLockClient are not in the repository; what they *)
(* ask for is fixed by CallerTypes and Disciplined.                        *)
(***************************************************************************)
EXTENDS PageLock

CONSTANTS
    Threads,        \* threads that call request_page_lock
    HostOf,         \* thread -> the host it runs on
    CallerTypes,    \* the lock types the callers ask for: R_LOCK, W_LOCK
    Disciplined,    \* TRUE: a thread unlocks a page only while it holds it
    MayBreak        \* TRUE: connections may break

ASSUME CallerAssumption ==
    /\ HostOf \in [Threads -> Hosts]
    /\ CallerTypes \subseteq {R_LOCK, W_LOCK}
    /\ Disciplined \in BOOLEAN
    /\ MayBreak \in BOOLEAN

\* `thread' is a history field, the thread whose call a message belongs to.
\* It is not in the structs of lock_common.h and no action looks at it.
PageLockRequest == [page : Pages, lock_type : PageLockType, thread : Threads]
PageLockReply == [page : Pages, reply_type : PageReplyType, thread : Threads]

ASSUME NullRequestAssumption == NULL \notin PageLockRequest

VARIABLES
    page_lock_hash,         \* server: fold -> entry or NULL
    handler,                \* server: the CallbackInfor of PageLockRequest
    parked,                 \* server: unprocessed_mess_list of PageLockRequest
    request_link,           \* host -> requests on its connection to the server
    reply_link,             \* host -> replies on the server's connection to it
    link_up,                \* host -> which of its two connections still work
    unprocessed_mess_list,  \* host -> replies received and not yet read
    call,                   \* thread -> the request it waits for, or NULL
    holds                   \* thread -> pages it was told it has locked

server == <<page_lock_hash, handler, parked>>
links == <<request_link, reply_link, link_up>>
clients == <<unprocessed_mess_list, call, holds>>
vars == <<server, links, clients>>

TypeOK ==
    /\ page_lock_hash \in [Folds -> PageLock_t \cup {NULL}]
    /\ handler \in {"none", "no_arg", "ready", "crashed"}
    /\ parked \in Seq(PageLockRequest)
    /\ request_link \in [Hosts -> Seq(PageLockRequest)]
    /\ reply_link \in [Hosts -> Seq(PageLockReply)]
    /\ link_up \in [Hosts -> SUBSET {"request", "reply"}]
    /\ unprocessed_mess_list \in [Hosts -> Seq(PageLockReply)]
    /\ call \in [Threads -> PageLockRequest \cup {NULL}]
    /\ holds \in [Threads -> SUBSET Pages]

\* init_handle has returned on every host: the event threads run and every
\* message type of the configuration has a CallbackInfor without a callback.
Init ==
    /\ page_lock_hash = [f \in Folds |-> NULL]
    /\ handler = "none"
    /\ parked = <<>>
    /\ request_link = [h \in Hosts |-> <<>>]
    /\ reply_link = [h \in Hosts |-> <<>>]
    /\ link_up = [h \in Hosts |-> {"request", "reply"}]
    /\ unprocessed_mess_list = [h \in Hosts |-> <<>>]
    /\ call = [t \in Threads |-> NULL]
    /\ holds = [t \in Threads |-> {}]

-----------------------------------------------------------------------------
\* sendMessage returns 1 whether or not the bytes leave the host: a message
\* for a broken connection is accepted and lost.
sendMessage(link, h, direction, message) ==
    IF direction \in link_up[h]
    THEN [link EXCEPT ![h] = Append(@, message)]
    ELSE link

\* The first half of request_page_lock: the thread sends and starts to poll.
\* A thread that sends UNLOCK no longer relies on the page.
request_page_lock(t, page, lock_type) ==
    LET request == [page |-> page, lock_type |-> lock_type, thread |-> t] IN
    /\ call[t] = NULL
    /\ request_link' = sendMessage(request_link, HostOf[t], "request", request)
    /\ call' = [call EXCEPT ![t] = request]
    /\ holds' = IF lock_type = UNLOCK
                THEN [holds EXCEPT ![t] = @ \ {page}] ELSE holds
    /\ UNCHANGED <<server, reply_link, link_up, unprocessed_mess_list>>

Lock(t) ==
    \E page \in Pages, lock_type \in CallerTypes :
        request_page_lock(t, page, lock_type)

Unlock(t) ==
    \E page \in Pages :
        /\ Disciplined => page \in holds[t]
        /\ request_page_lock(t, page, UNLOCK)

-----------------------------------------------------------------------------
\* register_recive_handler on the server's main thread.  cb_function is stored
\* before cb_arg and neither is atomic, so the event thread may see both
\* appear at once or the function alone.
register_recive_handler ==
    /\ handler = "none"
    /\ handler' \in {"no_arg", "ready"}
    /\ UNCHANGED <<page_lock_hash, parked, links, clients>>

RegisterArg ==
    /\ handler = "no_arg"
    /\ handler' = "ready"
    /\ UNCHANGED <<page_lock_hash, parked, links, clients>>

\* try_run_callback on the server's event thread for the next request of h.
ParkRequest(h) ==
    /\ handler = "none"
    /\ request_link[h] # <<>>
    /\ parked' = Append(parked, Head(request_link[h]))
    /\ request_link' = [request_link EXCEPT ![h] = Tail(@)]
    /\ UNCHANGED <<page_lock_hash, handler, reply_link, link_up, clients>>

\* Mutant of lock_request_callback: a refusal is not sent.
silent_refusal(h) ==
    /\ handler = "ready"
    /\ request_link[h] # <<>>
    /\ LET request == Head(request_link[h])
           f == cal_fold(request.page)
           outcome == check_lock_request(h, request.lock_type, page_lock_hash[f])
           reply == [page |-> request.page, reply_type |-> outcome.reply_type,
                     thread |-> request.thread]
       IN  /\ page_lock_hash' = [page_lock_hash EXCEPT ![f] = outcome.entry]
           /\ reply_link' = IF outcome.reply_type = "LOCK_FAIL" THEN reply_link
                            ELSE sendMessage(reply_link, h, "reply", reply)
    /\ request_link' = [request_link EXCEPT ![h] = Tail(@)]
    /\ UNCHANGED <<handler, parked, link_up, clients>>

\* Mutant of lock_request_callback: the message sent back is the request.
request_returned(h) ==
    /\ handler = "ready"
    /\ request_link[h] # <<>>
    /\ LET request == Head(request_link[h])
           f == cal_fold(request.page)
           outcome == check_lock_request(h, request.lock_type, page_lock_hash[f])
       IN  /\ page_lock_hash' = [page_lock_hash EXCEPT ![f] = outcome.entry]
           /\ reply_link' = sendMessage(reply_link, h, "reply", request)
    /\ request_link' = [request_link EXCEPT ![h] = Tail(@)]
    /\ UNCHANGED <<handler, parked, link_up, clients>>

\* lock_request_callback: check the request, send the reply.
lock_request_callback(h) ==
    /\ handler = "ready"
    /\ request_link[h] # <<>>
    /\ LET request == Head(request_link[h])
           f == cal_fold(request.page)
           outcome == check_lock_request(h, request.lock_type, page_lock_hash[f])
           reply == [page |-> request.page, reply_type |-> outcome.reply_type,
                     thread |-> request.thread]
       IN  /\ page_lock_hash' = [page_lock_hash EXCEPT ![f] = outcome.entry]
           /\ reply_link' = sendMessage(reply_link, h, "reply", reply)
    /\ request_link' = [request_link EXCEPT ![h] = Tail(@)]
    /\ UNCHANGED <<handler, parked, link_up, clients>>

\* The callback with cb_arg still NULL: lock_manager is a null pointer.
CallbackWithoutArg(h) ==
    /\ handler = "no_arg"
    /\ request_link[h] # <<>>
    /\ handler' = "crashed"
    /\ request_link' = [request_link EXCEPT ![h] = Tail(@)]
    /\ UNCHANGED <<page_lock_hash, parked, reply_link, link_up, clients>>

-----------------------------------------------------------------------------
\* try_run_callback on a client: PageLockReply has no callback there.
StoreReply(h) ==
    /\ reply_link[h] # <<>>
    /\ unprocessed_mess_list' =
            [unprocessed_mess_list EXCEPT ![h] = Append(@, Head(reply_link[h]))]
    /\ reply_link' = [reply_link EXCEPT ![h] = Tail(@)]
    /\ UNCHANGED <<server, request_link, link_up, call, holds>>

\* PageLockReplyFilter looks at the page only.
PageLockReplyFilter(request, reply) == reply.page = request.page

Without(list, i) ==
    [j \in 1 .. Len(list) - 1 |-> IF j < i THEN list[j] ELSE list[j + 1]]

\* Mutant of wait_for_lock_reply: the message is read and not erased.
reply_not_erased(t) ==
    LET list == unprocessed_mess_list[HostOf[t]] IN
    /\ call[t] # NULL
    /\ \E i \in DOMAIN list :
        /\ PageLockReplyFilter(call[t], list[i])
        /\ \A j \in 1 .. i - 1 : ~PageLockReplyFilter(call[t], list[j])
        /\ holds' =
                IF call[t].lock_type # UNLOCK /\ list[i].reply_type = "LOCK_SUCCESS"
                THEN [holds EXCEPT ![t] = @ \cup {call[t].page}] ELSE holds
    /\ call' = [call EXCEPT ![t] = NULL]
    /\ UNCHANGED <<server, links, unprocessed_mess_list>>

\* readMessage with a filter takes the first match; wait_for_lock_reply returns.
wait_for_lock_reply(t) ==
    LET list == unprocessed_mess_list[HostOf[t]] IN
    /\ call[t] # NULL
    /\ \E i \in DOMAIN list :
        /\ PageLockReplyFilter(call[t], list[i])
        /\ \A j \in 1 .. i - 1 : ~PageLockReplyFilter(call[t], list[j])
        /\ unprocessed_mess_list' =
                [unprocessed_mess_list EXCEPT ![HostOf[t]] = Without(@, i)]
        /\ holds' =
                IF call[t].lock_type # UNLOCK /\ list[i].reply_type = "LOCK_SUCCESS"
                THEN [holds EXCEPT ![t] = @ \cup {call[t].page}] ELSE holds
    /\ call' = [call EXCEPT ![t] = NULL]
    /\ UNCHANGED <<server, links>>

\* A connection breaks with what is on it.  bufferevent_setcb is given no event
\* callback and the entry of bev_map stays, so it is never opened again.
BreakRequestLink(h) ==
    /\ MayBreak /\ "request" \in link_up[h]
    /\ link_up' = [link_up EXCEPT ![h] = @ \ {"request"}]
    /\ request_link' = [request_link EXCEPT ![h] = <<>>]
    /\ UNCHANGED <<server, reply_link, clients>>

BreakReplyLink(h) ==
    /\ MayBreak /\ "reply" \in link_up[h]
    /\ link_up' = [link_up EXCEPT ![h] = @ \ {"reply"}]
    /\ reply_link' = [reply_link EXCEPT ![h] = <<>>]
    /\ UNCHANGED <<server, request_link, clients>>

-----------------------------------------------------------------------------
Dispatch(h) == ParkRequest(h) \/ lock_request_callback(h) \/ CallbackWithoutArg(h)

Next ==
    \/ register_recive_handler
    \/ RegisterArg
    \/ \E t \in Threads : Lock(t) \/ Unlock(t) \/ wait_for_lock_reply(t)
    \/ \E h \in Hosts : \/ Dispatch(h)
                        \/ StoreReply(h)
                        \/ BreakRequestLink(h)
                        \/ BreakReplyLink(h)

Spec == Init /\ [][Next]_vars

\* The event loops keep dispatching, TCP delivers while a connection lasts, the
\* main thread gets through its start-up and a polling thread polls again after
\* every sleep.  Nobody is obliged to ask for a lock or to give one back.
Fairness ==
    /\ WF_vars(register_recive_handler)
    /\ WF_vars(RegisterArg)
    /\ \A h \in Hosts : WF_vars(Dispatch(h)) /\ WF_vars(StoreReply(h))
    /\ \A t \in Threads : WF_vars(wait_for_lock_reply(t))

FairSpec == Spec /\ Fairness

-----------------------------------------------------------------------------
WriteOnlyCallers == CallerTypes \subseteq {W_LOCK} /\ Disciplined

\* No two threads, on one host or on two, hold pages of the same table entry:
\* whatever the interleaving of calls, dispatch, registration and polling, with
\* replies of one host swapped between its threads, with pages that share a
\* fold, and with connections that break.  Callers take write locks only and
\* unlock what they hold.
ExclusiveHolders ==
    \A t, u \in Threads : \A p \in holds[t], q \in holds[u] :
        cal_fold(p) = cal_fold(q) => t = u /\ p = q

\* A claim on fold f: a thread that holds one of its pages, an UNLOCK on its way
\* to the server, or a LOCK_SUCCESS on its way to a thread.
UnlockOf(request, f) == request.lock_type = UNLOCK /\ cal_fold(request.page) = f
GrantOf(reply, f) == reply.reply_type = "LOCK_SUCCESS" /\ cal_fold(reply.page) = f

HoldClaims(f) ==
    {<<"hold", c[1], c[2]>> :
        c \in {d \in Threads \X Pages : d[2] \in holds[d[1]] /\ cal_fold(d[2]) = f}}
UnlockClaims(f) ==
    UNION {{<<"unlock", h, i>> :
        i \in {j \in DOMAIN request_link[h] : UnlockOf(request_link[h][j], f)}} : h \in Hosts}
SentClaims(f) ==
    UNION {{<<"sent", h, i>> :
        i \in {j \in DOMAIN reply_link[h] : GrantOf(reply_link[h][j], f)}} : h \in Hosts}
StoredClaims(f) ==
    UNION {{<<"stored", h, i>> :
        i \in {j \in DOMAIN unprocessed_mess_list[h] :
                GrantOf(unprocessed_mess_list[h][j], f)}} : h \in Hosts}

Claims(f) == HoldClaims(f) \cup UnlockClaims(f) \cup SentClaims(f) \cup StoredClaims(f)

\* There is at most one claim on an entry, counting the messages in flight, and
\* the server's entry is write locked as long as there is one.
ClaimsBacked ==
    \A f \in Folds :
        /\ \A c, d \in Claims(f) : c = d
        /\ Claims(f) # {} =>
            page_lock_hash[f] # NULL /\ page_lock_hash[f].lock_type = W_LOCK

\* An entry is write locked only on somebody's behalf: the lock is held, is
\* being handed over or is being given back, as long as no connection has
\* broken.  One thread per host.
NoOrphanLock ==
    (\A h \in Hosts : link_up[h] = {"request", "reply"}) => \A f \in Folds :
        (page_lock_hash[f] # NULL /\ page_lock_hash[f].lock_type = W_LOCK)
            => Claims(f) # {}

\* A reply travels to a thread that still waits in request_page_lock, for the
\* page the reply is about: a call returns with its own reply.
OwnReply ==
    \A h \in Hosts :
        \A i \in DOMAIN unprocessed_mess_list[h] :
            LET reply == unprocessed_mess_list[h][i] IN
            /\ call[reply.thread] # NULL
            /\ call[reply.thread].page = reply.page

\* A request that reaches the link when the handler is in place is answered and
\* the call returns, unless a connection of the host breaks first.
CallReturns ==
    \A t \in Threads :
        LET h == HostOf[t] IN
        (/\ handler = "ready"
         /\ \E i \in DOMAIN request_link[h] : request_link[h][i].thread = t)
            ~> (call[t] = NULL \/ link_up[h] # {"request", "reply"})
=============================================================================
