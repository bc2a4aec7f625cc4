----------------------------- MODULE IdService ------------------------------
(***************************************************************************)
(* The transaction id service: IDInc of id-increment/server.cpp, run by    *)
(* concurrent server threads, and the asynchronous calls of client.cpp.    *)
(* The handler holds id_lock while it allots an id; the guards are         *)
(* destroyed in reverse order, so the response leaves after the unlock and *)
(* responses overtake each other.  The rpc library, external, may send a   *)
(* request again up to MaxRetry times: every attempt that arrives runs the *)
(* handler.  An attempt that stays where it is has been lost.              *)
(***************************************************************************)
EXTENDS Integers

CONSTANTS
    Calls,      \* rpc calls, of all clients
    Endpoints,
    EndpointOf, \* call -> the endpoint of the client that makes it
    MaxRetry,   \* options.max_retry
    MaxRestarts, \* bound: how often the server is restarted
    NULL

Attempts == Calls \X (0 .. MaxRetry)

ASSUME RetryAssumption == MaxRetry \in Nat
ASSUME EndpointAssumption == EndpointOf \in [Calls -> Endpoints]
ASSUME RestartAssumption == MaxRestarts \in Nat
ASSUME FreeAssumption == NULL \notin Attempts

VARIABLES
    id, idmap,  \* the globals of the server
    id_lock,    \* the mutex: NULL or the attempt whose handler holds it
    step,       \* attempt -> its progress, from "none" to "sent"
    response,   \* attempt -> id in its response, 0 before it is set
    status,     \* call -> "new", "pending", "done" or "failed"
    attempt,    \* call -> its latest attempt
    received,   \* call -> id given to HandleIDcreResponse, 0 before
    restarts,   \* history: restarts so far, the name of the running process
    origin,     \* history: attempt -> the process that allotted its id
    given_by,   \* history: call -> the process that allotted its id
    seen        \* history: call -> <<process, id>> received before it was made

server == <<id, idmap, id_lock, restarts>>
client == <<status, attempt, received, given_by, seen>>
vars == <<server, step, response, origin, client>>

Steps == {"none", "request", "locked", "allotted", "recorded", "counted",
          "released", "sent", "lost"}

TypeOK ==
    /\ id \in Nat \ {0}
    /\ DOMAIN idmap \subseteq Nat
    /\ \A k \in DOMAIN idmap : idmap[k] \in Endpoints
    /\ id_lock \in Attempts \cup {NULL}
    /\ step \in [Attempts -> Steps]
    /\ response \in [Attempts -> Nat]
    /\ status \in [Calls -> {"new", "pending", "done", "failed"}]
    /\ attempt \in [Calls -> 0 .. MaxRetry]
    /\ received \in [Calls -> Nat]
    /\ restarts \in 0 .. MaxRestarts
    /\ origin \in [Attempts -> Nat]
    /\ given_by \in [Calls -> Nat]
    /\ seen \in [Calls -> SUBSET (Nat \X Nat)]

StartWith(first) ==
    /\ id = first
    /\ idmap = [k \in {} |-> NULL]
    /\ id_lock = NULL
    /\ step = [a \in Attempts |-> "none"]
    /\ response = [a \in Attempts |-> 0]
    /\ status = [c \in Calls |-> "new"]
    /\ attempt = [c \in Calls |-> 0]
    /\ received = [c \in Calls |-> 0]
    /\ restarts = 0
    /\ origin = [a \in Attempts |-> 0]
    /\ given_by = [c \in Calls |-> 0]
    /\ seen = [c \in Calls |-> {}]

\* Mutant of Init: ids start at 0, which is also a response not set.
InitAtZero == StartWith(0)

Init == StartWith(1)

-----------------------------------------------------------------------------
Move(a, from, to) ==
    /\ step[a] = from
    /\ step' = [step EXCEPT ![a] = to]

\* stub.IDInc(cntl, &request, response, done)
Send(c) ==
    /\ status[c] = "new"
    /\ status' = [status EXCEPT ![c] = "pending"]
    /\ seen' = [seen EXCEPT ![c] =
                    {<<given_by[d], received[d]>> : d \in {e \in Calls : status[e] = "done"}}]
    /\ Move(<<c, 0>>, "none", "request")
    /\ UNCHANGED <<server, response, origin, attempt, received, given_by>>

\* The library gives up on an attempt and makes the next one.
Retry(c) ==
    /\ status[c] = "pending"
    /\ attempt[c] < MaxRetry
    /\ attempt' = [attempt EXCEPT ![c] = @ + 1]
    /\ Move(<<c, attempt[c] + 1>>, "none", "request")
    /\ UNCHANGED <<server, response, origin, status, received, given_by, seen>>

\* Mutant of Acquire: the handler runs without the mutex.
AcquireUnguarded(a) ==
    /\ Move(a, "request", "locked")
    /\ id_lock' = a
    /\ UNCHANGED <<id, idmap, restarts, response, origin, client>>

\* lock_guard<mutex> guard(id_lock)
Acquire(a) ==
    /\ id_lock = NULL
    /\ Move(a, "request", "locked")
    /\ id_lock' = a
    /\ UNCHANGED <<id, idmap, restarts, response, origin, client>>

\* Mutant of Allot: the response has the id that comes next.
AllotNext(a) ==
    /\ Move(a, "locked", "allotted")
    /\ response' = [response EXCEPT ![a] = id + 1]
    /\ origin' = [origin EXCEPT ![a] = restarts]
    /\ UNCHANGED <<server, client>>

\* response->set_message(to_string(id))
Allot(a) ==
    /\ Move(a, "locked", "allotted")
    /\ response' = [response EXCEPT ![a] = id]
    /\ origin' = [origin EXCEPT ![a] = restarts]
    /\ UNCHANGED <<server, client>>

\* Mutant of Record: the id is given out and not recorded.
RecordNothing(a) ==
    /\ Move(a, "allotted", "recorded")
    /\ UNCHANGED <<server, response, origin, client>>

\* idmap[id] = endpoint2str(remote_side())
Record(a) ==
    /\ Move(a, "allotted", "recorded")
    /\ idmap' = [k \in DOMAIN idmap \cup {id} |->
                    IF k = id THEN EndpointOf[a[1]] ELSE idmap[k]]
    /\ UNCHANGED <<id, id_lock, restarts, response, origin, client>>

\* Mutant of Increment: the id is not advanced.
IncrementNot(a) ==
    /\ Move(a, "recorded", "counted")
    /\ UNCHANGED <<server, response, origin, client>>

\* id++
Increment(a) ==
    /\ Move(a, "recorded", "counted")
    /\ id' = id + 1
    /\ UNCHANGED <<idmap, id_lock, restarts, response, origin, client>>

\* The lock_guard is destroyed first ...
Release(a) ==
    /\ Move(a, "counted", "released")
    /\ id_lock' = NULL
    /\ UNCHANGED <<id, idmap, restarts, response, origin, client>>

\* ... and the ClosureGuard after it: done->Run() sends the response.
Respond(a) ==
    /\ Move(a, "released", "sent")
    /\ UNCHANGED <<server, response, origin, client>>

\* HandleIDcreResponse with a response: of any attempt, while the call is open.
Receive(a) ==
    /\ step[a] = "sent"
    /\ status[a[1]] = "pending"
    /\ status' = [status EXCEPT ![a[1]] = "done"]
    /\ received' = [received EXCEPT ![a[1]] = response[a]]
    /\ given_by' = [given_by EXCEPT ![a[1]] = origin[a]]
    /\ UNCHANGED <<server, step, response, origin, attempt, seen>>

\* HandleIDcreResponse with cntl->Failed()
Fail(c) ==
    /\ status[c] = "pending"
    /\ status' = [status EXCEPT ![c] = "failed"]
    /\ UNCHANGED <<server, step, response, origin, attempt, received, given_by, seen>>

\* The process ends and starts again: the globals have their initial values,
\* running handlers and unserved requests are gone, sent responses are not.
Restart ==
    /\ restarts < MaxRestarts
    /\ restarts' = restarts + 1
    /\ id' = 1
    /\ idmap' = [k \in {} |-> NULL]
    /\ id_lock' = NULL
    /\ step' = [a \in Attempts |->
                    IF step[a] \in {"none", "sent"} THEN step[a] ELSE "lost"]
    /\ UNCHANGED <<response, origin, client>>

IDInc(a) ==
    Acquire(a) \/ Allot(a) \/ Record(a) \/ Increment(a) \/ Release(a) \/ Respond(a)

Next ==
    \/ \E c \in Calls : Send(c) \/ Retry(c) \/ Fail(c)
    \/ \E a \in Attempts : IDInc(a) \/ Receive(a)
    \/ Restart

Spec == Init /\ [][Next]_vars

-----------------------------------------------------------------------------
Done == {c \in Calls : status[c] = "done"}

\* No two calls receive one id from one server process, whatever the
\* interleaving of handlers, retries, late responses and restarts (id_lock spans
\* the read of id and id++).
UniqueIds ==
    \A c, d \in Done :
        c # d /\ given_by[c] = given_by[d] => received[c] # received[d]

\* The id a client received from the running process is in its idmap as that
\* client's own.
RecordedOwner ==
    \A c \in Done : given_by[c] = restarts =>
        /\ received[c] \in DOMAIN idmap
        /\ idmap[received[c]] = EndpointOf[c]

\* The ids of one process increase in real time: a call made after another one
\* had its id receives a larger id, although responses overtake each other.
IncreasingIds ==
    \A c \in Done : \A k \in seen[c] : k[1] = given_by[c] => k[2] < received[c]

\* With the mutex free, idmap records the ids 1 .. id - 1 and no other: an
\* attempt whose response is lost still has its id on record.
NoGaps == id_lock = NULL => DOMAIN idmap = 1 .. id - 1

\* "unique, monotonically increasing transaction IDs": the same of the service,
\* whichever process answers.
MonotonicService == \A c \in Done : \A k \in seen[c] : k[2] < received[c]
=============================================================================
