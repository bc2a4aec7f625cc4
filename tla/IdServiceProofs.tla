--------------------------- MODULE IdServiceProofs --------------------------
(***************************************************************************)
(* Unique, increasing and recorded ids for any number of calls, endpoints, *)
(* retries and restarts.                                                   *)
(***************************************************************************)
EXTENDS IdService, TLAPS

Critical == {"locked", "allotted", "recorded", "counted"}
Counted == {"counted", "released", "sent"}
Allotted == {"allotted", "recorded"} \cup Counted
Recorded == {"recorded"} \cup Counted

\* The mutex is held by the one attempt in the critical section.
Mutex == \A a \in Attempts : step[a] \in Critical <=> id_lock = a

\* A handler that runs belongs to the running process.  An allotted id is the
\* current one until id++, and below it afterwards.
Values ==
    \A a \in Attempts :
        /\ step[a] \in {"allotted", "recorded"} => response[a] = id
        /\ step[a] \in Allotted \ {"sent"} => origin[a] = restarts
        /\ step[a] \in Allotted => origin[a] <= restarts
        /\ step[a] \in Counted /\ origin[a] = restarts => response[a] \in 1 .. id - 1

\* Attempts served by one process have ids of their own.
Distinct ==
    \A a, b \in Attempts :
        (/\ a # b /\ origin[a] = origin[b]
         /\ step[a] \in Allotted /\ step[b] \in Allotted)
            => response[a] # response[b]

\* The running process has the ids it recorded in idmap with their endpoints.
Owned ==
    \A a \in Attempts :
        step[a] \in Recorded /\ origin[a] = restarts =>
            /\ response[a] \in DOMAIN idmap
            /\ idmap[response[a]] = EndpointOf[a[1]]

\* A call that is done has the id of one of its attempts.
Answered ==
    \A c \in Calls : status[c] = "done" =>
        \E a \in Attempts : /\ a[1] = c /\ step[a] = "sent"
                            /\ received[c] = response[a] /\ given_by[c] = origin[a]

\* What a process gave out before a call was made is below every id it gives to
\* the call's attempts, and below the id still to be given out; a call not made
\* has no attempts.
Floors ==
    /\ \A c \in Calls : \A k \in seen[c] :
          k[1] <= restarts /\ (k[1] = restarts => k[2] < id)
    /\ \A a \in Attempts : step[a] \in Allotted =>
          \A k \in seen[a[1]] : k[1] = origin[a] => k[2] < response[a]
    /\ \A a \in Attempts : status[a[1]] = "new" => step[a] = "none"

\* idmap has the ids given out so far, and the current one between its record
\* and id++.
Gapless ==
    /\ \A a \in Attempts : step[a] = "recorded" => DOMAIN idmap = 1 .. id
    /\ (\A a \in Attempts : step[a] # "recorded") => DOMAIN idmap = 1 .. id - 1

IInv ==
    TypeOK /\ Mutex /\ Values /\ Distinct /\ Owned /\ Answered /\ Floors /\ Gapless

USE DEF Critical, Counted, Allotted, Recorded

\* The initial state.
LEMMA InitInv ==
    ASSUME Init
    PROVE  IInv
  <1> USE DEF Init, StartWith
  <1>1. TypeOK  BY RetryAssumption, RestartAssumption DEF TypeOK, Steps
  <1>2. Mutex  BY FreeAssumption DEF Mutex
  <1>0. /\ \A c \in Calls : seen[c] = {} /\ status[c] = "new"
        /\ \A a \in Attempts : step[a] = "none"
    OBVIOUS
  <1>3. Values /\ Distinct /\ Owned /\ Answered
    <2>1. Values  BY <1>0 DEF Values
    <2>2. Distinct  BY <1>0 DEF Distinct
    <2>3. Owned  BY <1>0 DEF Owned
    <2>4. Answered  BY <1>0 DEF Answered
    <2> QED  BY <2>1, <2>2, <2>3, <2>4
  <1>5. Floors  BY <1>0 DEF Floors
  <1>4. Gapless
    <2>1. DOMAIN idmap = {}  OBVIOUS
    <2> QED  BY <2>1 DEF Gapless
  <1> QED  BY <1>1, <1>2, <1>3, <1>4, <1>5 DEF IInv

\* An id a client has received was counted before: if the running process gave
\* it out, it is below the current id.
LEMMA ReceivedBelow ==
    ASSUME IInv, NEW c \in Calls, status[c] = "done"
    PROVE  /\ received[c] \in Nat /\ given_by[c] \in Nat /\ given_by[c] <= restarts
           /\ given_by[c] = restarts => received[c] < id
  <1>1. PICK a \in Attempts : /\ step[a] = "sent" /\ received[c] = response[a]
                              /\ given_by[c] = origin[a]
    BY DEF IInv, Answered
  <1>2. /\ origin[a] <= restarts
        /\ origin[a] = restarts => response[a] \in 1 .. id - 1
    BY <1>1 DEF IInv, Values
  <1> QED  BY <1>1, <1>2 DEF IInv, TypeOK

\* The steps of the handler: one attempt moves on, the client is unchanged.
LEMMA HandlerInv ==
    ASSUME IInv, NEW a \in Attempts, IDInc(a)
    PROVE  IInv'
  <1> USE DEF Move, client, server
  <1>a. a[1] \in Calls  BY DEF Attempts
  <1>t. /\ TypeOK /\ Mutex /\ Values /\ Distinct /\ Owned /\ Answered /\ Floors
        /\ Gapless /\ id \in Nat /\ id > 0 /\ restarts \in Nat
    BY RestartAssumption DEF IInv, TypeOK
  <1>c. UNCHANGED client
    BY DEF IDInc, Acquire, Allot, Record, Increment, Release, Respond
  <1>1. CASE Acquire(a)
    <2> USE <1>1 DEF Acquire
    <2>1. TypeOK'  BY <1>t DEF TypeOK, Steps
    <2>2. Mutex'  BY <1>t, FreeAssumption DEF Mutex, TypeOK
    <2>3. Values' /\ Distinct' /\ Owned'
      BY <1>t DEF Values, Distinct, Owned, TypeOK
    <2>4. Answered'  BY <1>t DEF Answered, TypeOK
    <2>5. Floors'  BY <1>t, <1>a DEF Floors, TypeOK
    <2>g. Gapless'  BY <1>t DEF Gapless, Mutex, TypeOK
    <2> QED  BY <2>1, <2>2, <2>3, <2>4, <2>5, <2>g DEF IInv
  <1>2. CASE Allot(a)
    <2> USE <1>2 DEF Allot
    <2>1. TypeOK'  BY <1>t DEF TypeOK, Steps
    <2>2. Mutex'  BY <1>t DEF Mutex, TypeOK
    \* Nobody else is in the critical section, so the others' ids are below id.
    <2>o. \A b \in Attempts : b # a /\ step[b] \in Allotted /\ origin[b] = restarts
            => response[b] < id
      BY <1>t DEF Mutex, Values, TypeOK
    <2>3. Values'  BY <1>t DEF Values, TypeOK
    <2>4. Distinct'  BY <1>t, <2>o DEF Distinct, TypeOK
    <2>5. Owned'  BY <1>t DEF Owned, TypeOK
    <2>6. Answered'  BY <1>t DEF Answered, TypeOK
    <2>7. Floors'  BY <1>t, <1>a DEF Floors, TypeOK
    <2>g. Gapless'  BY <1>t DEF Gapless, Mutex, TypeOK
    <2> QED  BY <2>1, <2>2, <2>3, <2>4, <2>5, <2>6, <2>7, <2>g DEF IInv
  <1>3. CASE Record(a)
    <2> USE <1>3 DEF Record
    <2>d. /\ DOMAIN idmap' = DOMAIN idmap \cup {id}
          /\ idmap'[id] = EndpointOf[a[1]]
          /\ \A k \in DOMAIN idmap : k # id => idmap'[k] = idmap[k]
      OBVIOUS
    <2>e. EndpointOf[a[1]] \in Endpoints  BY <1>a, EndpointAssumption
    <2>1. TypeOK'  BY <1>t, <2>d, <2>e DEF TypeOK, Steps
    <2>2. Mutex'  BY <1>t DEF Mutex, TypeOK
    <2>3. Values' /\ Distinct'  BY <1>t DEF Values, Distinct, TypeOK
    <2>o. \A b \in Attempts : b # a /\ step[b] \in Recorded /\ origin[b] = restarts
            => response[b] # id
      BY <1>t DEF Mutex, Values, TypeOK
    <2>5. Owned'  BY <1>t, <2>d, <2>o DEF Owned, Values, TypeOK
    <2>6. Answered'  BY <1>t DEF Answered, TypeOK
    <2>7. Floors'  BY <1>t, <1>a DEF Floors, TypeOK
    <2>g. Gapless'  BY <1>t, <2>d DEF Gapless, Mutex, TypeOK
    <2> QED  BY <2>1, <2>2, <2>3, <2>5, <2>6, <2>7, <2>g DEF IInv
  <1>4. CASE Increment(a)
    <2> USE <1>4 DEF Increment
    <2>1. TypeOK'  BY <1>t DEF TypeOK, Steps
    <2>2. Mutex'  BY <1>t DEF Mutex, TypeOK
    <2>3. Values'  BY <1>t DEF Values, Mutex, TypeOK
    <2>4. Distinct' /\ Owned'  BY <1>t DEF Distinct, Owned, TypeOK
    <2>6. Answered'  BY <1>t DEF Answered, TypeOK
    <2>7. Floors'  BY <1>t, <1>a DEF Floors, TypeOK
    <2>g. Gapless'  BY <1>t DEF Gapless, Mutex, TypeOK
    <2> QED  BY <2>1, <2>2, <2>3, <2>4, <2>6, <2>7, <2>g DEF IInv
  <1>5. CASE Release(a)
    <2> USE <1>5 DEF Release
    <2>1. TypeOK'  BY <1>t DEF TypeOK, Steps
    <2>2. Mutex'  BY <1>t, FreeAssumption DEF Mutex, TypeOK
    <2>3. Values' /\ Distinct' /\ Owned'
      BY <1>t DEF Values, Distinct, Owned, TypeOK
    <2>6. Answered'  BY <1>t DEF Answered, TypeOK
    <2>7. Floors'  BY <1>t, <1>a DEF Floors, TypeOK
    <2>g. Gapless'  BY <1>t DEF Gapless, Mutex, TypeOK
    <2> QED  BY <2>1, <2>2, <2>3, <2>6, <2>7, <2>g DEF IInv
  <1>6. CASE Respond(a)
    <2> USE <1>6 DEF Respond
    <2>1. TypeOK'  BY <1>t DEF TypeOK, Steps
    <2>2. Mutex'  BY <1>t DEF Mutex, TypeOK
    <2>3. Values' /\ Distinct' /\ Owned'
      BY <1>t DEF Values, Distinct, Owned, TypeOK
    <2>6. Answered'  BY <1>t DEF Answered, TypeOK
    <2>7. Floors'  BY <1>t, <1>a DEF Floors, TypeOK
    <2>g. Gapless'  BY <1>t DEF Gapless, Mutex, TypeOK
    <2> QED  BY <2>1, <2>2, <2>3, <2>6, <2>7, <2>g DEF IInv
  <1> QED  BY <1>1, <1>2, <1>3, <1>4, <1>5, <1>6 DEF IDInc

\* The steps of a client: a call is made, made again, answered or given up.
LEMMA ClientInv ==
    ASSUME IInv,
           \/ \E c \in Calls : Send(c) \/ Retry(c) \/ Fail(c)
           \/ \E a \in Attempts : Receive(a)
    PROVE  IInv'
  <1> USE DEF Move, server
  <1>t. /\ TypeOK /\ Mutex /\ Values /\ Distinct /\ Owned /\ Answered /\ Floors
        /\ Gapless /\ id \in Nat /\ id > 0 /\ restarts \in Nat
    BY RestartAssumption DEF IInv, TypeOK
  <1>1. ASSUME NEW c \in Calls, Send(c)
        PROVE  IInv'
    <2> USE <1>1 DEF Send
    <2>0. <<c, 0>> \in Attempts /\ <<c, 0>>[1] = c  BY RetryAssumption DEF Attempts
    <2>s. \A k \in seen'[c] : /\ k \in Nat \X Nat
                              /\ k[1] <= restarts
                              /\ k[1] = restarts => k[2] < id
      BY <1>t, ReceivedBelow DEF TypeOK
    <2>1. TypeOK'  BY <1>t, <2>0, <2>s DEF TypeOK, Steps
    <2>2. Mutex'  BY <1>t, <2>0 DEF Mutex, TypeOK
    <2>3. Values' /\ Distinct' /\ Owned'
      BY <1>t, <2>0 DEF Values, Distinct, Owned, TypeOK
    <2>6. Answered'  BY <1>t, <2>0 DEF Answered, TypeOK
    <2>n. \A a \in Attempts : a[1] = c => step'[a] \in {"none", "request"}
      BY <1>t, <2>0 DEF Floors, TypeOK
    <2>m. \A a \in Attempts : a[1] \in Calls  BY DEF Attempts
    <2>e. \A d \in Calls : d # c => seen'[d] = seen[d] /\ status'[d] = status[d]
      BY <1>t DEF TypeOK
    <2>f. \A a \in Attempts : a[1] # c => step'[a] = step[a]
      BY <1>t, <2>0 DEF TypeOK
    <2>p. status'[c] = "pending"  BY <1>t DEF TypeOK
    <2>7. Floors'
      <3>1. \A d \in Calls : \A k \in seen'[d] :
              k[1] <= restarts' /\ (k[1] = restarts' => k[2] < id')
        <4>1. restarts' = restarts /\ id' = id  OBVIOUS
        <4>2. \A k \in seen'[c] : k[1] <= restarts /\ (k[1] = restarts => k[2] < id)
          BY <2>s
        <4>3. \A d \in Calls : \A k \in seen[d] :
                k[1] <= restarts /\ (k[1] = restarts => k[2] < id)
          BY <1>t DEF Floors
        <4> QED  BY <4>1, <4>2, <4>3, <2>e
      <3>2. \A a \in Attempts : step'[a] \in Allotted =>
              \A k \in seen'[a[1]] : k[1] = origin'[a] => k[2] < response'[a]
        BY <1>t, <2>n, <2>m, <2>e, <2>f DEF Floors
      <3>3. \A a \in Attempts : status'[a[1]] = "new" => step'[a] = "none"
        BY <1>t, <2>m, <2>e, <2>f, <2>p DEF Floors
      <3> QED  BY <3>1, <3>2, <3>3 DEF Floors
    <2>g. Gapless'  BY <1>t, <2>0, Zenon DEF Gapless, TypeOK
    <2> QED  BY <2>1, <2>2, <2>3, <2>6, <2>7, <2>g DEF IInv
  <1>2. ASSUME NEW c \in Calls, Retry(c)
        PROVE  IInv'
    <2> DEFINE r == <<c, attempt[c] + 1>>
    <2> USE <1>2 DEF Retry
    <2>0. attempt[c] + 1 \in 0 .. MaxRetry  BY <1>t, RetryAssumption DEF TypeOK
    <2>r. r \in Attempts /\ r[1] = c  BY <2>0 DEF Attempts
    <2> HIDE DEF r
    <2>u. step[r] = "none" /\ step' = [step EXCEPT ![r] = "request"]  BY DEF r
    <2>1. TypeOK'  BY <1>t, <2>0, <2>r, <2>u, SMTT(30) DEF TypeOK, Steps
    <2>2. Mutex'  BY <1>t, <2>r, <2>u DEF Mutex, TypeOK
    <2>3. Values' /\ Distinct' /\ Owned'
      BY <1>t, <2>r, <2>u DEF Values, Distinct, Owned, TypeOK
    <2>6. Answered'  BY <1>t, <2>r, <2>u DEF Answered, TypeOK
    <2>7. Floors'  BY <1>t, <2>r, <2>u DEF Floors, TypeOK
    <2>g. Gapless'  BY <1>t, <2>r, <2>u, Zenon DEF Gapless, TypeOK
    <2> QED  BY <2>1, <2>2, <2>3, <2>6, <2>7, <2>g DEF IInv
  <1>3. ASSUME NEW c \in Calls, Fail(c)
        PROVE  IInv'
    <2> USE <1>3 DEF Fail
    <2>1. TypeOK'  BY <1>t DEF TypeOK
    <2>2. Mutex' /\ Values' /\ Distinct' /\ Owned'
      BY <1>t DEF Mutex, Values, Distinct, Owned
    <2>6. Answered'  BY <1>t DEF Answered, TypeOK
    <2>7. Floors'  BY <1>t DEF Floors, TypeOK, Attempts
    <2>g. Gapless'  BY <1>t DEF Gapless
    <2> QED  BY <2>1, <2>2, <2>6, <2>7, <2>g DEF IInv
  <1>4. ASSUME NEW a \in Attempts, Receive(a)
        PROVE  IInv'
    <2> USE <1>4 DEF Receive
    <2>a. a[1] \in Calls  BY DEF Attempts
    <2>1. TypeOK'  BY <1>t, <2>a DEF TypeOK
    <2>2. Mutex' /\ Values' /\ Distinct' /\ Owned'
      BY <1>t DEF Mutex, Values, Distinct, Owned
    <2>6. Answered'  BY <1>t, <2>a DEF Answered, TypeOK
    <2>7. Floors'  BY <1>t, <2>a DEF Floors, TypeOK, Attempts
    <2>g. Gapless'  BY <1>t DEF Gapless
    <2> QED  BY <2>1, <2>2, <2>6, <2>7, <2>g DEF IInv
  <1> QED  BY <1>1, <1>2, <1>3, <1>4

\* A restart: the attempts it leaves are unserved or were sent by a process that
\* is gone.
LEMMA RestartInv ==
    ASSUME IInv, Restart
    PROVE  IInv'
  <1> USE DEF Restart, client
  <1>t. /\ TypeOK /\ Values /\ Distinct /\ Answered /\ Floors
        /\ restarts \in Nat /\ restarts' = restarts + 1
    BY RestartAssumption DEF IInv, TypeOK
  <1>s. \A a \in Attempts : /\ step'[a] \in {"none", "sent", "lost"}
                            /\ step'[a] = "sent" <=> step[a] = "sent"
                            /\ step'[a] = "none" <=> step[a] = "none"
    BY <1>t DEF TypeOK
  <1>o. \A a \in Attempts : step'[a] = "sent" => origin'[a] <= restarts
    BY <1>t, <1>s DEF Values
  <1>d. DOMAIN idmap' = {}  OBVIOUS
  <1>1. TypeOK'
    <2>1. restarts' \in 0 .. MaxRestarts  BY <1>t, RestartAssumption DEF TypeOK
    <2> QED  BY <1>t, <1>d, <2>1 DEF TypeOK, Steps
  <1>2. Mutex'  BY <1>s, FreeAssumption DEF Mutex
  <1>3. Values'  BY <1>t, <1>s, <1>o DEF Values, TypeOK
  <1>4. Distinct'  BY <1>t, <1>s DEF Distinct
  <1>5. Owned'  BY <1>t, <1>s, <1>o DEF Owned, TypeOK
  <1>6. Answered'  BY <1>t, <1>s DEF Answered
  <1>7. Floors'
    <2>1. \A c \in Calls : \A k \in seen'[c] : k[1] <= restarts' /\ k[1] # restarts'
      BY <1>t, SMTT(30) DEF Floors, TypeOK
    <2> QED  BY <1>t, <1>s, <2>1 DEF Floors
  <1>8. Gapless'  BY <1>s, <1>d DEF Gapless
  <1> QED  BY <1>1, <1>2, <1>3, <1>4, <1>5, <1>6, <1>7, <1>8 DEF IInv

\* IInv is inductive.
LEMMA InvAlways == Spec => []IInv
  <1>1. IInv /\ UNCHANGED vars => IInv'
    BY DEF vars, server, client, IInv, TypeOK, Mutex, Values, Distinct, Owned,
           Answered, Floors, Gapless
  <1>2. IInv /\ Next => IInv'
    BY HandlerInv, ClientInv, RestartInv DEF Next
  <1> QED  BY InitInv, <1>1, <1>2, PTL DEF Spec

\* The globals of the server, the attempts and the calls keep their types under
\* every interleaving of IDInc, retries and restarts.
THEOREM IdTypeCorrect == Spec => []TypeOK
  <1>1. IInv => TypeOK  BY DEF IInv
  <1> QED  BY <1>1, InvAlways, PTL

\* IDInc never gives one id to two calls in one process: each done call holds
\* the response of an attempt of its own, and attempts have distinct ids because
\* id_lock spans the read of id and id++.
THEOREM UniqueIdsAlways == Spec => []UniqueIds
  <1>1. IInv => UniqueIds
    <2> SUFFICES ASSUME IInv, NEW c \in Done, NEW d \in Done, c # d,
                        given_by[c] = given_by[d]
                 PROVE  received[c] # received[d]
      BY DEF UniqueIds
    <2>1. PICK a \in Attempts : /\ a[1] = c /\ step[a] = "sent"
                                /\ received[c] = response[a] /\ given_by[c] = origin[a]
      BY DEF IInv, Answered, Done
    <2>2. PICK b \in Attempts : /\ b[1] = d /\ step[b] = "sent"
                                /\ received[d] = response[b] /\ given_by[d] = origin[b]
      BY DEF IInv, Answered, Done
    <2> QED  BY <2>1, <2>2, Zenon DEF IInv, Distinct
  <1> QED  BY <1>1, InvAlways, PTL

\* The id HandleIDcreResponse receives from the running process is in idmap with
\* the caller's endpoint.
THEOREM RecordedOwnerAlways == Spec => []RecordedOwner
  <1>1. IInv => RecordedOwner
    <2> SUFFICES ASSUME IInv, NEW c \in Done, given_by[c] = restarts
                 PROVE  /\ received[c] \in DOMAIN idmap
                        /\ idmap[received[c]] = EndpointOf[c]
      BY DEF RecordedOwner
    <2>1. PICK a \in Attempts : /\ a[1] = c /\ step[a] = "sent"
                                /\ received[c] = response[a] /\ given_by[c] = origin[a]
      BY DEF IInv, Answered, Done
    <2> QED  BY <2>1 DEF IInv, Owned
  <1> QED  BY <1>1, InvAlways, PTL

\* A call made after an id was received gets a larger id from the same process:
\* everything it gave out is below id, from which the later handler allots.
THEOREM IncreasingIdsAlways == Spec => []IncreasingIds
  <1>1. IInv => IncreasingIds
    <2> SUFFICES ASSUME IInv, NEW c \in Done, NEW k \in seen[c], k[1] = given_by[c]
                 PROVE  k[2] < received[c]
      BY DEF IncreasingIds
    <2>1. PICK a \in Attempts : /\ a[1] = c /\ step[a] = "sent"
                                /\ received[c] = response[a] /\ given_by[c] = origin[a]
      BY DEF IInv, Answered, Done
    <2> QED  BY <2>1 DEF IInv, Floors
  <1> QED  BY <1>1, InvAlways, PTL

\* Whenever no handler holds id_lock, idmap has exactly the ids given out.
THEOREM NoGapsAlways == Spec => []NoGaps
  <1>1. IInv => NoGaps
    BY FreeAssumption DEF IInv, Mutex, Gapless, NoGaps
  <1> QED  BY <1>1, InvAlways, PTL
=============================================================================
