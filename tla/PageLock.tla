------------------------------ MODULE PageLock ------------------------------
(***************************************************************************)
(* The lock table entry of the centralized page lock server and the        *)
(* functions of RemotePageLockManager that compute on it                   *)
(* (src/components/centralized-lock-table).  No state here: LockTable and  *)
(* PageLockService give the table its variables.                           *)
(***************************************************************************)
EXTENDS Integers, Sequences

CONSTANTS
    Hosts,          \* names of the hosts that ask for locks
    Pages,          \* pages, records with a space_id and a page_no
    SpaceStride,    \* 2^20, the weight of space_id in the hash key
    KeyWord,        \* 2^32, the number of values of a uint32_t
    VersionWord,    \* 2^64, the number of values of version_no
    NULL            \* no entry

\* enum PageLockType: UNLOCK is the largest, the others sort by lock level.
R_LOCK == 0
W_LOCK == 1
UNLOCK == 2

PageLockType == {R_LOCK, W_LOCK, UNLOCK}

\* enum PageReplyType; UNLOCK_FAIL exists in the source and is never sent.
PageReplyType == {"LOCK_SUCCESS", "LOCK_FAIL", "UNLOCK_SUCCESS"}

WaitInfor == [name : Hosts, type : PageLockType]

\* lock_holder is a list the code only extends, strips of every copy of one
\* name and tests for emptiness, so a set stands for it exactly.
PageLock_t == [version_no : 0 .. VersionWord - 1,
               lock_type : PageLockType,
               lock_holder : SUBSET Hosts,
               wait_list : Seq(WaitInfor)]

ASSUME PageAssumption ==
    \A p \in Pages : p.space_id \in Nat /\ p.page_no \in Nat
ASSUME WordAssumption ==
    /\ SpaceStride \in Nat
    /\ KeyWord \in Nat \ {0}
    /\ VersionWord \in Nat \ {0}
ASSUME NullAssumption == NULL \notin PageLock_t

-----------------------------------------------------------------------------
\* Rows are the request, columns the status of the entry.
lock_compatibility_matrix ==
    [request \in {R_LOCK, W_LOCK} |->
        [status \in {R_LOCK, W_LOCK} |-> request = R_LOCK /\ status = R_LOCK]]

\* Every operation of the sum is on 32 bits: the shift and the additions wrap.
cal_fold(page) ==
    (page.space_id * SpaceStride + page.space_id + page.page_no) % KeyWord

Folds == {cal_fold(p) : p \in Pages}

\* Mutant of insert_page_lock_t: the first asker is not recorded.
insert_without_holder(asker, lock_type) ==
    [version_no |-> 0, lock_type |-> lock_type, lock_holder |-> {},
     wait_list |-> <<>>]

insert_page_lock_t(asker, lock_type) ==
    [version_no |-> 0, lock_type |-> lock_type, lock_holder |-> {asker},
     wait_list |-> <<>>]

\* Mutants of update_unlock_page_lock_t: the asker stays in lock_holder, the
\* page stays locked, or the entry starts again at version 0.
unlock_keeps_holder(asker, entry) == [entry EXCEPT !.lock_type = UNLOCK]
unlock_keeps_type(asker, entry) == [entry EXCEPT !.lock_holder = @ \ {asker}]
unlock_forgets_version(asker, entry) ==
    [entry EXCEPT !.lock_type = UNLOCK, !.lock_holder = @ \ {asker}, !.version_no = 0]

update_unlock_page_lock_t(asker, entry) ==
    LET rest == entry.lock_holder \ {asker} IN
    IF rest = {} /\ entry.wait_list # <<>>
    THEN [entry EXCEPT !.lock_type = Head(entry.wait_list).type,
                       !.lock_holder = {Head(entry.wait_list).name},
                       !.wait_list = Tail(entry.wait_list)]
    ELSE [entry EXCEPT !.lock_type = UNLOCK, !.lock_holder = rest]

update_success_page_lock_t(asker, lock_type, entry) ==
    [entry EXCEPT
        !.version_no = IF lock_type = W_LOCK THEN (@ + 1) % VersionWord ELSE @,
        !.lock_type = lock_type,
        !.lock_holder = @ \cup {asker}]

\* Raises the level of a waiter with this name.  A new WaitInfor is filled in
\* when there is none, and goes out of scope without entering wait_list.
update_fail_page_lock_t(asker, lock_type, entry) ==
    LET Raised(waiter) ==
            IF waiter.name = asker /\ lock_type > waiter.type
            THEN [waiter EXCEPT !.type = lock_type] ELSE waiter
    IN  [entry EXCEPT !.wait_list =
            [i \in DOMAIN entry.wait_list |-> Raised(entry.wait_list[i])]]

-----------------------------------------------------------------------------
\* Mutant of Granted: the matrix is not consulted.
granted_without_matrix(entry, lock_type) == TRUE

\* The entry check_lock_request leaves behind and the reply it fills in.
Granted(entry, lock_type) ==
    \/ entry.lock_type = UNLOCK
    \/ lock_compatibility_matrix[lock_type][entry.lock_type]

\* Mutant of check_lock_request: the UNLOCK of a page the asker does not hold
\* is refused with the reply type the enum keeps for it.
check_refuses_strangers(asker, lock_type, entry) ==
    CASE entry = NULL ->
           [entry |-> insert_page_lock_t(asker, lock_type),
            reply_type |-> "LOCK_SUCCESS"]
      [] entry # NULL /\ lock_type = UNLOCK /\ asker \notin entry.lock_holder ->
           [entry |-> entry, reply_type |-> "UNLOCK_FAIL"]
      [] entry # NULL /\ lock_type = UNLOCK /\ asker \in entry.lock_holder ->
           [entry |-> update_unlock_page_lock_t(asker, entry),
            reply_type |-> "UNLOCK_SUCCESS"]
      [] entry # NULL /\ lock_type # UNLOCK /\ Granted(entry, lock_type) ->
           [entry |-> update_success_page_lock_t(asker, lock_type, entry),
            reply_type |-> "LOCK_SUCCESS"]
      [] entry # NULL /\ lock_type # UNLOCK /\ ~Granted(entry, lock_type) ->
           [entry |-> update_fail_page_lock_t(asker, lock_type, entry),
            reply_type |-> "LOCK_FAIL"]

check_lock_request(asker, lock_type, entry) ==
    CASE entry = NULL ->
           [entry |-> insert_page_lock_t(asker, lock_type),
            reply_type |-> "LOCK_SUCCESS"]
      [] entry # NULL /\ lock_type = UNLOCK ->
           [entry |-> update_unlock_page_lock_t(asker, entry),
            reply_type |-> "UNLOCK_SUCCESS"]
      [] entry # NULL /\ lock_type # UNLOCK /\ Granted(entry, lock_type) ->
           [entry |-> update_success_page_lock_t(asker, lock_type, entry),
            reply_type |-> "LOCK_SUCCESS"]
      [] entry # NULL /\ lock_type # UNLOCK /\ ~Granted(entry, lock_type) ->
           [entry |-> update_fail_page_lock_t(asker, lock_type, entry),
            reply_type |-> "LOCK_FAIL"]
=============================================================================
