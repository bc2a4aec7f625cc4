----------------------------- MODULE LockTable ------------------------------
(***************************************************************************)
(* The lock table of RemotePageLockManager as its event thread runs it: one *)
(* request after another, each handled to its reply.  The network and the  *)
(* waiting client are in PageLockService; here a request meets the table   *)
(* at once, and `granted' is what each host knows from the replies.        *)
(***************************************************************************)
EXTENDS PageLock

CONSTANTS
    CallerTypes,    \* the lock types the callers ask for: R_LOCK, W_LOCK
    Disciplined     \* TRUE: a host unlocks a page only while it is granted it

ASSUME CallerAssumption ==
    CallerTypes \subseteq {R_LOCK, W_LOCK} /\ Disciplined \in BOOLEAN
ASSUME NoGrantAssumption == NULL \notin PageLockType

VARIABLES
    page_lock_hash, \* fold -> entry or NULL
    granted,        \* host -> page -> type last answered LOCK_SUCCESS, NULL after an unlock
    write_versions, \* fold -> versions write locks were granted under since a wrap
    last            \* the last request and the reply to it

vars == <<page_lock_hash, granted, write_versions, last>>

Replied == [asker : Hosts, page : Pages, lock_type : PageLockType,
            reply_type : PageReplyType]

TypeOK ==
    /\ page_lock_hash \in [Folds -> PageLock_t \cup {NULL}]
    /\ granted \in [Hosts -> [Pages -> PageLockType \cup {NULL}]]
    /\ write_versions \in [Folds -> SUBSET (0 .. VersionWord - 1)]
    /\ last \in Replied \cup {NULL}

Init ==
    /\ page_lock_hash = [f \in Folds |-> NULL]
    /\ granted = [h \in Hosts |-> [p \in Pages |-> NULL]]
    /\ write_versions = [f \in Folds |-> {}]
    /\ last = NULL

-----------------------------------------------------------------------------
\* The versions seen by write locks, forgotten when version_no wraps to 0.
VersionsAfter(f, lock_type, outcome) ==
    IF lock_type = W_LOCK /\ outcome.reply_type = "LOCK_SUCCESS"
    THEN LET version == outcome.entry.version_no IN
         IF version = 0 THEN {0} ELSE write_versions[f] \cup {version}
    ELSE write_versions[f]

\* What the asker knows from a reply.  The UNLOCK of a page without an entry is
\* answered LOCK_SUCCESS: the asker is a holder until its next UNLOCK.
GrantAfter(lock_type, reply_type, before) ==
    CASE reply_type = "LOCK_SUCCESS" -> lock_type
      [] reply_type = "UNLOCK_SUCCESS" -> NULL
      [] OTHER -> before

lock_request_callback(asker, page, lock_type) ==
    LET f == cal_fold(page)
        outcome == check_lock_request(asker, lock_type, page_lock_hash[f])
    IN  /\ page_lock_hash' = [page_lock_hash EXCEPT ![f] = outcome.entry]
        /\ last' = [asker |-> asker, page |-> page, lock_type |-> lock_type,
                    reply_type |-> outcome.reply_type]
        /\ granted' = [granted EXCEPT ![asker][page] =
                            GrantAfter(lock_type, outcome.reply_type, @)]
        /\ write_versions' =
                [write_versions EXCEPT ![f] = VersionsAfter(f, lock_type, outcome)]

Lock(asker, page) ==
    \E lock_type \in CallerTypes : lock_request_callback(asker, page, lock_type)

Unlock(asker, page) ==
    /\ Disciplined => granted[asker][page] \in {R_LOCK, W_LOCK}
    /\ lock_request_callback(asker, page, UNLOCK)

Next == \E h \in Hosts, p \in Pages : Lock(h, p) \/ Unlock(h, p)

Spec == Init /\ [][Next]_vars

-----------------------------------------------------------------------------
FoldsDistinct == \A p, q \in Pages : cal_fold(p) = cal_fold(q) => p = q

\* A table entry that says a page is locked names at least one holder: no
\* order of grants, failures and unlocks (by holders or by strangers) leaves a
\* lock that nobody can release.
LockedHasHolder ==
    \A f \in Folds : page_lock_hash[f] # NULL =>
        (page_lock_hash[f].lock_type # UNLOCK =>
            page_lock_hash[f].lock_holder # {})

\* lock_holder is exactly the set of hosts that were told LOCK_SUCCESS and have
\* not been told UNLOCK_SUCCESS since: no order of grants, refusals and unlocks,
\* by holders or by strangers, loses a holder or leaves a stale one behind.
HoldersExact ==
    \A p \in Pages :
        {h \in Hosts : granted[h][p] # NULL} =
            IF page_lock_hash[cal_fold(p)] = NULL THEN {}
            ELSE page_lock_hash[cal_fold(p)].lock_holder

\* A write lock is granted under a version_no that no earlier write lock of the
\* page was granted under, as long as the 64-bit counter has not wrapped.
FreshVersionPerWrite ==
    [][\A f \in Folds :
        /\ last'.lock_type = W_LOCK
        /\ last'.reply_type = "LOCK_SUCCESS"
        /\ cal_fold(last'.page) = f
        /\ page_lock_hash'[f].version_no # 0
        => page_lock_hash'[f].version_no \notin write_versions[f]]_vars

\* What lock_compatibility_matrix promises: two hosts hold a page together
\* only if both hold it for reading.
CompatibleGrants ==
    \A h, g \in Hosts, p \in Pages :
        (h # g /\ {granted[h][p], granted[g][p]} \subseteq {R_LOCK, W_LOCK}) =>
            lock_compatibility_matrix[granted[h][p]][granted[g][p]]
=============================================================================
