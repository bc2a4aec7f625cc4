-------------------------- MODULE LockTableProofs ---------------------------
(***************************************************************************)
(* Proofs about the lock table for any number of hosts and pages, any key  *)
(* width and callers that may ask for anything at any time.                *)
(***************************************************************************)
EXTENDS LockTable, PageLockLemmas

\* The strengthening of TypeOK that makes it inductive: update_fail_page_lock_t
\* never adds a waiter, so no entry has one.
Typed ==
    /\ TypeOK
    /\ page_lock_hash \in [Folds -> QuietEntry \cup {NULL}]

\* The empty table is well typed.
LEMMA InitTyped == Init => Typed
  BY DEF Init, Typed, TypeOK, PageLockType

\* One request leaves the table well typed and changes only its own entry
\* (lock_request_callback).
LEMMA CallbackTyped ==
    ASSUME Typed, NEW h \in Hosts, NEW p \in Pages, NEW lt \in PageLockType,
           lock_request_callback(h, p, lt)
    PROVE  Typed'
  <1> DEFINE f == cal_fold(p)
             o == check_lock_request(h, lt, page_lock_hash[f])
  <1>1. f \in Folds /\ page_lock_hash[f] \in QuietEntry \cup {NULL}
    BY FoldType DEF Typed
  <1>2. o.entry \in QuietEntry /\ o.reply_type \in PageReplyType
    BY <1>1, CheckType
  <1>3. page_lock_hash' = [page_lock_hash EXCEPT ![f] = o.entry]
    BY DEF lock_request_callback
  <1>4. page_lock_hash' \in [Folds -> QuietEntry \cup {NULL}]
    <2> HIDE DEF f, o
    <2> QED BY <1>1, <1>2, <1>3 DEF Typed
  <1>5. granted' \in [Hosts -> [Pages -> PageLockType \cup {NULL}]]
    <2>1. granted' = [granted EXCEPT ![h][p] = GrantAfter(lt, o.reply_type, granted[h][p])]
      BY DEF lock_request_callback, Typed, TypeOK
    <2>2. GrantAfter(lt, o.reply_type, granted[h][p]) \in PageLockType \cup {NULL}
      <3> HIDE DEF o
      <3> QED BY <1>2 DEF GrantAfter, PageReplyType, Typed, TypeOK
    <2> QED BY <2>1, <2>2 DEF Typed, TypeOK
  <1>6. VersionsAfter(f, lt, o) \in SUBSET (0 .. VersionWord - 1)
    <2>1. o.entry.version_no \in 0 .. VersionWord - 1
      BY <1>2 DEF QuietEntry, PageLock_t
    <2>2. write_versions[f] \in SUBSET (0 .. VersionWord - 1)
      BY <1>1 DEF Typed, TypeOK
    <2> HIDE DEF f, o
    <2> QED BY <2>1, <2>2 DEF VersionsAfter
  <1>7. write_versions' \in [Folds -> SUBSET (0 .. VersionWord - 1)]
    <2>1. write_versions' = [write_versions EXCEPT ![f] = VersionsAfter(f, lt, o)]
      BY DEF lock_request_callback
    <2> HIDE DEF f, o
    <2> QED BY <2>1, <1>6 DEF Typed, TypeOK
  <1>8. last' \in Replied
    <2>1. last' = [asker |-> h, page |-> p, lock_type |-> lt,
                   reply_type |-> o.reply_type]
      BY DEF lock_request_callback
    <2> HIDE DEF o
    <2> QED BY <2>1, <1>2 DEF Replied
  <1> QED BY <1>4, <1>5, <1>7, <1>8 DEF Typed, TypeOK, QuietEntry

\* Every step is a request of some host for some page.
LEMMA StepIsRequest ==
    ASSUME Next
    PROVE  \E h \in Hosts, p \in Pages, lt \in PageLockType :
             lock_request_callback(h, p, lt)
  BY CallerAssumption DEF Next, Lock, Unlock, PageLockType

\* Typed is an invariant of the table.
LEMMA TypedInvariant == Spec => []Typed
  <1>1. Typed /\ [Next]_vars => Typed'
    <2> SUFFICES ASSUME Typed, [Next]_vars PROVE Typed'
      OBVIOUS
    <2>1. CASE Next
      BY <2>1, StepIsRequest, CallbackTyped
    <2>2. CASE UNCHANGED vars
      BY <2>2 DEF vars, Typed, TypeOK
    <2> QED BY <2>1, <2>2
  <1> QED BY <1>1, InitTyped, PTL DEF Spec

\* The table, the replies and the version history keep their types under every
\* sequence of requests (check_lock_request and the functions it calls).
THEOREM TableTypeCorrect == Spec => []TypeOK
  <1>1. Typed => TypeOK
    BY DEF Typed
  <1> QED BY <1>1, TypedInvariant, PTL

-----------------------------------------------------------------------------
\* The four outcomes of a request for page p, as facts about the new entry and
\* the reply (check_lock_request).
LEMMA CallbackCases ==
    ASSUME Typed, NEW h \in Hosts, NEW p \in Pages, NEW lt \in PageLockType,
           lock_request_callback(h, p, lt)
    PROVE  LET f == cal_fold(p)
               old == page_lock_hash[f]
               new == page_lock_hash'[f]
           IN  /\ f \in Folds
               /\ new # NULL
               /\ \A g \in Folds : g # f => page_lock_hash'[g] = page_lock_hash[g]
               /\ \/ /\ old = NULL
                     /\ new.lock_holder = {h}
                     /\ new.lock_type = lt
                     /\ granted' = [granted EXCEPT ![h][p] = lt]
                  \/ /\ old # NULL /\ lt = UNLOCK
                     /\ new.lock_holder = old.lock_holder \ {h}
                     /\ new.lock_type = UNLOCK
                     /\ granted' = [granted EXCEPT ![h][p] = NULL]
                  \/ /\ old # NULL /\ lt # UNLOCK
                     /\ new.lock_holder = old.lock_holder \cup {h}
                     /\ new.lock_type = lt
                     /\ granted' = [granted EXCEPT ![h][p] = lt]
                  \/ /\ old # NULL
                     /\ new.lock_holder = old.lock_holder
                     /\ new.lock_type = old.lock_type
                     /\ granted' = granted
  <1> DEFINE f == cal_fold(p)
             old == page_lock_hash[f]
             o == check_lock_request(h, lt, old)
  <1>1. f \in Folds /\ old \in QuietEntry \cup {NULL}
    BY FoldType DEF Typed
  <1>2. o.entry \in QuietEntry
    BY <1>1, CheckType
  <1>3. /\ page_lock_hash' = [page_lock_hash EXCEPT ![f] = o.entry]
        /\ granted' = [granted EXCEPT ![h][p] = GrantAfter(lt, o.reply_type, granted[h][p])]
    BY DEF lock_request_callback, Typed, TypeOK
  <1>4. /\ page_lock_hash'[f] = o.entry
        /\ o.entry # NULL
        /\ \A g \in Folds : g # f => page_lock_hash'[g] = page_lock_hash[g]
    <2>1. o.entry # NULL
      BY <1>2, NullAssumption DEF QuietEntry
    <2> HIDE DEF f, o
    <2> QED BY <2>1, <1>1, <1>3 DEF Typed
  <1>g. /\ o.reply_type = "LOCK_SUCCESS" => granted' = [granted EXCEPT ![h][p] = lt]
        /\ o.reply_type = "UNLOCK_SUCCESS" => granted' = [granted EXCEPT ![h][p] = NULL]
    <2> HIDE DEF o
    <2> QED BY <1>3 DEF GrantAfter
  <1>5. CASE old = NULL
    BY <1>5, <1>1, <1>4, <1>g, CheckInsert
  <1>6. CASE old # NULL /\ lt = UNLOCK
    BY <1>6, <1>1, <1>4, <1>g, CheckUnlock
  <1>7. CASE old # NULL /\ lt # UNLOCK /\ Granted(old, lt)
    BY <1>7, <1>1, <1>4, <1>g, CheckGrant
  <1>8. CASE old # NULL /\ lt # UNLOCK /\ ~Granted(old, lt)
    <2>1. granted' = granted
      BY <1>8, <1>1, <1>3, CheckRefuse DEF GrantAfter, Typed, TypeOK
    <2> QED BY <1>8, <1>1, <1>4, <2>1, CheckRefuse
  <1> QED BY <1>5, <1>6, <1>7, <1>8

\* A locked entry always names a holder, for every caller behaviour.
THEOREM LockedHasHolderAlways == Spec => []LockedHasHolder
  <1>1. Init => LockedHasHolder
    BY DEF Init, LockedHasHolder
  <1>2. Typed /\ LockedHasHolder /\ [Next]_vars => LockedHasHolder'
    <2> SUFFICES ASSUME Typed, LockedHasHolder, [Next]_vars
                 PROVE  LockedHasHolder'
      OBVIOUS
    <2>1. CASE Next
      <3> PICK h \in Hosts, p \in Pages, lt \in PageLockType :
                 lock_request_callback(h, p, lt)
        BY <2>1, StepIsRequest
      <3> SUFFICES ASSUME NEW g \in Folds, page_lock_hash'[g] # NULL,
                          page_lock_hash'[g].lock_type # UNLOCK
                   PROVE  page_lock_hash'[g].lock_holder # {}
        BY DEF LockedHasHolder
      <3> HIDE DEF cal_fold
      <3>1. CASE g # cal_fold(p)
        BY <3>1, CallbackCases DEF LockedHasHolder
      <3>2. CASE g = cal_fold(p)
        BY <3>2, CallbackCases DEF LockedHasHolder
      <3> QED BY <3>1, <3>2
    <2>2. CASE UNCHANGED vars
      BY <2>2 DEF vars, LockedHasHolder
    <2> QED BY <2>1, <2>2
  <1> QED BY <1>1, <1>2, TypedInvariant, PTL DEF Spec

\* When no two pages share a fold, lock_holder lists the hosts that were told
\* LOCK_SUCCESS and not UNLOCK_SUCCESS since, and no others, whatever the callers
\* ask for and in whatever order.
THEOREM HoldersExactAlways ==
    ASSUME FoldsDistinct PROVE Spec => []HoldersExact
  <1>1. Init => HoldersExact
    BY FoldType DEF Init, HoldersExact
  <1>2. Typed /\ HoldersExact /\ [Next]_vars => HoldersExact'
    <2> SUFFICES ASSUME Typed, HoldersExact, [Next]_vars
                 PROVE  HoldersExact'
      OBVIOUS
    <2>1. CASE Next
      <3> PICK h \in Hosts, p \in Pages, lt \in PageLockType :
                 lock_request_callback(h, p, lt)
        BY <2>1, StepIsRequest
      <3> SUFFICES ASSUME NEW q \in Pages
                   PROVE  {g \in Hosts : granted'[g][q] # NULL} =
                            IF page_lock_hash'[cal_fold(q)] = NULL THEN {}
                            ELSE page_lock_hash'[cal_fold(q)].lock_holder
        BY DEF HoldersExact
      <3>1. cal_fold(q) \in Folds
        BY FoldType
      <3>2. granted \in [Hosts -> [Pages -> PageLockType \cup {NULL}]]
        BY DEF Typed, TypeOK
      <3>3. CASE q # p
        <4>1. cal_fold(q) # cal_fold(p)
          BY <3>3 DEF FoldsDistinct
        <4>2. \A g \in Hosts : granted'[g][q] = granted[g][q]
          <5>1. \/ granted' = granted
                \/ \E l \in PageLockType \cup {NULL} :
                      granted' = [granted EXCEPT ![h][p] = l]
            BY CallbackCases
          <5> QED BY <5>1, <3>2, <3>3
        <4>3. page_lock_hash'[cal_fold(q)] = page_lock_hash[cal_fold(q)]
          BY <3>1, <4>1, CallbackCases
        <4> QED BY <4>2, <4>3 DEF HoldersExact
      <3>4. CASE q = p
        <4> DEFINE old == page_lock_hash[cal_fold(p)]
                   new == page_lock_hash'[cal_fold(p)]
                   holders == {g \in Hosts : granted[g][p] # NULL}
        <4>1. /\ old = NULL => holders = {}
              /\ old # NULL => old.lock_holder = holders
          BY DEF HoldersExact
        <4>2. \A l \in PageLockType \cup {NULL} :
                granted' = [granted EXCEPT ![h][p] = l] =>
                  /\ granted'[h][p] = l
                  /\ \A g \in Hosts : g # h => granted'[g][p] = granted[g][p]
          BY <3>2
        <4>3. lt # NULL
          BY NoGrantAssumption
        <4>4. new # NULL
          BY CallbackCases
        <4>5. new.lock_holder = {g \in Hosts : granted'[g][p] # NULL}
          <5>1. CASE /\ old = NULL
                     /\ new.lock_holder = {h}
                     /\ granted' = [granted EXCEPT ![h][p] = lt]
            BY <5>1, <4>1, <4>2, <4>3
          <5>2. CASE /\ old # NULL
                     /\ new.lock_holder = old.lock_holder \ {h}
                     /\ granted' = [granted EXCEPT ![h][p] = NULL]
            BY <5>2, <4>1, <4>2
          <5>3. CASE /\ old # NULL
                     /\ new.lock_holder = old.lock_holder \cup {h}
                     /\ granted' = [granted EXCEPT ![h][p] = lt]
            <6>1. /\ granted'[h][p] # NULL
                  /\ \A g \in Hosts : g # h => granted'[g][p] = granted[g][p]
              BY <5>3, <4>2, <4>3
            <6>2. new.lock_holder = holders \cup {h}
              BY <5>3, <4>1
            <6> HIDE DEF new
            <6> QED BY <6>1, <6>2
          <5>4. CASE /\ old # NULL
                     /\ new.lock_holder = old.lock_holder
                     /\ granted' = granted
            BY <5>4, <4>1
          <5> QED BY <5>1, <5>2, <5>3, <5>4, CallbackCases
        <4> QED BY <3>4, <4>4, <4>5
      <3> QED BY <3>3, <3>4
    <2>2. CASE UNCHANGED vars
      BY <2>2 DEF vars, HoldersExact
    <2> QED BY <2>1, <2>2
  <1> QED BY <1>1, <1>2, TypedInvariant, PTL DEF Spec

-----------------------------------------------------------------------------
\* No write lock was granted under a version above the current one.
VersionsBelow ==
    \A f \in Folds : \A v \in write_versions[f] :
        page_lock_hash[f] # NULL /\ v <= page_lock_hash[f].version_no

\* What one request does to the version history of its fold and to the entry.
LEMMA CallbackVersions ==
    ASSUME Typed, NEW h \in Hosts, NEW p \in Pages, NEW lt \in PageLockType,
           lock_request_callback(h, p, lt)
    PROVE  LET f == cal_fold(p)
               old == page_lock_hash[f]
               new == page_lock_hash'[f]
           IN  /\ last'.page = p /\ last'.lock_type = lt
               /\ \A g \in Folds : g # f => write_versions'[g] = write_versions[g]
               /\ \/ /\ old = NULL
                     /\ new.version_no = 0
                     /\ write_versions'[f] \in {{0}, write_versions[f]}
                  \/ /\ old # NULL
                     /\ new.version_no = old.version_no
                     /\ ~(lt = W_LOCK /\ last'.reply_type = "LOCK_SUCCESS")
                     /\ write_versions'[f] = write_versions[f]
                  \/ /\ old # NULL
                     /\ new.version_no = (old.version_no + 1) % VersionWord
                     /\ write_versions'[f] =
                          IF new.version_no = 0 THEN {0}
                          ELSE write_versions[f] \cup {new.version_no}
  <1> DEFINE f == cal_fold(p)
             old == page_lock_hash[f]
             o == check_lock_request(h, lt, old)
  <1>1. f \in Folds /\ old \in QuietEntry \cup {NULL}
    BY FoldType DEF Typed
  <1>2. /\ page_lock_hash' = [page_lock_hash EXCEPT ![f] = o.entry]
        /\ last' = [asker |-> h, page |-> p, lock_type |-> lt,
                    reply_type |-> o.reply_type]
        /\ write_versions' = [write_versions EXCEPT ![f] = VersionsAfter(f, lt, o)]
    BY DEF lock_request_callback
  <1>3. /\ page_lock_hash'[f] = o.entry
        /\ write_versions'[f] = VersionsAfter(f, lt, o)
        /\ \A g \in Folds : g # f => write_versions'[g] = write_versions[g]
        /\ last'.page = p /\ last'.lock_type = lt /\ last'.reply_type = o.reply_type
    <2> HIDE DEF f, o
    <2> QED BY <1>1, <1>2 DEF Typed, TypeOK
  <1>4. CASE old = NULL
    <2>1. o.entry.version_no = 0 /\ o.reply_type = "LOCK_SUCCESS"
      BY <1>4, CheckInsert
    <2>2. VersionsAfter(f, lt, o) \in {{0}, write_versions[f]}
      <3> HIDE DEF f, o
      <3> QED BY <1>4, <2>1 DEF VersionsAfter, W_LOCK, UNLOCK
    <2> QED BY <1>3, <1>4, <2>1, <2>2
  <1>5. CASE old # NULL /\ lt = UNLOCK
    <2>1. o.entry.version_no = old.version_no /\ o.reply_type = "UNLOCK_SUCCESS"
      BY <1>5, <1>1, CheckUnlock
    <2>2. VersionsAfter(f, lt, o) = write_versions[f]
      <3> HIDE DEF f, o
      <3> QED BY <1>5, <2>1 DEF VersionsAfter, W_LOCK, UNLOCK
    <2> QED BY <1>3, <1>5, <2>1, <2>2
  <1>6. CASE old # NULL /\ lt # UNLOCK /\ Granted(old, lt)
    <2>1. /\ o.reply_type = "LOCK_SUCCESS"
          /\ lt = W_LOCK => o.entry.version_no = (old.version_no + 1) % VersionWord
          /\ lt # W_LOCK => o.entry.version_no = old.version_no
      BY <1>6, <1>1, CheckGrant
    <2>2. VersionsAfter(f, lt, o) =
            IF lt # W_LOCK THEN write_versions[f]
            ELSE IF o.entry.version_no = 0 THEN {0}
                 ELSE write_versions[f] \cup {o.entry.version_no}
      <3> HIDE DEF f, o
      <3> QED BY <1>6, <2>1 DEF VersionsAfter, W_LOCK, UNLOCK
    <2> QED BY <1>3, <1>6, <2>1, <2>2
  <1>7. CASE old # NULL /\ lt # UNLOCK /\ ~Granted(old, lt)
    <2>1. o.entry.version_no = old.version_no /\ o.reply_type = "LOCK_FAIL"
      BY <1>7, <1>1, CheckRefuse
    <2>2. VersionsAfter(f, lt, o) = write_versions[f]
      <3> HIDE DEF f, o
      <3> QED BY <1>7, <2>1 DEF VersionsAfter, W_LOCK, UNLOCK
    <2> QED BY <1>3, <1>7, <2>1, <2>2
  <1> QED BY <1>4, <1>5, <1>6, <1>7

\* A write lock is granted under a version_no of its own until the 64-bit
\* counter wraps: versions granted so far are at most the current one, and
\* update_success_page_lock_t counts up from it.
THEOREM FreshVersionAlways == Spec => FreshVersionPerWrite
  <1> DEFINE Fresh == \A f \in Folds :
                        /\ last'.lock_type = W_LOCK
                        /\ last'.reply_type = "LOCK_SUCCESS"
                        /\ cal_fold(last'.page) = f
                        /\ page_lock_hash'[f].version_no # 0
                        => page_lock_hash'[f].version_no \notin write_versions[f]
  <1>1. Init => VersionsBelow
    BY DEF Init, VersionsBelow
  <1>2. ASSUME Typed, VersionsBelow, Next
        PROVE  VersionsBelow' /\ Fresh
    <2> PICK h \in Hosts, p \in Pages, lt \in PageLockType :
               lock_request_callback(h, p, lt)
      BY <1>2, StepIsRequest
    <2> DEFINE f == cal_fold(p)
               old == page_lock_hash[f]
               new == page_lock_hash'[f]
    <2>1. /\ f \in Folds /\ new # NULL
          /\ \A g \in Folds : g # f => page_lock_hash'[g] = page_lock_hash[g]
      BY <1>2, CallbackCases
    <2>v. /\ last'.page = p /\ last'.lock_type = lt
          /\ \A g \in Folds : g # f => write_versions'[g] = write_versions[g]
          /\ \/ /\ old = NULL
                /\ new.version_no = 0
                /\ write_versions'[f] \in {{0}, write_versions[f]}
             \/ /\ old # NULL
                /\ new.version_no = old.version_no
                /\ ~(lt = W_LOCK /\ last'.reply_type = "LOCK_SUCCESS")
                /\ write_versions'[f] = write_versions[f]
             \/ /\ old # NULL
                /\ new.version_no = (old.version_no + 1) % VersionWord
                /\ write_versions'[f] = IF new.version_no = 0 THEN {0}
                                        ELSE write_versions[f] \cup {new.version_no}
      BY <1>2, CallbackVersions
    <2>2. Typed'
      BY <1>2, CallbackTyped
    <2>3. /\ new.version_no \in 0 .. VersionWord - 1
          /\ old # NULL => old.version_no \in 0 .. VersionWord - 1
          /\ write_versions[f] \subseteq 0 .. VersionWord - 1
      BY <1>2, <2>1, <2>2 DEF Typed, TypeOK, QuietEntry, PageLock_t
    <2>4. old # NULL =>
            (old.version_no + 1) % VersionWord \in {0, old.version_no + 1}
      BY <2>3, WordAssumption
    <2>5. \A v \in write_versions[f] : old # NULL /\ v <= old.version_no
      BY <1>2, <2>1 DEF VersionsBelow
    <2>6. \A v \in write_versions'[f] : v <= new.version_no
      <3> HIDE DEF f, old, new
      <3> QED BY <2>3, <2>4, <2>5, <2>v
    <2>7. VersionsBelow'
      <3> SUFFICES ASSUME NEW g \in Folds, NEW v \in write_versions'[g]
                   PROVE  page_lock_hash'[g] # NULL /\ v <= page_lock_hash'[g].version_no
        BY DEF VersionsBelow
      <3>1. CASE g = f
        BY <3>1, <2>1, <2>6
      <3>2. CASE g # f
        BY <1>2, <3>2, <2>1, <2>v DEF VersionsBelow
      <3> QED BY <3>1, <3>2
    <2>8. Fresh
      <3> SUFFICES ASSUME last'.lock_type = W_LOCK,
                          last'.reply_type = "LOCK_SUCCESS",
                          new.version_no # 0
                   PROVE  new.version_no \notin write_versions[f]
        BY <2>v
      <3> HIDE DEF f, old, new
      <3> QED BY <2>3, <2>4, <2>5, <2>v
    <2> QED BY <2>7, <2>8
  <1>3. Typed /\ VersionsBelow /\ [Next]_vars => VersionsBelow' /\ [Fresh]_vars
    <2>1. VersionsBelow /\ UNCHANGED vars => VersionsBelow'
      BY DEF VersionsBelow, vars
    <2> HIDE DEF Fresh
    <2> QED BY <1>2, <2>1
  <1> HIDE DEF Fresh
  <1>4. Spec => [][Fresh]_vars
    BY <1>1, <1>3, TypedInvariant, PTL DEF Spec
  <1> QED BY <1>4 DEF Fresh, FreshVersionPerWrite
=============================================================================
