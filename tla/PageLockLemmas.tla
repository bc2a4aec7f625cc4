--------------------------- MODULE PageLockLemmas ---------------------------
(***************************************************************************)
(* What check_lock_request computes, case by case, for entries whose       *)
(* wait_list is empty.  No entry ever has another one: the only code that  *)
(* would add a waiter drops it.                                            *)
(***************************************************************************)
EXTENDS PageLock, TLAPS

QuietEntry == {e \in PageLock_t : e.wait_list = <<>>}

\* A page of the instance has its key among Folds (cal_fold).
LEMMA FoldType == ASSUME NEW p \in Pages PROVE cal_fold(p) \in Folds
  BY DEF Folds

\* The sum of version_no stays in its 64-bit word.
LEMMA VersionType ==
    ASSUME NEW v \in 0 .. VersionWord - 1
    PROVE  /\ (v + 1) % VersionWord \in 0 .. VersionWord - 1
           /\ 0 \in 0 .. VersionWord - 1
  BY WordAssumption

\* First request on a page: insert_page_lock_t whatever the request type.
LEMMA CheckInsert ==
    ASSUME NEW asker \in Hosts, NEW lt \in PageLockType
    PROVE  LET o == check_lock_request(asker, lt, NULL) IN
           /\ o.entry \in QuietEntry
           /\ o.reply_type = "LOCK_SUCCESS"
           /\ o.entry.lock_type = lt
           /\ o.entry.lock_holder = {asker}
           /\ o.entry.version_no = 0
  <1>1. check_lock_request(asker, lt, NULL) =
          [entry |-> insert_page_lock_t(asker, lt), reply_type |-> "LOCK_SUCCESS"]
    BY DEF check_lock_request
  <1>2. insert_page_lock_t(asker, lt) \in QuietEntry
    BY WordAssumption DEF insert_page_lock_t, QuietEntry, PageLock_t
  <1> QED BY <1>1, <1>2 DEF insert_page_lock_t

\* UNLOCK on a known page: update_unlock_page_lock_t without a waiter.
LEMMA CheckUnlock ==
    ASSUME NEW asker \in Hosts, NEW e \in QuietEntry
    PROVE  LET o == check_lock_request(asker, UNLOCK, e) IN
           /\ o.entry \in QuietEntry
           /\ o.reply_type = "UNLOCK_SUCCESS"
           /\ o.entry.lock_type = UNLOCK
           /\ o.entry.lock_holder = e.lock_holder \ {asker}
           /\ o.entry.version_no = e.version_no
  <1>1. e # NULL
    BY NullAssumption DEF QuietEntry
  <1>2. check_lock_request(asker, UNLOCK, e) =
          [entry |-> update_unlock_page_lock_t(asker, e),
           reply_type |-> "UNLOCK_SUCCESS"]
    BY <1>1 DEF check_lock_request
  <1>3. update_unlock_page_lock_t(asker, e) =
          [e EXCEPT !.lock_type = UNLOCK, !.lock_holder = e.lock_holder \ {asker}]
    BY DEF update_unlock_page_lock_t, QuietEntry
  <1>4. e \in PageLock_t /\ e.wait_list = <<>>
    BY DEF QuietEntry
  <1>5. update_unlock_page_lock_t(asker, e) \in PageLock_t
    BY <1>3, <1>4 DEF PageLock_t, PageLockType
  <1>6. /\ update_unlock_page_lock_t(asker, e).wait_list = <<>>
        /\ update_unlock_page_lock_t(asker, e).lock_type = UNLOCK
        /\ update_unlock_page_lock_t(asker, e).lock_holder = e.lock_holder \ {asker}
        /\ update_unlock_page_lock_t(asker, e).version_no = e.version_no
    BY <1>3, <1>4 DEF PageLock_t
  <1> QED BY <1>2, <1>5, <1>6 DEF QuietEntry

\* A lock request that the entry admits: update_success_page_lock_t.
LEMMA CheckGrant ==
    ASSUME NEW asker \in Hosts, NEW lt \in PageLockType, NEW e \in QuietEntry,
           lt # UNLOCK, Granted(e, lt)
    PROVE  LET o == check_lock_request(asker, lt, e) IN
           /\ o.entry \in QuietEntry
           /\ o.reply_type = "LOCK_SUCCESS"
           /\ o.entry.lock_type = lt
           /\ o.entry.lock_holder = e.lock_holder \cup {asker}
           /\ o.entry.version_no = IF lt = W_LOCK THEN (e.version_no + 1) % VersionWord
                                   ELSE e.version_no
  <1>1. e # NULL
    BY NullAssumption DEF QuietEntry
  <1>2. check_lock_request(asker, lt, e) =
          [entry |-> update_success_page_lock_t(asker, lt, e),
           reply_type |-> "LOCK_SUCCESS"]
    BY <1>1 DEF check_lock_request
  <1>3. (IF lt = W_LOCK THEN (e.version_no + 1) % VersionWord ELSE e.version_no)
            \in 0 .. VersionWord - 1
    BY VersionType DEF QuietEntry, PageLock_t
  <1>4. e \in PageLock_t /\ e.wait_list = <<>>
    BY DEF QuietEntry
  <1>5. update_success_page_lock_t(asker, lt, e) \in PageLock_t
    BY <1>3, <1>4 DEF update_success_page_lock_t, PageLock_t
  <1>6. /\ update_success_page_lock_t(asker, lt, e).wait_list = <<>>
        /\ update_success_page_lock_t(asker, lt, e).lock_type = lt
        /\ update_success_page_lock_t(asker, lt, e).lock_holder =
                e.lock_holder \cup {asker}
        /\ update_success_page_lock_t(asker, lt, e).version_no =
                IF lt = W_LOCK THEN (e.version_no + 1) % VersionWord ELSE e.version_no
    BY <1>4 DEF update_success_page_lock_t, PageLock_t
  <1> QED BY <1>2, <1>5, <1>6 DEF QuietEntry

\* A lock request that the entry refuses: update_fail_page_lock_t.
LEMMA CheckRefuse ==
    ASSUME NEW asker \in Hosts, NEW lt \in PageLockType, NEW e \in QuietEntry,
           lt # UNLOCK, ~Granted(e, lt)
    PROVE  LET o == check_lock_request(asker, lt, e) IN
           /\ o.entry \in QuietEntry
           /\ o.reply_type = "LOCK_FAIL"
           /\ o.entry.lock_type = e.lock_type
           /\ o.entry.lock_holder = e.lock_holder
           /\ o.entry.version_no = e.version_no
  <1>1. e # NULL
    BY NullAssumption DEF QuietEntry
  <1>2. check_lock_request(asker, lt, e) =
          [entry |-> update_fail_page_lock_t(asker, lt, e),
           reply_type |-> "LOCK_FAIL"]
    BY <1>1 DEF check_lock_request
  <1>3. update_fail_page_lock_t(asker, lt, e) = [e EXCEPT !.wait_list = <<>>]
    <2> DEFINE F(x) == IF x.name = asker /\ lt > x.type
                       THEN [x EXCEPT !.type = lt] ELSE x
    <2>1. [i \in DOMAIN e.wait_list |-> F(e.wait_list[i])] = <<>>
      <3>1. e.wait_list = <<>>
        BY DEF QuietEntry
      <3> HIDE DEF F
      <3> QED BY <3>1
    <2> QED BY <2>1 DEF update_fail_page_lock_t
  <1>4. e \in PageLock_t /\ e.wait_list = <<>>
    BY DEF QuietEntry
  <1>5. update_fail_page_lock_t(asker, lt, e) = e
    BY <1>3, <1>4 DEF PageLock_t
  <1> QED BY <1>2, <1>5

\* Every case leaves a well-formed entry without waiters and a reply.
LEMMA CheckType ==
    ASSUME NEW asker \in Hosts, NEW lt \in PageLockType,
           NEW e \in QuietEntry \cup {NULL}
    PROVE  /\ check_lock_request(asker, lt, e).entry \in QuietEntry
           /\ check_lock_request(asker, lt, e).reply_type \in PageReplyType
  <1>1. CASE e = NULL
    BY <1>1, CheckInsert DEF PageReplyType
  <1>2. CASE e # NULL /\ lt = UNLOCK
    BY <1>2, CheckUnlock DEF PageReplyType
  <1>3. CASE e # NULL /\ lt # UNLOCK /\ Granted(e, lt)
    BY <1>3, CheckGrant DEF PageReplyType
  <1>4. CASE e # NULL /\ lt # UNLOCK /\ ~Granted(e, lt)
    BY <1>4, CheckRefuse DEF PageReplyType
  <1> QED BY <1>1, <1>2, <1>3, <1>4

\* The write row of lock_compatibility_matrix is all false: a write lock is
\* granted on an unlocked entry only.
LEMMA WriteGranted ==
    ASSUME NEW e \in QuietEntry
    PROVE  Granted(e, W_LOCK) <=> e.lock_type = UNLOCK
  <1>1. e.lock_type \in {R_LOCK, W_LOCK, UNLOCK}
    BY DEF QuietEntry, PageLock_t, PageLockType
  <1>2. ASSUME NEW status \in {R_LOCK, W_LOCK}
        PROVE  ~lock_compatibility_matrix[W_LOCK][status]
    <2>1. R_LOCK # W_LOCK
      BY DEF R_LOCK, W_LOCK
    <2>2. lock_compatibility_matrix[W_LOCK] =
            [s \in {R_LOCK, W_LOCK} |-> W_LOCK = R_LOCK /\ s = R_LOCK]
      BY Zenon DEF lock_compatibility_matrix
    <2> QED BY <2>1, <2>2, Zenon
  <1> QED BY <1>1, <1>2 DEF Granted
=============================================================================
