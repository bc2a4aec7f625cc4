------------------------- MODULE MCPageLockService --------------------------
(* Instances of PageLockService for TLC. *)
EXTENDS PageLockService, TLC

CONSTANTS h1, h2, t1, t2, t3

MCHosts == {h1, h2}

\* t1 and t2 share host h1, t3 runs on h2; or one thread on each host.
MCThreads3 == {t1, t2, t3}
MCShared == (t1 :> h1) @@ (t2 :> h1) @@ (t3 :> h2)
MCThreads2 == {t1, t3}
MCSeparate == (t1 :> h1) @@ (t3 :> h2)

\* Stride 4 for 2^20: pages (0, 5) and (1, 0) have the same fold.
MCColliding == {[space_id |-> 0, page_no |-> 5], [space_id |-> 1, page_no |-> 0]}

MCWriteOnly == {W_LOCK}
=============================================================================
