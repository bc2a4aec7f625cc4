---------------------------- MODULE MCLockTable -----------------------------
(* Instances of LockTable for TLC. *)
EXTENDS LockTable, TLC

CONSTANTS h1, h2, h3

MCHosts3 == {h1, h2, h3}

\* Scaled key: stride 4 for 2^20 and 16 key values for 2^32.
MCTwoPages == {[space_id |-> 0, page_no |-> 1], [space_id |-> 1, page_no |-> 1]}
MCOnePage == {[space_id |-> 0, page_no |-> 1]}

MCReadWrite == {R_LOCK, W_LOCK}

MCSymmetry3 == Permutations(MCHosts3)
=============================================================================
