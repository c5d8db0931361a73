---------------------------- MODULE MCLockOrder -----------------------------
(***************************************************************************)
(* Model-checking instances of LockOrder.                                  *)
(***************************************************************************)
EXTENDS LockOrder, TLC

CONSTANTS t1, t2, l1, l2, l3

TwoThreads == {t1, t2}
ThreeLocks == {l1, l2, l3}

\* Threads are alike, and so are locks.
LockSymm == Permutations(TwoThreads) \cup Permutations(ThreeLocks)
=============================================================================
