---------------------------- MODULE MCCheckQueue ----------------------------
(***************************************************************************)
(* Model-checking instances of CheckQueue.                                 *)
(***************************************************************************)
EXTENDS CheckQueueInv

CONSTANTS w1, w2, m1, m2, c1, c2, c3, c4

OneMaster  == {m1}
TwoMasters == {m1, m2}
OneWorker  == {w1}
TwoWorkers == {w1, w2}
TwoChecks == {c1, c2}
FourChecks == {c1, c2, c3, c4}
OneFails == {c1}
=============================================================================
