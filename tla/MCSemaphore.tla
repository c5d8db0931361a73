---------------------------- MODULE MCSemaphore -----------------------------
(***************************************************************************)
(* Model-checking instance of Semaphore.                                   *)
(***************************************************************************)
EXTENDS Semaphore, TLC

CONSTANTS t1, t2, t3, s1, s2, g1, g2, g3, g4

ThreeThreads == {t1, t2, t3}
TwoSems == {s1, s2}
FourGrants == {g1, g2, g3, g4}

\* Thread t1 has two grants, to move one to the other.
OwnerOfFour == g1 :> t1 @@ g2 :> t1 @@ g3 :> t2 @@ g4 :> t3

TwoAndOne == s1 :> 2 @@ s2 :> 1
=============================================================================
