-------------------------- MODULE MCCheckQueueMain --------------------------
(***************************************************************************)
(* Model-checking instance of CheckQueueMain: 3 workers and 4 checks stand *)
(* for the program's 5 and 20.                                             *)
(***************************************************************************)
EXTENDS CheckQueueMain

ASSUME MainAssumption

CONSTANTS w1, w2, w3, c1, c2, c3, c4

OnlyMain     == {Main}
FourChecks   == {c1, c2, c3, c4}
ThreeWorkers == {w1, w2, w3}
=============================================================================
