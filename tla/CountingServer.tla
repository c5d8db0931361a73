---------------------------- MODULE CountingServer ----------------------------
(***************************************************************************)
(* A server as its callers see it through the functions of peer.cpp and    *)
(* dht.cpp: it is started, counts hits one by one from 0, and is stopped;  *)
(* stopping comes to an end, and then nothing is left that could count.  A *)
(* server may instead take the program down when it is told to stop.       *)
(***************************************************************************)
EXTENDS Integers

VARIABLES
    phase,  \* "idle", "serving", "stopping" or "terminated"
    hits

vars == <<phase, hits>>

Init == phase = "idle" /\ hits = 0

Start == phase = "idle" /\ phase' = "serving" /\ hits' = 0

Hit ==
    /\ phase \in {"serving", "stopping"}
    /\ hits' = hits + 1
    /\ UNCHANGED phase

Stop ==
    /\ phase = "serving"
    /\ phase' \in {"stopping", "terminated"}
    /\ UNCHANGED hits

Stopped == phase = "stopping" /\ phase' = "idle" /\ UNCHANGED hits

Next == Start \/ Hit \/ Stop \/ Stopped

Spec == Init /\ [][Next]_vars /\ WF_vars(Stopped)
=============================================================================
