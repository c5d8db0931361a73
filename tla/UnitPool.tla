------------------------------ MODULE UnitPool -------------------------------
(***************************************************************************)
(* What CSemaphore and CSemaphoreGrant promise: a semaphore is a supply of *)
(* units, a grant holds at most one, and a unit is taken, given back or    *)
(* passed on in one step.  No more units are out than there are.           *)
(***************************************************************************)
EXTENDS Integers, FiniteSets

CONSTANTS Sems, Grants, Capacity, Null

VARIABLE unit   \* unit[g]: the semaphore of which grant g holds a unit, or Null

Users(s) == {g \in Grants : unit[g] = s}

Init == unit = [g \in Grants |-> Null]

Take(g, s) ==
    /\ unit[g] = Null
    /\ Cardinality(Users(s)) < Capacity[s]
    /\ unit' = [unit EXCEPT ![g] = s]

Give(g) ==
    /\ unit[g] # Null
    /\ unit' = [unit EXCEPT ![g] = Null]

PassOn(g, d) ==
    /\ unit[g] # Null /\ unit[d] = Null
    /\ unit' = [unit EXCEPT ![d] = unit[g], ![g] = Null]

Next ==
    \/ \E g \in Grants, s \in Sems : Take(g, s)
    \/ \E g \in Grants : Give(g)
    \/ \E g, d \in Grants : PassOn(g, d)

Spec == Init /\ [][Next]_unit
=============================================================================
