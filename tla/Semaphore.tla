----------------------------- MODULE Semaphore ------------------------------
(***************************************************************************)
(* CSemaphore and its RAII lock CSemaphoreGrant (boostthreadcontrol/       *)
(* sync.h).  A critical section of a semaphore's mutex is one action;      *)
(* post() notifies after it has unlocked, so its notification is an action *)
(* of its own.  A grant belongs to one thread; early returns that change   *)
(* nothing are not modelled as steps.                                      *)
(***************************************************************************)
EXTENDS Integers, FiniteSets

CONSTANTS
    Threads,
    Sems,       \* the CSemaphore objects
    Grants,     \* storage for CSemaphoreGrant objects
    Capacity,   \* Capacity[s]: constructor argument init of s
    Owner,      \* Owner[g]: the thread that uses grant g
    Null        \* a grant's sem is nullptr; no grant

ASSUME SetsAssumption ==
    /\ IsFiniteSet(Threads) /\ IsFiniteSet(Grants)
    /\ Null \notin Sems /\ Null \notin Grants

ASSUME FunctionsAssumption ==
    /\ Capacity \in [Sems -> Nat]
    /\ Owner \in [Grants -> Threads]

VARIABLES
    value,      \* the semaphores' counters
    live,       \* the grants that are constructed
    sem,        \* CSemaphoreGrant::sem
    fHaveGrant, \* CSemaphoreGrant::fHaveGrant
    pc,         \* where each thread is
    call        \* the operation it is executing, if any

vars == <<value, live, sem, fHaveGrant, pc, call>>

(***************************************************************************)
(* Program counters.                                                       *)
(*   idle    outside the semaphores                                        *)
(*   lock    in wait(), about to lock the mutex                            *)
(*   wait    asleep in condition.wait                                      *)
(*   woken   notified or spuriously woken, about to relock the mutex       *)
(*   notify  in post(), the counter raised, about to call notify_one       *)
(***************************************************************************)
PC == {"idle", "lock", "wait", "woken", "notify"}

\* What remains to be done when wait() or post() on call.grant returns;
\* call.from is the grant that is moved there.
Calls == [op : {"none", "acquire", "release", "destroy", "move"},
          grant : Grants \cup {Null}, from : Grants \cup {Null}]

NoCall == [op |-> "none", grant |-> Null, from |-> Null]

Init ==
    /\ value = Capacity
    /\ live = {}
    /\ sem = [g \in Grants |-> Null]
    /\ fHaveGrant = [g \in Grants |-> FALSE]
    /\ pc = [t \in Threads |-> "idle"]
    /\ call = [t \in Threads |-> NoCall]

\* The semaphore on which thread t is inside wait() or post().
SemOf(t) == sem[call[t].grant]

Asleep(s) == {t \in Threads : pc[t] = "wait" /\ SemOf(t) = s}

\* Grant g, that thread t may operate on now.
Usable(t, g) == pc[t] = "idle" /\ g \in live /\ Owner[g] = t

-----------------------------------------------------------------------------
(***************************************************************************)
(* CSemaphore.                                                             *)
(***************************************************************************)

\* Mutant: `while (value < 0)'.
MutantWaitBelowZero(t) ==
    LET s == SemOf(t)
        g == call[t].grant
    IN  /\ pc[t] \in {"lock", "woken"}
        /\ value[s] >= 0
        /\ value' = [value EXCEPT ![s] = @ - 1]
        /\ fHaveGrant' = [fHaveGrant EXCEPT ![g] = TRUE]
        /\ pc' = [pc EXCEPT ![t] = "idle"]
        /\ call' = [call EXCEPT ![t] = NoCall]
        /\ UNCHANGED <<live, sem>>

\* The loop of wait(), from the (re)locked mutex on, and its return to
\* Acquire, which notes the grant.
WaitLoop(t) ==
    LET s == SemOf(t)
        g == call[t].grant
    IN  /\ pc[t] \in {"lock", "woken"}
        /\ \/ /\ value[s] < 1
              /\ pc' = [pc EXCEPT ![t] = "wait"]
              /\ UNCHANGED <<value, fHaveGrant, call>>
           \/ /\ value[s] >= 1
              /\ value' = [value EXCEPT ![s] = @ - 1]
              /\ fHaveGrant' = [fHaveGrant EXCEPT ![g] = TRUE]
              /\ pc' = [pc EXCEPT ![t] = "idle"]
              /\ call' = [call EXCEPT ![t] = NoCall]
        /\ UNCHANGED <<live, sem>>

SpuriousWakeUp(t) ==
    /\ pc[t] = "wait"
    /\ pc' = [pc EXCEPT ![t] = "woken"]
    /\ UNCHANGED <<value, live, sem, fHaveGrant, call>>

\* The critical section of post(), called to give up grant g.
Post(t, g, op, from) ==
    /\ value' = [value EXCEPT ![sem[g]] = @ + 1]
    /\ pc' = [pc EXCEPT ![t] = "notify"]
    /\ call' = [call EXCEPT ![t] = [op |-> op, grant |-> g, from |-> from]]
    /\ UNCHANGED <<live, sem, fHaveGrant>>

\* What grant d is after g.MoveTo(d): it takes over semaphore and grant.
Hand(g, d, have) ==
    /\ sem' = [sem EXCEPT ![d] = sem[g]]
    /\ fHaveGrant' = [have EXCEPT ![d] = have[g], ![g] = FALSE]

\* Mutant: notifies only if the counter was zero before.
MutantNotifyFirst(t) ==
    LET s == SemOf(t)
        g == call[t].grant
        released == [fHaveGrant EXCEPT ![g] = FALSE]
        idle == [pc EXCEPT ![t] = "idle"]
    IN  /\ pc[t] = "notify"
        /\ pc' \in IF Asleep(s) = {} \/ value[s] # 1 THEN {idle}
                   ELSE {[idle EXCEPT ![u] = "woken"] : u \in Asleep(s)}
        /\ call' = [call EXCEPT ![t] = NoCall]
        /\ \/ /\ call[t].op = "release"
              /\ fHaveGrant' = released
              /\ UNCHANGED <<live, sem>>
           \/ /\ call[t].op = "destroy"
              /\ fHaveGrant' = released
              /\ live' = live \ {g}
              /\ UNCHANGED sem
           \/ /\ call[t].op = "move"
              /\ Hand(call[t].from, g, released)
              /\ UNCHANGED live
        /\ UNCHANGED value

\* The rest of post() and of the operation that called it.
Notify(t) ==
    LET s == SemOf(t)
        g == call[t].grant
        released == [fHaveGrant EXCEPT ![g] = FALSE]
        idle == [pc EXCEPT ![t] = "idle"]
    IN  /\ pc[t] = "notify"
        /\ pc' \in IF Asleep(s) = {} THEN {idle}
                   ELSE {[idle EXCEPT ![u] = "woken"] : u \in Asleep(s)}
        /\ call' = [call EXCEPT ![t] = NoCall]
        /\ \/ /\ call[t].op = "release"
              /\ fHaveGrant' = released
              /\ UNCHANGED <<live, sem>>
           \/ /\ call[t].op = "destroy"
              /\ fHaveGrant' = released
              /\ live' = live \ {g}
              /\ UNCHANGED sem
           \/ /\ call[t].op = "move"
              /\ Hand(call[t].from, g, released)
              /\ UNCHANGED live
        /\ UNCHANGED value

-----------------------------------------------------------------------------
(***************************************************************************)
(* CSemaphoreGrant.                                                        *)
(***************************************************************************)

EnterWait(t, g) ==
    /\ pc' = [pc EXCEPT ![t] = "lock"]
    /\ call' = [call EXCEPT ![t] = [op |-> "acquire", grant |-> g, from |-> Null]]

\* CSemaphoreGrant()
DefaultConstruct(t, g) ==
    /\ pc[t] = "idle" /\ g \notin live /\ Owner[g] = t
    /\ live' = live \cup {g}
    /\ sem' = [sem EXCEPT ![g] = Null]
    /\ fHaveGrant' = [fHaveGrant EXCEPT ![g] = FALSE]
    /\ UNCHANGED <<value, pc, call>>

\* CSemaphoreGrant(sema, fTry)
Construct(t, g, s, fTry) ==
    /\ pc[t] = "idle" /\ g \notin live /\ Owner[g] = t
    /\ live' = live \cup {g}
    /\ sem' = [sem EXCEPT ![g] = s]
    /\ IF fTry
       THEN /\ fHaveGrant' = [fHaveGrant EXCEPT ![g] = value[s] >= 1]
            /\ value' = IF value[s] >= 1 THEN [value EXCEPT ![s] = @ - 1] ELSE value
            /\ UNCHANGED <<pc, call>>
       ELSE /\ fHaveGrant' = [fHaveGrant EXCEPT ![g] = FALSE]
            /\ EnterWait(t, g)
            /\ UNCHANGED value

Acquire(t, g) ==
    /\ Usable(t, g) /\ sem[g] # Null
    /\ ~fHaveGrant[g]
    /\ EnterWait(t, g)
    /\ UNCHANGED <<value, live, sem, fHaveGrant>>

TryAcquire(t, g) ==
    /\ Usable(t, g) /\ sem[g] # Null
    /\ ~fHaveGrant[g]
    /\ value[sem[g]] >= 1
    /\ value' = [value EXCEPT ![sem[g]] = @ - 1]
    /\ fHaveGrant' = [fHaveGrant EXCEPT ![g] = TRUE]
    /\ UNCHANGED <<live, sem, pc, call>>

Release(t, g) ==
    /\ Usable(t, g)
    /\ fHaveGrant[g]
    /\ Post(t, g, "release", Null)

\* Mutant: without grant.Release().
MutantMoveOver(t, g, d) ==
    /\ Usable(t, g) /\ Usable(t, d)
    /\ Hand(g, d, fHaveGrant)
    /\ UNCHANGED <<value, live, pc, call>>

\* g.MoveTo(d)
MoveTo(t, g, d) ==
    /\ Usable(t, g) /\ Usable(t, d)
    /\ IF fHaveGrant[d]
       THEN Post(t, d, "move", g)
       ELSE /\ Hand(g, d, fHaveGrant)
            /\ UNCHANGED <<value, live, pc, call>>

\* ~CSemaphoreGrant()
Destroy(t, g) ==
    /\ Usable(t, g)
    /\ IF fHaveGrant[g]
       THEN Post(t, g, "destroy", Null)
       ELSE /\ live' = live \ {g}
            /\ UNCHANGED <<value, sem, fHaveGrant, pc, call>>

-----------------------------------------------------------------------------
Step(t) == WaitLoop(t) \/ Notify(t)

Use(t, g) ==
    \/ DefaultConstruct(t, g)
    \/ \E s \in Sems, fTry \in BOOLEAN : Construct(t, g, s, fTry)
    \/ Acquire(t, g)
    \/ TryAcquire(t, g)
    \/ Release(t, g)
    \/ \E d \in Grants : MoveTo(t, g, d)
    \/ Destroy(t, g)

Next ==
    \/ \E t \in Threads : Step(t) \/ SpuriousWakeUp(t)
    \/ \E t \in Threads, g \in Grants : Use(t, g)

Spec == Init /\ [][Next]_vars

\* A thread inside wait() or post() keeps running unless it sleeps.
FairSpec == Spec /\ \A t \in Threads : WF_vars(Step(t))
-----------------------------------------------------------------------------
\* Types of all variables.
TypeOK ==
    /\ value \in [Sems -> Nat]
    /\ live \in SUBSET Grants
    /\ sem \in [Grants -> Sems \cup {Null}]
    /\ fHaveGrant \in [Grants -> BOOLEAN]
    /\ pc \in [Threads -> PC]
    /\ call \in [Threads -> Calls]

\* The grants that count against semaphore s, and the posts that have
\* raised its counter before their grant is marked as given up.
Held(s) == {g \in live : fHaveGrant[g] /\ sem[g] = s}
Posting(s) == {t \in Threads : pc[t] = "notify" /\ SemOf(t) = s}
Waking(s) == {t \in Threads : pc[t] = "woken" /\ SemOf(t) = s}

\* Grants are neither lost nor made up, whatever is acquired, tried, moved
\* or destroyed: what a semaphore's counter lacks is what grants hold.
Conserved ==
    \A s \in Sems :
        value[s] + Cardinality(Held(s)) = Capacity[s] + Cardinality(Posting(s))

\* No notification is lost: for every unit that sleepers could take, some
\* thread is on its way to take it or to wake one of them.
NoLostWakeUp ==
    \A s \in Sems :
        Asleep(s) # {} =>
            value[s] <= Cardinality(Waking(s)) + Cardinality(Posting(s))

\* Grant g's unit is back in the counter, but g is not marked yet.
Given(g) == pc[Owner[g]] = "notify" /\ call[Owner[g]].grant = g

\* The semaphore of which a grant holds a unit.
Unit == [g \in Grants |->
            IF g \in live /\ fHaveGrant[g] /\ ~Given(g) THEN sem[g] ELSE Null]

Pool == INSTANCE UnitPool WITH unit <- Unit

\* A semaphore never has more units out than it was constructed with, and
\* every operation on a grant takes, gives back or passes on one of them at
\* one moment, though post() raises the counter before the grant is marked.
ImplementsPool == Pool!Spec

\* While a counter stays positive its sleepers get woken, until none is
\* left or the counter is used up.
SleepersServed ==
    \A s \in Sems :
        (Asleep(s) # {} /\ value[s] >= 1) ~> (Asleep(s) = {} \/ value[s] = 0)
=============================================================================
