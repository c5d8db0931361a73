----------------------------- MODULE CheckQueue -----------------------------
(***************************************************************************)
(* CCheckQueue<T> and its RAII controller CCheckQueueControl<T>            *)
(* (boostthreadcontrol/checkqueue.h): a pool of worker threads verifies    *)
(* batches of checks that a master thread adds; in Wait() the master joins *)
(* the pool until nothing is left and collects one verdict.                *)
(*                                                                         *)
(* All fields of the queue are read and written under `mutex' only, and    *)
(* cond.wait gives the mutex up atomically.  A critical section is thus    *)
(* one action, and the mutex itself needs no variable: what interleaves    *)
(* are critical sections, the execution of single checks, wake-ups and the *)
(* client's calls.  The order of the checks is kept: vectors are sequences *)
(* and the queue is popped from its back.                                  *)
(***************************************************************************)
EXTENDS Integers, Sequences, FiniteSets, Functions

CONSTANTS
    Workers,        \* threads that run CCheckQueue::Thread
    Masters,        \* threads that create CCheckQueueControl objects
    Checks,         \* the check objects (type T)
    Fails,          \* the checks whose operator() returns false
    nBatchSize,     \* constructor argument: largest batch a thread takes
    MaxAdd,         \* bound: most checks in one call of Add
    ReuseAfterWait, \* TRUE: a client goes on using a controller after Wait
    NoOwner         \* "ControlMutex is free"

Threads == Workers \cup Masters

ASSUME ThreadsAssumption ==
    /\ Workers \cap Masters = {}
    /\ IsFiniteSet(Threads)
    /\ NoOwner \notin Masters

ASSUME ChecksAssumption ==
    /\ IsFiniteSet(Checks)
    /\ Fails \subseteq Checks

ASSUME NumbersAssumption ==
    /\ nBatchSize \in Nat
    /\ MaxAdd \in Nat
    /\ ReuseAfterWait \in BOOLEAN

VARIABLES
    queue,        \* std::vector<T> queue, used as a stack
    nIdle,        \* number of threads inside cond.wait
    nTotal,       \* number of threads inside Loop
    fAllOk,       \* conjunction of the results cleaned up so far
    nTodo,        \* number of checks not cleaned up yet
    pc,           \* where each thread is
    vChecks,      \* Loop's local batch
    next,         \* the for loop's position in vChecks (checks already done)
    nNow,         \* Loop's local nNow
    fOk,          \* Loop's local fOk
    ControlMutex, \* owner of the controllers' mutex
    fDone,        \* fDone of the live controller object
    inDtor,       \* its destructor is running
    result,       \* the value the last Wait returned
    session,      \* history: the checks added through the live controller
    runs          \* history: calls of each check's operator() since its Add

shared  == <<queue, nIdle, nTotal, fAllOk, nTodo>>
locals  == <<vChecks, next, nNow, fOk>>
control == <<ControlMutex, fDone, inDtor, result, session>>
vars    == <<shared, pc, locals, control, runs>>

(***************************************************************************)
(* Program counters.                                                       *)
(*   off    no controller (master) or thread not created (worker)          *)
(*   ctl    master owns a controller and is outside Loop                   *)
(*   lock   in Loop, about to lock the mutex                               *)
(*   wait   asleep in cond.wait                                            *)
(*   woken  notified (or spuriously woken), about to relock the mutex      *)
(*   run    executing its batch                                            *)
(*   leave  in the controller's destructor, about to unlock ControlMutex   *)
(*   ret    a worker whose Loop returned                                   *)
(***************************************************************************)
PC == {"off", "ctl", "lock", "wait", "woken", "run", "leave", "ret"}

\* Nothing in the program assigns fQuit after the constructor.
fQuit == FALSE

Init ==
    /\ queue = <<>>
    /\ nIdle = 0
    /\ nTotal = 0
    /\ fAllOk = TRUE
    /\ nTodo = 0
    /\ pc = [t \in Threads |-> "off"]
    /\ vChecks = [t \in Threads |-> <<>>]
    /\ next = [t \in Threads |-> 0]
    /\ nNow = [t \in Threads |-> 0]
    /\ fOk = [t \in Threads |-> TRUE]
    /\ ControlMutex = NoOwner
    /\ fDone = FALSE
    /\ inDtor = FALSE
    /\ result = TRUE
    /\ session = {}
    /\ runs = [c \in Checks |-> 0]

-----------------------------------------------------------------------------
(***************************************************************************)
(* Condition variables.  condWorker is waited on by workers, condMaster by *)
(* masters.  NotifyOne is the set of program counters one notify_one may   *)
(* lead to: some sleeper is woken, or nobody sleeps and the call is lost.  *)
(***************************************************************************)
Asleep(S) == {t \in S : pc[t] = "wait"}

NotifyOne(S) ==
    IF Asleep(S) = {} THEN {pc}
    ELSE {[pc EXCEPT ![t] = "woken"] : t \in Asleep(S)}

\* Mutant: Add wakes nobody up.
MutantNotifyNobody(S) == pc

NotifyAll(S) == [t \in Threads |-> IF t \in Asleep(S) THEN "woken" ELSE pc[t]]

(***************************************************************************)
(* Loop.                                                                   *)
(***************************************************************************)

\* Mutant: nNow survives from the thread's previous Loop.
MutantKeepNow(t) ==
    /\ pc' = [pc EXCEPT ![t] = "lock"]
    /\ vChecks' = [vChecks EXCEPT ![t] = <<>>]
    /\ next' = [next EXCEPT ![t] = 0]
    /\ fOk' = [fOk EXCEPT ![t] = TRUE]
    /\ UNCHANGED nNow

\* A thread enters Loop with fresh local variables.
EnterLoop(t) ==
    /\ pc' = [pc EXCEPT ![t] = "lock"]
    /\ vChecks' = [vChecks EXCEPT ![t] = <<>>]
    /\ next' = [next EXCEPT ![t] = 0]
    /\ nNow' = [nNow EXCEPT ![t] = 0]
    /\ fOk' = [fOk EXCEPT ![t] = TRUE]

\* How many of len queued checks a thread takes.
BatchSize(len, total, idle) ==
    LET share  == len \div (total + idle + 1)
        capped == IF nBatchSize < share THEN nBatchSize ELSE share
    IN  IF capped < 1 THEN 1 ELSE capped

\* Mutant: copies from the front what is popped from the back.
MutantPopFront(n) == [i \in 1..n |-> queue[i]]

\* The n checks at the back of the queue, last one first.
Popped(n) == [i \in 1..n |-> queue[Len(queue) - i + 1]]

\* Mutant: the status is not reset for new work.
MutantNoReset(t, allOk, todo, total, idle, pcs) ==
    /\ queue = <<>>
    /\ t \in Masters
    /\ todo = 0
    /\ nTotal' = total - 1
    /\ nIdle' = idle
    /\ nTodo' = todo
    /\ fAllOk' = allOk
    /\ result' = allOk
    /\ fDone' = TRUE
    /\ pc' = [pcs EXCEPT ![t] = IF inDtor THEN "leave" ELSE "ctl"]
    /\ vChecks' = [vChecks EXCEPT ![t] = <<>>]
    /\ next' = [next EXCEPT ![t] = 0]
    /\ UNCHANGED <<queue, nNow, fOk, ControlMutex, inDtor, session>>

\* `while (queue.empty())' and what follows it up to the unlock, with the
\* values that the shared fields have when the thread gets there.
Return(t, allOk, todo, total, idle, pcs) ==
    /\ queue = <<>>
    /\ t \in Masters \/ fQuit
    /\ todo = 0
    /\ nTotal' = total - 1
    /\ nIdle' = idle
    /\ nTodo' = todo
    /\ fAllOk' = IF t \in Masters THEN TRUE ELSE allOk
    /\ IF t \in Masters
       THEN /\ result' = allOk
            /\ fDone' = TRUE
            /\ pc' = [pcs EXCEPT ![t] = IF inDtor THEN "leave" ELSE "ctl"]
       ELSE /\ pc' = [pcs EXCEPT ![t] = "ret"]
            /\ UNCHANGED <<result, fDone>>
    /\ vChecks' = [vChecks EXCEPT ![t] = <<>>]
    /\ next' = [next EXCEPT ![t] = 0]
    /\ UNCHANGED <<queue, nNow, fOk, ControlMutex, inDtor, session>>

Sleep(t, allOk, todo, total, idle, pcs) ==
    /\ queue = <<>>
    /\ ~ ((t \in Masters \/ fQuit) /\ todo = 0)
    /\ nIdle' = idle + 1
    /\ nTotal' = total
    /\ nTodo' = todo
    /\ fAllOk' = allOk
    /\ pc' = [pcs EXCEPT ![t] = "wait"]
    /\ vChecks' = [vChecks EXCEPT ![t] = <<>>]
    /\ next' = [next EXCEPT ![t] = 0]
    /\ UNCHANGED <<queue, nNow, fOk, control>>

Take(t, allOk, todo, total, idle, pcs) ==
    LET n == BatchSize(Len(queue), total, idle)
    IN  /\ queue # <<>>
        /\ nNow' = [nNow EXCEPT ![t] = n]
        /\ vChecks' = [vChecks EXCEPT ![t] = Popped(n)]
        /\ next' = [next EXCEPT ![t] = 0]
        /\ queue' = SubSeq(queue, 1, Len(queue) - n)
        /\ fOk' = [fOk EXCEPT ![t] = allOk]
        /\ nIdle' = idle
        /\ nTotal' = total
        /\ nTodo' = todo
        /\ fAllOk' = allOk
        /\ pc' = [pcs EXCEPT ![t] = "run"]
        /\ UNCHANGED control

LoopHead(t, allOk, todo, total, idle, pcs) ==
    /\ \/ Return(t, allOk, todo, total, idle, pcs)
       \/ Sleep(t, allOk, todo, total, idle, pcs)
       \/ Take(t, allOk, todo, total, idle, pcs)
    /\ UNCHANGED runs

\* The critical section of a thread's first iteration.
FirstIteration(t) ==
    /\ pc[t] = "lock"
    /\ nNow[t] = 0
    /\ LoopHead(t, fAllOk, nTodo, nTotal + 1, nIdle, pc)

\* Mutant: the last worker wakes another worker instead of the master.
MutantNotifyWorker(t) ==
    LET todo == nTodo - nNow[t]
    IN  /\ pc[t] = "lock"
        /\ nNow[t] # 0
        /\ \E pcs \in IF todo = 0 /\ t \notin Masters
                      THEN NotifyOne(Workers) ELSE {pc} :
              LoopHead(t, fAllOk /\ fOk[t], todo, nTotal, nIdle, pcs)

\* The critical section after a batch: clean up, then go on.
CleanUp(t) ==
    LET todo == nTodo - nNow[t]
    IN  /\ pc[t] = "lock"
        /\ nNow[t] # 0
        /\ \E pcs \in IF todo = 0 /\ t \notin Masters
                      THEN NotifyOne(Masters) ELSE {pc} :
              LoopHead(t, fAllOk /\ fOk[t], todo, nTotal, nIdle, pcs)

\* Mutant: nIdle-- is forgotten.
MutantStayIdle(t) ==
    /\ pc[t] = "woken"
    /\ LoopHead(t, fAllOk, nTodo, nTotal, nIdle, pc)

\* cond.wait returns with the mutex locked again.
WakeUp(t) ==
    /\ pc[t] = "woken"
    /\ LoopHead(t, fAllOk, nTodo, nTotal, nIdle - 1, pc)

\* cond.wait may return without a notification.
SpuriousWakeUp(t) ==
    /\ pc[t] = "wait"
    /\ pc' = [pc EXCEPT ![t] = "woken"]
    /\ UNCHANGED <<shared, locals, control, runs>>

\* Mutant: without `if (fOk)', a later success hides a failure.
MutantLastResult(t) ==
    LET c == vChecks[t][next[t] + 1]
    IN  /\ pc[t] = "run"
        /\ next' = [next EXCEPT ![t] = @ + 1]
        /\ runs' = [runs EXCEPT ![c] = @ + 1]
        /\ fOk' = [fOk EXCEPT ![t] = c \notin Fails]
        /\ pc' = IF next[t] + 1 = Len(vChecks[t])
                 THEN [pc EXCEPT ![t] = "lock"] ELSE pc
        /\ UNCHANGED <<shared, vChecks, nNow, control>>

\* One turn of the for loop, outside the mutex; after the last one the
\* thread goes back for the mutex.  (vChecks.clear() is local: it is done
\* by the thread's next critical section.)
RunCheck(t) ==
    LET c == vChecks[t][next[t] + 1]
    IN  /\ pc[t] = "run"
        /\ next' = [next EXCEPT ![t] = @ + 1]
        /\ IF fOk[t]
           THEN /\ runs' = [runs EXCEPT ![c] = @ + 1]
                /\ fOk' = [fOk EXCEPT ![t] = c \notin Fails]
           ELSE UNCHANGED <<runs, fOk>>
        /\ pc' = IF next[t] + 1 = Len(vChecks[t])
                 THEN [pc EXCEPT ![t] = "lock"] ELSE pc
        /\ UNCHANGED <<shared, vChecks, nNow, control>>

-----------------------------------------------------------------------------
(***************************************************************************)
(* Thread creation, CCheckQueueControl and CCheckQueue::Add.               *)
(***************************************************************************)

\* threadGroup.create_thread(... CCheckQueue::Thread ...)
Thread(w) ==
    /\ pc[w] = "off"
    /\ EnterLoop(w)
    /\ UNCHANGED <<shared, control, runs>>

\* CCheckQueueControl(pqueue)
Construct(m) ==
    /\ pc[m] = "off"
    /\ ControlMutex = NoOwner
    /\ ControlMutex' = m
    /\ fDone' = FALSE
    /\ inDtor' = FALSE
    /\ session' = {}
    /\ pc' = [pc EXCEPT ![m] = "ctl"]
    /\ UNCHANGED <<shared, locals, result, runs>>

\* Checks that are queued or in some thread's batch.
Pending == Range(queue) \cup UNION {Range(vChecks[t]) : t \in Threads}

\* The vectors a client passes to Add: distinct checks, none of them
\* handed over before in this session.
AddInputs ==
    {s \in UNION {[1..n -> Checks] : n \in 0..MaxAdd} :
        /\ \A i, j \in DOMAIN s : s[i] = s[j] => i = j
        /\ Range(s) \cap (Pending \cup session) = {}}

Add(m, checks) ==
    /\ pc[m] = "ctl"
    /\ queue' = queue \o checks
    /\ nTodo' = nTodo + Len(checks)
    /\ pc' \in IF Len(checks) = 0 THEN {pc}
               ELSE IF Len(checks) = 1 THEN NotifyOne(Workers)
               ELSE {NotifyAll(Workers)}
    /\ session' = session \cup Range(checks)
    /\ runs' = [c \in Checks |-> IF c \in Range(checks) THEN 0 ELSE runs[c]]
    /\ UNCHANGED <<nIdle, nTotal, fAllOk, locals, ControlMutex, fDone, inDtor,
                   result>>

\* CCheckQueueControl::Wait, called by the client
Wait(m) ==
    /\ pc[m] = "ctl"
    /\ EnterLoop(m)
    /\ UNCHANGED <<shared, control, runs>>

\* Mutant: the destructor does not wait.
MutantNoWait(m) ==
    /\ pc[m] = "ctl"
    /\ inDtor' = TRUE
    /\ pc' = [pc EXCEPT ![m] = "leave"]
    /\ UNCHANGED <<shared, locals, ControlMutex, fDone, result, session, runs>>

\* ~CCheckQueueControl waits first if Wait has not returned yet...
Destroy(m) ==
    /\ pc[m] = "ctl"
    /\ inDtor' = TRUE
    /\ IF fDone
       THEN /\ pc' = [pc EXCEPT ![m] = "leave"]
            /\ UNCHANGED locals
       ELSE EnterLoop(m)
    /\ UNCHANGED <<shared, ControlMutex, fDone, result, session, runs>>

\* ... and then gives up ControlMutex.
Leave(m) ==
    /\ pc[m] = "leave"
    /\ ControlMutex' = NoOwner
    /\ inDtor' = FALSE
    /\ pc' = [pc EXCEPT ![m] = "off"]
    /\ UNCHANGED <<shared, locals, fDone, result, session, runs>>

-----------------------------------------------------------------------------
\* What a thread does by itself once it is in Loop.
Step(t) == FirstIteration(t) \/ CleanUp(t) \/ WakeUp(t) \/ RunCheck(t)

\* What clients do.  main.cpp adds everything, waits once and lets the
\* destructor run; ReuseAfterWait also allows the other uses of the class.
Client(m) ==
    \/ Construct(m)
    \/ Destroy(m)
    \/ /\ ReuseAfterWait \/ ~fDone
       /\ Wait(m) \/ \E checks \in AddInputs : Add(m, checks)

Next ==
    \/ \E t \in Threads : Step(t) \/ SpuriousWakeUp(t)
    \/ \E w \in Workers : Thread(w)
    \/ \E m \in Masters : Client(m) \/ Leave(m)

Spec == Init /\ [][Next]_vars

(***************************************************************************)
(* Scheduling: a thread inside Loop, and one leaving the destructor, keeps *)
(* running.  Clients and spurious wake-ups are not forced to happen.       *)
(***************************************************************************)
Fairness ==
    /\ \A t \in Threads : WF_vars(Step(t))
    /\ \A m \in Masters : WF_vars(Leave(m))

FairSpec == Spec /\ Fairness
-----------------------------------------------------------------------------
(***************************************************************************)
(* Properties.                                                             *)
(***************************************************************************)

\* Types of all variables.
TypeOK ==
    /\ queue \in Seq(Checks)
    /\ nIdle \in Nat /\ nTotal \in Nat /\ nTodo \in Nat
    /\ fAllOk \in BOOLEAN
    /\ pc \in [Threads -> PC]
    /\ vChecks \in [Threads -> Seq(Checks)]
    /\ next \in [Threads -> Nat]
    /\ nNow \in [Threads -> Nat]
    /\ fOk \in [Threads -> BOOLEAN]
    /\ ControlMutex \in Masters \cup {NoOwner}
    /\ fDone \in BOOLEAN /\ inDtor \in BOOLEAN /\ result \in BOOLEAN
    /\ session \in SUBSET Checks
    /\ runs \in [Checks -> Nat]

\* A thread holds a batch from the pop to its next critical section.
HasBatch(t) == pc[t] = "run" \/ (pc[t] = "lock" /\ nNow[t] # 0)

\* A thread is counted by nTotal from its first critical section on.
InPool(t) == pc[t] \in {"wait", "woken"} \/ HasBatch(t)

\* A check is in one place only: once in the queue or once in the batch of
\* one thread.
OnePlace ==
    /\ \A i, j \in DOMAIN queue : queue[i] = queue[j] => i = j
    /\ \A t \in Threads : \A i, j \in DOMAIN vChecks[t] :
            vChecks[t][i] = vChecks[t][j] => i = j
    /\ \A t \in Threads : Range(vChecks[t]) \cap Range(queue) = {}
    /\ \A t, u \in Threads :
            t # u => Range(vChecks[t]) \cap Range(vChecks[u]) = {}

\* nTodo is what its comment says, "Number of verifications that haven't
\* completed yet", those in the workers' own batches included: it never
\* drifts from the checks that exist, and so never wraps below zero.
TodoExact == nTodo = Cardinality(Pending)

AtMostOnce == \A c \in Checks : runs[c] <= 1

\* Swapping checks out of the shared vector neither loses, copies nor shares
\* them, none is executed twice, whichever threads race for it, and nTodo
\* counts what is left.
ChecksKept == OnePlace /\ TodoExact /\ AtMostOnce

\* nIdle and nTotal, from which every thread computes its batch size, count
\* exactly the threads asleep and the threads in the pool.
PoolCountsExact ==
    /\ nIdle = Cardinality({t \in Threads : pc[t] \in {"wait", "woken"}})
    /\ nTotal = Cardinality({t \in Threads : InPool(t)})

\* Wait returns true iff every check added in the session succeeds, and in
\* that case every one of them really was executed.  Neither a skipped
\* check, nor a failure of an earlier session, can change the verdict.
VerdictCorrect ==
    fDone => /\ result <=> session \cap Fails = {}
             /\ result => \A c \in session : runs[c] = 1

\* No wake-up of the workers is lost: as long as checks are queued, workers
\* do not all sleep.
NoLostWorkerWakeUp ==
    queue # <<>> /\ Asleep(Workers) # {} =>
        \E w \in Workers : pc[w] \in {"lock", "woken", "run"}

\* No wake-up of the master is lost: it never sleeps once all is done, and
\* while it sleeps somebody holds the work it waits for.
NoLostMasterWakeUp ==
    Asleep(Masters) # {} =>
        /\ nTodo > 0
        /\ queue = <<>>
        /\ \E w \in Workers : HasBatch(w)

\* Neither condition variable loses a wake-up.
NoLostWakeUp == NoLostWorkerWakeUp /\ NoLostMasterWakeUp

\* "guarantees the passed queue is finished before continuing": whenever no
\* controller exists, the queue is empty, nothing is being verified and the
\* status is reset for new work.
FinishedOnRelease ==
    ControlMutex = NoOwner => Pending = {} /\ nTodo = 0 /\ fAllOk

\* Once a master has entered Wait it gets its verdict, even with no worker.
WaitReturns ==
    \A m \in Masters : pc[m] = "lock" ~> pc[m] \in {"ctl", "leave"}

(***************************************************************************)
(* Refinement: the queue and its controller implement VerificationService. *)
(***************************************************************************)
Service == INSTANCE VerificationService WITH
    Clients <- Masters, Nobody <- NoOwner, owner <- ControlMutex,
    submitted <- session, decided <- fDone, verdict <- result

\* Seen from its clients, all the interleavings of Loop amount to a service
\* that decides each session at once and correctly (VerificationService).
ImplementsService == Service!Spec
=============================================================================
