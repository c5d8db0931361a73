--------------------------- MODULE CheckQueueMain ---------------------------
(***************************************************************************)
(* The program boostthreadcontrol/main.cpp: one thread constructs a queue  *)
(* and a controller, starts the workers, adds the checks one by one, waits *)
(* for the verdict and returns, which destroys the controller and then the *)
(* queue.  The pool is CheckQueue; this module adds the main thread.       *)
(***************************************************************************)
EXTENDS CheckQueue

CONSTANT Main       \* the main thread, the only master

\* TaskCheck::operator() returns true.
TaskCheck == Fails = {}

\* The program that main.cpp is: one master, some workers, checks that succeed.
MainAssumption ==
    /\ Masters = {Main}
    /\ Workers # {} /\ Checks # {}
    /\ TaskCheck
    /\ ~ReuseAfterWait /\ MaxAdd # 0

VARIABLE script     \* the statement main is at

mvars == <<vars, script>>

Script == {"control", "threads", "add", "wait", "dtor", "unlock", "queue", "exit"}

MainInit == Init /\ script = "control"

\* CCheckQueueControl<TaskCheck> control(&task_check_queue)
DeclareControl ==
    /\ script = "control"
    /\ Construct(Main)
    /\ script' = "threads"

\* for (int i=0; i<5; i++) threadGroup.create_thread(...)
CreateThread ==
    /\ script = "threads"
    /\ \E w \in Workers :
          /\ Thread(w)
          /\ script' = IF \E v \in Workers \ {w} : pc[v] = "off"
                       THEN "threads" ELSE "add"

\* Mutant: the loop ends after its first turn.
MutantAddOnce ==
    /\ script = "add"
    /\ \E c \in Checks \ session :
          /\ Add(Main, <<c>>)
          /\ script' = "wait"

\* for(uint32_t i = 0; i < 20; i++) { ... control.Add(vChecks); }
AddCheck ==
    /\ script = "add"
    /\ \E c \in Checks \ session :
          /\ Add(Main, <<c>>)
          /\ script' = IF Checks \subseteq session \cup {c} THEN "wait" ELSE "add"

\* control.Wait()
CallWait ==
    /\ script = "wait"
    /\ Wait(Main)
    /\ script' = "dtor"

\* return 0: ~CCheckQueueControl, once Wait has returned ...
DestroyControl ==
    /\ script = "dtor"
    /\ Destroy(Main)
    /\ script' = "unlock"

UnlockControl ==
    /\ script = "unlock"
    /\ Leave(Main)
    /\ script' = "queue"

\* ... then ~CCheckQueue with its mutex and condition variables; the threads
\* are not joined before.  What they do with a destroyed queue is undefined,
\* and the model stops here.
DestroyQueue ==
    /\ script = "queue"
    /\ script' = "exit"
    /\ UNCHANGED vars

MainThread ==
    \/ DeclareControl \/ CreateThread \/ AddCheck \/ CallWait
    \/ DestroyControl \/ UnlockControl \/ DestroyQueue

\* A thread inside Loop, master or worker, while the queue exists.
PoolThread(t) == script # "exit" /\ Step(t) /\ UNCHANGED script

Spurious(t) == script # "exit" /\ SpuriousWakeUp(t) /\ UNCHANGED script

MainNext ==
    \/ MainThread
    \/ \E t \in Threads : PoolThread(t) \/ Spurious(t)

\* Every thread that can run is scheduled.
MainFairness ==
    /\ WF_mvars(MainThread)
    /\ \A t \in Threads : WF_mvars(PoolThread(t))

MainSpec == MainInit /\ [][MainNext]_mvars /\ MainFairness
-----------------------------------------------------------------------------
\* When main is about to destroy the queue every check it pushed has been
\* executed exactly once, successfully, and none is left anywhere.
AllChecksRun ==
    script \in {"queue", "exit"} =>
        /\ result
        /\ \A c \in Checks : runs[c] = 1
        /\ Pending = {}

\* The program always gets its verdict and comes to the end of main: neither
\* the order in which the threads start nor a wake-up that comes while nobody
\* sleeps keeps Wait from returning.
MainFinishes == <>(script = "exit")
=============================================================================
