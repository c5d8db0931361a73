---------------------------- MODULE KafkaConsumer ----------------------------
(***************************************************************************)
(* producer_consumer_librdkafka/consumer/main.c: a program that polls a    *)
(* topic until SIGINT.  Its signal handlers run between any two steps of   *)
(* main; `run' is the flag they clear and, at the end, the countdown of    *)
(* the shutdown, where `run--' is a load and a store.                      *)
(*                                                                         *)
(* librdkafka is external: a poll returns nothing, a message or an error;  *)
(* what a call does with a null or destroyed handle is undefined, and the  *)
(* process may crash.  The program never sets bootstrap.servers; the model *)
(* lets messages come all the same.                                        *)
(***************************************************************************)
EXTENDS Integers

CONSTANT MaxSignals     \* bound: most SIGINTs sent to the process

ASSUME SignalsAssumption == MaxSignals \in Nat

VARIABLES
    run,        \* static int run
    rk,         \* the handle: "null", "live", "closed" or "freed"
    pc,         \* where main is
    old,        \* `run--': the value loaded
    signals,    \* history: number of SIGINTs handled
    closes,     \* history: calls of fclose(stdin)
    disturbed,  \* history: a SIGINT has come since `run = 5'
    late,       \* history: messages handled since the first SIGINT
    waits       \* history: calls of rd_kafka_wait_destroyed

handlers == <<signals, closes, disturbed>>
vars == <<run, rk, pc, old, handlers, late, waits>>

(***************************************************************************)
(* Program counters: init, then test and poll of `while(run)', close,      *)
(* destroy, the countdown load, store, tried, wait, at last report; exit   *)
(* (main returned), killed (exit(1) in the handler) and crashed.           *)
(***************************************************************************)
Ended == pc \in {"exit", "killed", "crashed"}
CountingDown == pc \in {"load", "store", "wait", "tried", "report"}

Init ==
    /\ run = 1
    /\ rk = "null"
    /\ pc = "init"
    /\ old = 0
    /\ signals = 0 /\ closes = 0 /\ disturbed = FALSE
    /\ late = 0
    /\ waits = 0

-----------------------------------------------------------------------------
(***************************************************************************)
(* Signal handlers.                                                        *)
(***************************************************************************)

\* Mutant: the handler closes stdin only.
MutantOnlyClose ==
    /\ ~Ended /\ signals < MaxSignals
    /\ signals' = signals + 1
    /\ disturbed' = (disturbed \/ CountingDown)
    /\ closes' = closes + 1
    /\ UNCHANGED <<run, pc, rk, old, late, waits>>

\* stop(SIGINT).  A second fclose(stdin) is undefined.
stop ==
    /\ ~Ended /\ signals < MaxSignals
    /\ signals' = signals + 1
    /\ disturbed' = (disturbed \/ CountingDown)
    /\ \/ /\ run = 0
          /\ pc' = "killed"
          /\ UNCHANGED <<run, closes>>
       \/ /\ run # 0
          /\ run' = 0
          /\ closes' = closes + 1
          /\ pc' \in IF closes = 0 THEN {pc} ELSE {pc, "crashed"}
    /\ UNCHANGED <<rk, old, late, waits>>

\* sig_usr1: dumps the handle, whatever it is by now.
sig_usr1 ==
    /\ ~Ended /\ rk \in {"null", "freed"}
    /\ pc' = "crashed"
    /\ UNCHANGED <<run, rk, old, handlers, late, waits>>

-----------------------------------------------------------------------------
(***************************************************************************)
(* main.                                                                   *)
(***************************************************************************)

\* initKafka: a configuration error or rd_kafka_new leaves rk null, a
\* missing topic name crashes, a failing subscribe leaves rk alive.  Main
\* tests the result for 0, and it is -1 or 1.
initKafka ==
    /\ pc = "init"
    /\ \/ rk' = "null" /\ pc' = "test"
       \/ rk' = "live" /\ pc' \in {"test", "crashed"}
    /\ UNCHANGED <<run, old, handlers, late, waits>>

\* while(run)
TestRun ==
    /\ pc = "test"
    /\ pc' = IF run # 0 THEN "poll" ELSE "close"
    /\ UNCHANGED <<run, rk, old, handlers, late, waits>>

\* rd_kafka_consumer_poll and msg_consume: no message, one that is printed
\* (an end of partition or some error is handled like it), or an unknown
\* topic or partition, which stops the program.
Poll ==
    /\ pc = "poll"
    /\ IF rk = "null"
       THEN pc' = "crashed" /\ UNCHANGED <<run, late>>
       ELSE \E m \in {"none", "message", "unknown"} :
              /\ pc' = "test"
              /\ run' = IF m = "unknown" THEN 0 ELSE run
              /\ late' = IF m # "none" /\ signals > 0 THEN late + 1 ELSE late
    /\ UNCHANGED <<rk, old, handlers, waits>>

\* rd_kafka_consumer_close
Close ==
    /\ pc = "close"
    /\ IF rk = "null"
       THEN pc' = "crashed" /\ UNCHANGED rk
       ELSE pc' = "destroy" /\ rk' = "closed"
    /\ UNCHANGED <<run, old, handlers, late, waits>>

\* rd_kafka_destroy, run = 5
Destroy ==
    /\ pc = "destroy"
    /\ rk' = "freed"
    /\ run' = 5
    /\ pc' = "load"
    /\ UNCHANGED <<old, handlers, late, waits>>

\* run-- > 0: the load, ...
LoadRun ==
    /\ pc = "load"
    /\ old' = run
    /\ pc' = "store"
    /\ UNCHANGED <<run, rk, handlers, late, waits>>

\* Mutant: --run > 0.
MutantPreDecrement ==
    /\ pc = "store"
    /\ run' = old - 1
    /\ pc' = IF old - 1 > 0 THEN "wait" ELSE "tried"
    /\ UNCHANGED <<rk, old, handlers, late, waits>>

\* ... the store and the comparison
StoreRun ==
    /\ pc = "store"
    /\ run' = old - 1
    /\ pc' = IF old > 0 THEN "wait" ELSE "tried"
    /\ UNCHANGED <<rk, old, handlers, late, waits>>

\* rd_kafka_wait_destroyed(1000): still busy, or done
WaitDestroyed ==
    /\ pc = "wait"
    /\ waits' = waits + 1
    /\ pc' \in {"load", "tried"}
    /\ UNCHANGED <<run, rk, old, handlers, late>>

\* if (run <= 0)
TestTries ==
    /\ pc = "tried"
    /\ pc' = IF run <= 0 THEN "report" ELSE "exit"
    /\ UNCHANGED <<run, rk, old, handlers, late, waits>>

\* rd_kafka_dump(stdout,rk), after rd_kafka_destroy
Report ==
    /\ pc = "report"
    /\ pc' \in {"exit", "crashed"}
    /\ UNCHANGED <<run, rk, old, handlers, late, waits>>

main ==
    \/ initKafka \/ TestRun \/ Poll \/ Close \/ Destroy
    \/ LoadRun \/ StoreRun \/ WaitDestroyed \/ TestTries \/ Report

Next == main \/ stop \/ sig_usr1

Spec == Init /\ [][Next]_vars

\* The process is scheduled, and librdkafka's calls return.
FairSpec == Spec /\ WF_vars(main)
-----------------------------------------------------------------------------
\* Wherever a SIGINT hits the poll loop, at most the message of the poll
\* under way is still handled.
PromptStop == late <= 1

\* The countdown in `run' allows five waits, and neither a SIGINT nor the
\* race of its store with `run--' ever adds one; left alone, the program
\* does not report a failed shutdown before it has made all five.
FiveTries ==
    /\ waits <= 5
    /\ pc = "report" /\ ~disturbed => waits = 5

\* After a SIGINT the process comes to an end, also when `run--' overwrites
\* the handler's 0 or the handler hits the countdown.
StopTerminates == (signals > 0) ~> Ended
=============================================================================
