------------------------- MODULE KafkaConsumerProofs -------------------------
(***************************************************************************)
(* Proofs about KafkaConsumer for any number of signals.                   *)
(***************************************************************************)
EXTENDS KafkaConsumer, TLAPS

\* Types, as far as the proofs need them.
Typed ==
    /\ run \in Int /\ old \in Int
    /\ signals \in Nat /\ late \in Nat /\ waits \in Nat
    /\ disturbed \in BOOLEAN
    /\ pc \in {"init", "test", "poll", "close", "destroy", "load", "store", "wait",
               "tried", "report", "exit", "killed", "crashed"}

Polling == pc \in {"init", "test", "poll", "close", "destroy"}

\* Until the countdown nothing sets run again once SIGINT has cleared it, so
\* the poll that is under way is the only one that handles a late message.
LateSound ==
    /\ late <= 1
    /\ late > 0 => signals > 0 /\ pc # "poll"
    /\ Polling /\ signals > 0 => run = 0

\* In the countdown run never exceeds the waits that are left of the five;
\* undisturbed it is their number.
WaitsSound ==
    /\ waits <= 5
    /\ Polling => waits = 0
    /\ pc = "load" => run <= 5 - waits
    /\ pc = "store" => run <= 5 - waits /\ old <= 5 - waits
    /\ pc = "wait" => waits <= 4 /\ run <= 4 - waits

Undisturbed ==
    ~disturbed =>
        /\ pc = "load" => run = 5 - waits
        /\ pc = "store" => old = 5 - waits
        /\ pc = "wait" => run = 4 - waits
        /\ pc = "tried" => (run <= 0 => waits = 5)
        /\ pc = "report" => waits = 5

\* The inductive invariant.
CInv == Typed /\ LateSound /\ WaitsSound /\ Undisturbed

-----------------------------------------------------------------------------
\* A signal may leave run as it is, or clear it.
LEMMA SignalInv == CInv /\ (stop \/ sig_usr1) => CInv'
<1> SUFFICES ASSUME CInv, stop \/ sig_usr1 PROVE CInv'
    OBVIOUS
<1> USE DEF Ended, CountingDown, Polling, handlers
<1>1. CASE sig_usr1
    BY <1>1 DEF CInv, Typed, LateSound, WaitsSound, Undisturbed, sig_usr1
<1>2. CASE stop
  <2>1. /\ Typed /\ LateSound /\ WaitsSound /\ Undisturbed
        /\ pc \notin {"exit", "killed", "crashed"}
        /\ signals' = signals + 1
        /\ disturbed' = (disturbed \/ CountingDown)
        /\ UNCHANGED <<old, late, waits>>
        /\ \/ run = 0 /\ pc' = "killed" /\ run' = run
           \/ run # 0 /\ run' = 0 /\ pc' \in {pc, "crashed"}
    BY <1>2 DEF CInv, stop
  <2>2. Typed'
    BY <2>1 DEF Typed
  <2>3. LateSound'
    BY <2>1 DEF Typed, LateSound
  <2>4. WaitsSound'
    BY <2>1 DEF Typed, WaitsSound
  <2>5. Undisturbed'
    BY <2>1 DEF Typed, Undisturbed
  <2> QED
    BY <2>2, <2>3, <2>4, <2>5 DEF CInv
<1> QED
    BY <1>1, <1>2

\* The steps before the countdown.
LEMMA PollingInv == CInv /\ (initKafka \/ TestRun \/ Poll \/ Close \/ Destroy) => CInv'
<1> SUFFICES ASSUME CInv, initKafka \/ TestRun \/ Poll \/ Close \/ Destroy PROVE CInv'
    OBVIOUS
<1> USE DEF CInv, Typed, LateSound, WaitsSound, Undisturbed, Polling, handlers
<1>1. CASE initKafka
    BY <1>1 DEF initKafka
<1>2. CASE TestRun
    BY <1>2 DEF TestRun
<1>3. CASE Poll
  <2>1. CASE rk = "null"
    BY <1>3, <2>1 DEF Poll
  <2>2. CASE rk # "null"
    <3>1. PICK m \in {"none", "message", "unknown"} :
            /\ pc' = "test"
            /\ run' = IF m = "unknown" THEN 0 ELSE run
            /\ late' = IF m # "none" /\ signals > 0 THEN late + 1 ELSE late
      BY <1>3, <2>2 DEF Poll
    <3>2. pc = "poll" /\ UNCHANGED <<old, signals, disturbed, waits>>
      BY <1>3 DEF Poll
    <3> QED
      BY <3>1, <3>2
  <2> QED
    BY <2>1, <2>2
<1>4. CASE Close
    BY <1>4 DEF Close
<1>5. CASE Destroy
    BY <1>5 DEF Destroy
<1> QED
    BY <1>1, <1>2, <1>3, <1>4, <1>5

\* The steps of the countdown and after it.
LEMMA CountdownInv ==
    CInv /\ (LoadRun \/ StoreRun \/ WaitDestroyed \/ TestTries \/ Report) => CInv'
<1> SUFFICES ASSUME CInv, LoadRun \/ StoreRun \/ WaitDestroyed \/ TestTries \/ Report
             PROVE  CInv'
    OBVIOUS
<1> USE DEF CInv, Typed, LateSound, WaitsSound, Undisturbed, Polling, handlers
<1>1. CASE LoadRun
    BY <1>1 DEF LoadRun
<1>2. CASE StoreRun
    BY <1>2 DEF StoreRun
<1>3. CASE WaitDestroyed
    BY <1>3 DEF WaitDestroyed
<1>4. CASE TestTries
    BY <1>4 DEF TestTries
<1>5. CASE Report
    BY <1>5 DEF Report
<1> QED
    BY <1>1, <1>2, <1>3, <1>4, <1>5

LEMMA CInvStep == CInv /\ [Next]_vars => CInv'
<1>1. CInv /\ UNCHANGED vars => CInv'
    BY DEF CInv, Typed, LateSound, WaitsSound, Undisturbed, Polling, vars, handlers
<1> QED
    BY <1>1, SignalInv, PollingInv, CountdownInv DEF Next, main

\* The inductive invariant holds in every reachable state.
THEOREM Invariance == Spec => []CInv
<1>1. Init => CInv
  <2> SUFFICES ASSUME Init PROVE CInv
    OBVIOUS
  <2>1. /\ run = 1 /\ pc = "init" /\ old = 0 /\ signals = 0 /\ late = 0 /\ waits = 0
        /\ disturbed \in BOOLEAN
    BY DEF Init
  <2>2. Typed /\ LateSound
    BY <2>1 DEF Typed, LateSound, Polling
  <2>3. WaitsSound
    BY <2>1 DEF WaitsSound
  <2>4. Undisturbed
    BY <2>1 DEF Undisturbed
  <2> QED
    BY <2>2, <2>3, <2>4 DEF CInv
<1> QED
    BY <1>1, CInvStep, PTL DEF Spec

\* However many SIGINTs come and wherever they hit the poll loop, at most the
\* message of the poll under way is handled after the first.
THEOREM PromptStopTheorem == Spec => []PromptStop
<1>1. CInv => PromptStop
    BY DEF CInv, LateSound, PromptStop
<1> QED
    BY <1>1, Invariance, PTL

\* No SIGINT, and no store of `run--' that overwrites one, makes the shutdown
\* wait more than five times; undisturbed it fails only after all five.
THEOREM FiveTriesTheorem == Spec => []FiveTries
<1>1. CInv => FiveTries
    BY DEF CInv, WaitsSound, Undisturbed, FiveTries
<1> QED
    BY <1>1, Invariance, PTL

-----------------------------------------------------------------------------
(***************************************************************************)
(* The end of the process.  The prover does not reason about ENABLED, so   *)
(* the fairness of FairSpec is spelled out: main has a step exactly until  *)
(* the process has ended.                                                  *)
(***************************************************************************)
Scheduled == []<>Ended \/ []<><<main>>_vars

\* With what ENABLED is, that is the weak fairness of FairSpec.
LEMMA FairIsScheduled ==
    [](~Ended => ENABLED <<main>>_vars) /\ FairSpec => Spec /\ Scheduled
    BY PTL DEF FairSpec, Scheduled

Told == signals > 0
Countdown == pc \in {"load", "store", "wait"}
Over == pc \in {"tried", "report"} \/ Ended

LEMMA ToldStays == CInv /\ Told /\ [Next]_vars => Told'
    BY DEF CInv, Typed, Told, Next, main, initKafka, TestRun, Poll, Close, Destroy,
           LoadRun, StoreRun, WaitDestroyed, TestTries, Report, stop, sig_usr1,
           vars, handlers

\* Where main goes once it has been told to stop: with run cleared there is
\* no way back into the poll loop, and none back in the countdown but by a wait.
LEMMA MainMoves ==
    CInv /\ Told /\ main =>
        \/ /\ waits' = waits
           /\ \/ pc \in {"init", "poll"} /\ pc' = "test"
              \/ pc = "test" /\ pc' = "close"
              \/ pc = "close" /\ pc' = "destroy"
              \/ pc = "destroy" /\ pc' = "load"
              \/ pc = "load" /\ pc' = "store"
              \/ pc = "store" /\ pc' \in {"wait", "tried"}
              \/ pc = "tried" /\ pc' = "report"
        \/ pc = "wait" /\ pc' \in {"load", "tried"} /\ waits' = waits + 1
        \/ Ended'
    BY DEF CInv, Typed, LateSound, Polling, Told, Ended, main, initKafka, TestRun, Poll,
           Close, Destroy, LoadRun, StoreRun, WaitDestroyed, TestTries, Report

\* A signal leaves main where it is, or ends the process.
LEMMA Onward ==
    CInv /\ Told /\ [Next]_vars =>
        \/ CInv /\ Told /\ main
        \/ pc' = pc /\ waits' = waits
        \/ Ended'
    BY DEF CInv, Typed, Next, stop, sig_usr1, Ended, vars

\* Told to stop, main leaves the poll loop, ...
LEMMA LoopLeft == Spec /\ Scheduled => (Told ~> Countdown \/ Over)
<1>1. CInv => \/ pc \in {"init", "poll"} \/ pc = "test" \/ pc = "close" \/ pc = "destroy"
              \/ Countdown \/ Over
    BY DEF CInv, Typed, Countdown, Over, Ended
<1>2. CInv /\ Told /\ [Next]_vars =>
        /\ pc \in {"init", "poll"} => (pc \in {"init", "poll"} \/ pc = "test" \/ Over)'
        /\ pc = "test" => (pc = "test" \/ pc = "close" \/ Over)'
        /\ pc = "close" => (pc = "close" \/ pc = "destroy" \/ Over)'
        /\ pc = "destroy" => (pc = "destroy" \/ Countdown \/ Over)'
    BY Onward, MainMoves DEF Countdown, Over
<1>3. CInv /\ Told /\ <<main>>_vars =>
        /\ pc \in {"init", "poll"} => (pc = "test" \/ Over)'
        /\ pc = "test" => (pc = "close" \/ Over)'
        /\ pc = "close" => (pc = "destroy" \/ Over)'
        /\ pc = "destroy" => (Countdown \/ Over)'
    BY MainMoves DEF Countdown, Over
<1>4. Ended => Over
    BY DEF Over
<1> QED
    BY <1>1, <1>2, <1>3, <1>4, Invariance, CInvStep, ToldStays, PTL DEF Spec, Scheduled

\* ... and the countdown ends: a round that is not the last makes one of at
\* most five waits, and no signal takes one back.
LEMMA CountdownEnds == Spec /\ Scheduled => (Told /\ Countdown ~> Over)
<1>1. CInv => /\ Countdown => pc = "load" \/ pc = "store" \/ pc = "wait"
              /\ pc = "wait" => ~(pc = "load") /\ ~(waits >= 5)
    BY DEF CInv, Typed, WaitsSound, Countdown
<1>2. CInv /\ Told /\ [Next]_vars =>
        /\ pc = "load" => (pc = "load" \/ pc = "store" \/ Over)'
        /\ pc = "store" => (pc = "store" \/ pc = "wait" \/ Over)'
        /\ pc = "wait" => (pc = "wait" \/ pc = "load" \/ Over)'
    BY Onward, MainMoves DEF Over
<1>3. CInv /\ Told /\ [Next]_vars /\ (pc = "load" \/ pc = "store" \/ pc = "wait") =>
        /\ waits >= 1 => (waits >= 1 \/ Over)'
        /\ waits >= 2 => (waits >= 2 \/ Over)'
        /\ waits >= 3 => (waits >= 3 \/ Over)'
        /\ waits >= 4 => (waits >= 4 \/ Over)'
        /\ waits >= 5 => (waits >= 5 \/ Over)'
    BY Onward, MainMoves DEF Over, CInv, Typed
<1>4. CInv /\ Told /\ [Next]_vars /\ pc = "wait" =>
        \/ (pc = "wait" \/ Over)'
        \/ /\ (waits >= 1)'
           /\ waits >= 1 => (waits >= 2)'
           /\ waits >= 2 => (waits >= 3)'
           /\ waits >= 3 => (waits >= 4)'
           /\ waits >= 4 => (waits >= 5)'
    BY Onward, MainMoves DEF Over, CInv, Typed
<1>5. CInv /\ Told /\ <<main>>_vars =>
        /\ pc = "load" => (pc = "store" \/ Over)'
        /\ pc = "store" => (pc = "wait" \/ Over)'
        /\ pc = "wait" => (pc = "load" \/ Over)'
    BY MainMoves DEF Over
<1>6. Ended => Over
    BY DEF Over
<1> QED
    BY <1>1, <1>2, <1>3, <1>4, <1>5, <1>6, Invariance, CInvStep, ToldStays, PTL
       DEF Spec, Scheduled

\* After a SIGINT the process comes to an end, wherever the signal hits main
\* and however many more come: as long as main is scheduled, nothing else is
\* needed, no answer of the broker and no end of the destroyed handle's work.
THEOREM StopTerminatesTheorem == Spec /\ Scheduled => StopTerminates
<1>1. CInv /\ Told /\ [Next]_vars =>
        /\ pc = "tried" => (pc = "tried" \/ pc = "report" \/ Ended)'
        /\ pc = "report" => (pc = "report" \/ Ended)'
    BY Onward, MainMoves
<1>2. CInv /\ Told /\ <<main>>_vars =>
        /\ pc = "tried" => (pc = "report" \/ Ended)'
        /\ pc = "report" => Ended'
    BY MainMoves
<1>3. Over => pc = "tried" \/ pc = "report" \/ Ended
    BY DEF Over
<1>4. signals > 0 <=> Told
    BY DEF Told
<1> QED
    BY <1>1, <1>2, <1>3, <1>4, LoopLeft, CountdownEnds, Invariance, CInvStep, ToldStays,
       PTL DEF Spec, Scheduled, StopTerminates
=============================================================================
