---------------------------- MODULE CheckQueueInv ----------------------------
(***************************************************************************)
(* The inductive invariant of CheckQueue for clients that do not go on     *)
(* using a controller after Wait (ReuseAfterWait = FALSE).  TLC checks it  *)
(* on the instances of MCCheckQueue, CheckQueueProofs proves it.           *)
(***************************************************************************)
EXTENDS CheckQueue

\* Who may be where.  A master outside "off" owns ControlMutex, so at most
\* one master is ever inside Loop, and while it is there is no verdict yet.
Ownership ==
    /\ \A m \in Masters :
          /\ pc[m] # "off" <=> ControlMutex = m
          /\ pc[m] # "ret"
          /\ pc[m] \in {"lock", "wait", "woken", "run"} => ~fDone
          /\ pc[m] = "leave" => fDone
    /\ \A w \in Workers : pc[w] \notin {"ctl", "leave", "ret"}

\* How nNow, vChecks and the for loop's position fit together.
BatchShape ==
    \A t \in Threads :
        /\ pc[t] = "run" => Len(vChecks[t]) = nNow[t] /\ next[t] < nNow[t]
        /\ pc[t] = "lock" /\ nNow[t] # 0 =>
              Len(vChecks[t]) = nNow[t] /\ next[t] = nNow[t]
        /\ ~HasBatch(t) => vChecks[t] = <<>>

\* Checks that a session has handed over and that are cleaned up again.
Finished == session \ Pending

\* What the shared status says about the checks cleaned up so far.
StatusSound ==
    /\ Pending \subseteq session
    /\ fDone \/ ControlMutex = NoOwner => Pending = {} /\ fAllOk
    /\ ~fDone /\ ~fAllOk => session \cap Fails # {}
    /\ ~fDone /\ fAllOk =>
          \A c \in Finished : c \notin Fails /\ runs[c] = 1

\* What a thread's local status says about the checks it has got through.
BatchSound ==
    /\ \A c \in Range(queue) : runs[c] = 0
    /\ \A t \in Threads : HasBatch(t) =>
          /\ ~fOk[t] => session \cap Fails # {}
          /\ fOk[t] => \A i \in 1..next[t] :
                vChecks[t][i] \notin Fails /\ runs[vChecks[t][i]] = 1
          /\ \A i \in (next[t] + 1)..Len(vChecks[t]) : runs[vChecks[t][i]] = 0

\* The inductive invariant.  OnePlace and TodoExact tie the counters to the
\* checks; StatusSound and BatchSound carry the verdict from the batches to
\* fAllOk; Ownership rules out a second master.
IInv ==
    /\ TypeOK
    /\ Ownership
    /\ BatchShape
    /\ OnePlace
    /\ TodoExact
    /\ PoolCountsExact
    /\ StatusSound
    /\ BatchSound
    /\ AtMostOnce
    /\ VerdictCorrect
    /\ NoLostWorkerWakeUp
    /\ NoLostMasterWakeUp
=============================================================================
