-------------------------- MODULE UdpTrackerProofs ---------------------------
(***************************************************************************)
(* Proofs about UdpTracker for any number of datagrams.                    *)
(***************************************************************************)
EXTENDS UdpTracker, TLAPS

\* As long as ios_.run runs, either a receive is under way or on its way to
\* its handler, or there is a reason for there being none.
TInv ==
    /\ thread \in {"none", "start", "run", "done"}
    /\ receive \in {"none", "pending"} \cup Outcomes
    /\ abort_ \in BOOLEAN /\ refused \in BOOLEAN
    /\ receive = "aborted" => abort_
    /\ DeafOnlyIfRefused

LEMMA InitTInv == Init => TInv
<1> SUFFICES ASSUME Init PROVE TInv
    OBVIOUS
<1>1. abort_ \in BOOLEAN /\ refused \in BOOLEAN
    BY DEF Init
<1> QED
    BY <1>1 DEF Init, TInv, DeafOnlyIfRefused

LEMMA NextTInv == TInv /\ [Next]_vars => TInv'
<1> SUFFICES ASSUME TInv, [Next]_vars PROVE TInv'
    OBVIOUS
<1> USE DEF TInv, DeafOnlyIfRefused, Outcomes, Kinds, server
<1>1. CASE StartUdpTracker
  <2>1. abort_' \in BOOLEAN /\ refused' \in BOOLEAN
    BY <1>1 DEF StartUdpTracker
  <2> QED
    BY <1>1, <2>1 DEF StartUdpTracker
<1>2. CASE StopUdpTracker \/ Join
    BY <1>2 DEF StopUdpTracker, Join
<1>3. CASE threadFun
    BY <1>3 DEF threadFun
<1>4. CASE Complete
    BY <1>4 DEF Complete
<1>5. CASE onUdpReceive
  <2>1. CASE receive \in {"error", "aborted", "short"}
    <3>1. /\ refused' = (refused \/ receive # "aborted")
          /\ receive' = "none" /\ UNCHANGED <<abort_, thread>> /\ thread = "run"
      BY <1>5, <2>1 DEF onUdpReceive
    <3>2. refused' \in BOOLEAN
      BY <3>1
    <3>3. abort_ \/ refused'
      BY <2>1, <3>1
    <3> QED
      BY <3>1, <3>2, <3>3
  <2>2. CASE receive \in Kinds \ {"short"}
    BY <1>5, <2>2 DEF onUdpReceive
  <2> QED
    BY <1>5, <2>1, <2>2 DEF onUdpReceive
<1>6. CASE stop
  <2>1. abort_' \in BOOLEAN /\ abort_'
    BY <1>6 DEF stop
  <2> QED
    BY <1>6, <2>1 DEF stop
<1>7. CASE OutOfWork
    BY <1>7 DEF OutOfWork
<1>8. CASE UNCHANGED vars
    BY <1>8 DEF vars
<1> QED
    BY <1>1, <1>2, <1>3, <1>4, <1>5, <1>6, <1>7, <1>8 DEF Next, ServerThread

\* The inductive invariant holds in every reachable state.
THEOREM Invariance == FairSpec => []TInv
<1> QED
    BY InitTInv, NextTInv, PTL DEF FairSpec, Spec

\* The tracker goes deaf only when it was told to stop, or for a failed
\* receive or a short datagram: every other path of the handler receives again.
THEOREM DeafOnlyIfRefusedTheorem == FairSpec => []DeafOnlyIfRefused
<1>1. TInv => DeafOnlyIfRefused
    BY DEF TInv
<1> QED
    BY <1>1, Invariance, PTL

-----------------------------------------------------------------------------
(***************************************************************************)
(* Counting, and the lifetime of the tracker.                              *)
(***************************************************************************)

\* A request is counted when it comes and answered when it is handled; the one
\* handled after stop is the last.  The thread is of one tracker: when the main
\* thread is idle it is over.
CInv ==
    /\ handled \in Nat /\ asked \in Nat /\ sends \in Nat /\ udp_announces_ \in Nat
    /\ ~abort_ => asked = sends + (IF receive \in Requests THEN 1 ELSE 0)
    /\ abort_ => asked = sends \/ asked = sends + 1
    /\ abort_ /\ receive \in Requests => asked = sends + 1
    /\ abort_ => receive # "pending" /\ thread \in {"run", "done"}
    /\ udp_announces_ <= sends
    /\ main = "idle" => thread \in {"none", "done"}
    /\ thread # "run" => receive = "none"

LEMMA NextCInv == CInv /\ [Next]_vars => CInv'
<1> SUFFICES ASSUME CInv, [Next]_vars PROVE CInv'
    OBVIOUS
<1> USE DEF CInv, Outcomes, Kinds, Requests, server
<1>1. CASE StartUdpTracker
    BY <1>1 DEF StartUdpTracker
<1>2. CASE StopUdpTracker \/ Join
    BY <1>2 DEF StopUdpTracker, Join
<1>3. CASE threadFun
    BY <1>3 DEF threadFun
<1>4. CASE Complete
    BY <1>4 DEF Complete
<1>5. CASE onUdpReceive
    BY <1>5 DEF onUdpReceive
<1>6. CASE stop
    BY <1>6 DEF stop
<1>7. CASE OutOfWork
    BY <1>7 DEF OutOfWork
<1>8. CASE UNCHANGED vars
    BY <1>8 DEF vars
<1> QED
    BY <1>1, <1>2, <1>3, <1>4, <1>5, <1>6, <1>7, <1>8 DEF Next, ServerThread

LEMMA InitCInv == Init => CInv
    BY DEF Init, CInv, Requests

\* Every connect and announce is answered once, and none is counted as an
\* announce that is not answered, whatever kinds come and wherever the stop
\* falls: it costs one request its answer at most.
THEOREM AnsweredTheorem == FairSpec => []Answered
<1>1. CInv => Answered
    BY DEF CInv, Answered
<1> QED
    BY <1>1, InitCInv, NextCInv, PTL DEF FairSpec, Spec

\* When StopUdpTracker has returned nothing of the tracker is left that could
\* run, neither a handler nor the posted stop: the next thing that happens is
\* that another one is started.
THEOREM NothingAfterJoin == FairSpec => [][main = "idle" => StartUdpTracker]_vars
<1>1. CInv /\ [Next]_vars => [main = "idle" => StartUdpTracker]_vars
  <2> SUFFICES ASSUME CInv, Next, main = "idle" PROVE StartUdpTracker
    OBVIOUS
  <2>1. thread \in {"none", "done"}
    BY DEF CInv
  <2> QED
    BY <2>1 DEF Next, ServerThread, StopUdpTracker, Join, Complete,
                threadFun, onUdpReceive, stop, OutOfWork
<1> QED
    BY <1>1, InitCInv, NextCInv, PTL DEF FairSpec, Spec

-----------------------------------------------------------------------------
(***************************************************************************)
(* The return of StopUdpTracker.  The prover does not reason about         *)
(* ENABLED, so the fairness of FairSpec is spelled out: a handler that is  *)
(* ready, the posted stop, the end of ios_.run and a join that can return  *)
(* are not kept waiting for ever.                                          *)
(***************************************************************************)
Ready == thread = "start" \/ (thread = "run" /\ receive \in Outcomes)
StopWaits == thread = "run" /\ posted
NoWork == thread = "run" /\ receive = "none" /\ ~posted
CanJoin == main = "joining" /\ thread \in {"none", "done"}

Scheduled ==
    /\ []<>~Ready \/ []<><<onUdpReceive \/ threadFun>>_vars
    /\ []<>~StopWaits \/ []<><<stop>>_vars
    /\ []<>~NoWork \/ []<><<OutOfWork>>_vars
    /\ []<>~CanJoin \/ []<><<Join>>_vars

\* With what ENABLED is, that is the weak fairness of FairSpec.
LEMMA FairIsScheduled ==
    /\ [](Ready => ENABLED <<onUdpReceive \/ threadFun>>_vars)
    /\ [](StopWaits => ENABLED <<stop>>_vars)
    /\ [](NoWork => ENABLED <<OutOfWork>>_vars)
    /\ [](CanJoin => ENABLED <<Join>>_vars)
    /\ FairSpec
    => Spec /\ Scheduled
    BY PTL DEF FairSpec, Scheduled

\* While the main thread is in StopUdpTracker the stop is posted or has run,
\* and once it has run no receive is pending again.
JInv ==
    /\ main \in {"idle", "serving", "joining"}
    /\ thread \in {"none", "start", "run", "done"}
    /\ receive \in {"none", "pending"} \cup Outcomes
    /\ posted \in BOOLEAN
    /\ main = "joining" /\ thread \in {"start", "run"} => posted \/ abort_
    /\ thread = "start" => receive = "none"
    /\ thread = "start" /\ main = "joining" => posted
    /\ abort_ => thread # "start" /\ receive # "pending"
    /\ main = "idle" => thread \in {"none", "done"}

LEMMA InitJInv == Init => JInv
<1> SUFFICES ASSUME Init PROVE JInv
    OBVIOUS
<1>1. posted \in BOOLEAN /\ ~abort_
    BY DEF Init
<1> QED
    BY <1>1 DEF Init, JInv

LEMMA NextJInv == JInv /\ [Next]_vars => JInv'
<1> SUFFICES ASSUME JInv, [Next]_vars PROVE JInv'
    OBVIOUS
<1> USE DEF JInv, Outcomes, Kinds, server
<1>1. CASE StartUdpTracker
  <2>1. posted' \in BOOLEAN /\ ~abort_'
    BY <1>1 DEF StartUdpTracker
  <2> QED
    BY <1>1, <2>1 DEF StartUdpTracker
<1>2. CASE StopUdpTracker
  <2>1. posted' \in BOOLEAN /\ posted'
    BY <1>2 DEF StopUdpTracker
  <2> QED
    BY <1>2, <2>1 DEF StopUdpTracker
<1>9. CASE Join
    BY <1>9 DEF Join
<1>3. CASE threadFun
    BY <1>3 DEF threadFun
<1>4. CASE Complete
    BY <1>4 DEF Complete
<1>5. CASE onUdpReceive
    BY <1>5 DEF onUdpReceive
<1>6. CASE stop
  <2>1. posted' \in BOOLEAN /\ abort_'
    BY <1>6 DEF stop
  <2> QED
    BY <1>6, <2>1 DEF stop
<1>7. CASE OutOfWork
    BY <1>7 DEF OutOfWork
<1>8. CASE UNCHANGED vars
    BY <1>8 DEF vars
<1> QED
    BY <1>1, <1>2, <1>3, <1>4, <1>5, <1>6, <1>7, <1>8, <1>9 DEF Next, ServerThread

\* The phases of a StopUdpTracker: the thread has not entered ios_.run yet, the
\* stop waits, the last outcome waits for its handler, nothing is left, and
\* the thread is over.
Joining == main = "joining"
Starting == Joining /\ thread = "start"
Stopping == Joining /\ StopWaits
Draining == Joining /\ thread = "run" /\ ~posted /\ receive \in Outcomes
Drained == Joining /\ NoWork

\* No step leads back to an earlier phase: neither a datagram that comes in nor
\* a handler starts another receive.
LEMMA JoinOnward ==
    JInv /\ [Next]_vars =>
        /\ Starting => (Starting \/ Stopping)'
        /\ Stopping => (Stopping \/ Draining \/ Drained)'
        /\ Draining => (Draining \/ Drained)'
        /\ Drained => (Drained \/ CanJoin)'
        /\ CanJoin => (CanJoin \/ main = "idle")'
<1> SUFFICES ASSUME JInv, [Next]_vars
             PROVE  /\ Starting => (Starting \/ Stopping)'
                    /\ Stopping => (Stopping \/ Draining \/ Drained)'
                    /\ Draining => (Draining \/ Drained)'
                    /\ Drained => (Drained \/ CanJoin)'
                    /\ CanJoin => (CanJoin \/ main = "idle")'
    OBVIOUS
<1> USE DEF JInv, Outcomes, Kinds, server, Joining, Starting, Stopping, Draining, Drained,
            StopWaits, NoWork, CanJoin
<1>1. CASE StartUdpTracker \/ StopUdpTracker \/ Join
    BY <1>1 DEF StartUdpTracker, StopUdpTracker, Join
<1>2. CASE threadFun
    BY <1>2 DEF threadFun
<1>3. CASE Complete
    BY <1>3 DEF Complete
<1>4. CASE onUdpReceive
    BY <1>4 DEF onUdpReceive
<1>5. CASE stop
    BY <1>5 DEF stop
<1>6. CASE OutOfWork
    BY <1>6 DEF OutOfWork
<1>7. CASE UNCHANGED vars
    BY <1>7 DEF vars
<1> QED
    BY <1>1, <1>2, <1>3, <1>4, <1>5, <1>6, <1>7 DEF Next, ServerThread

\* StopUdpTracker returns in whatever phase of its life it finds the thread, also
\* when datagrams keep coming in: it takes no more than that what can run does.
THEOREM StopReturnsTheorem == Spec /\ Scheduled => StopReturns
<1> USE DEF Joining, Starting, Stopping, Draining, Drained, StopWaits, NoWork, CanJoin
<1>1. JInv /\ main = "joining" => Starting \/ Stopping \/ Draining \/ Drained \/ CanJoin
    BY DEF JInv
<1>2. /\ Starting \/ Draining => Ready
      /\ Stopping => StopWaits
      /\ Drained => NoWork
    BY DEF Ready
<1>3. JInv =>
        /\ Starting /\ <<onUdpReceive \/ threadFun>>_vars => Stopping'
        /\ Draining /\ <<onUdpReceive \/ threadFun>>_vars => Drained'
        /\ Stopping /\ <<stop>>_vars => (Draining \/ Drained)'
        /\ Drained /\ <<OutOfWork>>_vars => CanJoin'
        /\ CanJoin /\ <<Join>>_vars => (main = "idle")'
    BY DEF JInv, onUdpReceive, threadFun, stop, OutOfWork, Join, Outcomes, Kinds, server
<1> HIDE DEF Joining, Starting, Stopping, Draining, Drained, StopWaits, NoWork, CanJoin
<1> QED
    BY <1>1, <1>2, <1>3, InitJInv, NextJInv, JoinOnward, PTL DEF Spec, Scheduled, StopReturns
=============================================================================
