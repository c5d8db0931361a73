------------------------ MODULE TorrentServersProofs -------------------------
(***************************************************************************)
(* Proofs about TorrentServers for any number of connections and           *)
(* datagrams.                                                              *)
(***************************************************************************)
EXTENDS TorrentServers, TLAPS

One(b) == IF b THEN 1 ELSE 0

-----------------------------------------------------------------------------
(***************************************************************************)
(* The peer server.                                                        *)
(***************************************************************************)
PeerTyped ==
    /\ peerCall \in {"idle", "serving", "close", "join"}
    /\ acceptor_ \in {"none", "open", "listening", "closed"}
    /\ hits \in Nat /\ connections \in Nat /\ accepts \in Nat
    /\ acceptor \in {"none", "accept", "poll", "check", "done"}
    /\ accept \in {"none", "pending"} \cup Peer!Outcomes
    /\ ec \in Peer!Outcomes

\* What has been completed is counted, or on its way through accept and ec.
Arrived == {"ok", "error"}
PeerBalance ==
    accepts = hits + One(accept \in Arrived) + One(acceptor = "check" /\ ec \in Arrived)

\* Among them are the connections.
PeerConnections ==
    /\ connections <= accepts
    /\ connections <= hits + One(accept = "ok") + One(acceptor = "check" /\ ec = "ok")

\* An accept is under way only where the thread polls; what ends the thread
\* is there only when the server is being stopped.
PeerShape ==
    /\ accept # "none" => acceptor = "poll"
    /\ acceptor = "done" => ec \notin Arrived
    /\ peerCall = "serving" =>
          /\ acceptor_ # "closed" /\ acceptor # "done"
          /\ accept \in {"none", "pending"} \cup Arrived
          /\ ec \in Arrived
    /\ peerCall = "idle" => acceptor \in {"none", "done"}

PeerInv == PeerTyped /\ PeerBalance /\ PeerConnections /\ PeerShape

\* The steps that the peer server takes.
PeerStep ==
    \/ Peer!StartPeer \/ Peer!StopPeer \/ Peer!CloseAcceptor \/ Peer!Join
    \/ Peer!threadFun \/ Peer!Complete

LEMMA PeerInvStep == PeerInv /\ PeerStep => PeerInv'
<1> SUFFICES ASSUME PeerInv, PeerStep PROVE PeerInv'
    OBVIOUS
<1> USE DEF PeerInv, PeerTyped, PeerBalance, PeerConnections, PeerShape, Arrived, One,
            Peer!Outcomes, Peer!Aborted, Peer!history
<1>1. CASE Peer!StartPeer
    BY <1>1 DEF Peer!StartPeer
<1>2. CASE Peer!StopPeer
    BY <1>2 DEF Peer!StopPeer
<1>3. CASE Peer!CloseAcceptor
    BY <1>3 DEF Peer!CloseAcceptor
<1>4. CASE Peer!Join
    BY <1>4 DEF Peer!Join
<1>5. CASE Peer!AsyncAccept
    BY <1>5 DEF Peer!AsyncAccept
<1>6. CASE Peer!PollOne
    BY <1>6 DEF Peer!PollOne
<1>7. CASE Peer!CheckAccept
    BY <1>7 DEF Peer!CheckAccept
<1>8. CASE Peer!Complete
    BY <1>8 DEF Peer!Complete
<1> QED
    BY <1>1, <1>2, <1>3, <1>4, <1>5, <1>6, <1>7, <1>8 DEF PeerStep, Peer!threadFun

\* Every step of the peer server is a step of a counting server or a stutter.
LEMMA PeerRefines == PeerInv /\ PeerStep => [PeerService!Next]_(PeerService!vars)
<1> SUFFICES ASSUME PeerInv, PeerStep PROVE [PeerService!Next]_(PeerService!vars)
    OBVIOUS
<1> USE DEF PeerInv, PeerTyped, PeerShape, Phase, PeerService!vars, PeerService!Next
<1>1. CASE Peer!StartPeer
    BY <1>1 DEF Peer!StartPeer, PeerService!Start
<1>2. CASE Peer!StopPeer
    BY <1>2 DEF Peer!StopPeer, PeerService!Stop
<1>3. CASE Peer!CloseAcceptor
    BY <1>3 DEF Peer!CloseAcceptor
<1>4. CASE Peer!Join
    BY <1>4 DEF Peer!Join, PeerService!Stopped
<1>5. CASE Peer!AsyncAccept
    BY <1>5 DEF Peer!AsyncAccept
<1>6. CASE Peer!PollOne
    BY <1>6 DEF Peer!PollOne
<1>7. CASE Peer!CheckAccept
    BY <1>7 DEF Peer!CheckAccept, PeerService!Hit
<1>8. CASE Peer!Complete
    BY <1>8 DEF Peer!Complete
<1> QED
    BY <1>1, <1>2, <1>3, <1>4, <1>5, <1>6, <1>7, <1>8 DEF PeerStep, Peer!threadFun

-----------------------------------------------------------------------------
(***************************************************************************)
(* The DHT server.                                                         *)
(***************************************************************************)
DhtTyped ==
    /\ dhtCall \in {"idle", "serving", "close", "join", "terminated"}
    /\ socket_ \in {"none", "open", "closed"}
    /\ decoded \in Nat /\ receives \in Nat /\ messages \in Nat
    /\ receiver \in {"none", "receive", "poll", "decode", "done"}
    /\ receive \in {"none", "pending"} \cup Dht!Outcomes
    /\ result \in {"none"} \cup Dht!Outcomes
    /\ failed \in BOOLEAN

DhtBalance ==
    messages = decoded + One(receive = "message")
                       + One(receiver = "decode" /\ result = "message")

DhtShape ==
    /\ receive # "none" => receiver = "poll"
    /\ dhtCall = "serving" =>
          /\ socket_ # "closed"
          /\ receive \notin {"operation_aborted", "bad_descriptor"}
          /\ result \notin {"operation_aborted", "bad_descriptor"}
    /\ dhtCall = "idle" => receiver \in {"none", "done"}

\* As long as the server is not being stopped only a failure ends the thread.
DhtFailure ==
    /\ receive = "error" => failed
    /\ receiver = "decode" /\ result = "error" => failed
    /\ receiver = "done" /\ dhtCall = "serving" => failed

DhtInv == DhtTyped /\ DhtBalance /\ DhtShape /\ DhtFailure

DhtStep ==
    \/ Dht!StartDht \/ Dht!StopDht \/ Dht!CloseSocket \/ Dht!Join
    \/ ~Terminated /\ (Dht!threadFun \/ Dht!Complete)

LEMMA DhtInvStep == DhtInv /\ DhtStep => DhtInv'
<1> SUFFICES ASSUME DhtInv, DhtStep PROVE DhtInv'
    OBVIOUS
<1> USE DEF DhtInv, DhtTyped, DhtBalance, DhtShape, DhtFailure, One,
            Dht!Outcomes, Dht!Errors, Dht!Aborted, Dht!history
<1>1. CASE Dht!StartDht
  <2>1. failed' \in BOOLEAN
    BY <1>1 DEF Dht!StartDht
  <2> QED
    BY <1>1, <2>1 DEF Dht!StartDht
<1>2. CASE Dht!StopDht
    BY <1>2 DEF Dht!StopDht
<1>3. CASE Dht!CloseSocket
    BY <1>3 DEF Dht!CloseSocket
<1>4. CASE Dht!Join
    BY <1>4 DEF Dht!Join
<1>5. CASE Dht!AsyncReceive
    BY <1>5 DEF Dht!AsyncReceive
<1>6. CASE Dht!PollOne
    BY <1>6 DEF Dht!PollOne
<1>7. CASE Dht!Decode
    BY <1>7 DEF Dht!Decode
<1>8. CASE Dht!Complete
  <2>1. failed' \in BOOLEAN
    BY <1>8 DEF Dht!Complete
  <2>2. (failed \/ receive' = "error") => failed'
    BY <1>8 DEF Dht!Complete
  <2> QED
    BY <1>8, <2>1, <2>2 DEF Dht!Complete
<1> QED
    BY <1>1, <1>2, <1>3, <1>4, <1>5, <1>6, <1>7, <1>8 DEF DhtStep, Dht!threadFun

LEMMA DhtRefines == DhtInv /\ DhtStep => [DhtService!Next]_(DhtService!vars)
<1> SUFFICES ASSUME DhtInv, DhtStep PROVE [DhtService!Next]_(DhtService!vars)
    OBVIOUS
<1> USE DEF DhtInv, DhtTyped, DhtShape, Phase, DhtService!vars, DhtService!Next, Dht!history
<1>1. CASE Dht!StartDht
    BY <1>1 DEF Dht!StartDht, DhtService!Start
<1>2. CASE Dht!StopDht
    BY <1>2 DEF Dht!StopDht, DhtService!Stop
<1>3. CASE Dht!CloseSocket
    BY <1>3 DEF Dht!CloseSocket
<1>4. CASE Dht!Join
    BY <1>4 DEF Dht!Join, DhtService!Stopped
<1>5. CASE Dht!AsyncReceive
    BY <1>5 DEF Dht!AsyncReceive
<1>6. CASE Dht!PollOne
    BY <1>6 DEF Dht!PollOne
<1>7. CASE Dht!Decode /\ ~Terminated
    BY <1>7 DEF Dht!Decode, DhtService!Hit, Terminated
<1>8. CASE Dht!Complete
    BY <1>8 DEF Dht!Complete
<1> QED
    BY <1>1, <1>2, <1>3, <1>4, <1>5, <1>6, <1>7, <1>8 DEF DhtStep, Dht!threadFun

-----------------------------------------------------------------------------
(***************************************************************************)
(* Both.                                                                   *)
(***************************************************************************)
SInv == PeerInv /\ DhtInv

LEMMA InitSInv == Init => SInv
<1> SUFFICES ASSUME Peer!Init, Dht!Init PROVE PeerInv /\ DhtInv
    BY DEF Init, SInv
<1>1. PeerInv
    BY DEF Peer!Init, PeerInv, PeerTyped, PeerBalance, PeerConnections, PeerShape, Arrived, One,
           Peer!Outcomes
<1>2. failed \in BOOLEAN
    BY DEF Dht!Init
<1>3. DhtInv
    BY <1>2 DEF Dht!Init, DhtInv, DhtTyped, DhtBalance, DhtShape, DhtFailure, One
<1> QED
    BY <1>1, <1>3

\* A step of the composition is a step of one server that leaves the other.
LEMMA OneOfTwo ==
    Next => \/ PeerStep /\ UNCHANGED dhtVars
            \/ DhtStep /\ UNCHANGED peerVars
    BY DEF Next, CallPeer, CallDht, PeerThread, DhtThread, Network, PeerStep, DhtStep

LEMMA PeerSame == UNCHANGED peerVars => UNCHANGED PeerService!vars /\ (PeerInv => PeerInv')
    BY DEF peerVars, PeerService!vars, Phase, PeerInv, PeerTyped, PeerBalance, PeerConnections,
           PeerShape

LEMMA DhtSame == UNCHANGED dhtVars => UNCHANGED DhtService!vars /\ (DhtInv => DhtInv')
    BY DEF dhtVars, DhtService!vars, Phase, DhtInv, DhtTyped, DhtBalance, DhtShape, DhtFailure

LEMMA NextSInv ==
    SInv /\ [Next]_vars =>
        /\ SInv'
        /\ [PeerService!Next]_(PeerService!vars)
        /\ [DhtService!Next]_(DhtService!vars)
    BY OneOfTwo, PeerInvStep, PeerRefines, DhtInvStep, DhtRefines, PeerSame, DhtSame
       DEF SInv, vars

\* The inductive invariant holds in every reachable state.
THEOREM Invariance == FairSpec => []SInv
<1> QED
    BY InitSInv, NextSInv, PTL DEF FairSpec

\* Neither server loses a connection or a message or counts one twice, however
\* many arrive, and wherever the stop meets the thread; what the peer server
\* counts beyond its connections are accepts that failed.
THEOREM NothingUncountedTheorem == FairSpec => []NothingUncounted
<1>1. SInv => NothingUncounted
  <2> SUFFICES ASSUME PeerInv, DhtInv PROVE Peer!NothingUncounted /\ Dht!NothingUncounted
    BY DEF SInv, NothingUncounted
  <2>1. Peer!NothingUncounted
    BY DEF PeerInv, PeerTyped, PeerBalance, PeerConnections, PeerShape, One, Arrived,
           Peer!NothingUncounted, Peer!NumPeerHits
  <2>2. Dht!NothingUncounted
    BY DEF DhtInv, DhtTyped, DhtBalance, DhtShape, DhtFailure, One, Dht!NothingUncounted
  <2> QED
    BY <2>1, <2>2
<1> QED
    BY <1>1, Invariance, PTL

\* All that both servers ever do is what a counting server may do.  (That a
\* stop comes to its end is liveness.)
THEOREM ServersCount ==
    FairSpec => /\ PeerService!Init /\ [][PeerService!Next]_(PeerService!vars)
                /\ DhtService!Init /\ [][DhtService!Next]_(DhtService!vars)
<1>1. Init => PeerService!Init /\ DhtService!Init
    BY DEF Init, Peer!Init, Dht!Init, PeerService!Init, DhtService!Init, Phase
<1> QED
    BY <1>1, InitSInv, NextSInv, PTL DEF FairSpec

-----------------------------------------------------------------------------
(***************************************************************************)
(* The return of StopPeer and StopDht.  The prover does not reason about   *)
(* ENABLED, so the fairness of FairSpec is spelled out: a server's thread  *)
(* that does not wait for the network, and the main thread within a stop   *)
(* that does not wait for the join, are not kept waiting for ever.         *)
(***************************************************************************)
PeerRuns ==
    /\ ~Terminated
    /\ acceptor \in {"accept", "check"} \/ (acceptor = "poll" /\ accept \in Peer!Outcomes)
DhtRuns ==
    /\ ~Terminated
    /\ receiver \in {"receive", "decode"} \/ (receiver = "poll" /\ receive \in Dht!Outcomes)
PeerCallRuns ==
    /\ dhtCall \in {"idle", "serving"}
    /\ peerCall = "close" \/ (peerCall = "join" /\ acceptor \in {"none", "done"})
DhtCallRuns ==
    /\ peerCall \in {"idle", "serving"}
    /\ dhtCall = "close" \/ (dhtCall = "join" /\ receiver \in {"none", "done"})

StoppingPeer == CallPeer /\ peerCall \in {"close", "join"}
StoppingDht == CallDht /\ dhtCall \in {"close", "join"}

Scheduled ==
    /\ []<>~PeerRuns \/ []<><<PeerThread>>_vars
    /\ []<>~DhtRuns \/ []<><<DhtThread>>_vars
    /\ []<>~PeerCallRuns \/ []<><<StoppingPeer>>_vars
    /\ []<>~DhtCallRuns \/ []<><<StoppingDht>>_vars

\* With what ENABLED is, that is the fairness of FairSpec.
LEMMA FairIsScheduled ==
    /\ [](PeerRuns => ENABLED <<PeerThread>>_vars)
    /\ [](DhtRuns => ENABLED <<DhtThread>>_vars)
    /\ [](PeerCallRuns => ENABLED <<StoppingPeer>>_vars)
    /\ [](DhtCallRuns => ENABLED <<StoppingDht>>_vars)
    /\ FairSpec
    => Init /\ [][Next]_vars /\ Scheduled
    BY PTL DEF FairSpec, Scheduled, StoppingPeer, StoppingDht

\* The main thread is in one function at a time.  Once what a server listens
\* on is closed nothing is pending on it, and never again.
StopInv ==
    /\ peerCall \in {"close", "join"} => dhtCall \in {"idle", "serving"}
    /\ dhtCall \in {"close", "join"} => peerCall \in {"idle", "serving"}
    /\ peerCall = "join" => acceptor_ = "closed" /\ accept # "pending"
    /\ dhtCall = "join" => socket_ = "closed" /\ receive # "pending"
    /\ acceptor = "poll" => accept # "none"
    /\ receiver = "poll" => receive # "none"

LEMMA NextStopInv == SInv /\ StopInv /\ [Next]_vars => StopInv'
<1> SUFFICES ASSUME SInv, StopInv, [Next]_vars PROVE StopInv'
    OBVIOUS
<1> USE DEF SInv, PeerInv, PeerTyped, PeerShape, DhtInv, DhtTyped, DhtShape, StopInv,
            Peer!Outcomes, Peer!Aborted, Dht!Outcomes, Dht!Aborted, Dht!history,
            peerVars, dhtVars
<1>1. CASE CallPeer
    BY <1>1 DEF CallPeer, Peer!StartPeer, Peer!StopPeer, Peer!CloseAcceptor, Peer!Join
<1>2. CASE CallDht
    BY <1>2 DEF CallDht, Dht!StartDht, Dht!StopDht, Dht!CloseSocket, Dht!Join
<1>3. CASE PeerThread
    BY <1>3 DEF PeerThread, Peer!threadFun, Peer!AsyncAccept, Peer!PollOne, Peer!CheckAccept
<1>4. CASE DhtThread
    BY <1>4 DEF DhtThread, Dht!threadFun, Dht!AsyncReceive, Dht!PollOne, Dht!Decode
<1>5. CASE Network
    BY <1>5 DEF Network, Peer!Complete, Dht!Complete
<1>6. CASE UNCHANGED vars
    BY <1>6 DEF vars
<1> QED
    BY <1>1, <1>2, <1>3, <1>4, <1>5, <1>6 DEF Next

\* How far the peer server's thread is from its end once the acceptor is closed:
\* an outcome that came before is handled and counted, the next accept fails at
\* once, and its handler ends the loop.
PeerLast(n) ==
    /\ peerCall = "join"
    /\ CASE n = 5 -> acceptor = "poll" /\ accept \in Arrived
         [] n = 4 -> acceptor = "check" /\ ec \in Arrived
         [] n = 3 -> acceptor = "accept"
         [] n = 2 -> acceptor = "poll" /\ accept \notin Arrived
         [] n = 1 -> acceptor = "check" /\ ec \notin Arrived
         [] n = 0 -> acceptor \in {"none", "done"}

LEMMA PeerOnward ==
    SInv /\ StopInv /\ [Next]_vars =>
        /\ PeerLast(5) => (PeerLast(5) \/ PeerLast(4))'
        /\ PeerLast(4) => (PeerLast(4) \/ PeerLast(3))'
        /\ PeerLast(3) => (PeerLast(3) \/ PeerLast(2))'
        /\ PeerLast(2) => (PeerLast(2) \/ PeerLast(1))'
        /\ PeerLast(1) => (PeerLast(1) \/ PeerLast(0))'
        /\ PeerLast(0) => (PeerLast(0) \/ peerCall = "idle")'
        /\ peerCall = "close" => (peerCall \in {"close", "join"})'
<1> SUFFICES ASSUME SInv, StopInv, [Next]_vars
             PROVE  /\ PeerLast(5) => (PeerLast(5) \/ PeerLast(4))'
                    /\ PeerLast(4) => (PeerLast(4) \/ PeerLast(3))'
                    /\ PeerLast(3) => (PeerLast(3) \/ PeerLast(2))'
                    /\ PeerLast(2) => (PeerLast(2) \/ PeerLast(1))'
                    /\ PeerLast(1) => (PeerLast(1) \/ PeerLast(0))'
                    /\ PeerLast(0) => (PeerLast(0) \/ peerCall = "idle")'
                    /\ peerCall = "close" => (peerCall \in {"close", "join"})'
    OBVIOUS
<1> USE DEF SInv, PeerInv, PeerTyped, PeerShape, StopInv, Peer!Outcomes, Arrived, PeerLast,
            peerVars
<1>1. CASE CallPeer
    BY <1>1 DEF CallPeer, Peer!StartPeer, Peer!StopPeer, Peer!CloseAcceptor, Peer!Join
<1>2. CASE PeerThread
    BY <1>2 DEF PeerThread, Peer!threadFun, Peer!AsyncAccept, Peer!PollOne, Peer!CheckAccept
<1>3. CASE Network
    BY <1>3 DEF Network, Peer!Complete
<1>4. CASE CallDht \/ DhtThread \/ UNCHANGED vars
    BY <1>4 DEF CallDht, DhtThread, vars
<1> QED
    BY <1>1, <1>2, <1>3, <1>4 DEF Next

LEMMA PeerStops ==
    Init /\ [][Next]_vars /\ Scheduled => (peerCall \in {"close", "join"} ~> peerCall = "idle")
<1>1. SInv /\ StopInv /\ peerCall \in {"close", "join"} =>
        \/ peerCall = "close" \/ PeerLast(5) \/ PeerLast(4) \/ PeerLast(3) \/ PeerLast(2)
        \/ PeerLast(1) \/ PeerLast(0)
    BY DEF SInv, PeerInv, PeerTyped, PeerShape, PeerLast, StopInv
<1>2. SInv /\ StopInv =>
        /\ peerCall = "close" \/ PeerLast(0) => PeerCallRuns
        /\ PeerLast(5) \/ PeerLast(4) \/ PeerLast(3) \/ PeerLast(2) \/ PeerLast(1) => PeerRuns
    BY DEF SInv, PeerInv, PeerTyped, PeerShape, PeerLast, StopInv, PeerCallRuns, PeerRuns,
           Terminated, Peer!Outcomes
<1>3. SInv /\ StopInv /\ <<PeerThread>>_vars =>
        /\ PeerLast(5) => PeerLast(4)'
        /\ PeerLast(4) => PeerLast(3)'
        /\ PeerLast(3) => PeerLast(2)'
        /\ PeerLast(2) => PeerLast(1)'
        /\ PeerLast(1) => PeerLast(0)'
    BY DEF SInv, PeerInv, PeerTyped, PeerShape, PeerLast, StopInv, Arrived, Peer!Outcomes,
           PeerThread, Peer!threadFun, Peer!AsyncAccept, Peer!PollOne, Peer!CheckAccept
<1>4. <<StoppingPeer>>_vars =>
        /\ peerCall = "close" => (peerCall \in {"close", "join"} /\ ~(peerCall = "close"))'
        /\ PeerLast(0) => (peerCall = "idle")'
    BY DEF StoppingPeer, CallPeer, Peer!StartPeer, Peer!StopPeer, Peer!CloseAcceptor, Peer!Join,
           PeerLast
<1>5. peerCall = "close" => ~PeerLast(0)
    BY DEF PeerLast
<1>6. Init => StopInv
    BY DEF Init, Peer!Init, Dht!Init, StopInv
<1> QED
    BY <1>1, <1>2, <1>3, <1>4, <1>5, <1>6, InitSInv, NextSInv, NextStopInv, PeerOnward, PTL
       DEF Scheduled

\* The same for the DHT server, which any error ends.
DhtLast(n) ==
    /\ dhtCall = "join"
    /\ CASE n = 5 -> receiver = "poll" /\ receive \notin Dht!Errors
         [] n = 4 -> receiver = "decode" /\ result \notin Dht!Errors
         [] n = 3 -> receiver = "receive"
         [] n = 2 -> receiver = "poll" /\ receive \in Dht!Errors
         [] n = 1 -> receiver = "decode" /\ result \in Dht!Errors
         [] n = 0 -> receiver \in {"none", "done"}

LEMMA DhtOnward ==
    SInv /\ StopInv /\ [Next]_vars =>
        /\ DhtLast(5) => (DhtLast(5) \/ DhtLast(4))'
        /\ DhtLast(4) => (DhtLast(4) \/ DhtLast(3))'
        /\ DhtLast(3) => (DhtLast(3) \/ DhtLast(2))'
        /\ DhtLast(2) => (DhtLast(2) \/ DhtLast(1))'
        /\ DhtLast(1) => (DhtLast(1) \/ DhtLast(0))'
        /\ DhtLast(0) => (DhtLast(0) \/ dhtCall = "idle")'
        /\ dhtCall = "close" => (dhtCall \in {"close", "join"})'
<1> SUFFICES ASSUME SInv, StopInv, [Next]_vars
             PROVE  /\ DhtLast(5) => (DhtLast(5) \/ DhtLast(4))'
                    /\ DhtLast(4) => (DhtLast(4) \/ DhtLast(3))'
                    /\ DhtLast(3) => (DhtLast(3) \/ DhtLast(2))'
                    /\ DhtLast(2) => (DhtLast(2) \/ DhtLast(1))'
                    /\ DhtLast(1) => (DhtLast(1) \/ DhtLast(0))'
                    /\ DhtLast(0) => (DhtLast(0) \/ dhtCall = "idle")'
                    /\ dhtCall = "close" => (dhtCall \in {"close", "join"})'
    OBVIOUS
<1> USE DEF SInv, DhtInv, DhtTyped, DhtShape, StopInv, Dht!Outcomes, Dht!Errors, DhtLast,
            dhtVars, Dht!history
<1>1. CASE CallDht
    BY <1>1 DEF CallDht, Dht!StartDht, Dht!StopDht, Dht!CloseSocket, Dht!Join
<1>2. CASE DhtThread
    BY <1>2 DEF DhtThread, Dht!threadFun, Dht!AsyncReceive, Dht!PollOne, Dht!Decode
<1>3. CASE Network
    BY <1>3 DEF Network, Dht!Complete
<1>4. CASE CallPeer \/ PeerThread \/ UNCHANGED vars
    BY <1>4 DEF CallPeer, PeerThread, vars
<1> QED
    BY <1>1, <1>2, <1>3, <1>4 DEF Next

LEMMA DhtStops ==
    Init /\ [][Next]_vars /\ Scheduled => (dhtCall \in {"close", "join"} ~> dhtCall = "idle")
<1>1. SInv /\ StopInv /\ dhtCall \in {"close", "join"} =>
        \/ dhtCall = "close" \/ DhtLast(5) \/ DhtLast(4) \/ DhtLast(3) \/ DhtLast(2)
        \/ DhtLast(1) \/ DhtLast(0)
    BY DEF SInv, DhtInv, DhtTyped, DhtShape, DhtLast, StopInv
<1>2. SInv /\ StopInv =>
        /\ dhtCall = "close" \/ DhtLast(0) => DhtCallRuns
        /\ DhtLast(5) \/ DhtLast(4) \/ DhtLast(3) \/ DhtLast(2) \/ DhtLast(1) => DhtRuns
    BY DEF SInv, DhtInv, DhtTyped, DhtShape, DhtLast, StopInv, DhtCallRuns, DhtRuns,
           Terminated, Dht!Outcomes
<1>3. SInv /\ StopInv /\ <<DhtThread>>_vars =>
        /\ DhtLast(5) => DhtLast(4)'
        /\ DhtLast(4) => DhtLast(3)'
        /\ DhtLast(3) => DhtLast(2)'
        /\ DhtLast(2) => DhtLast(1)'
        /\ DhtLast(1) => DhtLast(0)'
    BY DEF SInv, DhtInv, DhtTyped, DhtShape, DhtLast, StopInv, Dht!Errors, Dht!Outcomes,
           DhtThread, Dht!threadFun, Dht!AsyncReceive, Dht!PollOne, Dht!Decode
<1>4. <<StoppingDht>>_vars =>
        /\ dhtCall = "close" => (dhtCall \in {"close", "join"} /\ ~(dhtCall = "close"))'
        /\ DhtLast(0) => (dhtCall = "idle")'
    BY DEF StoppingDht, CallDht, Dht!StartDht, Dht!StopDht, Dht!CloseSocket, Dht!Join,
           DhtLast
<1>5. dhtCall = "close" => ~DhtLast(0)
    BY DEF DhtLast
<1>6. Init => StopInv
    BY DEF Init, Peer!Init, Dht!Init, StopInv
<1> QED
    BY <1>1, <1>2, <1>3, <1>4, <1>5, <1>6, InitSInv, NextSInv, NextStopInv, DhtOnward, PTL
       DEF Scheduled

\* A server that is being stopped is stopped in the end, whatever its thread was
\* doing when the cancel and the close hit it, and whatever came in by then: the
\* liveness part of being a counting server.
THEOREM ServersStop ==
    Init /\ [][Next]_vars /\ Scheduled =>
        /\ Phase(peerCall) = "stopping" ~> Phase(peerCall) = "idle"
        /\ Phase(dhtCall) = "stopping" ~> Phase(dhtCall) = "idle"
<1>1. SInv =>
        /\ Phase(peerCall) = "stopping" <=> peerCall \in {"close", "join"}
        /\ peerCall = "idle" => Phase(peerCall) = "idle"
        /\ Phase(dhtCall) = "stopping" <=> dhtCall \in {"close", "join"}
        /\ dhtCall = "idle" => Phase(dhtCall) = "idle"
    BY DEF SInv, PeerInv, PeerTyped, DhtInv, DhtTyped, Phase
<1> QED
    BY <1>1, InitSInv, NextSInv, PeerStops, DhtStops, PTL
=============================================================================
