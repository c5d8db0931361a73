--------------------------- MODULE TorrentServers ----------------------------
(***************************************************************************)
(* The peer server and the DHT server in one process: each has its thread, *)
(* and one main thread starts and stops both through StartPeer, StopPeer,  *)
(* StartDht and StopDht.  While it is inside one of them it cannot call    *)
(* another, and when a DHT server's destructor throws everything ends.     *)
(***************************************************************************)
EXTENDS Integers

CONSTANTS MaxAccepts, MaxReceives   \* bounds: arrivals in one life of a server

ASSUME ServersAssumption == MaxAccepts \in Nat /\ MaxReceives \in Nat

VARIABLES
    acceptor_, hits, acceptor, accept, ec, connections, accepts, peerCall,  \* the peer
    socket_, decoded, receiver, receive, result, receives, messages,
    failed, dhtCall                                                 \* the DHT

peerVars == <<acceptor_, hits, acceptor, accept, ec, connections, accepts, peerCall>>
dhtVars == <<socket_, decoded, receiver, receive, result, receives, messages,
             failed, dhtCall>>
vars == <<peerVars, dhtVars>>

Peer == INSTANCE PeerServer WITH
    main <- peerCall, requests_ <- hits, thread <- acceptor, completed <- accepts

Dht == INSTANCE DhtServer WITH
    main <- dhtCall, requests_ <- decoded, thread <- receiver, completed <- receives

Init == Peer!Init /\ Dht!Init

-----------------------------------------------------------------------------
Terminated == dhtCall = "terminated"

\* What the main thread does for one server, while the other's functions are
\* not being executed.
CallPeer ==
    /\ dhtCall \in {"idle", "serving"}
    /\ Peer!StartPeer \/ Peer!StopPeer \/ Peer!CloseAcceptor \/ Peer!Join
    /\ UNCHANGED dhtVars

CallDht ==
    /\ peerCall \in {"idle", "serving"}
    /\ Dht!StartDht \/ Dht!StopDht \/ Dht!CloseSocket \/ Dht!Join
    /\ UNCHANGED peerVars

\* The servers' threads and the network.
PeerThread == ~Terminated /\ Peer!threadFun /\ UNCHANGED dhtVars
DhtThread == ~Terminated /\ Dht!threadFun /\ UNCHANGED peerVars
Network ==
    /\ ~Terminated
    /\ \/ Peer!Complete /\ UNCHANGED dhtVars
       \/ Dht!Complete /\ UNCHANGED peerVars

Next == CallPeer \/ CallDht \/ PeerThread \/ DhtThread \/ Network

\* All threads are scheduled: the servers' always, the main thread within the
\* two functions.  Nobody has to connect, to send, or to stop a server.
FairSpec ==
    /\ Init /\ [][Next]_vars
    /\ WF_vars(PeerThread) /\ WF_vars(DhtThread)
    /\ WF_vars(CallPeer /\ peerCall \in {"close", "join"})
    /\ WF_vars(CallDht /\ dhtCall \in {"close", "join"})
-----------------------------------------------------------------------------
\* The phase of a server whose main-thread state is call.
Phase(call) == IF call \in {"close", "join"} THEN "stopping" ELSE call

PeerService == INSTANCE CountingServer WITH phase <- Phase(peerCall)
DhtService == INSTANCE CountingServer WITH phase <- Phase(dhtCall), hits <- decoded

\* Both are counting servers.  In particular StopPeer and StopDht return in
\* whatever phase of its loop they find the thread, even where the cancel hits
\* nothing, and by then it does not count any more.
ImplementsServer == PeerService!Spec /\ DhtService!Spec

\* Neither server loses a request or counts one twice, nor stops serving by
\* itself without a failed receive (see the modules).
NothingUncounted == Peer!NothingUncounted /\ Dht!NothingUncounted

\* NumPeerHits is what peer.h:8 says of it, and no more: connections.
HitsAreConnections == Peer!HitsAreConnections
=============================================================================
