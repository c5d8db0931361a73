----------------------------- MODULE PeerServer ------------------------------
(***************************************************************************)
(* learntorrent/src/peer.cpp: a server whose thread accepts connections,   *)
(* counts and closes them; the program's main thread starts it, and stops  *)
(* it by cancelling and closing the acceptor under the thread's feet.      *)
(*                                                                         *)
(* Each operation on the acceptor is one action.  (The two threads use it  *)
(* without synchronisation; an overlap counts as one order or the other.)  *)
(***************************************************************************)
EXTENDS Integers

CONSTANT MaxAccepts     \* bound: accepts completed in one life of the server

VARIABLES
    main,       \* the main thread: "idle", "serving", "close" or "join"
    acceptor_,  \* "none", "open", "listening" or "closed"
    requests_,  \* BaseServer
    thread,     \* "none", "accept", "poll", "check" or "done"
    accept,     \* async_accept: "none", "pending", or its outcome
    ec,         \* what newConnect has stored in the thread's variable
    connections, \* history: connections accepted
    completed   \* history: accepts completed by a connection or an error

history == <<connections, completed>>

vars == <<main, acceptor_, requests_, thread, accept, ec, history>>

Outcomes == {"ok", "error", "operation_aborted", "bad_descriptor"}

Init ==
    /\ main = "idle"
    /\ acceptor_ = "none"
    /\ requests_ = 0
    /\ thread = "none"
    /\ accept = "none"
    /\ ec = "ok"
    /\ connections = 0 /\ completed = 0

-----------------------------------------------------------------------------
(***************************************************************************)
(* The main thread.                                                        *)
(***************************************************************************)

\* StartPeer.  A failing open, bind or local_endpoint leaves the server
\* without a thread, a failing listen does not.
StartPeer ==
    /\ main = "idle"
    /\ main' = "serving"
    /\ requests_' = 0 /\ accept' = "none" /\ ec' = "ok"
    /\ connections' = 0 /\ completed' = 0
    /\ \/ acceptor_' \in {"none", "open"} /\ thread' = "none"
       \/ acceptor_' \in {"open", "listening"} /\ thread' = "accept"

\* What becomes of an accept that is under way.
Aborted == IF accept = "pending" THEN "operation_aborted" ELSE accept

\* StopPeer: ~PeerServer cancels, ...
StopPeer ==
    /\ main = "serving"
    /\ accept' = Aborted
    /\ main' = "close"
    /\ UNCHANGED <<acceptor_, requests_, thread, ec, history>>

\* Mutant: the destructor only cancels.
MutantKeepOpen ==
    /\ main = "close"
    /\ main' = "join"
    /\ UNCHANGED <<acceptor_, requests_, thread, accept, ec, history>>

\* ... closes ...
CloseAcceptor ==
    /\ main = "close"
    /\ acceptor_' = "closed"
    /\ accept' = Aborted
    /\ main' = "join"
    /\ UNCHANGED <<requests_, thread, ec, history>>

\* ... and joins.
Join ==
    /\ main = "join"
    /\ thread \in {"none", "done"}
    /\ main' = "idle"
    /\ UNCHANGED <<acceptor_, requests_, thread, accept, ec, history>>

NumPeerHits == IF main = "serving" THEN requests_ ELSE 0

-----------------------------------------------------------------------------
(***************************************************************************)
(* The server's thread and the network.                                    *)
(***************************************************************************)

\* A new turn of the loop: async_accept fails at once on a closed acceptor.
AsyncAccept ==
    /\ thread = "accept"
    /\ accept' = IF acceptor_ = "closed" THEN "bad_descriptor" ELSE "pending"
    /\ thread' = "poll"
    /\ UNCHANGED <<main, acceptor_, requests_, ec, history>>

\* A connection comes in, or accepting fails; without listen it can only
\* fail.
Complete ==
    /\ accept = "pending"
    /\ completed < MaxAccepts
    /\ completed' = completed + 1
    /\ \/ acceptor_ = "listening" /\ accept' = "ok" /\ connections' = connections + 1
       \/ accept' = "error" /\ UNCHANGED connections
    /\ UNCHANGED <<main, acceptor_, requests_, thread, ec>>

\* poll_one runs newConnect, which ends `while(!done)'.
PollOne ==
    /\ thread = "poll" /\ accept \in Outcomes
    /\ ec' = accept
    /\ accept' = "none"
    /\ thread' = "check"
    /\ UNCHANGED <<main, acceptor_, requests_, history>>

\* Mutant: the server has ended before it counts.
MutantNoCountWhenStopping ==
    /\ thread = "check"
    /\ \/ /\ ec \in {"operation_aborted", "bad_descriptor"} \/ main # "serving"
          /\ thread' = "done"
          /\ UNCHANGED requests_
       \/ /\ ec \notin {"operation_aborted", "bad_descriptor"} /\ main = "serving"
          /\ requests_' = requests_ + 1
          /\ thread' = "accept"
    /\ UNCHANGED <<main, acceptor_, accept, ec, history>>

\* The end of a turn.  An error is printed, but counted like a connection.
CheckAccept ==
    /\ thread = "check"
    /\ \/ /\ ec \in {"operation_aborted", "bad_descriptor"}
          /\ thread' = "done"
          /\ UNCHANGED requests_
       \/ /\ ec \notin {"operation_aborted", "bad_descriptor"}
          /\ requests_' = requests_ + 1
          /\ thread' = "accept"
    /\ UNCHANGED <<main, acceptor_, accept, ec, history>>

threadFun == AsyncAccept \/ PollOne \/ CheckAccept

Next ==
    \/ StartPeer \/ StopPeer \/ CloseAcceptor \/ Join
    \/ threadFun \/ Complete

Spec == Init /\ [][Next]_vars
-----------------------------------------------------------------------------
\* No connection is lost or counted twice: what the main thread reads is behind
\* by at most the one that is being handled, and none is missing at the end, not
\* even one that came in while the server was stopped; accepts that fail may add
\* to the figure, nothing else.  The thread does not end before that.
NothingUncounted ==
    /\ main = "serving" =>
          connections <= NumPeerHits + 1 /\ NumPeerHits <= completed
    /\ thread = "done" =>
          connections <= requests_ /\ requests_ <= completed /\ main # "serving"

\* peer.h:8 calls the figure "the number of incoming connections to this peer".
\* The code exceeds it: an accept that fails is counted too.
HitsAreConnections == NumPeerHits <= connections
=============================================================================
