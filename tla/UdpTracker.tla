----------------------------- MODULE UdpTracker ------------------------------
(***************************************************************************)
(* learntorrent/src/tracker.cpp: a tracker that answers UDP datagrams in   *)
(* the thread of its io_service; the program's main thread starts and      *)
(* stops it.  Handlers run one at a time, in ios_.run, which returns when  *)
(* nothing is left to do.  One tracker is started and stopped again and    *)
(* again; replacing a running one is the same with another object.         *)
(*                                                                         *)
(* A datagram is its kind: too short, or its action field.                 *)
(***************************************************************************)
EXTENDS Integers, FiniteSets

CONSTANT MaxDatagrams   \* bound: datagrams handled in one life of the tracker

ASSUME DatagramsAssumption == MaxDatagrams \in Nat

VARIABLES
    main,           \* the main thread: "idle", "serving" or "joining"
    socket_,        \* "none", "open" or "closed"
    abort_,
    udp_announces_,
    thread,         \* "none", "start", "run" or "done"
    receive,        \* async_receive_from: "none", "pending", or its outcome
    posted,         \* stop has been posted and has not run
    handled,        \* history: datagrams received
    asked,          \* history: those of them that ask for an answer
    sends,          \* history: calls of send_to
    refused         \* history: a handler has returned for a bad datagram

server == <<socket_, abort_, udp_announces_>>
vars == <<main, server, thread, receive, posted, handled, asked, sends, refused>>

Kinds == {"short", "connect", "announce", "scrape", "unknown"}

\* The kinds that are answered.
Requests == {"connect", "announce"}

\* How a receive may complete: with a datagram or with an error.
Outcomes == Kinds \cup {"error", "aborted"}

Init ==
    /\ main = "idle"
    /\ socket_ = "none" /\ abort_ = FALSE
    /\ udp_announces_ = 0
    /\ thread = "none"
    /\ receive = "none"
    /\ posted = FALSE
    /\ handled = 0 /\ asked = 0 /\ sends = 0 /\ refused = FALSE

-----------------------------------------------------------------------------
(***************************************************************************)
(* The main thread.                                                        *)
(***************************************************************************)

\* StartUdpTracker: without a bound socket there is no thread.
StartUdpTracker ==
    /\ main = "idle"
    /\ main' = "serving"
    /\ abort_' = FALSE /\ udp_announces_' = 0
    /\ \/ socket_' = "none" /\ thread' = "none"
       \/ socket_' = "open" /\ thread' \in {"none", "start"}
    /\ receive' = "none" /\ posted' = FALSE
    /\ handled' = 0 /\ asked' = 0 /\ sends' = 0 /\ refused' = FALSE

\* StopUdpTracker: ~UdpTracker posts stop ...
StopUdpTracker ==
    /\ main = "serving"
    /\ posted' = TRUE
    /\ main' = "joining"
    /\ UNCHANGED <<server, thread, receive, handled, asked, sends, refused>>

\* ... and joins the thread, if there is one.
Join ==
    /\ main = "joining"
    /\ thread \in {"none", "done"}
    /\ main' = "idle"
    /\ UNCHANGED <<server, thread, receive, posted, handled, asked, sends, refused>>

-----------------------------------------------------------------------------
(***************************************************************************)
(* The io_service and its thread.                                          *)
(***************************************************************************)

\* threadFun starts the first receive and enters ios_.run.
threadFun ==
    /\ thread = "start"
    /\ receive' = "pending"
    /\ thread' = "run"
    /\ UNCHANGED <<main, server, posted, handled, asked, sends, refused>>

\* A datagram arrives, or the socket reports an error.
Complete ==
    /\ thread = "run" /\ receive = "pending"
    /\ handled < MaxDatagrams
    /\ receive' \in Kinds \cup {"error"}
    /\ handled' = handled + 1
    /\ asked' = asked + (IF receive' \in Requests THEN 1 ELSE 0)
    /\ UNCHANGED <<main, server, thread, posted, sends, refused>>

\* Mutant: without the break behind connect.
MutantFallThrough ==
    /\ thread = "run" /\ receive \in Outcomes
    /\ \/ /\ receive \in {"error", "aborted", "short"}
          /\ receive' = "none"
          /\ refused' = (refused \/ receive # "aborted")
          /\ UNCHANGED <<udp_announces_, sends>>
       \/ /\ receive \in Kinds \ {"short"} /\ abort_
          /\ receive' = "none"
          /\ UNCHANGED <<udp_announces_, sends, refused>>
       \/ /\ receive \in Kinds \ {"short"} /\ ~abort_
          /\ udp_announces_' = udp_announces_ + (IF receive \in Requests THEN 1 ELSE 0)
          /\ sends' = sends + (CASE receive = "connect" -> 2
                                 [] receive = "announce" -> 1
                                 [] OTHER -> 0)
          /\ receive' = "pending"
          /\ UNCHANGED refused
    /\ UNCHANGED <<main, socket_, abort_, thread, posted, handled, asked>>

\* Mutant: the default case returns.
MutantReturnUnknown ==
    /\ thread = "run" /\ receive \in Outcomes
    /\ \/ /\ receive \in {"error", "aborted", "short"}
          /\ receive' = "none"
          /\ refused' = (refused \/ receive # "aborted")
          /\ UNCHANGED <<udp_announces_, sends>>
       \/ /\ receive \in Kinds \ {"short"} /\ (abort_ \/ receive = "unknown")
          /\ receive' = "none"
          /\ UNCHANGED <<udp_announces_, sends, refused>>
       \/ /\ receive \in Kinds \ {"short", "unknown"} /\ ~abort_
          /\ udp_announces_' = udp_announces_ + (IF receive = "announce" THEN 1 ELSE 0)
          /\ sends' = sends + (IF receive \in Requests THEN 1 ELSE 0)
          /\ receive' = "pending"
          /\ UNCHANGED refused
    /\ UNCHANGED <<main, socket_, abort_, thread, posted, handled, asked>>

\* onUdpReceive.  Errors, short datagrams and abort_ end it early, without
\* another receive.  A failing send_to is only printed; an announce falls
\* through to scrape, which does nothing.
onUdpReceive ==
    /\ thread = "run" /\ receive \in Outcomes
    /\ \/ /\ receive \in {"error", "aborted", "short"}
          /\ receive' = "none"
          /\ refused' = (refused \/ receive # "aborted")
          /\ UNCHANGED <<udp_announces_, sends>>
       \/ /\ receive \in Kinds \ {"short"} /\ abort_
          /\ receive' = "none"
          /\ UNCHANGED <<udp_announces_, sends, refused>>
       \/ /\ receive \in Kinds \ {"short"} /\ ~abort_
          /\ udp_announces_' = udp_announces_ + (IF receive = "announce" THEN 1 ELSE 0)
          /\ sends' = sends + (IF receive \in Requests THEN 1 ELSE 0)
          /\ receive' = "pending"
          /\ UNCHANGED refused
    /\ UNCHANGED <<main, socket_, abort_, thread, posted, handled, asked>>

\* Mutant: stop sets the flag only.
MutantFlagOnly ==
    /\ thread = "run" /\ posted
    /\ posted' = FALSE
    /\ abort_' = TRUE
    /\ UNCHANGED <<main, socket_, udp_announces_, thread, receive,
                   handled, asked, sends, refused>>

\* stop, in the io_service's thread: a receive that is pending is aborted,
\* one that has completed is not.
stop ==
    /\ thread = "run" /\ posted
    /\ posted' = FALSE
    /\ abort_' = TRUE
    /\ socket_' = "closed"
    /\ receive' = IF receive = "pending" THEN "aborted" ELSE receive
    /\ UNCHANGED <<main, udp_announces_, thread, handled, asked, sends, refused>>

\* ios_.run returns when it is out of work; what is posted later never runs.
OutOfWork ==
    /\ thread = "run" /\ receive = "none" /\ ~posted
    /\ thread' = "done"
    /\ UNCHANGED <<main, server, receive, posted, handled, asked, sends, refused>>

ServerThread == threadFun \/ onUdpReceive \/ stop \/ OutOfWork

Next ==
    \/ StartUdpTracker \/ StopUdpTracker \/ Join
    \/ Complete \/ ServerThread

Spec == Init /\ [][Next]_vars

\* The server's thread runs its handlers, and a join that can return does;
\* nobody has to send datagrams or to stop the tracker.
FairSpec == Spec /\ WF_vars(onUdpReceive \/ threadFun) /\ WF_vars(stop)
                 /\ WF_vars(OutOfWork) /\ WF_vars(Join)
-----------------------------------------------------------------------------
\* Every connect and every announce is answered, once and before the next
\* receive.  At most one is not: the one whose handler runs after stop, when
\* the socket it would be answered on is closed.
Answered ==
    /\ asked - sends \in {0, 1}
    /\ asked # sends => receive \in Requests \/ abort_
    /\ udp_announces_ <= sends

\* The thread ends because it was told to, or because a handler has given up
\* on a failed receive or a short datagram; there is no other way for the
\* tracker to go deaf.
DeafOnlyIfRefused ==
    /\ thread = "run" /\ receive = "none" => abort_ \/ refused
    /\ thread = "done" => abort_ \/ refused

\* StopUdpTracker returns, whatever the thread was doing when stop was posted
\* and even if it had ended before.
StopReturns == main = "joining" ~> main = "idle"
=============================================================================
