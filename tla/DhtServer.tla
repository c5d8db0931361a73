------------------------------ MODULE DhtServer ------------------------------
(***************************************************************************)
(* learntorrent/src/dht.cpp: a server whose thread receives datagrams,     *)
(* decodes and counts them; the main thread starts it, and stops it by     *)
(* cancelling and closing the socket under the thread's feet.  Unlike the  *)
(* peer server it ends at the first receive error, and its destructor      *)
(* calls the cancel that throws.                                           *)
(*                                                                         *)
(* Each operation on the socket is one action.  (The two threads use it    *)
(* without synchronisation; an overlap counts as one order or the other.)  *)
(***************************************************************************)
EXTENDS Integers

CONSTANT MaxReceives    \* bound: receives completed in one life of the server

VARIABLES
    main,       \* the main thread: "idle", "serving", "close", "join", "terminated"
    socket_,    \* "none", "open" or "closed"
    requests_,  \* BaseServer
    thread,     \* "none", "receive", "poll", "decode" or "done"
    receive,    \* async_receive_from: "none", "pending", or its outcome
    result,     \* what incomingPacket has stored in the thread's variables
    completed,  \* history: receives completed from outside
    messages,   \* history: those that brought a well-formed message
    failed      \* history: a receive has failed

history == <<completed, messages, failed>>
vars == <<main, socket_, requests_, thread, receive, result, history>>

\* A bencoded message, other bytes, or an error.
Outcomes == {"message", "garbage", "error", "operation_aborted", "bad_descriptor"}
Errors == {"error", "operation_aborted", "bad_descriptor"}

Init ==
    /\ main = "idle"
    /\ socket_ = "none"
    /\ requests_ = 0
    /\ thread = "none"
    /\ receive = "none" /\ result = "none"
    /\ completed = 0 /\ messages = 0 /\ failed = FALSE

-----------------------------------------------------------------------------
(***************************************************************************)
(* The main thread.                                                        *)
(***************************************************************************)

\* StartDht: without a bound socket there is no thread.
StartDht ==
    /\ main = "idle"
    /\ main' = "serving"
    /\ requests_' = 0 /\ receive' = "none" /\ result' = "none"
    /\ completed' = 0 /\ messages' = 0 /\ failed' = FALSE
    /\ \/ socket_' = "none" /\ thread' = "none"
       \/ socket_' = "open" /\ thread' \in {"none", "receive"}

\* What becomes of a receive that is under way.
Aborted == IF receive = "pending" THEN "operation_aborted" ELSE receive

\* StopDht: ~DhtServer cancels, ...  On a socket that was never opened cancel
\* throws, and an exception that leaves a destructor terminates the program.
StopDht ==
    /\ main = "serving"
    /\ IF socket_ = "none"
       THEN main' = "terminated" /\ UNCHANGED receive
       ELSE main' = "close" /\ receive' = Aborted
    /\ UNCHANGED <<socket_, requests_, thread, result, history>>

\* Mutant: the destructor only cancels.
MutantKeepOpen ==
    /\ main = "close"
    /\ main' = "join"
    /\ UNCHANGED <<socket_, requests_, thread, receive, result, history>>

\* ... closes ...
CloseSocket ==
    /\ main = "close"
    /\ socket_' = "closed"
    /\ receive' = Aborted
    /\ main' = "join"
    /\ UNCHANGED <<requests_, thread, result, history>>

\* ... and joins.
Join ==
    /\ main = "join"
    /\ thread \in {"none", "done"}
    /\ main' = "idle"
    /\ UNCHANGED <<socket_, requests_, thread, receive, result, history>>

-----------------------------------------------------------------------------
(***************************************************************************)
(* The server's thread and the network.                                    *)
(***************************************************************************)

\* A new turn of the loop: the receive fails at once on a closed socket.
AsyncReceive ==
    /\ thread = "receive"
    /\ receive' = IF socket_ = "closed" THEN "bad_descriptor" ELSE "pending"
    /\ thread' = "poll"
    /\ UNCHANGED <<main, socket_, requests_, result, history>>

\* A datagram arrives, or the socket reports an error.
Complete ==
    /\ receive = "pending"
    /\ completed < MaxReceives
    /\ completed' = completed + 1
    /\ receive' \in {"message", "garbage", "error"}
    /\ messages' = messages + (IF receive' = "message" THEN 1 ELSE 0)
    /\ failed' = (failed \/ receive' = "error")
    /\ UNCHANGED <<main, socket_, requests_, thread, result>>

\* poll_one runs incomingPacket, which ends `while(!done)'.
PollOne ==
    /\ thread = "poll" /\ receive \in Outcomes
    /\ result' = receive
    /\ receive' = "none"
    /\ thread' = "decode"
    /\ UNCHANGED <<main, socket_, requests_, history>>

\* Mutant: a message that cannot be decoded ends the thread.
MutantThrow ==
    /\ thread = "decode"
    /\ thread' = IF result = "message" THEN "receive" ELSE "done"
    /\ requests_' = requests_ + (IF result = "message" THEN 1 ELSE 0)
    /\ UNCHANGED <<main, socket_, receive, result, history>>

\* The end of a turn: any error ends the thread; what bdecode throws is
\* caught and not counted.
Decode ==
    /\ thread = "decode"
    /\ thread' = IF result \in Errors THEN "done" ELSE "receive"
    /\ requests_' = requests_ + (IF result = "message" THEN 1 ELSE 0)
    /\ UNCHANGED <<main, socket_, receive, result, history>>

threadFun == AsyncReceive \/ PollOne \/ Decode

Next ==
    \/ StartDht \/ StopDht \/ CloseSocket \/ Join
    \/ threadFun \/ Complete

Spec == Init /\ [][Next]_vars
-----------------------------------------------------------------------------
\* When the thread has ended every well-formed message is counted, those
\* included that came in while the server was being stopped; and it ends by
\* itself only after a failed receive.
NothingUncounted ==
    thread = "done" =>
        /\ requests_ = messages
        /\ main = "serving" => failed
=============================================================================
