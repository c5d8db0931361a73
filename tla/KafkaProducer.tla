---------------------------- MODULE KafkaProducer ----------------------------
(***************************************************************************)
(* producer_consumer_librdkafka/producer/main.c: a program that sends each *)
(* line of stdin to a topic until the input ends or SIGINT comes.          *)
(*                                                                         *)
(* librdkafka is external.  A produced message stays in its queue of       *)
(* bounded size until the broker, or a timeout, has settled it and the     *)
(* program has polled the delivery report.  A line is what one fgets       *)
(* returns (a piece, where the input exceeds the buffer).  Lines are       *)
(* numbered; a blank one has nothing to send.                              *)
(***************************************************************************)
EXTENDS Integers, Sequences, FiniteSets

CONSTANTS
    Lines,      \* number of lines on stdin
    Blank,      \* the blank ones
    QueueMax    \* queue.buffering.max.messages

ASSUME ProducerAssumption ==
    /\ Lines \in Nat
    /\ Blank \subseteq 1..Lines
    /\ QueueMax \in Nat \ {0}

VARIABLES
    run,        \* static int run
    read,       \* number of lines fgets has returned
    pc,         \* where main is
    outq,       \* librdkafka: messages whose report is not served
    settled,    \* librdkafka: those of them the broker or a timeout settled
    reported,   \* messages whose delivery report dr_msg_cb has got
    refused,    \* lines that rd_kafka_produce has rejected for good
    sent        \* history: the lines enqueued, in order

librdkafka == <<outq, settled, reported>>
vars == <<run, read, pc, librdkafka, refused, sent>>

(***************************************************************************)
(* Program counters: start (before the loop), test and fgets of the while  *)
(* condition, produce, full (poll and retry), poll at the end of the loop, *)
(* flush; exit, crashed.                                                   *)
(***************************************************************************)
Ended == pc \in {"exit", "crashed"}

Init ==
    /\ run = 1
    /\ read = 0
    /\ pc = "start"
    /\ outq = {} /\ settled = {} /\ reported = {}
    /\ refused = {}
    /\ sent = <<>>

-----------------------------------------------------------------------------
(***************************************************************************)
(* librdkafka and the signal.                                              *)
(***************************************************************************)

\* The broker acknowledges a message, or its timeout expires.
Settle ==
    /\ ~Ended
    /\ \E m \in outq \ settled : settled' = settled \cup {m}
    /\ UNCHANGED <<run, read, pc, outq, reported, refused, sent>>

\* What a poll makes of the queue: the reports that are there are served,
\* which makes room.
Served ==
    /\ outq' = outq \ settled
    /\ settled' = {}
    /\ reported' = reported \cup settled

\* stop(SIGINT) also closes stdin; to close it twice is undefined.
stop ==
    /\ ~Ended /\ pc # "start"
    /\ run' = 0
    /\ pc' \in IF run = 1 THEN {pc} ELSE {pc, "crashed"}
    /\ UNCHANGED <<read, librdkafka, refused, sent>>

\* Before the handler is installed SIGINT ends the process.
DefaultSigint ==
    /\ pc = "start"
    /\ pc' = "exit"
    /\ UNCHANGED <<run, read, librdkafka, refused, sent>>

-----------------------------------------------------------------------------
(***************************************************************************)
(* main.                                                                   *)
(***************************************************************************)

\* Configuration, handle and topic; any failure, or a wrong command line,
\* ends main.
StartUp ==
    /\ pc = "start"
    /\ pc' \in {"test", "exit"}
    /\ UNCHANGED <<run, read, librdkafka, refused, sent>>

\* while(run && ...
TestRun ==
    /\ pc = "test"
    /\ pc' = IF run # 0 THEN "fgets" ELSE "flush"
    /\ UNCHANGED <<run, read, librdkafka, refused, sent>>

\* ... fgets(...)).  When stdin is closed under it, it may still return the
\* line it has got.
ReadLine ==
    /\ pc = "fgets"
    /\ \/ /\ read < Lines
          /\ read' = read + 1
          /\ pc' = IF read + 1 \in Blank THEN "poll" ELSE "produce"
       \/ /\ run = 0 \/ read = Lines
          /\ pc' = "flush"
          /\ UNCHANGED read
    /\ UNCHANGED <<run, librdkafka, refused, sent>>

\* Mutant: goto retry after every produce.
MutantAlwaysRetry ==
    /\ pc = "produce"
    /\ Cardinality(outq) < QueueMax
    /\ outq' = outq \cup {read}
    /\ sent' = Append(sent, read)
    /\ pc' = "full"
    /\ UNCHANGED <<run, read, settled, reported, refused>>

\* rd_kafka_produce: enqueued, queue full, or another error
Produce ==
    /\ pc = "produce"
    /\ \/ /\ Cardinality(outq) < QueueMax
          /\ outq' = outq \cup {read}
          /\ sent' = Append(sent, read)
          /\ pc' = "poll"
          /\ UNCHANGED refused
       \/ /\ Cardinality(outq) = QueueMax
          /\ pc' = "full"
          /\ UNCHANGED <<outq, sent, refused>>
       \/ /\ refused' = refused \cup {read}
          /\ pc' = "poll"
          /\ UNCHANGED <<outq, sent>>
    /\ UNCHANGED <<run, read, settled, reported>>

\* Mutant: polls but does not retry.
MutantNoRetry ==
    /\ pc = "full"
    /\ Served
    /\ pc' = "test"
    /\ UNCHANGED <<run, read, refused, sent>>

\* Mutant: retries without a poll.
MutantRetryAtOnce ==
    /\ pc = "full"
    /\ pc' = "produce"
    /\ UNCHANGED <<run, read, librdkafka, refused, sent>>

\* rd_kafka_poll(rk,1000); goto retry
RetryWhenFull ==
    /\ pc = "full"
    /\ Served
    /\ pc' = "produce"
    /\ UNCHANGED <<run, read, refused, sent>>

\* rd_kafka_poll(rk,0) at the end of the loop, and for a blank line
PollReports ==
    /\ pc = "poll"
    /\ Served
    /\ pc' = "test"
    /\ UNCHANGED <<run, read, refused, sent>>

\* rd_kafka_flush(rk,10*1000) polls until its time is over or the queue is
\* empty; what is left then is destroyed with the handle.
Flush ==
    /\ pc = "flush"
    /\ \/ /\ outq # {}
          /\ Served
          /\ pc' = "flush"
       \/ /\ pc' = "exit"
          /\ UNCHANGED librdkafka
    /\ UNCHANGED <<run, read, refused, sent>>

main ==
    \/ StartUp \/ TestRun \/ ReadLine \/ Produce \/ RetryWhenFull \/ PollReports \/ Flush

Next == main \/ Settle \/ stop \/ DefaultSigint

Spec == Init /\ [][Next]_vars

\* The process is scheduled, the input comes, and librdkafka settles every
\* message, at the latest when message.timeout.ms is over; a flush does not
\* last for ever.
FairSpec ==
    /\ Spec
    /\ WF_vars(main)
    /\ WF_vars(Settle)
    /\ WF_vars(Flush /\ pc' = "exit")
-----------------------------------------------------------------------------
\* The line that main has read and not yet got rid of.
InHand == IF pc \in {"produce", "full"} THEN {read} ELSE {}

\* Every line that was read is in exactly one place, whatever the queue and
\* SIGINT do: blank, in main's buffer, in the queue, reported or refused.
Accounted ==
    pc # "crashed" =>
        /\ outq \cup reported \cup refused \cup InHand = (1..read) \ Blank
        /\ outq \cap (reported \cup refused \cup InHand) = {}
        /\ reported \cap (refused \cup InHand) = {}
        /\ refused \cap InHand = {}

\* Retries neither duplicate a line nor let a later one overtake it.
InOrder == \A i, j \in DOMAIN sent : i < j => sent[i] < sent[j]

\* The program comes to an end: a full queue does not keep it in the retry
\* loop, although that does not look at `run'.
Finishes == <>Ended
=============================================================================
