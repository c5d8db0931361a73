---------------------------- MODULE KafkaPipeline ----------------------------
(***************************************************************************)
(* The producer and the C++ consumer on the same topic: two programs that  *)
(* meet in the log of a partition.  The producer leaves the choice of the  *)
(* partition to librdkafka (RD_KAFKA_PARTITION_UA), the consumer reads     *)
(* partition_, which is 0: lines that go to another partition never reach  *)
(* it.  The broker and the network between them are external.  A message   *)
(* may be written again when its acknowledgement is late, may overtake     *)
(* another, and may be reported as failed although it was written.         *)
(***************************************************************************)
EXTENDS KafkaProducer, Functions

CONSTANTS
    offset,     \* the offset the consumer starts at
    LogMax      \* bound: messages the broker writes

ASSUME PipelineAssumption == offset \in Nat /\ LogMax \in Nat

VARIABLES
    log,        \* partition 0: line numbers, in the order they were written
    others,     \* the lines written in other partitions
    acked,      \* history: the lines whose delivery was acknowledged
    run_, kafka_consumer_, topic_, started, fetch, last_offset_, stage,
    stopped, failed                                         \* CConsumer

Consumer == INSTANCE CConsumer WITH high <- Len(log)

consumerVars == <<run_, kafka_consumer_, topic_, started, fetch, last_offset_,
                  stage, stopped, failed>>
broker == <<log, others>>
pipelineVars == <<vars, broker, acked, consumerVars>>

PipelineInit ==
    /\ Init
    /\ log = <<>> /\ others = {} /\ acked = {}
    /\ Consumer!InitState

-----------------------------------------------------------------------------
(***************************************************************************)
(* The broker.                                                             *)
(***************************************************************************)

\* The broker writes what the producer's queue has sent it, once or again.
\* The partitioner chooses any partition for a message, and the message
\* stays with that partition when it is sent again.
Write ==
    /\ ~Ended
    /\ \E m \in outq \ settled :
          \/ /\ m \notin others /\ Len(log) < LogMax
             /\ log' = Append(log, m)
             /\ UNCHANGED others
          \/ /\ m \notin Range(log)
             /\ others' = others \cup {m}
             /\ UNCHANGED log
    /\ UNCHANGED <<vars, acked, consumerVars>>

\* Acknowledged, if it was written, in whatever partition; or timed out.
SettleMessage ==
    /\ Settle
    /\ \/ /\ settled' \ settled \subseteq Range(log) \cup others
          /\ acked' = acked \cup (settled' \ settled)
       \/ UNCHANGED acked
    /\ UNCHANGED <<broker, consumerVars>>

-----------------------------------------------------------------------------
ProducerStep ==
    /\ main \/ stop \/ DefaultSigint
    /\ UNCHANGED <<broker, acked, consumerVars>>

ConsumerStep ==
    /\ UNCHANGED <<vars, broker, acked>>
    /\ Consumer!program \/ Consumer!sigterm

PipelineNext == ProducerStep \/ Write \/ SettleMessage \/ ConsumerStep

(***************************************************************************)
(* Both processes are scheduled; librdkafka settles every message, at the  *)
(* latest when its timeout is over; a flush ends.  The consumer polls      *)
(* again and again, and a message that is there is delivered to it at last *)
(* and not hidden by timeouts for ever, which only strong fairness says.   *)
(***************************************************************************)
PipelineSpec ==
    /\ PipelineInit /\ [][PipelineNext]_pipelineVars
    /\ WF_pipelineVars(ProducerStep /\ main)
    /\ WF_pipelineVars(SettleMessage)
    /\ WF_pipelineVars(ProducerStep /\ Flush /\ pc' = "exit")
    /\ WF_pipelineVars(ConsumerStep /\ Consumer!program)
    /\ SF_pipelineVars(ConsumerStep /\ Consumer!Deliver)
-----------------------------------------------------------------------------
\* The lines the consumer has handled.
Handled == {log[i] : i \in offset + 1 .. fetch}

\* The consumer was told to stop, met an error, or failed to start.
GaveUp ==
    \/ stopped \/ failed
    \/ Consumer!Ended /\ topic_ = "null"
    \/ stage \in {"test", "consume"} /\ ~started

\* Every line whose delivery to the consumer's partition was acknowledged
\* reaches the consumer, be the producer alive or not, unless the consumer
\* has given up: neither timeouts nor the end of the partition, which it sees
\* again and again, stop it.
Delivered ==
    \A m \in 1..Lines :
        m \in acked \ others /\ offset = 0 ~> m \in Handled \/ GaveUp

\* The consumer's bookmark is the last message it handled, and what it
\* handles are lines the producer has read, not given up as refused, and
\* sent to the consumer's partition.
NothingForeign ==
    /\ fetch > offset => last_offset_ = fetch - 1 /\ fetch <= Len(log)
    /\ Handled \subseteq (1..read) \ (Blank \cup refused \cup others)

\* See CConsumer.
Released == Consumer!Released
StopTerminates == Consumer!StopTerminates
=============================================================================
