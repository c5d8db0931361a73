------------------------------ MODULE CConsumer ------------------------------
(***************************************************************************)
(* producer_consumer_librdkafka/consumer_cpp: class CConsumer and the      *)
(* program that runs it.  Most failures in Init only print a message, so   *)
(* later steps meet the null pointers they leave; what librdkafka does     *)
(* with one is a crash.                                                    *)
(***************************************************************************)
EXTENDS Integers

CONSTANT offset         \* the offset main starts at

VARIABLES
    high,               \* messages in the partition, written by the broker
    run_,               \* static bool run_
    kafka_consumer_,    \* "null", "live" or "deleted"
    topic_,             \* likewise
    started,            \* kafka_consumer_ has been told to consume topic_
    fetch,              \* offset of the message librdkafka delivers next
    last_offset_,
    stage,              \* where the program is
    stopped,            \* history: sigterm has run
    failed              \* history: consume has returned an error

handles == <<kafka_consumer_, topic_, started>>
position == <<fetch, last_offset_>>
vars == <<high, run_, handles, position, stage, stopped, failed>>

(***************************************************************************)
(* The stages: consumer, topic and start are those of Init, test and       *)
(* consume the loop of Consume, stop and delete what follows it; exit      *)
(* (main has returned) and crashed.                                        *)
(***************************************************************************)
Ended == stage \in {"exit", "crashed"}

InitState ==
    /\ high = 0
    /\ run_ = TRUE
    /\ kafka_consumer_ = "null" /\ topic_ = "null" /\ started = FALSE
    /\ fetch = offset
    /\ last_offset_ = 0
    /\ stage = "consumer"
    /\ stopped = FALSE /\ failed = FALSE

\* The broker appends a message.
Arrive ==
    /\ high' = high + 1
    /\ UNCHANGED <<run_, handles, position, stage, stopped, failed>>

\* Mutant: the handler is empty.
MutantIgnore ==
    /\ ~Ended
    /\ stopped' = TRUE
    /\ UNCHANGED <<high, run_, handles, position, stage, failed>>

\* SIGINT or SIGTERM
sigterm ==
    /\ ~Ended
    /\ run_' = FALSE
    /\ stopped' = TRUE
    /\ UNCHANGED <<high, handles, position, stage, failed>>

-----------------------------------------------------------------------------
(***************************************************************************)
(* Init                                                                    *)
(***************************************************************************)

\* Without a global configuration Init returns false and main returns.
CreateConsumer ==
    /\ stage = "consumer"
    /\ \/ stage' = "exit" /\ UNCHANGED kafka_consumer_
       \/ stage' = "topic" /\ kafka_consumer_' \in {"null", "live"}
    /\ UNCHANGED <<high, run_, topic_, started, position, stopped, failed>>

\* Likewise without a topic configuration, but the consumer exists by now.
CreateTopic ==
    /\ stage = "topic"
    /\ \/ stage' = "exit" /\ UNCHANGED topic_
       \/ kafka_consumer_ = "null" /\ stage' = "crashed" /\ UNCHANGED topic_
       \/ kafka_consumer_ = "live" /\ stage' = "start" /\ topic_' \in {"null", "live"}
    /\ UNCHANGED <<high, run_, kafka_consumer_, started, position, stopped, failed>>

\* A failing start is only printed.
Start ==
    /\ stage = "start"
    /\ \/ topic_ = "null" /\ stage' = "crashed" /\ UNCHANGED started
       \/ topic_ = "live" /\ stage' = "test" /\ started' \in BOOLEAN
    /\ UNCHANGED <<high, run_, kafka_consumer_, topic_, position, stopped, failed>>

-----------------------------------------------------------------------------
(***************************************************************************)
(* Consume                                                                 *)
(***************************************************************************)

\* while(run_)
TestRun ==
    /\ stage = "test"
    /\ stage' = IF run_ THEN "consume" ELSE "stop"
    /\ UNCHANGED <<high, run_, handles, position, stopped, failed>>

\* Mutant: the offset of the message after this one is kept.
MutantNextOffset ==
    /\ stage = "consume" /\ started /\ fetch < high
    /\ last_offset_' = fetch + 1
    /\ fetch' = fetch + 1
    /\ stage' = "test"
    /\ UNCHANGED <<high, run_, handles, stopped, failed>>

\* consume delivers the next message: ERR_NO_ERROR.
Deliver ==
    /\ stage = "consume" /\ started /\ fetch < high
    /\ last_offset_' = fetch
    /\ fetch' = fetch + 1
    /\ stage' = "test"
    /\ UNCHANGED <<high, run_, handles, stopped, failed>>

\* Mutant: the end of the partition is treated like the errors.
MutantEndAtEof ==
    /\ stage = "consume" /\ started
    /\ stage' = "test"
    /\ run_' = FALSE
    /\ UNCHANGED <<high, handles, position, stopped, failed>>

\* Nothing within the timeout, as perhaps for ever when start has failed; or
\* the end of the partition.
Idle ==
    /\ stage = "consume"
    /\ stage' = "test"
    /\ UNCHANGED <<high, run_, handles, position, stopped, failed>>

\* Every other error ends the loop.
Fail ==
    /\ stage = "consume"
    /\ run_' = FALSE
    /\ failed' = TRUE
    /\ stage' = "test"
    /\ UNCHANGED <<high, handles, position, stopped>>

\* kafka_consumer_->stop(topic_, partition_)
Stop ==
    /\ stage = "stop"
    /\ started' = FALSE
    /\ stage' = "delete"
    /\ UNCHANGED <<high, run_, kafka_consumer_, topic_, position, stopped, failed>>

\* Mutant: the topic is not deleted.
MutantKeepTopic ==
    /\ stage = "delete"
    /\ kafka_consumer_' = "deleted"
    /\ stage' = "exit"
    /\ UNCHANGED <<high, run_, topic_, started, position, stopped, failed>>

\* Both handles are deleted; wait_destroyed waits five seconds at most.
Delete ==
    /\ stage = "delete"
    /\ topic_' = "deleted"
    /\ kafka_consumer_' = "deleted"
    /\ stage' = "exit"
    /\ UNCHANGED <<high, run_, started, position, stopped, failed>>

program ==
    \/ CreateConsumer \/ CreateTopic \/ Start
    \/ TestRun \/ Deliver \/ Idle \/ Fail \/ Stop \/ Delete

Next == program \/ sigterm \/ Arrive

Spec == InitState /\ [][Next]_vars
-----------------------------------------------------------------------------
\* However main comes to its end, the partition is stopped, and both handles
\* are deleted, whether a signal, an error or a failed start ended the loop.
\* The one exception: when Init fails there was never a topic, and a consumer
\* made before the topic's configuration failed is left behind.  A topic
\* outlives no consumer.
Released ==
    /\ stage = "exit" =>
          /\ ~started
          /\ \/ topic_ = "deleted" /\ kafka_consumer_ = "deleted"
             \/ topic_ = "null" /\ kafka_consumer_ \in {"null", "live"}
    /\ started => topic_ = "live"
    /\ topic_ = "live" => kafka_consumer_ = "live"

\* After a signal, which may come during Init too, the program ends.
StopTerminates == stopped ~> Ended
=============================================================================
