------------------------ MODULE KafkaPipelineProofs --------------------------
(***************************************************************************)
(* Proofs about KafkaPipeline for any input, any size of the producer's    *)
(* queue, any log and any choice of partitions.                            *)
(***************************************************************************)
EXTENDS KafkaPipeline, FiniteSetTheorems, SequenceTheorems, TLAPS

-----------------------------------------------------------------------------
(***************************************************************************)
(* The producer.                                                           *)
(***************************************************************************)
Places == outq \cup reported \cup refused

\* Accounted, with what makes it inductive: only a line in hand can be
\* enqueued or refused, and it comes after all that were.
LinesSound ==
    /\ read \in Nat
    /\ pc \in {"start", "test", "fgets", "produce", "full", "poll", "flush", "exit", "crashed"}
    /\ settled \subseteq outq
    /\ Places \subseteq (1..read) \ Blank
    /\ outq \cap reported = {} /\ refused \cap (outq \cup reported) = {}
    /\ pc \in {"produce", "full"} => read \notin Places /\ read \in (1..read) \ Blank
    /\ pc # "crashed" => (1..read) \ Blank \subseteq Places \cup InHand

SentSound ==
    /\ sent \in Seq(Nat)
    /\ InOrder
    /\ \A i \in DOMAIN sent : sent[i] <= read
    /\ pc \in {"produce", "full"} => \A i \in DOMAIN sent : sent[i] < read

ProducerInv == LinesSound /\ SentSound

Producing == main \/ stop \/ DefaultSigint \/ Settle

LEMMA LinesStep == LinesSound /\ Producing => LinesSound'
<1> SUFFICES ASSUME LinesSound, Producing PROVE LinesSound'
    OBVIOUS
<1> USE DEF LinesSound, Places, InHand, librdkafka, Ended
<1>1. CASE StartUp \/ TestRun \/ DefaultSigint
    BY <1>1 DEF StartUp, TestRun, DefaultSigint
<1>2. CASE stop
    BY <1>2 DEF stop
<1>3. CASE Settle
    BY <1>3 DEF Settle
<1>4. CASE ReadLine
  <2>1. CASE read' = read + 1 /\ pc' = IF read + 1 \in Blank THEN "poll" ELSE "produce"
    <3>1. 1..read + 1 = (1..read) \cup {read + 1} /\ read + 1 \notin 1..read
      OBVIOUS
    <3> QED
      BY <1>4, <2>1, <3>1 DEF ReadLine
  <2>2. CASE pc' = "flush" /\ read' = read
    BY <1>4, <2>2 DEF ReadLine
  <2> QED
    BY <1>4, <2>1, <2>2 DEF ReadLine
<1>5. CASE Produce
    BY <1>5 DEF Produce
<1>6. CASE RetryWhenFull
    BY <1>6 DEF RetryWhenFull, Served
<1>7. CASE PollReports
    BY <1>7 DEF PollReports, Served
<1>8. CASE Flush
    BY <1>8 DEF Flush, Served
<1> QED
    BY <1>1, <1>2, <1>3, <1>4, <1>5, <1>6, <1>7, <1>8 DEF Producing, main

LEMMA SentStep == LinesSound /\ SentSound /\ Producing => SentSound'
<1> SUFFICES ASSUME LinesSound, SentSound, Producing PROVE SentSound'
    OBVIOUS
<1> USE DEF SentSound, InOrder, librdkafka
<1>1. CASE StartUp \/ TestRun \/ DefaultSigint \/ Settle
    BY <1>1 DEF StartUp, TestRun, DefaultSigint, Settle
<1>2. CASE stop
    BY <1>2 DEF stop
<1>3. CASE ReadLine
    BY <1>3 DEF ReadLine, LinesSound
<1>4. CASE Produce
  <2>1. CASE sent' = Append(sent, read) /\ pc' = "poll"
    <3>1. /\ read \in Nat /\ read' = read
          /\ DOMAIN sent' = 1..Len(sent) + 1 /\ DOMAIN sent = 1..Len(sent)
          /\ \A i \in 1..Len(sent) : sent'[i] = sent[i] /\ sent[i] < read
          /\ sent'[Len(sent) + 1] = read
      BY <1>4, <2>1 DEF LinesSound, Produce
    <3>2. \A i, j \in DOMAIN sent' : i < j => sent'[i] < sent'[j]
      BY <3>1
    <3> QED
      BY <2>1, <3>1, <3>2
  <2>2. CASE sent' = sent /\ pc' \in {"full", "poll"}
    BY <1>4, <2>2 DEF Produce
  <2> QED
    BY <1>4, <2>1, <2>2 DEF Produce
<1>5. CASE RetryWhenFull \/ PollReports \/ Flush
    BY <1>5 DEF RetryWhenFull, PollReports, Flush
<1> QED
    BY <1>1, <1>2, <1>3, <1>4, <1>5 DEF Producing, main

-----------------------------------------------------------------------------
(***************************************************************************)
(* The log.                                                                *)
(***************************************************************************)

\* What the broker has written the producer has enqueued, and it still has it
\* or has got its report.
LogSound ==
    /\ log \in Seq(Nat)
    /\ Range(log) \subseteq outq \cup reported
    /\ Range(log) \cap others = {}

LEMMA LogProduced ==
    LinesSound /\ LogSound /\ Producing /\ UNCHANGED broker => LogSound'
<1> SUFFICES ASSUME LinesSound, LogSound, Producing, UNCHANGED broker
             PROVE  outq \cup reported \subseteq outq' \cup reported'
    BY DEF LogSound, broker
<1> USE DEF Served, librdkafka
<1>1. CASE stop \/ DefaultSigint \/ Settle
    BY <1>1 DEF stop, DefaultSigint, Settle
<1>2. CASE StartUp \/ TestRun \/ ReadLine \/ Produce
    BY <1>2 DEF StartUp, TestRun, ReadLine, Produce
<1>3. CASE RetryWhenFull \/ PollReports \/ Flush
    BY <1>3 DEF RetryWhenFull, PollReports, Flush
<1> QED
    BY <1>1, <1>2, <1>3 DEF Producing, main

LEMMA LogWritten ==
    LinesSound /\ LogSound /\ Write =>
        /\ LogSound' /\ Len(log) <= Len(log')
        /\ Range(log) \subseteq Range(log') /\ others \subseteq others'
<1> SUFFICES ASSUME LinesSound, LogSound, Write
             PROVE  /\ LogSound' /\ Len(log) <= Len(log')
                    /\ Range(log) \subseteq Range(log') /\ others \subseteq others'
    OBVIOUS
<1>1. UNCHANGED <<outq, reported>>
    BY DEF Write, vars, librdkafka
<1>2. ASSUME NEW m \in outq \ others, log' = Append(log, m), UNCHANGED others
      PROVE  /\ LogSound' /\ Len(log) <= Len(log')
             /\ Range(log) \subseteq Range(log') /\ others \subseteq others'
  <2>1. m \in Nat /\ log \in Seq(Nat)
    BY DEF LinesSound, Places, LogSound
  <2>2. Range(Append(log, m)) = Range(log) \cup {m}
    BY <2>1, AppendProperties DEF Range
  <2>3. /\ Append(log, m) \in Seq(Nat) /\ Len(Append(log, m)) = Len(log) + 1
        /\ Len(log) \in Nat
    BY <2>1
  <2> QED
    BY <1>1, <1>2, <2>2, <2>3 DEF LogSound
<1>3. ASSUME NEW m \in outq \ Range(log), others' = others \cup {m}, UNCHANGED log
      PROVE  /\ LogSound' /\ Len(log) <= Len(log')
             /\ Range(log) \subseteq Range(log') /\ others \subseteq others'
  <2>1. Len(log) \in Nat
    BY DEF LogSound
  <2> QED
    BY <1>1, <1>3, <2>1 DEF LogSound
<1> QED
    BY <1>2, <1>3 DEF Write

\* An acknowledged line is in some partition, which nothing leaves.
AckedSound == acked \subseteq Range(log) \cup others

LEMMA AckedStep ==
    LinesSound /\ LogSound /\ AckedSound /\ [PipelineNext]_pipelineVars => AckedSound'
<1> SUFFICES ASSUME LinesSound, LogSound, AckedSound, [PipelineNext]_pipelineVars
             PROVE  AckedSound'
    OBVIOUS
<1> USE DEF AckedSound
<1>1. CASE ProducerStep \/ ConsumerStep \/ UNCHANGED pipelineVars
    BY <1>1 DEF ProducerStep, ConsumerStep, pipelineVars, broker
<1>2. CASE Write
  <2>1. UNCHANGED acked
    BY <1>2 DEF Write
  <2> QED
    BY <1>2, <2>1, LogWritten
<1>3. CASE SettleMessage
    BY <1>3 DEF SettleMessage, broker
<1> QED
    BY <1>1, <1>2, <1>3 DEF PipelineNext

-----------------------------------------------------------------------------
(***************************************************************************)
(* The consumer.                                                           *)
(***************************************************************************)
HandlesSound ==
    /\ stage \in {"consumer", "topic", "start", "test", "consume", "stop", "delete",
                  "exit", "crashed"}
    /\ started \in BOOLEAN
    /\ stage \in {"consumer", "topic"} =>
          topic_ = "null" /\ kafka_consumer_ \in {"null", "live"}
    /\ stage \in {"consumer", "topic", "start", "delete"} => ~started
    /\ stage \in {"test", "consume", "stop", "delete"} => topic_ = "live"
    /\ Consumer!Released

PositionSound ==
    /\ fetch \in Nat /\ offset \in Nat
    /\ fetch > offset => last_offset_ = fetch - 1 /\ fetch <= Len(log)
    /\ fetch >= offset

Consuming == Consumer!program \/ Consumer!sigterm

LEMMA HandlesStep == HandlesSound /\ Consuming => HandlesSound'
<1> SUFFICES ASSUME HandlesSound, Consuming PROVE HandlesSound'
    OBVIOUS
<1> USE DEF HandlesSound, Consumer!Released, Consumer!handles, Consumer!position
<1>1. CASE Consumer!CreateConsumer
    BY <1>1 DEF Consumer!CreateConsumer
<1>2. CASE Consumer!CreateTopic
    BY <1>2 DEF Consumer!CreateTopic
<1>3. CASE Consumer!Start
    BY <1>3 DEF Consumer!Start
<1>4. CASE Consumer!TestRun \/ Consumer!Deliver \/ Consumer!Idle \/ Consumer!Fail
    BY <1>4 DEF Consumer!TestRun, Consumer!Deliver, Consumer!Idle, Consumer!Fail
<1>5. CASE Consumer!Stop
  <2>1. started' \in BOOLEAN /\ ~started'
    BY <1>5 DEF Consumer!Stop
  <2> QED
    BY <1>5, <2>1 DEF Consumer!Stop
<1>6. CASE Consumer!Delete
    BY <1>6 DEF Consumer!Delete
<1>7. CASE Consumer!sigterm
    BY <1>7 DEF Consumer!sigterm
<1> QED
    BY <1>1, <1>2, <1>3, <1>4, <1>5, <1>6, <1>7 DEF Consuming, Consumer!program

LEMMA PositionStep ==
    PositionSound /\ LogSound /\ Consuming /\ UNCHANGED log => PositionSound'
<1> SUFFICES ASSUME PositionSound, LogSound, Consuming, UNCHANGED log PROVE PositionSound'
    OBVIOUS
<1> USE DEF PositionSound, LogSound, Consumer!handles, Consumer!position
<1>1. CASE Consumer!CreateConsumer \/ Consumer!CreateTopic \/ Consumer!Start
    BY <1>1 DEF Consumer!CreateConsumer, Consumer!CreateTopic, Consumer!Start
<1>2. CASE Consumer!Deliver
  <2>1. Len(log) \in Nat /\ fetch < Len(log) /\ fetch' = fetch + 1 /\ last_offset_' = fetch
    BY <1>2 DEF Consumer!Deliver
  <2> QED
    BY <2>1
<1>3. CASE Consumer!TestRun \/ Consumer!Idle \/ Consumer!Fail \/ Consumer!sigterm
    BY <1>3 DEF Consumer!TestRun, Consumer!Idle, Consumer!Fail, Consumer!sigterm
<1>4. CASE Consumer!Stop \/ Consumer!Delete
    BY <1>4 DEF Consumer!Stop, Consumer!Delete
<1> QED
    BY <1>1, <1>2, <1>3, <1>4 DEF Consuming, Consumer!program

-----------------------------------------------------------------------------
(***************************************************************************)
(* The pipeline.                                                           *)
(***************************************************************************)
IInv == LinesSound /\ SentSound /\ LogSound /\ HandlesSound /\ PositionSound

LEMMA InitIInv == PipelineInit => IInv
<1> SUFFICES ASSUME PipelineInit PROVE IInv
    OBVIOUS
<1>1. LinesSound /\ SentSound
    BY DEF PipelineInit, Init, LinesSound, Places, InHand, SentSound, InOrder
<1>2. LogSound
    BY DEF PipelineInit, Init, LogSound, Range
<1>3. started \in BOOLEAN /\ ~started
    BY DEF PipelineInit, Consumer!InitState
<1>4. HandlesSound
    BY <1>3 DEF PipelineInit, Consumer!InitState, HandlesSound, Consumer!Released
<1>5. PositionSound
    BY PipelineAssumption DEF PipelineInit, Consumer!InitState, PositionSound
<1> QED
    BY <1>1, <1>2, <1>4, <1>5 DEF IInv

\* One half of the state at a time.
LEMMA ProducerSame ==
    UNCHANGED vars =>
        /\ LinesSound => LinesSound'
        /\ SentSound => SentSound'
        /\ LogSound /\ UNCHANGED broker => LogSound'
    BY DEF vars, broker, librdkafka, LinesSound, Places, InHand, SentSound, InOrder, LogSound

LEMMA ConsumerSame ==
    UNCHANGED consumerVars =>
        /\ HandlesSound => HandlesSound'
        /\ PositionSound /\ Len(log') >= Len(log) /\ Len(log) \in Nat /\ Len(log') \in Nat
              => PositionSound'
<1> SUFFICES ASSUME UNCHANGED consumerVars
             PROVE  /\ HandlesSound => HandlesSound'
                    /\ PositionSound /\ Len(log') >= Len(log)
                       /\ Len(log) \in Nat /\ Len(log') \in Nat => PositionSound'
    OBVIOUS
<1>1. HandlesSound => HandlesSound'
    BY DEF consumerVars, HandlesSound, Consumer!Released
<1>2. UNCHANGED <<fetch, last_offset_>>
    BY DEF consumerVars
<1>3. ASSUME PositionSound, Len(log') >= Len(log), Len(log) \in Nat, Len(log') \in Nat
      PROVE  PositionSound'
    BY <1>2, <1>3 DEF PositionSound
<1> QED
    BY <1>1, <1>3

LEMMA NextIInv == IInv /\ [PipelineNext]_pipelineVars => IInv'
<1> SUFFICES ASSUME IInv, [PipelineNext]_pipelineVars PROVE IInv'
    OBVIOUS
<1>1. LinesSound /\ SentSound /\ LogSound /\ HandlesSound /\ PositionSound /\ Len(log) \in Nat
    BY DEF IInv, LogSound
<1>2. CASE ProducerStep \/ SettleMessage
  <2>1. Producing /\ UNCHANGED <<broker, log, consumerVars>>
    BY <1>2 DEF ProducerStep, SettleMessage, Producing, broker
  <2> QED
    BY <1>1, <2>1, LinesStep, SentStep, LogProduced, ConsumerSame DEF IInv
<1>3. CASE Write
  <2>1. UNCHANGED <<vars, consumerVars>> /\ LogSound' /\ Len(log) <= Len(log')
    BY <1>1, <1>3, LogWritten DEF Write
  <2>2. Len(log') >= Len(log) /\ Len(log') \in Nat
    BY <1>1, <2>1 DEF LogSound
  <2> QED
    BY <1>1, <2>1, <2>2, ProducerSame, ConsumerSame DEF IInv
<1>4. CASE ConsumerStep
  <2>1. Consuming /\ UNCHANGED <<vars, broker, log>>
    BY <1>4 DEF ConsumerStep, Consuming, broker
  <2> QED
    BY <1>1, <2>1, HandlesStep, PositionStep, ProducerSame DEF IInv
<1>5. CASE UNCHANGED pipelineVars
  <2>1. UNCHANGED <<vars, broker, log, consumerVars>>
    BY <1>5 DEF pipelineVars, broker
  <2> QED
    BY <1>1, <2>1, ProducerSame, ConsumerSame DEF IInv
<1> QED
    BY <1>2, <1>3, <1>4, <1>5 DEF PipelineNext

\* The inductive invariant holds in every reachable state.
THEOREM Invariance == PipelineSpec => []IInv
<1> QED
    BY InitIInv, NextIInv, PTL DEF PipelineSpec

\* Every line that was read is in exactly one place, for any input and queue.
THEOREM AccountedTheorem == PipelineSpec => []Accounted
<1>1. IInv => Accounted
    BY DEF IInv, LinesSound, Places, Accounted, InHand
<1> QED
    BY <1>1, Invariance, PTL

\* Retries neither duplicate a line nor let a later one overtake it.
THEOREM InOrderTheorem == PipelineSpec => []InOrder
<1>1. IInv => InOrder
    BY DEF IInv, SentSound
<1> QED
    BY <1>1, Invariance, PTL

\* However the broker repeats, reorders and loses messages, the consumer's
\* bookmark is right and it handles only lines that were sent to its partition.
THEOREM NothingForeignTheorem == PipelineSpec => []NothingForeign
<1>1. ASSUME IInv PROVE NothingForeign
  <2>1. fetch \in Nat /\ offset \in Nat /\ log \in Seq(Nat)
        /\ (fetch > offset => fetch <= Len(log))
    BY <1>1 DEF IInv, PositionSound, LogSound
  <2>2. \A i \in offset + 1 .. fetch : i \in DOMAIN log
    BY <2>1
  <2>3. Handled \subseteq Range(log)
    BY <2>2 DEF Handled, Range
  <2>4. Range(log) \subseteq (1..read) \ (Blank \cup refused \cup others)
    BY <1>1 DEF IInv, LogSound, LinesSound, Places
  <2> QED
    BY <1>1, <2>3, <2>4 DEF IInv, PositionSound, NothingForeign
<1> QED
    BY <1>1, Invariance, PTL

\* Whatever fails and whenever the signal comes, main returns with the
\* partition stopped, and with both handles deleted, unless Init has failed.
THEOREM ReleasedTheorem == PipelineSpec => []Released
<1>1. IInv => Released
    BY DEF IInv, HandlesSound, Released
<1> QED
    BY <1>1, Invariance, PTL

\* A consumer that has read from the start to the end of its partition has
\* handled every acknowledged line that the partitioner gave to it: whatever
\* was written twice, overtaken or timed out, none of them is behind its
\* bookmark without having been handled, and none is lost in between.
THEOREM CaughtUpTheorem ==
    PipelineSpec => [](offset = 0 /\ fetch >= Len(log) => acked \ others \subseteq Handled)
<1>1. PipelineInit => AckedSound
    BY DEF PipelineInit, AckedSound
<1>2. IInv /\ AckedSound /\ [PipelineNext]_pipelineVars => AckedSound'
    BY AckedStep DEF IInv
<1>3. ASSUME IInv, AckedSound, offset = 0, fetch >= Len(log)
      PROVE  acked \ others \subseteq Handled
  <2>1. fetch \in Nat /\ log \in Seq(Nat) /\ fetch >= offset
        /\ (fetch > offset => fetch <= Len(log))
    BY <1>3 DEF IInv, PositionSound, LogSound
  <2>2. DOMAIN log = offset + 1 .. fetch
    BY <1>3, <2>1
  <2>3. Range(log) = Handled
    BY <2>2 DEF Range, Handled
  <2> QED
    BY <1>3, <2>3 DEF AckedSound
<1>4. IInv /\ AckedSound => (offset = 0 /\ fetch >= Len(log) => acked \ others \subseteq Handled)
    BY <1>3
<1> QED
    BY <1>1, <1>2, <1>4, Invariance, PTL DEF PipelineSpec

\* What makes the consumer stop has cleared run_.
Told == stopped \/ failed

LEMMA ToldStep ==
    (Told => run_ = FALSE) /\ [PipelineNext]_pipelineVars => (Told => run_ = FALSE)'
<1> SUFFICES ASSUME Told => run_ = FALSE, [PipelineNext]_pipelineVars, Told'
             PROVE  run_' = FALSE
    OBVIOUS
<1> USE DEF Told
<1>1. CASE ProducerStep \/ Write \/ SettleMessage \/ UNCHANGED pipelineVars
    BY <1>1 DEF ProducerStep, Write, SettleMessage, pipelineVars, consumerVars
<1>2. CASE Consumer!CreateConsumer \/ Consumer!CreateTopic \/ Consumer!Start
    BY <1>2 DEF Consumer!CreateConsumer, Consumer!CreateTopic, Consumer!Start
<1>3. CASE Consumer!TestRun \/ Consumer!Deliver \/ Consumer!Idle \/ Consumer!Fail
    BY <1>3 DEF Consumer!TestRun, Consumer!Deliver, Consumer!Idle, Consumer!Fail
<1>4. CASE Consumer!Stop \/ Consumer!Delete \/ Consumer!sigterm
    BY <1>4 DEF Consumer!Stop, Consumer!Delete, Consumer!sigterm
<1> QED
    BY <1>1, <1>2, <1>3, <1>4 DEF PipelineNext, ConsumerStep, Consumer!program

\* After a signal or an error the consumer handles at most the message it is
\* waiting for: once out of consume it never gets there again, and
\* last_offset_ is final.
THEOREM ConsumerStopsTheorem ==
    PipelineSpec =>
        [][Told /\ stage # "consume" => /\ stage' # "consume"
                                        /\ UNCHANGED <<fetch, last_offset_>>]_pipelineVars
<1>1. PipelineInit => (Told => run_ = FALSE)
    BY DEF PipelineInit, Consumer!InitState, Told
<1>2. (Told => run_ = FALSE) /\ [PipelineNext]_pipelineVars
        => [Told /\ stage # "consume" => /\ stage' # "consume"
                                         /\ UNCHANGED <<fetch, last_offset_>>]_pipelineVars
  <2> SUFFICES ASSUME run_ = FALSE, PipelineNext, stage # "consume"
               PROVE  stage' # "consume" /\ UNCHANGED <<fetch, last_offset_>>
    OBVIOUS
  <2> USE DEF Consumer!position
  <2>1. CASE ProducerStep \/ Write \/ SettleMessage
    BY <2>1 DEF ProducerStep, Write, SettleMessage, consumerVars
  <2>2. CASE Consumer!CreateConsumer \/ Consumer!CreateTopic \/ Consumer!Start
    BY <2>2 DEF Consumer!CreateConsumer, Consumer!CreateTopic, Consumer!Start
  <2>3. CASE Consumer!TestRun \/ Consumer!Deliver \/ Consumer!Idle \/ Consumer!Fail
    BY <2>3 DEF Consumer!TestRun, Consumer!Deliver, Consumer!Idle, Consumer!Fail
  <2>4. CASE Consumer!Stop \/ Consumer!Delete \/ Consumer!sigterm
    BY <2>4 DEF Consumer!Stop, Consumer!Delete, Consumer!sigterm
  <2> QED
    BY <2>1, <2>2, <2>3, <2>4 DEF PipelineNext, ConsumerStep, Consumer!program
<1> QED
    BY <1>1, <1>2, ToldStep, PTL DEF PipelineSpec

-----------------------------------------------------------------------------
(***************************************************************************)
(* What happens at last.  The fairness of PipelineSpec, with the guard of  *)
(* each action in the place of ENABLED: unless the process has ended, main *)
(* can take a step, and so on.                                             *)
(***************************************************************************)
Waiting == stage = "consume" /\ started /\ fetch < Len(log)

ProducerRuns == []<>Ended \/ []<><<ProducerStep /\ main>>_pipelineVars
MessagesSettle ==
    []<>(Ended \/ outq \subseteq settled) \/ []<><<SettleMessage>>_pipelineVars
FlushEnds ==
    []<>~(pc = "flush") \/ []<><<ProducerStep /\ Flush /\ pc' = "exit">>_pipelineVars
ConsumerRuns ==
    []<>Consumer!Ended \/ []<><<ConsumerStep /\ Consumer!program>>_pipelineVars
MessagesArrive ==
    <>[]~Waiting \/ []<><<ConsumerStep /\ Consumer!Deliver>>_pipelineVars

Scheduled ==
    ProducerRuns /\ MessagesSettle /\ FlushEnds /\ ConsumerRuns /\ MessagesArrive

\* With what ENABLED is, that is the fairness of PipelineSpec.
LEMMA FairIsScheduled ==
    /\ [](~Ended => ENABLED <<ProducerStep /\ main>>_pipelineVars)
    /\ [](~(Ended \/ outq \subseteq settled) => ENABLED <<SettleMessage>>_pipelineVars)
    /\ [](pc = "flush" =>
             ENABLED <<ProducerStep /\ Flush /\ pc' = "exit">>_pipelineVars)
    /\ [](~Consumer!Ended => ENABLED <<ConsumerStep /\ Consumer!program>>_pipelineVars)
    /\ [](Waiting => ENABLED <<ConsumerStep /\ Consumer!Deliver>>_pipelineVars)
    /\ PipelineSpec
    => Scheduled
    BY PTL DEF PipelineSpec, Scheduled, ProducerRuns, MessagesSettle, FlushEnds,
               ConsumerRuns, MessagesArrive

-----------------------------------------------------------------------------
(***************************************************************************)
(* The consumer ends when it is told to.                                   *)
(***************************************************************************)
\* Where the program goes from each stage, once run_ is cleared.
LEMMA ConsumerMoves ==
    HandlesSound /\ run_ = FALSE /\ Consumer!program =>
        /\ stage = "consumer" => (stage = "topic" \/ Consumer!Ended)'
        /\ stage = "topic" => (stage = "start" \/ Consumer!Ended)'
        /\ stage = "start" => (stage = "test" \/ Consumer!Ended)'
        /\ stage = "consume" => (stage = "test")'
        /\ stage = "test" => (stage = "stop")'
        /\ stage = "stop" => (stage = "delete")'
        /\ stage = "delete" => Consumer!Ended'
        /\ Consumer!Ended => Consumer!Ended'
    BY DEF HandlesSound, Consumer!program, Consumer!Ended, Consumer!CreateConsumer,
           Consumer!CreateTopic, Consumer!Start, Consumer!TestRun, Consumer!Deliver,
           Consumer!Idle, Consumer!Fail, Consumer!Stop, Consumer!Delete

\* Nothing but the program itself changes its stage or takes stopped back.
LEMMA ConsumerOnward ==
    [PipelineNext]_pipelineVars =>
        /\ stopped => stopped'
        /\ Consumer!program \/ stage' = stage
<1> SUFFICES ASSUME [PipelineNext]_pipelineVars
             PROVE  (stopped => stopped') /\ (Consumer!program \/ stage' = stage)
    OBVIOUS
<1>1. CASE ProducerStep \/ Write \/ SettleMessage \/ UNCHANGED pipelineVars
    BY <1>1 DEF ProducerStep, Write, SettleMessage, pipelineVars, consumerVars
<1>2. CASE Consumer!sigterm
    BY <1>2 DEF Consumer!sigterm
<1>3. CASE Consumer!program
    BY <1>3 DEF Consumer!program, Consumer!CreateConsumer, Consumer!CreateTopic,
           Consumer!Start, Consumer!TestRun, Consumer!Deliver, Consumer!Idle,
           Consumer!Fail, Consumer!Stop, Consumer!Delete
<1> QED
    BY <1>1, <1>2, <1>3 DEF PipelineNext, ConsumerStep

\* The signal may come while the program is still in Init, in the middle of a
\* poll, or more than once: as long as the program is scheduled it ends, and
\* needs neither a message nor the broker for it.
THEOREM StopTerminatesTheorem == PipelineSpec /\ ConsumerRuns => StopTerminates
<1>1. PipelineInit => (Told => run_ = FALSE)
    BY DEF PipelineInit, Consumer!InitState, Told
<1>2. IInv => \/ stage = "consumer" \/ stage = "topic" \/ stage = "start"
              \/ stage = "test" \/ stage = "consume" \/ stage = "stop"
              \/ stage = "delete" \/ Consumer!Ended
    BY DEF IInv, HandlesSound, Consumer!Ended
<1>3. IInv /\ (Told => run_ = FALSE) /\ stopped /\ [PipelineNext]_pipelineVars =>
        /\ stopped'
        /\ stage = "consumer" => (stage = "consumer" \/ stage = "topic" \/ Consumer!Ended)'
        /\ stage = "topic" => (stage = "topic" \/ stage = "start" \/ Consumer!Ended)'
        /\ stage = "start" => (stage = "start" \/ stage = "test" \/ Consumer!Ended)'
        /\ stage = "consume" => (stage = "consume" \/ stage = "test")'
        /\ stage = "test" => (stage = "test" \/ stage = "stop")'
        /\ stage = "stop" => (stage = "stop" \/ stage = "delete")'
        /\ stage = "delete" => (stage = "delete" \/ Consumer!Ended)'
    BY ConsumerMoves, ConsumerOnward DEF IInv, Told
<1>4. IInv /\ (Told => run_ = FALSE) /\ stopped
      /\ <<ConsumerStep /\ Consumer!program>>_pipelineVars =>
        /\ stage = "consumer" => (stage = "topic" \/ Consumer!Ended)'
        /\ stage = "topic" => (stage = "start" \/ Consumer!Ended)'
        /\ stage = "start" => (stage = "test" \/ Consumer!Ended)'
        /\ stage = "consume" => (stage = "test")'
        /\ stage = "test" => (stage = "stop")'
        /\ stage = "stop" => (stage = "delete")'
        /\ stage = "delete" => Consumer!Ended'
    BY ConsumerMoves DEF IInv, Told
<1> QED
    BY <1>1, <1>2, <1>3, <1>4, ToldStep, Invariance, PTL
       DEF PipelineSpec, ConsumerRuns, StopTerminates, Consumer!StopTerminates

-----------------------------------------------------------------------------
(***************************************************************************)
(* What is in the log is delivered.                                        *)
(***************************************************************************)

\* Only a signal or an error clears run_, and without one the loop is not left.
RunSound ==
    /\ run_ \in BOOLEAN
    /\ Told <=> run_ = FALSE
    /\ stage \in {"stop", "delete"} => Told
    /\ Consumer!Ended => Told \/ topic_ = "null"

LEMMA InitRunSound == PipelineInit => RunSound
    BY DEF PipelineInit, Consumer!InitState, RunSound, Told, Consumer!Ended

LEMMA NextRunSound ==
    IInv /\ RunSound /\ [PipelineNext]_pipelineVars => RunSound'
<1> SUFFICES ASSUME IInv, RunSound, [PipelineNext]_pipelineVars PROVE RunSound'
    OBVIOUS
<1> USE DEF RunSound, Told, Consumer!Ended, Consumer!handles, Consumer!position
<1>1. CASE ProducerStep \/ Write \/ SettleMessage \/ UNCHANGED pipelineVars
    BY <1>1 DEF ProducerStep, Write, SettleMessage, pipelineVars, consumerVars
<1>2. CASE Consumer!CreateConsumer \/ Consumer!CreateTopic \/ Consumer!Start
    BY <1>2 DEF IInv, HandlesSound, Consumer!CreateConsumer, Consumer!CreateTopic,
                Consumer!Start
<1>3. CASE Consumer!Deliver \/ Consumer!Idle \/ Consumer!Fail
  <2>1. CASE Consumer!Deliver \/ Consumer!Idle
    BY <2>1 DEF Consumer!Deliver, Consumer!Idle
  <2>2. CASE Consumer!Fail
    BY <2>2 DEF Consumer!Fail
  <2> QED
    BY <1>3, <2>1, <2>2
<1>4. CASE Consumer!TestRun
  <2>1. stage' = "stop" => run_ = FALSE
    BY <1>4 DEF Consumer!TestRun
  <2> QED
    BY <1>4, <2>1 DEF Consumer!TestRun
<1>5. CASE Consumer!Stop \/ Consumer!Delete \/ Consumer!sigterm
    BY <1>5 DEF Consumer!Stop, Consumer!Delete, Consumer!sigterm
<1> QED
    BY <1>1, <1>2, <1>3, <1>4, <1>5 DEF PipelineNext, ConsumerStep, Consumer!program

\* Where the program goes while run_ is set.
LEMMA ConsumerGoesOn ==
    HandlesSound /\ RunSound /\ ~GaveUp /\ Consumer!program =>
        /\ stage = "consumer" => (stage = "topic" \/ GaveUp)'
        /\ stage = "topic" => (stage = "start" \/ GaveUp)'
        /\ stage = "start" => (stage = "test" \/ GaveUp)'
        /\ stage = "test" => (stage = "consume")'
        /\ stage = "consume" => (stage = "test")'
<1> SUFFICES ASSUME HandlesSound, RunSound, ~GaveUp, Consumer!program
             PROVE  /\ stage = "consumer" => (stage = "topic" \/ GaveUp)'
                    /\ stage = "topic" => (stage = "start" \/ GaveUp)'
                    /\ stage = "start" => (stage = "test" \/ GaveUp)'
                    /\ stage = "test" => (stage = "consume")'
                    /\ stage = "consume" => (stage = "test")'
    OBVIOUS
<1> USE DEF HandlesSound, GaveUp, Consumer!Ended
<1>1. CASE Consumer!CreateConsumer \/ Consumer!CreateTopic \/ Consumer!Start
    BY <1>1 DEF Consumer!CreateConsumer, Consumer!CreateTopic, Consumer!Start
<1>2. CASE Consumer!TestRun
  <2>1. run_ = TRUE
    BY DEF RunSound, Told
  <2> QED
    BY <1>2, <2>1 DEF Consumer!TestRun
<1>3. CASE Consumer!Deliver \/ Consumer!Idle \/ Consumer!Fail
    BY <1>3 DEF Consumer!Deliver, Consumer!Idle, Consumer!Fail
<1>4. CASE Consumer!Stop \/ Consumer!Delete
    BY <1>4 DEF Consumer!Stop, Consumer!Delete
<1> QED
    BY <1>1, <1>2, <1>3, <1>4 DEF Consumer!program

\* The log only grows, and the position moves by one message at a time.
LEMMA FetchStep ==
    ASSUME NEW k \in Nat
    PROVE  IInv /\ [PipelineNext]_pipelineVars =>
              /\ fetch = k => (fetch = k \/ fetch = k + 1)'
              /\ fetch = k /\ fetch < Len(log) => (fetch < Len(log) \/ fetch = k + 1)'
<1> SUFFICES ASSUME IInv, [PipelineNext]_pipelineVars, fetch = k
             PROVE  /\ fetch' = k \/ fetch' = k + 1
                    /\ fetch < Len(log) => fetch' < Len(log') \/ fetch' = k + 1
    OBVIOUS
<1> USE DEF Consumer!position
<1>1. CASE ProducerStep \/ SettleMessage \/ UNCHANGED pipelineVars
    BY <1>1 DEF ProducerStep, SettleMessage, pipelineVars, broker, consumerVars
<1>2. CASE Write
  <2>1. Len(log) <= Len(log') /\ log \in Seq(Nat) /\ log' \in Seq(Nat)
    BY <1>2, LogWritten DEF IInv, LogSound
  <2>2. Len(log) \in Nat /\ Len(log') \in Nat
    BY <2>1
  <2>3. fetch' = fetch
    BY <1>2 DEF Write, consumerVars
  <2> QED
    BY <2>1, <2>2, <2>3
<1>3. CASE ConsumerStep /\ Consumer!Deliver
    BY <1>3 DEF ConsumerStep, broker, Consumer!Deliver
<1>4. CASE ConsumerStep /\ (Consumer!CreateConsumer \/ Consumer!CreateTopic \/ Consumer!Start)
    BY <1>4 DEF ConsumerStep, broker, Consumer!CreateConsumer, Consumer!CreateTopic, Consumer!Start
<1>5. CASE ConsumerStep /\ (Consumer!TestRun \/ Consumer!Idle \/ Consumer!Fail)
    BY <1>5 DEF ConsumerStep, broker, Consumer!TestRun, Consumer!Idle, Consumer!Fail
<1>6. CASE ConsumerStep /\ (Consumer!Stop \/ Consumer!Delete \/ Consumer!sigterm)
    BY <1>6 DEF ConsumerStep, broker, Consumer!Stop, Consumer!Delete, Consumer!sigterm
<1> QED
    BY <1>1, <1>2, <1>3, <1>4, <1>5, <1>6 DEF PipelineNext, ConsumerStep, Consumer!program

\* A consumer that is behind the end of the partition gets on by a message,
\* wherever it is: timeouts and the end of the partition, seen again and
\* again, may keep it in the loop but not where it is.
LEMMA NextMessage ==
    ASSUME NEW k \in Nat
    PROVE  PipelineSpec /\ ConsumerRuns /\ MessagesArrive =>
              (fetch = k /\ fetch < Len(log) ~> fetch = k + 1 \/ GaveUp)
<1>1. IInv /\ RunSound /\ ~GaveUp =>
        /\ \/ stage = "consumer" \/ stage = "topic" \/ stage = "start"
           \/ stage = "test" \/ stage = "consume"
        /\ ~Consumer!Ended
        /\ stage = "consume" /\ fetch < Len(log) => Waiting
    BY DEF IInv, HandlesSound, RunSound, Told, GaveUp, Waiting, Consumer!Ended
<1>2. IInv /\ RunSound /\ ~GaveUp /\ [PipelineNext]_pipelineVars =>
        /\ stage = "consumer" => (stage = "consumer" \/ stage = "topic" \/ GaveUp)'
        /\ stage = "topic" => (stage = "topic" \/ stage = "start" \/ GaveUp)'
        /\ stage = "start" => (stage = "start" \/ stage = "test" \/ GaveUp)'
        /\ stage = "test" => (stage = "test" \/ stage = "consume")'
    BY ConsumerGoesOn, ConsumerOnward DEF IInv
<1>3. IInv /\ RunSound /\ ~GaveUp /\ <<ConsumerStep /\ Consumer!program>>_pipelineVars =>
        /\ stage = "consumer" => (stage = "topic" \/ GaveUp)'
        /\ stage = "topic" => (stage = "start" \/ GaveUp)'
        /\ stage = "start" => (stage = "test" \/ GaveUp)'
        /\ stage = "test" => (stage = "consume")'
        /\ stage = "consume" => (stage = "test")'
    BY ConsumerGoesOn DEF IInv
<1>4. IInv /\ fetch = k /\ <<ConsumerStep /\ Consumer!Deliver>>_pipelineVars => (fetch = k + 1)'
    BY DEF Consumer!Deliver
<1> QED
    BY <1>1, <1>2, <1>3, <1>4, FetchStep, InitRunSound, NextRunSound, Invariance, PTL
       DEF PipelineSpec, ConsumerRuns, MessagesArrive

\* As long as an acknowledged line of its partition has not reached it, a
\* consumer that reads
\* from the start and has not given up moves on, be the producer alive or
\* not: Delivered, one message at a time.
THEOREM DeliveredTheorem ==
    ASSUME NEW m \in 1..Lines, NEW k \in Nat
    PROVE  PipelineSpec /\ ConsumerRuns /\ MessagesArrive =>
              (m \in acked \ others /\ offset = 0 /\ m \notin Handled /\ fetch = k
                  ~> m \in Handled \/ fetch = k + 1 \/ GaveUp)
<1>1. IInv => fetch >= Len(log) \/ fetch < Len(log)
    BY DEF IInv, PositionSound, LogSound
<1>2. (offset = 0 /\ fetch >= Len(log) => acked \ others \subseteq Handled) =>
        (m \in acked \ others /\ offset = 0 /\ fetch >= Len(log) => m \in Handled)
    OBVIOUS
<1>3. PipelineSpec /\ ConsumerRuns /\ MessagesArrive =>
        (fetch = k /\ fetch < Len(log) ~> fetch = k + 1 \/ GaveUp)
    BY NextMessage
<1> QED
    BY <1>1, <1>2, <1>3, CaughtUpTheorem, Invariance, PTL

-----------------------------------------------------------------------------
(***************************************************************************)
(* The producer comes to an end.                                           *)
(***************************************************************************)
Trying == pc \in {"produce", "full"}
Room == Cardinality(outq) < QueueMax
Reports == settled # {}

QueueSound ==
    /\ read \in 0..Lines
    /\ IsFiniteSet(outq)
    /\ Cardinality(outq) \in 0..QueueMax

\* A poll that finds a report makes room.
LEMMA ServedMakesRoom ==
    LinesSound /\ QueueSound /\ Served => /\ IsFiniteSet(outq')
                                          /\ Cardinality(outq') \in 0..QueueMax
                                          /\ Room \/ Reports => Room'
<1> SUFFICES ASSUME LinesSound, QueueSound, Served
             PROVE  /\ IsFiniteSet(outq')
                    /\ Cardinality(outq') \in 0..QueueMax
                    /\ Room \/ Reports => Room'
    OBVIOUS
<1>1. outq' \in SUBSET outq /\ (Reports => outq # outq')
    BY DEF Served, Reports, LinesSound
<1>2. /\ IsFiniteSet(outq')
      /\ Cardinality(outq') <= Cardinality(outq)
      /\ Cardinality(outq) = Cardinality(outq') => outq = outq'
    BY <1>1, FS_Subset DEF QueueSound
<1>3. Cardinality(outq') \in Nat /\ QueueMax \in Nat
    BY <1>2, FS_CardinalityType, ProducerAssumption
<1> QED
    BY <1>1, <1>2, <1>3 DEF QueueSound, Room

LEMMA QueueStep == LinesSound /\ QueueSound /\ Producing => QueueSound'
<1> SUFFICES ASSUME LinesSound, QueueSound, Producing PROVE QueueSound'
    OBVIOUS
<1> USE DEF librdkafka
<1>1. CASE stop \/ DefaultSigint \/ Settle \/ StartUp \/ TestRun
    BY <1>1 DEF stop, DefaultSigint, Settle, StartUp, TestRun, QueueSound
<1>2. CASE ReadLine
    BY <1>2, ProducerAssumption DEF ReadLine, QueueSound
<1>3. CASE Produce
  <2>1. CASE Room /\ outq' = outq \cup {read}
    <3>1. read \notin outq
      BY <1>3 DEF LinesSound, Places, Produce
    <3>2. IsFiniteSet(outq') /\ Cardinality(outq') = Cardinality(outq) + 1
      BY <2>1, <3>1, FS_AddElement DEF QueueSound
    <3> QED
      BY <1>3, <2>1, <3>2, ProducerAssumption DEF Produce, QueueSound, Room
  <2>2. CASE outq' = outq
    BY <1>3, <2>2 DEF Produce, QueueSound
  <2> QED
    BY <1>3, <2>1, <2>2 DEF Produce, Room
<1>4. CASE RetryWhenFull \/ PollReports
    BY <1>4, ServedMakesRoom DEF RetryWhenFull, PollReports, QueueSound
<1>5. CASE Flush
    BY <1>5, ServedMakesRoom DEF Flush, QueueSound
<1> QED
    BY <1>1, <1>2, <1>3, <1>4, <1>5 DEF Producing, main

\* What is not a step of main leaves main where it is, or ends it.
LEMMA NotMain ==
    [PipelineNext]_pipelineVars =>
        \/ ProducerStep /\ main
        \/ /\ UNCHANGED <<read, outq>>
           /\ pc' = pc \/ Ended'
           /\ run' = run \/ run' = 0
           /\ settled \subseteq settled'
<1> SUFFICES ASSUME [PipelineNext]_pipelineVars, ~(ProducerStep /\ main)
             PROVE  /\ UNCHANGED <<read, outq>>
                    /\ pc' = pc \/ Ended'
                    /\ run' = run \/ run' = 0
                    /\ settled \subseteq settled'
    OBVIOUS
<1> USE DEF librdkafka, vars, Ended
<1>1. CASE Write \/ ConsumerStep \/ UNCHANGED pipelineVars
    BY <1>1 DEF Write, ConsumerStep, pipelineVars
<1>2. CASE SettleMessage
    BY <1>2 DEF SettleMessage, Settle
<1>3. CASE stop \/ DefaultSigint
    BY <1>3 DEF stop, DefaultSigint
<1> QED
    BY <1>1, <1>2, <1>3 DEF PipelineNext, ProducerStep

LEMMA NextQueueSound ==
    IInv /\ QueueSound /\ [PipelineNext]_pipelineVars => QueueSound'
<1> SUFFICES ASSUME IInv, QueueSound, [PipelineNext]_pipelineVars PROVE QueueSound'
    OBVIOUS
<1>1. CASE ProducerStep /\ main
    BY <1>1, QueueStep DEF IInv, Producing
<1>2. CASE UNCHANGED <<read, outq>>
    BY <1>2 DEF QueueSound
<1> QED
    BY <1>1, <1>2, NotMain

LEMMA InitQueueSound == PipelineInit => QueueSound
    BY FS_EmptySet, ProducerAssumption DEF PipelineInit, Init, QueueSound

\* Where a step of main goes from each of its places.
Moved ==
    /\ run' = run
    /\ pc = "start" => (pc = "test" \/ Ended)'
    /\ pc = "test" => (pc = "fgets" \/ pc = "flush")'
    /\ pc = "test" /\ run = 0 => (pc = "flush")'
    /\ pc = "fgets" => (Trying \/ pc = "poll" \/ pc = "flush")'
    /\ pc = "fgets" => (read' = read + 1 \/ (pc = "flush")')
    /\ pc = "produce" => (pc = "full" \/ pc = "poll")'
    /\ pc = "produce" /\ Room => (pc = "poll")'
    /\ pc = "produce" => (Reports => Reports')
    /\ pc = "full" => (pc = "produce")'
    /\ pc = "full" /\ (Room \/ Reports) => Room'
    /\ pc = "poll" => (pc = "test")'
    /\ pc = "flush" => (pc = "flush" \/ Ended)'
    /\ pc # "fgets" => UNCHANGED read
    /\ read' = read \/ read' = read + 1

LEMMA MainMoves == IInv /\ QueueSound /\ main => Moved /\ ~Ended
<1> SUFFICES ASSUME IInv, QueueSound, main PROVE Moved /\ ~Ended
    OBVIOUS
<1> USE DEF Moved, Ended, Trying
<1>1. CASE StartUp \/ TestRun
    BY <1>1 DEF StartUp, TestRun
<1>2. CASE ReadLine
    BY <1>2 DEF ReadLine, QueueSound
<1>3. CASE Produce
  <2>1. ~(Room /\ Cardinality(outq) = QueueMax)
    BY ProducerAssumption DEF Room
  <2> QED
    BY <1>3, <2>1 DEF Produce, Room, Reports
<1>4. CASE RetryWhenFull
    BY <1>4, ServedMakesRoom DEF RetryWhenFull, IInv
<1>5. CASE PollReports \/ Flush
    BY <1>5 DEF PollReports, Flush
<1> QED
    BY <1>1, <1>2, <1>3, <1>4, <1>5 DEF main

LEMMA ProducerOnward ==
    IInv /\ QueueSound /\ [PipelineNext]_pipelineVars =>
        \/ Moved
        \/ /\ UNCHANGED <<read, outq>>
           /\ pc' = pc \/ Ended'
           /\ run' = run \/ run' = 0
           /\ Reports => Reports'
    BY NotMain, MainMoves DEF Reports

\* The retry loop is left.  It does not look at run, but the messages in the
\* full queue are settled sooner or later, its poll serves their reports, and
\* nothing else is enqueued meanwhile.
LEMMA QueueGetsRoom ==
    PipelineSpec /\ ProducerRuns /\ MessagesSettle => (Trying ~> pc = "poll" \/ Ended)
<1>1. IInv /\ QueueSound =>
        /\ Trying => pc = "produce" \/ pc = "full"
        /\ pc = "produce" => Trying /\ ~Ended /\ ~(pc = "full")
        /\ pc = "full" => Trying /\ ~Ended
        /\ Trying /\ ~Room /\ ~Reports => ~(Ended \/ outq \subseteq settled)
  <2>1. ASSUME QueueSound, ~Room PROVE outq # {}
    <3>1. Cardinality(outq) # 0
      BY <2>1, ProducerAssumption DEF QueueSound, Room
    <3> QED
      BY <3>1, FS_EmptySet
  <2> QED
    BY <2>1 DEF Trying, Ended, Reports
<1>2. IInv /\ QueueSound /\ [PipelineNext]_pipelineVars =>
        /\ pc = "produce" => (pc = "produce" \/ pc = "full" \/ pc = "poll" \/ Ended)'
        /\ pc = "full" => (pc = "full" \/ pc = "produce" \/ Ended)'
        /\ pc = "full" /\ Room => Room'
        /\ pc = "produce" /\ Room => ((pc = "produce" /\ Room) \/ pc = "poll" \/ Ended)'
        /\ pc = "produce" /\ Reports => Reports'
        /\ pc = "full" /\ Reports => ((pc = "full" /\ Reports) \/ Room \/ Ended)'
    BY ProducerOnward DEF Moved, Room
<1>3. IInv /\ QueueSound /\ <<ProducerStep /\ main>>_pipelineVars =>
        /\ pc = "produce" => (pc = "full" \/ pc = "poll")'
        /\ pc = "produce" /\ Room => (pc = "poll")'
        /\ pc = "full" => (pc = "produce")'
        /\ pc = "full" /\ Reports => Room'
    BY MainMoves DEF Moved
<1>4. IInv /\ <<SettleMessage>>_pipelineVars => Reports'
    BY DEF SettleMessage, Settle, Reports
<1>5. PipelineSpec /\ ProducerRuns => (Trying /\ Room ~> pc = "poll" \/ Ended)
    BY <1>1, <1>2, <1>3, InitQueueSound, NextQueueSound, Invariance, PTL
       DEF PipelineSpec, ProducerRuns
<1>6. PipelineSpec /\ ProducerRuns =>
        (Trying /\ Reports ~> (Trying /\ Room) \/ pc = "poll" \/ Ended)
    BY <1>1, <1>2, <1>3, InitQueueSound, NextQueueSound, Invariance, PTL
       DEF PipelineSpec, ProducerRuns
<1>7. PipelineSpec /\ MessagesSettle =>
        (Trying ~> (Trying /\ Room) \/ (Trying /\ Reports) \/ pc = "poll" \/ Ended)
    BY <1>1, <1>2, <1>4, InitQueueSound, NextQueueSound, Invariance, PTL
       DEF PipelineSpec, MessagesSettle
<1> QED
    BY <1>5, <1>6, <1>7, PTL

\* The places outside the retry loop, and flush, which its timeout ends.
LEMMA FlushLeft == PipelineSpec /\ FlushEnds => (pc = "flush" ~> Ended)
<1>1. IInv /\ QueueSound /\ [PipelineNext]_pipelineVars =>
        (pc = "flush" => (pc = "flush" \/ Ended)')
    BY ProducerOnward DEF Moved
<1>2. <<ProducerStep /\ Flush /\ pc' = "exit">>_pipelineVars => Ended'
    BY DEF Ended
<1> QED
    BY <1>1, <1>2, InitQueueSound, NextQueueSound, Invariance, PTL
       DEF PipelineSpec, FlushEnds

LEMMA PlacesOfMain ==
    IInv => /\ \/ pc = "start" \/ pc = "test" \/ pc = "fgets" \/ Trying
               \/ pc = "poll" \/ pc = "flush" \/ Ended
            /\ pc \in {"start", "test", "fgets", "poll"} => ~Ended
    BY DEF IInv, LinesSound, Trying, Ended

\* After SIGINT the producer comes to an end, whatever it is doing and however
\* full the queue: it sends at most the line fgets has got, and needs no more
\* from librdkafka than that messages are settled and the flush times out.
THEOREM ProducerStopsTheorem ==
    PipelineSpec /\ ProducerRuns /\ MessagesSettle /\ FlushEnds => (run = 0 ~> Ended)
<1>1. IInv => /\ pc = "start" => ~Ended
              /\ pc = "test" => ~Ended
              /\ pc = "fgets" => ~Ended
              /\ pc = "poll" => ~Ended
    BY PlacesOfMain
<1>2. IInv /\ QueueSound /\ run = 0 /\ [PipelineNext]_pipelineVars =>
        /\ (run = 0)'
        /\ pc = "start" => (pc = "start" \/ pc = "test" \/ Ended)'
        /\ pc = "fgets" => (pc = "fgets" \/ Trying \/ pc = "poll" \/ pc = "flush" \/ Ended)'
        /\ pc = "poll" => (pc = "poll" \/ pc = "test" \/ Ended)'
        /\ pc = "test" => (pc = "test" \/ pc = "flush" \/ Ended)'
    BY ProducerOnward DEF Moved
<1>3. IInv /\ QueueSound /\ run = 0 /\ <<ProducerStep /\ main>>_pipelineVars =>
        /\ pc = "start" => (pc = "test" \/ Ended)'
        /\ pc = "fgets" => (Trying \/ pc = "poll" \/ pc = "flush")'
        /\ pc = "poll" => (pc = "test")'
        /\ pc = "test" => (pc = "flush")'
    BY MainMoves DEF Moved
<1> QED
    BY <1>1, <1>2, <1>3, PlacesOfMain, QueueGetsRoom, FlushLeft, InitQueueSound,
       NextQueueSound, Invariance, PTL DEF PipelineSpec, ProducerRuns

\* With every line the producer gets on, and after the last one it ends:
\* Finishes, one line at a time.
THEOREM FinishesTheorem ==
    ASSUME NEW k \in Nat
    PROVE  PipelineSpec /\ ProducerRuns /\ MessagesSettle /\ FlushEnds =>
              /\ read = k ~> read = k + 1 \/ Ended
              /\ read = Lines ~> Ended
<1>1. IInv => /\ pc = "start" => ~Ended
              /\ pc = "test" => ~Ended
              /\ pc = "fgets" => ~Ended
              /\ pc = "poll" => ~Ended
    BY PlacesOfMain
<1>2. IInv /\ QueueSound /\ [PipelineNext]_pipelineVars =>
        /\ pc = "start" => (pc = "start" \/ pc = "test" \/ Ended)'
        /\ pc = "poll" => (pc = "poll" \/ pc = "test" \/ Ended)'
        /\ pc = "test" => (pc = "test" \/ pc = "fgets" \/ pc = "flush" \/ Ended)'
    BY ProducerOnward DEF Moved
<1>3. IInv /\ QueueSound /\ <<ProducerStep /\ main>>_pipelineVars =>
        /\ pc = "start" => (pc = "test" \/ Ended)'
        /\ pc = "poll" => (pc = "test")'
        /\ pc = "test" => (pc = "fgets" \/ pc = "flush")'
    BY MainMoves DEF Moved
<1>4. IInv /\ QueueSound /\ [PipelineNext]_pipelineVars =>
        /\ read = k => (read = k \/ read = k + 1)'
        /\ read = k /\ pc = "fgets" =>
              (pc = "fgets" \/ read = k + 1 \/ pc = "flush" \/ Ended)'
        /\ read = Lines => (read = Lines)'
        /\ read = Lines /\ pc = "fgets" => (pc = "fgets" \/ pc = "flush" \/ Ended)'
  <2> SUFFICES ASSUME IInv, QueueSound, [PipelineNext]_pipelineVars
               PROVE  /\ read = k => (read = k \/ read = k + 1)'
                      /\ read = k /\ pc = "fgets" =>
                            (pc = "fgets" \/ read = k + 1 \/ pc = "flush" \/ Ended)'
                      /\ read = Lines => (read = Lines)'
                      /\ read = Lines /\ pc = "fgets" =>
                            (pc = "fgets" \/ pc = "flush" \/ Ended)'
    OBVIOUS
  <2>1. read' <= Lines /\ Lines \in Nat
    BY NextQueueSound, ProducerAssumption DEF QueueSound
  <2>2. ~(read = Lines /\ read' = read + 1)
    BY <2>1
  <2> QED
    BY <2>2, ProducerOnward DEF Moved
<1>5. IInv /\ QueueSound /\ <<ProducerStep /\ main>>_pipelineVars =>
        /\ read = k /\ pc = "fgets" => (read = k + 1 \/ pc = "flush")'
        /\ read = Lines /\ pc = "fgets" => (pc = "flush")'
  <2> SUFFICES ASSUME IInv, QueueSound, <<ProducerStep /\ main>>_pipelineVars, pc = "fgets"
               PROVE  /\ read = k => (read = k + 1 \/ pc = "flush")'
                      /\ read = Lines => (pc = "flush")'
    OBVIOUS
  <2>1. read' <= Lines /\ Lines \in Nat
    BY NextQueueSound, ProducerAssumption DEF QueueSound, PipelineNext
  <2>2. ~(read = Lines /\ read' = read + 1)
    BY <2>1
  <2> QED
    BY <2>2, MainMoves DEF Moved
<1> QED
    BY <1>1, <1>2, <1>3, <1>4, <1>5, PlacesOfMain, QueueGetsRoom, FlushLeft,
       InitQueueSound, NextQueueSound, Invariance, PTL DEF PipelineSpec, ProducerRuns
=============================================================================
