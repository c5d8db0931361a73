# A TLA+ development of learn_framework

The repository is a collection of small, unrelated C and C++ programs. This
directory models the parts that have behaviour of their own -- threads,
counters, retries, call protocols -- as TLA+ modules, checks them with TLC on
small instances and proves the central ones with TLAPS.

## 1. Inventory

| Component | State | Operations and interaction | What is hard |
|---|---|---|---|
| `boostthreadcontrol/checkqueue.h`: `CCheckQueue`, `CCheckQueueControl` | the stack of checks, `nIdle`, `nTotal`, `nTodo`, `fAllOk` under one mutex; each thread's batch; the controller's `fDone`; `ControlMutex` | workers run `Loop`; a master calls `Add` and `Wait`, which joins the pool; two condition variables | interleaving of critical sections with the execution of checks; lost and spurious wake-ups; counters that must not drift; status carried from one session to the next |
| `boostthreadcontrol/main.cpp`, `task_check.*` | the statement `main` is at | creates the queue, one controller, five threads, adds twenty checks, waits, returns | start-up order of the threads; destruction while threads are alive |
| `boostthreadcontrol/sync.h`: `CSemaphore`, `CSemaphoreGrant` | a counter under a mutex; a pointer and a flag per grant | `wait`, `try_wait`, `post`; grants acquire, try, release, move, are destroyed | a notification after the unlock; conservation of units through moves |
| `boostthreadcontrol/sync.cpp` with the lock classes and macros of `sync.h` | per-thread lock stacks, the recorded pairs and their inverse | `EnterCritical`/`LeaveCritical` around `lock`/`unlock`; `DeleteLock`, which only `CCriticalSection` calls | bookkeeping and mutex change in separate steps; two containers to keep consistent; re-use of addresses |
| `producer_consumer_librdkafka/consumer` | `run`, the handle `rk` | start-up, poll loop, signal handlers, shutdown with a countdown in `run` | a signal between any two steps; errors nobody tests for |
| `producer_consumer_librdkafka/producer` | `run`, the producer's bounded queue | read a line, produce, retry when full, poll reports, flush | bounded queue, lost reports, a signal during a retry |
| `producer_consumer_librdkafka/consumer_cpp` | the two handles, `run_`, `last_offset_`, librdkafka's fetch position | `Init`, `Consume` with its message handler, `sigterm` from a signal; meets the producer only through the partition's log | failures that are printed and passed over, timeouts among the messages, repeated and reordered messages |
| `learntorrent`: tracker, peer, DHT servers on `BaseServer` | sockets, counters, an `io_service` thread | asynchronous receive and accept handlers; `Start`/`Stop` from the main thread | a handler that does not re-arm ends its thread; stop against pending handlers |
| `learneth`/`learnopenssl` `open_ecc.cpp` (the same file twice), `TestOpenEcc` | an `EC_KEY` per object, the strings the program keeps | generate, import, export, sign, verify, ECDH; objects meet through exported strings | the order of calls; the two halves of a key; failures nobody looks at |
| `learneth/src/main.cpp`: `PutDecodedDatumInto` | the rest of the line, a `ByteQueue`, its target | decodes hex, text and words with repeat counts; transfers in random chunks | offsets inside strings, loops that end only because the line gets shorter, a queue of bounded length |
| `learnopenssl/src/main.cpp` (the rest), `learnclickhouse`, `boost_util_test`, `threadsafety.h`, `transfer.cpp` | none | straight-line library calls, test scaffolding, annotations | nothing of their own |

What makes each component correct: a check queue gives every session the right
verdict, loses no check and no wake-up, and is idle when nobody controls it; a
semaphore conserves its units and lets no sleeper starve beside a free unit; the
lock-order checker's books agree with the mutexes and betray every two-lock
deadlock; a Kafka client neither hangs nor uses a handle outside its life, and
accounts for every message; a server's thread serves until it is stopped and
ends when it is, and counts every request once; a message that was acknowledged
reaches the consumer of its partition; a key object accepts its own signatures and agrees with its
partner on a secret exactly while its two halves belong together; a line of test
data is decoded to what it says.

## 2. Modules

| Module | Models | Extends |
|---|---|---|
| `CheckQueue` | `CCheckQueue`, `CCheckQueueControl` | |
| `VerificationService` | the abstract promise of the queue to its clients | |
| `CheckQueueInv` | the inductive invariant of `CheckQueue` | `CheckQueue` |
| `CheckQueueProofs` | theorems about the queue and about `main.cpp` | `CheckQueueInv`, `CheckQueueMain` |
| `CheckQueueMain` | `main.cpp` on top of the queue | `CheckQueue` |
| `Semaphore` | `CSemaphore`, `CSemaphoreGrant` | instance of `UnitPool` |
| `UnitPool` | the abstract promise of a semaphore to its users | |
| `SemaphoreProofs` | theorems, with their inductive invariant | `Semaphore` |
| `LockOrder` | `sync.cpp` and the locks it watches | |
| `LockOrderProofs` | theorems, with their inductive invariant | `LockOrder` |
| `KafkaConsumer` | `consumer/main.c` with its signals and librdkafka | |
| `KafkaConsumerProofs` | theorems, with their inductive invariant | `KafkaConsumer` |
| `KafkaProducer` | `producer/main.c` with its signal and librdkafka's queue | |
| `CConsumer` | `cconsumer.cpp` and its `main.cpp` with their signal | |
| `KafkaPipeline` | producer and C++ consumer on one topic, with the broker between them | `KafkaProducer`, instance of `CConsumer` |
| `KafkaPipelineProofs` | theorems, with their inductive invariant | `KafkaPipeline` |
| `UdpTracker` | `tracker.cpp`: the tracker, its `io_service` thread, the caller of `StartUdpTracker` and `StopUdpTracker` | |
| `UdpTrackerProofs` | theorems, with their inductive invariant | `UdpTracker` |
| `PeerServer` | `peer.cpp`: the accepting thread and the caller of `StartPeer` and `StopPeer` | |
| `DhtServer` | `dht.cpp`: the receiving thread and the caller of `StartDht` and `StopDht` | |
| `CountingServer` | the abstract server: what a caller of `peer.cpp` and `dht.cpp` sees of one | |
| `TorrentServers` | both servers in one process under one main thread | instances of `PeerServer`, `DhtServer`, `CountingServer` |
| `TorrentServersProofs` | theorems, with their inductive invariants, one per server | `TorrentServers` |
| `OpenEcc` | `open_ecc.cpp`, `TestOpenEcc` and any other program that uses it | |
| `DatumDecoder` | `PutDecodedDatumInto` and `RandomizedTransfer` | |
| `LearnEthProofs` | theorems about the key wrapper, with their inductive invariant, and about the decoder | `OpenEcc`, `DatumDecoder` |
| `MC*` | instances for TLC | the module of that name |

Operators whose name begins with `Mutant` are variants of the definition that
follows them, each with one plausible mistake; nothing uses them. They document
which mistake each property would expose.

### CheckQueue

All shared fields are accessed with `mutex` locked, and `cond.wait` gives the
mutex up atomically, so one critical section is one action and the mutex needs
no variable. `Loop` is cut where the mutex is given up:

* `FirstIteration`, `CleanUp`, `WakeUp` are the three ways to arrive at
  `while (queue.empty())` (checkqueue.h:88, 81-85, 103). Each computes what the
  shared fields are at that point and continues with
* `LoopHead`: `Return` (lines 92-100), `Sleep` (101-102) or `Take` (110-119).
* `RunCheck` is one turn of the loop at line 122, without the mutex.

Notifications change the program counter of sleepers from `wait` to `woken`;
`NotifyOne` may find nobody, and `SpuriousWakeUp` needs no cause. Workers and
masters sleep on different condition variables. A woken thread has not got the
mutex yet, so other threads may take the work it was woken for.

`Add` appends vectors of distinct checks and notifies one, all or nobody, by the
length. The controller is `Construct`, `Wait`, `Destroy`, `Leave`. `fDone` and
the returned verdict are assigned right after `Loop` returns; only their own
thread reads them, so they are part of `Return`. With `ReuseAfterWait = FALSE`
clients use the controller as `main.cpp` does: once `Wait` has returned they let
the destructor run. With `TRUE` they may also add and wait again.

`session` (what was added through the live controller) and `runs` (how often a
check was executed) are history variables. `unsigned int nTodo` is a natural
number: `TypeOK` and `TodoExact` show that it stays one.

`VerificationService` knows the client being served, what it submitted, and the
verdict. The mapping takes `ControlMutex`, `session`, `fDone` and `result` for
these: every critical section is a stutter except `Return` of a master, which
decides, and the controller's own operations.

### CheckQueueMain

`script` is the statement `main` is at; each statement is one operation of
`CheckQueue`. `TaskCheck::operator()` returns true, so `Fails` is empty. The
step `DestroyQueue` is where `~CCheckQueue` runs; what threads do with a
destroyed queue is undefined, so the model stops there. `MainAssumption` says what
program this is: one master, some workers, some checks, none of which fails.
`MCCheckQueueMain` assumes it of its instance, the theorems of every instance.

### Semaphore

A critical section of a semaphore's mutex is one action. `post` notifies after
the unlock, so it is `Post` (the increment) and `Notify` (the notification and
whatever the caller does afterwards). A thread inside `wait` or `post` keeps in
`call` what it has to do next: `fHaveGrant` is written only after the semaphore
operation has returned. Grants are constructed, acquired, tried, released,
moved (onto themselves, too) and destroyed by the one thread that owns them;
calls that return at once without any change are not steps. Acquiring through a
grant without a semaphore is undefined and left out.

`UnitPool` knows of each grant whose unit it has, and lets it take one, give it
back or pass it to another grant in one step. In the code the counter and
`fHaveGrant` are written at different times, so the mapping has to say when a
unit changes hands: a unit is taken when `fHaveGrant` is set, which the model
does with the decrement, since no one else reads the flag of a grant, and it is
given back when `post` increments the counter (`Given`), although the grant
forgets it only after the notification. `Wait` going to sleep, notifications and
wake-ups are stutters.

### LockOrder

`push_lock` and `DeleteLock` hold `dd_mutex` and are one action each; between
them and the operation on the mutex other threads run. `Enter` then `Lock`, or
`Enter` then `TryLock` and perhaps `TryFailed`, are the ways in. Out lead
`ScopeEnd`/`ScopeUnlock` (the destructor's body pops the stack, then its member
unlocks) and `LeaveUnlock`/`LeaveCritical` (the macro does it the other way
round). `potential_deadlock_detected` ends in `assert(false)`: `aborted` stops
the model. Locks are constructed and destroyed, so addresses are used again.
There are two sorts: a `CCriticalSection` is recursive, and its destructor calls
`DeleteLock` (sync.h:91-97); a plain mutex (`plain`) has neither property, be it a
`CWaitableCriticalSection` (sync.h:100) or the `ControlMutex` that
`CCheckQueueControl` passes to `ENTER_CRITICAL_SECTION` (checkqueue.h:131, 188). The
pairs of a plain mutex outlive it, and the next lock at its address inherits
them; `orphaned` remembers, as history, where. A thread that locks a plain mutex
twice waits for itself, which leaves no pair: `push_lock` stops at the lock's own entry.
The locations in a `LockStack` and the stacks stored with the pairs serve only
for messages and are left out.

### KafkaConsumer

`pc` is where `main` is; `stop` and `sig_usr1` may run between any two steps,
which is what a signal does. `run` is a plain `static int` that both write.
`run--` is therefore the two steps `LoadRun` and `StoreRun`, and a SIGINT between
them is overwritten. `rk` is the handle: null until `initKafka` succeeds in
making it, closed, freed. A call on a null handle, a dump of a freed one and a
second `fclose(stdin)` are undefined; they lead on or to `crashed`. `initKafka`
returns -1 or 1 where `main` tests for 0, so its failures continue at `test`.
What a poll delivers, and whether `rd_kafka_wait_destroyed` succeeds, is up to
librdkafka.

### KafkaProducer

librdkafka's queue is `outq`, with room for `QueueMax` messages; it is a set, since
brokers settle messages in any order and the order of production is in `sent`. `Settle` is the
broker's acknowledgement or the message's timeout; a poll (`Served`) delivers
the reports of what is settled and makes room. `Produce` enqueues, finds the
queue full (the only error that leads to `goto retry`) or is refused for another
reason. `Flush` may take any number of polls and may give up.

### CConsumer, KafkaPipeline

`stage` is where the C++ consumer is: the steps of `Init`, then the loop of
`Consume`, then the clean-up behind it. A failing `create` leaves a null pointer
and only prints; the next step that passes it to librdkafka crashes. A failing
`start` leaves a consumer that polls and gets nothing (`started`). `fetch` is
librdkafka's position in the partition, `last_offset_` the program's. `sigterm`
runs between any two steps.

`KafkaPipeline` puts the two programs together. Neither reads the other's
variables: the instance of `CConsumer` sees the number of messages in `log`,
which only the broker writes (`Write`). The broker may write a message that is in
the producer's queue more than once (a retry inside librdkafka), in another
order, or without the producer ever learning of it; it acknowledges a message
only when it has it, and otherwise the message times out (`SettleMessage`).
The topic may have several partitions: the producer leaves the choice to
librdkafka's partitioner (`RD_KAFKA_PARTITION_UA`, producer/main.c:125), the
consumer reads partition 0 only (cconsumer.h:32). `log` is that one partition,
and `others` are the messages that were written to another one; what is
claimed of delivery excludes them. `acked` remembers which of the two it was: `dr_msg_cb` prints
it and the program forgets it.

### UdpTracker

The `io_service` runs one handler at a time, in the thread: the completion of
the receive (`onUdpReceive`) and the posted `stop`, in any order. `ios_.run`
returns when there is neither a receive nor a posted function (`OutOfWork`).
A datagram is its kind, since the handler only looks at its length and its
action. Closing the socket aborts a receive that is pending and not one that
has completed.

### PeerServer, DhtServer

The thread is in the loop of `threadFun`: start an asynchronous operation, poll
until its handler has run, look at the outcome. The main thread starts a server
and destroys it again: cancel, close, join, each a step of its own, between
which the server's thread runs. Both touch the acceptor or socket without a
lock; an operation on it is one action in the models. `connections` counts, as
history, the accepts that succeeded, `completed` those and the failed ones.

### TorrentServers, CountingServer

`peer.cpp` and `dht.cpp` keep their server in a static pointer of their own, so
the process has one of each. `CallPeer` and `CallDht` are the main thread: while
it is inside a function of one server it calls none of the other, but both
servers' threads run. An exception that leaves the DHT server's destructor ends
the process with everything in it. `CountingServer` is a server as its caller
sees it through the functions of `peer.cpp` and `dht.cpp` (`peer.h` declares
`stop_peer`, but `StopPeer` is what there is): it is started and stopped, and
between the two its hits go up one by one. The mapping takes the main thread's place in `StartPeer`
and `StopPeer` for the phase and `requests_` for the hits; everything the thread
does between two increments is a stutter.

### OpenEcc

A private number stands for its public point, too, so that a key is a pair of
numbers which are equal when its halves belong together. `importPrivKey` makes a
key with `initEccCurves` and then replaces one half. A signature is who made it
and of what, a secret the unordered pair of the numbers that meet in it: that is
all that ECDSA and ECDH promise. `calcECDHKey` returns 32 bytes of which
`ECDH_compute_key` fills as many as the field has, 21 with the curve of the test;
the others are uninitialised stack (open_ecc.cpp:121-127). An `ecdh_key` is
therefore the secret and a tail that is chosen anew, out of `Tails`, at every
call. When OpenSSL lacks the curve, `NoKey` makes
`signMessage` leave `Garbage` or crash, and the dump functions crash. (A key
without a group stays as it is in `importPrivKey`; older versions of OpenSSL
store the private number in it. Nothing that is claimed depends on it.) `step` runs
through `TestOpenEcc`; with `step = 0` the objects are used in any order, with
strings that objects have exported. `shared[o]` also notes, as history, which
point `o` published when it computed the secret and whether its private half had
been imported.

### DatumDecoder

`s1` is the rest of the line, consumed by `Prefix` (spaces and the repeat count)
and one of `Word`, `Quoted` and `HexDigits`. The `substr` and `find` calls of the
code are operators with its positions, `npos` included. `Put` is one turn of
`while (repeat--)`; `Transfer` and `Finish` are the chunks of
`RandomizedTransfer`, one turn each. What a line means, `Expected`, is defined
from the data it was rendered from and never looks at positions. The decoder has
an unwritten grammar, which `WellFormed` states: whole bytes, closed quotes, one
space behind a repeat count, and words last and not repeated. Lines outside it
are inputs, too; for them `ThrowsOnlyIfUnclosed` and `Terminates` are claimed.
Repeat counts are digits: negative ones, for which `while (repeat--)` would run
until the count wraps around, are not among the inputs. A line
that ends in a space is not decoded in finite time: `find_first_not_of` finds
nothing, the space stays, and the loop goes on for ever. No test vector in the
repository ends so.

## 3. What the runs check

| Run | Instance | Shows |
|---|---|---|
| `queue` | 1 worker (perhaps never created), 2 masters, 4 checks (1 fails), batches up to 2, fair scheduling | types; no wake-up is lost on either condition variable (`NoLostWakeUp`); the verdict is right (`VerdictCorrect`); a released queue is finished (`FinishedOnRelease`); the inductive invariant, before it is proved (`IInv`); the queue implements `VerificationService`; `Wait` returns (`WaitReturns`) |
| `queue_reuse` | 1 master, 2 checks, `ReuseAfterWait = TRUE` | finding 1 |
| `main` | 3 workers, 4 checks, batch size 128 | a check is in one place, runs once, and `nTodo` counts it until then (`ChecksKept`); `nIdle` and `nTotal` are exact (`PoolCountsExact`); `main` comes to its end (`MainFinishes`), and by then every check has run once (`AllChecksRun`) |
| `semaphore` | 3 threads, 4 grants (one thread has two), capacities 2 and 1 | units are conserved (`Conserved`); each operation takes effect at one moment and no more units are out than there are (`ImplementsPool`); no notification is lost (`NoLostWakeUp`); sleepers are woken while units are left (`SleepersServed`) |
| `lock_order` | 2 threads, 3 addresses for locks of both sorts, at most 4 open scopes each | the two containers mirror each other, and a pair outlives its locks only where a plain mutex has died (`PairsSound`), stacks agree with mutexes (`StackIsHeld`), waits are recorded (`WaitsRecorded`), a mutual wait is detected (`InversionDetected`) |
| `consumer` | up to 3 SIGINTs | `PromptStop`, the five waits of the countdown (`FiveTries`), the end of the process after a SIGINT (`StopTerminates`) |
| `pipeline` | 3 lines, one blank, a producer's queue of 1, a log of up to 3 messages and other partitions | every line that was read is in exactly one place (`Accounted`), enqueued once and in order (`InOrder`); the consumer's bookmark is right and what it handles are lines the producer sent to its partition (`NothingForeign`); handles are given back, except where `Init` failed (`Released`); the producer ends (`Finishes`), the consumer ends after a signal (`StopTerminates`); what was acknowledged in the consumer's partition is consumed, unless the consumer has given up (`Delivered`) |
| `tracker` | 4 datagrams per life of the tracker | `StopUdpTracker` returns (`StopReturns`), every request is answered once, before the next receive, except at most one that the stop overtakes (`Answered`), the tracker goes deaf only for a failed or short datagram (`DeafOnlyIfRefused`) |
| `servers` | 3 accepts and 3 receives per life of a server | both servers implement `CountingServer` (`ImplementsServer`): hits are counted one by one, and `StopPeer` and `StopDht` return in every phase of the loop; no connection or datagram is lost or counted twice, and nothing but failed accepts is counted besides (`NothingUncounted`) |
| `peer_hits` | the same | finding 2 |
| `key` | 2 objects, 2 messages, up to 4 key pairs, 2 tails | an object accepts its own signature exactly while its halves belong together (`OwnSignature`); partners agree on a secret exactly if neither had imported, and get the same string exactly if the stack behind the secrets was the same, too (`Agreement`); what `TestOpenEcc` sees (`TestVerdicts`) |
| `decoder` | lines of up to 2 data of 19 kinds, one or two spaces between them, blocks of 2 bytes | well-formed lines are decoded to their meaning (`Decoded`), decoding gives up only at an unclosed quote (`ThrowsOnlyIfUnclosed`) and ends (`Terminates`) |

Bounds. `MaxAdd` is the longest vector handed to one `Add`; it is 2 in `queue`, so
that all three kinds of notification occur. Four checks and `nBatchSize = 2` are
the least with which a batch of two is formed ((4 / (1 + 0 + 1)) = 2) while
something remains for the other thread. Two masters compete for `ControlMutex`,
and a master and a worker for the work; that several workers race for one
notification is in `main`, which has three. The sets of
checks are re-used session after session, so there is no bound on the number of
sessions. `MaxDepth` bounds the nesting of scopes; with three locks, depth 4
includes recursive locking on top of the full set. Three SIGINTs are
enough for one in the poll loop, one in the shutdown and one more that finds
`run` at 0. In the pipeline line 1 fills the producer's queue of one, line 2 is blank and
line 3 meets the full queue; a log of three has room for two messages and a
repetition of either, in any order, and each may go to another partition instead. Four key pairs let both objects be
initialised and then each, or one twice, imported or initialised again; two tails
are the same or not. Two data are what the
offsets of the decoder reach over (a piece behind `0x` extends into the next
datum, never further), and with blocks of two bytes a datum is shorter than,
as long as, and longer than what may stay behind. `MaxDatagrams`, `MaxAccepts` and `MaxReceives` count what
arrives in one life of a server, which is started and stopped any number of
times; three leave one before, one during and one after the stop. Nothing else is bounded.
Threads and locks are symmetric in `lock_order`; runs with liveness properties use
no symmetry.

Deadlock is checked wherever the system may go on for ever. It is not checked
where the program ends: `main` returns, the lock-order checker asserts, a Kafka
program exits, a DHT server's destructor terminates the program, `TestOpenEcc`
and the decoder return.

Fairness. A thread that has entered `Loop`, and is not asleep, is scheduled
again and again and eventually gets the mutex: weak fairness of its `Step`, and
of `Leave` in the destructor. Nothing forces clients to call, workers to be
created or spurious wake-ups to occur. `CheckQueueMain` also has weak fairness
for the main thread, which runs a script without waiting for anything but
`ControlMutex` and `Loop`. Likewise a thread inside `wait` or `post` of a
semaphore keeps running, the Kafka programs' `main` is scheduled, a server's
thread runs its handlers and a join or close under way is carried out. Signals,
connections, datagrams and calls to stop need not come. librdkafka is assumed to
settle every message (it has a timeout for that) and to end a flush. All this is
weak fairness; boost's mutex promises no more. Strong fairness is assumed once,
of the delivery of a message to the C++ consumer: `consume` is called again and
again, each call may time out, and `Deliver` is possible only inside a call. That
timeouts do not hide a message which is there for ever is librdkafka's promise,
and nothing weaker makes `Delivered` true.

## 4. Findings

1. `CCheckQueueControl` "guarantees the passed queue is finished before
   continuing" (checkqueue.h:170-171), but `Add` does not clear `fDone`. After
   `Wait`, `Add`, and the destructor, `ControlMutex` is free with checks still
   queued (`queue_reuse`). `main.cpp` does not do this.
2. `NumPeerHits` is "the number of incoming connections to this peer"
   (include/peer.h:8), but `threadFun` prints the error of a failed accept and
   increments `requests_` all the same (peer.cpp:80-86). `HitsAreConnections` fails
   with the first such accept (`peer_hits`). `NothingUncounted` states what is left:
   hits are at least the connections and at most the completed accepts.

The models also contain, without a run of their own:

* `fQuit` ("Whether we're shutting down", checkqueue.h:62) is never set, and
  `main.cpp` does not join its threads: the queue is destroyed under the workers
  in `Loop`. `DestroyQueue` is where the model of the program ends.
* `consumer/main.c:168` tests for 0 what `initKafka` returns as -1 or 1, so its
  error branch is dead and a failed start polls a null handle (`Poll`).
* A further SIGINT closes stdin again, in the producer always, in the consumer
  during the countdown, where `run` is not 0.
* The pairs of a plain mutex outlive it: `ControlMutex` is watched, but is no
  `CCriticalSection`, and nobody calls `DeleteLock` for it. The checker may complain
  about the next lock at its address (`PairsSound`, `orphaned`).
* A producer that leaves the partition open and a consumer that reads partition 0:
  on a topic with several partitions acknowledged lines never reach the
  consumer (`others`).
* When `CConsumer::Init` fails to make the topic's configuration it returns
  with its consumer alive, and nobody deletes it (cconsumer.cpp:59-62, `Released`).
* What is still queued when the producer's `flush` times out is lost with the
  program; in the model it is in `outq` to the end.
* Two partners of an ECDH exchange may get different strings although they
  have the same secret, since `calcECDHKey` returns uninitialised bytes behind it
  (`Agreement`).
* A DHT server whose socket could not be opened terminates the program when it
  is destroyed, since `cancel` throws (`StopDht`).
* After `importPrivKey` an object rejects its own signatures, and its ECDH secret
  is not its partner's: `TestOpenEcc` prints the rejection (`TestVerdicts`).
* A line of test data that ends in a space is never finished (`Terminates`).
* `NumUdpAnnounces` returns the base class's `requests_`, which the tracker never
  increments; announces are counted in `udp_announces_`. The function is a plain
  reading and not in the model.

## 5. What is proved

`CheckQueueProofs` proves, for all finite sets of workers, masters and checks,
every `Fails`, `nBatchSize` and `MaxAdd`:

| Theorem | Statement |
|---|---|
| `Invariance` | `Spec => []IInv` |
| `TypeCorrect` | `Spec => []TypeOK` |
| `VerdictTheorem` | `Spec => []VerdictCorrect` |
| `ChecksConserved` | `Spec => []ChecksKept` |
| `PoolCounted` | `Spec => []PoolCountsExact` |
| `NoLostWakeUps` | `Spec => []NoLostWakeUp` |
| `ReleasedIsFinished` | `Spec => []FinishedOnRelease` |
| `Refinement` | `Spec => ImplementsService` |
| `ProgramInvariance` | `MainSpec => [](IInv /\ ScriptSound)` |
| `ProgramIsClient` | `MainSpec => Spec` |
| `AllChecksRunTheorem` | `MainSpec => []AllChecksRun` |
| `WorkInHand` | while a master is in `Loop` and `nTodo > 0`, some thread has a batch or can take one |
| `CheckExecuted` | a thread that executes its batch comes to the next check |
| `BatchCleanedUp` | a finished batch is cleaned up: `nTodo = n ~> nTodo < n` |
| `QueueDrains` | a thread at the loop's head takes from the queue: `Len(queue) = n ~> Len(queue) < n` |
| `VerdictReturned` | a master in `Loop` with `nTodo = 0` comes back from it |
| `MainEnds` | `main.cpp` with `nTodo = 0` in the controller's destructor comes to its end |

Assumptions: the three named ones of `CheckQueue` (workers and masters are
disjoint finite sets, `Fails \subseteq Checks` finite, numbers are natural) and
`ReuseAfterWait = FALSE` in every theorem. The last one is needed: with
`ReuseAfterWait = TRUE` run `queue_reuse` refutes `FinishedOnRelease`. The four theorems
about `MainSpec` assume `MainAssumption` instead, which implies it.

The inductive invariant `IInv` (`CheckQueueInv`). None of the properties is
inductive alone. `VerdictCorrect` speaks of the moment `fDone` is set; before it,
knowledge of failures is spread over `fAllOk` and the `fOk` of the threads with a
batch, so `StatusSound` says what `fAllOk` knows of the checks already cleaned
up and `BatchSound` what each `fOk` knows of its batch so far. `BatchShape` ties
`nNow`, the batch and the loop position together. `OnePlace` and `TodoExact`
make `nTodo = 0` mean that nothing is pending, which is what lets the master
conclude that `fAllOk` covers the whole session. `Ownership` says that a master
inside `Loop` owns `ControlMutex`, so that at most one is there: two would share
`fAllOk` and `condMaster`. `NoLostMasterWakeUp` is part of the induction: the
master sleeps only while a worker has a batch, and that worker's clean-up either
leaves more work or notifies it.

The proof follows the cut of `Loop`. `AtLoopHead` states what holds of the
values a thread brings to `while (queue.empty())`; `LoopHeadInv` shows, one lemma
per group of conjuncts, that `Return`, `Sleep` and `Take` re-establish `IInv`
from it; `FirstIterationAtLoopHead`, `WakeUpAtLoopHead` and `CleanUpAtLoopHead`
show that all three callers establish it. The remaining actions have one lemma
each; `QuietStep` and `EnterLoopInv` factor out what they share. Arithmetic of
the batch size (`BatchSizeRange`) and cardinalities (`DistinctCard`,
`PoppedSplits`) are lemmas about the operators alone. `Refinement` maps each
action to a step or a stutter of the service, using `IInv` for `Return`
(the verdict) and `Leave` (there is one).

The program. `ScriptSound` says how far the controller and the main thread are at
each statement of `main.cpp`, and that what was added is what the loop has gone
through. `WorkerSection` shows that a worker's critical section leaves the main
thread's place alone, except that it may wake it up, and `MasterSection` that the
main thread comes back from `Loop` only with a verdict. With these each statement
is an operation that `CheckQueue` allows its clients, so `MainSpec` implies `Spec`
and the queue's invariant holds of the program. `AllChecksRun` is then no further
induction: the controller is finished, so `VerdictCorrect` and `StatusSound` apply
to a session that was all the checks, none of which fails.

The progress of the pool (see *Liveness* below). `WorkInHand` is why no state is a
dead end for a waiting master: if the queue is not empty the master itself is
awake, by `NoLostMasterWakeUp`, and otherwise what is pending is in somebody's
batch. The thread it names gets on by `CheckExecuted`, `BatchCleanedUp` or
`QueueDrains`, under fairness of that thread only, and when nothing is left
`VerdictReturned` brings the master back. While a master is in `Loop` nobody adds
checks, so the rounds cannot go on for ever: every one lowers `nTodo`, or with it
unchanged the length of the queue, or what remains of a batch (`NextWorks` says
that no step of anybody raises them).

`SemaphoreProofs` proves, for all finite sets of threads and grants, all
semaphores, capacities and owners:

| Theorem | Statement |
|---|---|
| `SemaphoreInvariance` | `Spec => []SInv` |
| `SemaphoreTypes` | `Spec => []TypeOK` |
| `UnitsConserved` | `Spec => []Conserved` |
| `WakeUpsKept` | `Spec => []NoLostWakeUp` |
| `CounterExact` | the counter and the units in use add up to the capacity, which bounds the units in use |
| `SemaphoreRefinement` | `Spec => ImplementsPool` |
| `NotificationArrives` | a poster with threads asleep wakes one up, unless the counter is at zero before |
| `WokenTakes` | a woken thread with `value = n >= 1` sees `value < n`, or another `post` is on its way |

`SInv` adds to these what ties a call under way to its grant: `CallShape` says
that a thread in `wait` or `post` works on a live grant of its own which has a
semaphore and is not yet, or still, noted as holding a unit; `HeldHasSem` that
only a grant with a semaphore holds one. Without them `Notify` could mark a grant
that another thread has moved. The proof has two halves: `ShapeStep` for the
part that does not count, and lemmas for the counting steps, `TakeUnit`,
`GiveUnit`, `NotifyUnit` and `SameUnits`, to which every operation is reduced;
`HandCounts` shows that moving a grant changes nobody's holdings. The proofs
assume that threads and grants are finite and that a grant is used by one
thread, as `sync.h` intends (nothing in it locks a grant).

`Conserved` counts the grants that are marked and the threads between increment
and notification; the pool counts the grants that use a unit. `UserCount` relates
the two: the posters of a semaphore correspond one to one to the grants whose unit
they have given back, as a grant has one owner and an owner one call. The counter is
therefore exactly what the pool has left, and `value >= 1`, which the code tests
before it decrements, is the pool's condition for `Take`. `TakesUnit` and
`OthersUnits` say what a change of one grant does to the mapping, one lemma per
operation which step of the pool it is.

`NotificationArrives` and `WokenTakes` are the two rounds of `SleepersServed`.
`NoLostWakeUp` says that with the counter above zero and threads asleep there are
posters or woken threads enough. The first theorem is about such a poster, the
second about such a woken thread; each needs only that this thread is scheduled.

`LockOrderProofs` proves, for any threads and locks and any depth of nesting:

| Theorem | Statement |
|---|---|
| `Invariance` | `Spec => []IInv` |
| `PairsSoundTheorem` | `Spec => []PairsSound` |
| `StackIsHeldTheorem` | `Spec => []StackIsHeld` |
| `WaitsRecordedTheorem` | `Spec => []WaitsRecorded` |
| `InversionDetectedTheorem` | `Spec => []InversionDetected` |
| `OrderedIsDeadlockFree` | while `lockorders` agrees with some ranking of the locks, no set of threads is deadlocked |

Assumptions: `LockAssumption` only; threads and locks need not be finite. The
invariant has, per thread, `Balanced` -- at every program counter, by how much the
number of a lock's entries on the stack differs from the depth to which the
thread holds it -- and `WantOnTop`, that it is the last entry by which they
differ. `Recorded` says what `push_lock` has achieved for a thread in `lock()`,
and outlives `DeleteLock` because no lock on a stack is destroyed. (`WaitsRecorded`
is about waiting for another thread: a plain mutex makes its own holder wait,
too, and of that nothing is recorded.) `NoInversion`,
that a pair and its reverse are both there only after the complaint, needs that
`push_lock` compares with all pairs. `TakeHeld`, `GiveHeld`, `PushFacts` and
`PopFacts` say how operations change the two counts, `DeletePairs` that
`DeleteLock` removes exactly the pairs of its lock, `DestructPairs` that what is left
behind without it is at an address in `orphaned`, and `OtherThread` that what a
thread does leaves the others' part alone. `InversionDetected` then is no
induction: a mutual wait is recorded twice, which is an inversion.

`OrderedIsDeadlockFree` is about circles of any length, for which the checker does
not look: of the threads of such a circle take one that waits for a lock of least
rank (`LeastElement`); the holder of that lock waits, too, and its wait is recorded
(`WaitsRecorded`), so that it waits for a lock of lower rank still. The recorded
pairs are thus enough to tell that a program is safe, though more than
`push_lock` looks at.

`LearnEthProofs` proves of the key wrapper, for any objects and messages and any
number of keys:

| Theorem | Statement |
|---|---|
| `Invariance` | `Spec => []IInv` |
| `TypeCorrect` | `Spec => []TypeOK` |
| `OwnSignatureTheorem` | `Spec => []OwnSignature` |
| `AgreementTheorem` | `Spec => []Agreement` |
| `TestVerdictsTheorem` | `Spec => []TestVerdicts` |

`Agreement` compares secrets that were computed at different times, with keys
that may have been replaced since. The invariant therefore says of each secret
what it was made of (`SecretSound`), that a public half is generated once and
never again (`KeysSound`), and so that two objects' secrets were made with
different public halves (`SecretsDiffer`). The tails are unconstrained, so that the
strings are compared by what is known of the secrets. An imported private half is a number
that existed before, hence never the public half generated with it.
`TestSound` follows `TestOpenEcc` call by call: from which call on the halves fit,
when they do not any more, and that `signature` was always made with the private
half the object has now.

And of the decoder, for any bytes and chunks of any length, `ChunksKeepOrder`: a chunk
of `RandomizedTransfer` leaves `target \o q` as it was. It is about one action, and
assumes that queue and target are sequences. That they are, like all of `Decoded`
and `ThrowsOnlyIfUnclosed`, rests on what the recursive functions of the decoder
compute and is left to TLC.

`KafkaConsumerProofs` proves, for any number of signals:

| Theorem | Statement |
|---|---|
| `Invariance` | `Spec => []CInv` |
| `PromptStopTheorem` | `Spec => []PromptStop` |
| `FiveTriesTheorem` | `Spec => []FiveTries` |
| `StopTerminatesTheorem` | `Spec /\ Scheduled => StopTerminates` |

`LateSound` says that until the countdown `run` stays 0 once SIGINT has cleared it,
so that only the poll under way handles another message. `WaitsSound` and
`Undisturbed` tie `run`, the loaded copy `old` and the waits together: at each
step of the countdown `run` and `old` never exceed what is left of the five waits
-- a handler's 0, or a store that overwrites it, can only shorten them -- and
equal it if no signal came. `StopTerminates` needs that bound, too: a countdown in
which every wait counts has an end, though a signal may come at any of its steps
(`MainMoves`, and one round of load, store and wait for each of the five).

`KafkaPipelineProofs` proves, for any input, any blank lines, any size of the
producer's queue, any bound on the log and any starting offset:

| Theorem | Statement |
|---|---|
| `Invariance` | `PipelineSpec => []IInv` |
| `AccountedTheorem` | `PipelineSpec => []Accounted` |
| `InOrderTheorem` | `PipelineSpec => []InOrder` |
| `NothingForeignTheorem` | `PipelineSpec => []NothingForeign` |
| `ReleasedTheorem` | `PipelineSpec => []Released` |
| `CaughtUpTheorem` | a consumer that starts at the first message and is at the end of its partition has handled every message acknowledged there |
| `ConsumerStopsTheorem` | after a signal or an error, a consumer that has left `consume` takes no further message |
| `StopTerminatesTheorem` | `PipelineSpec /\ ConsumerRuns => StopTerminates` |
| `DeliveredTheorem` | a message acknowledged in the consumer's partition and not handled at position `k` is handled, or the position becomes `k + 1`, or the consumer gave up |
| `ProducerStopsTheorem` | `run = 0 ~> Ended` |
| `FinishesTheorem` | `read = k ~> read = k + 1 \/ Ended`, and `read = Lines ~> Ended` |

Assumptions: those named in `KafkaProducer` and `KafkaPipeline`. `Accounted` and
`InOrder` need each other's companions: a line in hand is in none of the other
places (`LinesSound`) and comes after everything sent (`SentSound`), so that the
retry of a full queue neither repeats nor reorders it. `LogSound` is what makes
the composition work: whatever is in the log the producer still has or has had
reported, never refused, however often the broker writes it. `PositionSound` ties
the bookmark to librdkafka's position, `HandlesSound` each handle to the stage: an end
without a topic is one of a failed `Init`, and only there may a consumer be left.

`CaughtUpTheorem` is the safety half of `Delivered`, which is a liveness property:
`AckedSound` says that what was acknowledged is in the log or in another partition,
and a consumer whose
position is at the end has passed every place where it can be.
`ConsumerStopsTheorem` is an action property; it needs that `run_` is false from the
signal or error on, which no step undoes.

`StopTerminatesTheorem` goes through the stages of the consumer, which cannot turn
back once `run_` is false. `DeliveredTheorem` is the progress half of
`Delivered`: by `CaughtUpTheorem` a consumer without the message is not at the end of
the log, so there is a message to arrive, and `NextMessage` shows that the position
then moves. `FinishesTheorem` and `ProducerStopsTheorem` rest on `QueueGetsRoom`, that
the retry loop of a full queue is left: a full queue holds messages (`QueueSound`), one of
them is settled in the end, and the poll between two tries takes a report that is
there and so makes room; and on `FlushLeft`, that the flush comes to its end.

`UdpTrackerProofs` proves, for any number of datagrams:

| Theorem | Statement |
|---|---|
| `Invariance` | `FairSpec => []TInv` |
| `DeafOnlyIfRefusedTheorem` | `FairSpec => []DeafOnlyIfRefused` |
| `AnsweredTheorem` | `FairSpec => []Answered` |
| `NothingAfterJoin` | when the thread has been joined, the only step is `StartUdpTracker` |
| `StopReturnsTheorem` | `Spec /\ Scheduled => StopReturns` |

`DeafOnlyIfRefused` is inductive once an aborted receive is known to occur only
after `stop`. `Answered` and `NothingAfterJoin` rest on `CInv`: a request that is asked
and not answered is the one whose handler has not run, or ran after `stop`, when
no further one can arrive; and outside of a tracker's life there is no thread that
could run a handler. `StopReturns` goes
through five phases: the thread starts, the posted `stop` runs, what was received
is handled, the `io_service` is out of work, the join returns. `JInv` says that these are all
there are: in a stop the handler is posted or has run, and after it no receive
is pending again.

`TorrentServersProofs` proves, for any number of connections and datagrams:

| Theorem | Statement |
|---|---|
| `Invariance` | `FairSpec => []SInv` |
| `NothingUncountedTheorem` | `FairSpec => []NothingUncounted` |
| `ServersCount` | `FairSpec` implies `Init` and `[][Next]_vars` of `CountingServer`, for both servers |
| `ServersStop` | each server's `"stopping" ~> "idle"`, the liveness of `CountingServer` |

The counters cannot be compared while an outcome is on its way from its
completion through `accept` and `ec` (or `receive` and `result`) to the increment.
`PeerBalance` and `DhtBalance` count these, too; `PeerShape` and `DhtShape` say
where an outcome can be, so that there is at most one (`PeerConnections` that a connection
among them is counted as one), and what ends a thread
(`DhtFailure`: only a failure, while the server serves). Each server has its
lemmas for its own steps, and `OneOfTwo` with `PeerSame` and `DhtSame` carry them
over to the process in which both run. `ServersCount` is the safety half of
`ImplementsServer`. `ServersStop` is what its fairness is for; `StopInv` says that once
the socket is closed nothing is pending on it, so that the thread has an outcome
to look at and ends on it.

### Liveness

The prover knows nothing of `ENABLED`, hence not of `WF` and `SF` as such. The proofs
state the fairness with the action's condition written out: `Scheduled` says that
infinitely often either the guard (`Running(t)`, `Ready`, `Waiting`, ...) is false or
a step of the action is taken, which is weak fairness with the guard in
place of `ENABLED`. `FairIsScheduled` in each module proves that it follows from the
specification's fairness where the guard implies `ENABLED`. That implication is
read off the actions; added as an invariant to the configurations of section 3,
TLC confirms it for every guard. Each proof is a chain of phases: a phase lasts
until its guarded step is taken, no step of anybody else leads back, and the step
leads to the next phase; `PTL` combines these facts.

The number of phases of a temporal proof is fixed, and an induction over a number
of rounds that depends on the constants cannot be expressed: it would have to
instantiate a theorem with a temporal formula. Where the code needs as many rounds
as there are checks, sleepers, messages or lines, the theorem is about one round
that starts at an arbitrary value `n`, `k` or `A` of what decreases or increases.

| Property | Proved for every value of the constants | Left to TLC |
|---|---|---|
| `StopTerminates` (both consumers), `StopReturns` | all of it | that guards imply `ENABLED` |
| `ImplementsServer` | the safety half, and that stopping ends | the abstract `WF` itself |
| `WaitReturns` | `WorkInHand`, `CheckExecuted`, `BatchCleanedUp`, `QueueDrains`, `VerdictReturned` | chaining the rounds |
| `MainFinishes` | the same, and `MainEnds` | chaining the rounds, and the statements before the destructor |
| `SleepersServed` | `NotificationArrives`, `WokenTakes` | chaining the rounds |
| `Finishes` | `FinishesTheorem`, `ProducerStopsTheorem` | chaining the lines |
| `Delivered` | `DeliveredTheorem`, `CaughtUpTheorem` | chaining the messages |
| `Terminates` | -- | all of it |

Only model-checked besides: the decoder's `Decoded` and `ThrowsOnlyIfUnclosed`, which
are about what recursive definitions compute for every input, and with them
`Terminates`, whose measure is the length of what they compute. Induction over data is out of this
prover's reach.

## 6. What is not modelled

* Components marked *not_modelled* in `PROJECT.json`. `learnclickhouse` sends a
  fixed sequence of statements and decides nothing; `learntorrent/src/main.cpp`
  asks for the gateway and returns; the boost tests are scaffolding,
  `threadsafety.h` is annotations without run-time behaviour.
* `learnopenssl/src/main.cpp` behind the `return 0` after `TestOpenEcc`: dead code,
  which alone calls the functions above it.
* `learneth/src/main.cpp` 140-185, which hashes a fixed text and prints; `word64`,
  which is decoded like `word32`.
* `StartPeer` or `StartDht` while a server runs: `reset` makes the new object
  before it destroys the old one, two objects that share nothing.
* What `CConsumer` prints of a message. Crypto arithmetic: signatures and secrets
  are what ECDSA and ECDH promise.
* Negative repeat counts in a line of test data.
* How librdkafka chooses a partition: any message may go to any.
* A report of cycles of three locks: the checker does not look for them, although its
  data would show them (`OrderedIsDeadlockFree`).
* A controller on a null queue: it has no state.
* Exceptions: thread interruption (boost's interruption points in `cond.wait`)
  is not used by the repository; checks that throw would leave `Loop`.
* `LEAVE_CRITICAL_SECTION` out of nesting order, `lockdata.available` during
  static destruction, the contention hook. `sync.cpp`'s checker is compiled only
  with `DEBUG_LOCKORDER`, which no build file sets.
* The memory model. The check queue, the semaphore and the lock-order checker
  access everything shared under a mutex. The Kafka programs' `run` is shared
  between `main` and a handler in the same thread; the compiler is taken to load
  and store it where the code says so. The servers' socket operations race and
  are taken to be atomic.
* Start-up errors of the producer, after which `main` returns at once, and lines
  longer than its buffer, which `fgets` splits.
* Byte layouts in the tracker and what `bdecode` does; the static buffer of
  `time_now_string`, which several servers' threads would share.

## 7. Plan

1. Done: every component with behaviour of its own is modelled and checked, and
   every invariant that a run checks is proved, except the decoder's.
2. Done: what liveness rests on. The stops are proved to end, and the other `~>`
   properties round by round.
3. Left: the inductions that chain those rounds, `Decoded`, `ThrowsOnlyIfUnclosed`
   and `Terminates`, with a
   prover that has induction over data and `ENABLED`.
