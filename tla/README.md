# A TLA+ model of the bDDS broker

bDDS bridges MQTT clients and an OpenDDS domain. One process, started by
`src/BrokerParticipant.cpp`, accepts MQTT connections, passes what clients
publish to DDS and to the other subscribed clients, and passes the samples it
receives from DDS to the subscribed clients. This directory holds TLA+ modules
for the parts that share state between threads, TLC configurations that check
them on small instances, and TLAPS proofs.

## 1. The system

### Threads

`ACE_TMAIN` starts, with N = `argv[6]`:

| thread | code | what it does |
|---|---|---|
| N io threads | `io_service.run()`, `Broker/MQTTSession.cpp`, `Broker/BrokerMQTTSubscriber.cpp` | accept connections, receive packets, run `message_process` |
| N endpoint writers | `Broker/BrokerMQTTPublisher.h` | take a task from the MQTT queue and write it to sessions |
| DDS listener | `DataReaderListenerImpl.cpp` (an OpenDDS thread) | turns a sample into tasks |
| DDS publisher | `Broker/BrokerPublisher.cpp` | writes the DDS queue to the DDS data writer |
| SBDP reader, SBDP writer | `SBDP/SBDPBuiltinEndpointDataReader.h`, `SBDPBuiltinEndpointDataWriter.h` | announce this broker by multicast, collect the others |
| main | `BrokerParticipant.cpp:298-340` | waits for DDS matches |

### Components, their state and their operations

| component | state | operations | how it is shared |
|---|---|---|---|
| `task_lock_t` (`DDSThread/DDSThread.h`, two more copies in `SBDP/SBDPThreadMutex.cpp`, `BrokerThreadMutex.cpp`) | four counters, `task_count`, a mutex, two condition variables | `task_mutex_wlock`, `task_mutex_rlock`, `task_mutex_unlock` | called by CONNECT, SUBSCRIBE and SBDP |
| `MQTTSession` | socket, `connected_client` (its id), `MQTT_publish_map`, `sub_requested_`, `client_n` | `start`, `read`, `message_process`, `send` | handlers on the io threads, `send` and `sub_requested` on the writers, `get_connected_client` on the writers and the listener |
| `mqtt_clients` | set of `shared_ptr<MQTTSession>` | `insert` under a mutex; `get_client` walks it without | io threads, writers |
| topic list (`BrokerClient.h`) | per topic a vector of raw `MQTTSession*` | `add_mqtt_client_to_topic` under a lock; `find_topic` copies it without | io threads, writers, listener |
| MQTT task queue, DDS message queue (`moodycamel/*`, vendored) | a semaphore, a free list of blocks, a list of producers with their block indexes, hash tables from threads to producers | enqueue and dequeue with their bulk, try, timed and token forms, thread exit, destruction | all threads, without locks; FIFO per producer thread only |
| `BrokerMQTTPublisher` | the task being sent | `MQTTEndPointWriter`, `send_message`, `get_client` | N threads run it |
| `DataReaderListenerImpl` | `retained_message_count` | `on_data_available` | one thread |
| `Broker_Publisher` | the DDS data writer | `work` | one thread |
| SBDP (`SBDP/*`, `SBDPBuiltinEndpointDataWriter.h`) | lists of discovered brokers, the announcement and how many there were | `handle_send_to`, `handle_timeout`, `handle_receive_from`, `add_broker` | two threads, a lock, a multicast group |
| `BrokerParticipant` | its role and port, the DDS match status | start, creation of the entities, the wait loop and its exits | starts all the threads |
| `DDSThreadPool` (`DDSThread/DDSThread.cpp`) | task queue, workers | `run_task`, worker loop | declared, not used by the live threads |
| legacy session (`Broker/BrokerSubscriber.*`) | predecessor of `MQTTSession` | its start is commented out | none |
| `TCPHandler`, `HTTPHandler` | blocking sockets | calls commented out | none |
| `MessengerTypeSupport*`, `Messenger*` | generated by the OpenDDS IDL compiler | | |

### What is hard about it

* The lock releases without its mutex: `boost::mutex::scoped_lock(m);` is a
  temporary that dies at the semicolon, so `pending_writers++` and all of
  `unlock` run unprotected.
* The sets and lists that io threads extend under a lock are read without one.
* A task names its receiver by client id; the session is looked up when a
  writer takes the task, after a reconnect or a break perhaps.
* Two writers may work on tasks for the same client, and overtake each other
  between testing `sub_requested` and writing to the socket.
* A PUBLISH for a client without SUBACK goes back into the queue, addressed as
  it was: to everybody.
* A receive may return more than one packet; only the first is interpreted.
* The process ends on a malformed payload, after a number of samples, or when
  `main`'s wait times out, whatever the other threads are doing.
* The queues are lock-free: consumers claim before they know that there is an
  element, blocks and producers are used again, indexes wrap around, memory
  may run out in the middle of a bulk operation.
* Announcements are datagrams: they get lost, repeated and reordered, and stop
  after fifty; a broker that starts again is not announced as new.

What makes each part correct: the lock excludes and its waiters are woken; no
thread follows a pointer to a destroyed session; every packet is answered once;
a QoS 2 message is forwarded once, however often its packets are repeated; a
message goes to subscribers, all of them, and to nobody else, once; SBDP's list
holds each other broker once, and finds it; a queue hands every element to one consumer, in order, and neither
loses a wake-up nor a block.

## 2. Modules

| module | models | notes |
|---|---|---|
| `TaskLock` | `task_lock_t` | every racing access is a step |
| `AbstractLock` | the reader/writer lock the callers expect | two sets, four lines of actions |
| `BrokerState` | what the threads share: sessions, topic list, queues, peers | variables, `Init`, helpers |
| `MQTTSession` | io threads: accept, read, `message_process` | extends `BrokerState` |
| `BrokerMQTTPublisher` | endpoint writers and `MQTTSession::send` | extends `BrokerState` |
| `DDSBridge` | DDS listener and DDS publisher | extends `BrokerState` |
| `Broker` | the process: all threads, `main`, and the properties | composes the three above |
| `Counting` | how often a value occurs in the histories and queues; sums | cardinalities of sets of positions |
| `QueueOps` | a queue as `Broker` uses it | `AbstractQueue` for calls of one element |
| `AbstractQueue` | what a queue promises: FIFO streams, each element handed to one call | |
| `QueueState` | the memory of one moodycamel queue and its threads | variables, `Init`, helpers |
| `LightweightSemaphore`, `FreeList`, `ProducerHash`, `ImplicitProducer` | its parts | each extends `QueueState` |
| `BulkOperations`, `ExplicitProducer` | `enqueue_bulk`, `dequeue_bulk`; producer tokens | extend `ImplicitProducer` |
| `BlockingConcurrentQueue` | the queue, its destruction, and the properties | composes the parts above |
| `SBDP` | discovery: writer, reader, multicast group | |
| `BrokerParticipant` | `main()` of several processes | extends `SBDP` |
| `MCTaskLock`, `MCBroker`, `MCQueue`, `MCBrokerParticipant` | instances for TLC | scripts, workloads, symmetry |
| `TaskLockProofs` | theorems about the lock | TLAPS |
| `BrokerProofs` | types of the broker, and that sessions never dangle | TLAPS |
| `SessionProofs` | handlers, ids and subscriptions | extends `BrokerProofs` |
| `CountingProofs` | lemmas about `Counting` | TLAPS |
| `ForwardProofs`, `AnswerProofs` | exactly once to DDS, exactly one answer | extend `SessionProofs`, `CountingProofs` |
| `BrokerParticipantProofs` | theorems about discovery and `main` | TLAPS |
| `QueueProofs` | the queue's permits, wake-ups and owners of producers | extends `CountingProofs` |

### TaskLock

The variables are the fields of `task_lock_t`; `lock_mutex` is the owner of the
boost mutex; `pc[t]` is the position of thread t, `tmp[t]` the register of a
`++` or `--` that is not atomic. `WEnter`, `REnter` and `UEnter` are the
`scoped_lock` temporaries: a wait until the mutex is free that holds nothing
afterwards. `WIncLoad`/`WIncStore` are `pending_writers++` outside the mutex;
`WLock` is `Lock_t wait_cond`, and the acquisition inside `wait` after a wakeup;
`WCheck` the loop condition; `WWait` enters the wait set and frees the mutex;
`WDecLoad`/`WGrant` are the decrement and the grant, under the mutex, with the
decrement still racing against the increments outside. The `U...` actions are
the tests, resets and notifications of `unlock`, one shared access each.
`SpuriousWakeup` is what `condition_variable::wait` permits. The section
between lock and unlock is that of the CONNECT handler (`client_no++`,
`get_count()`) for a writer and SBDP's announcement for a reader.

`task_lock_t mutex` is `static` in a header: every translation unit has its own.
`MQTTSession.cpp`'s copies are only ever locked for writing, by the io threads;
`BrokerParticipant.cpp`'s copy is locked by SBDP's reader thread (for writing)
and SBDP's writer thread (for reading). So no copy has two readers.

### BrokerState, MQTTSession, BrokerMQTTPublisher, DDSBridge, Broker

A session is a number, which is its address: `std::set<shared_ptr>` is ordered
by address, and `get_client` returns the first session with the id. `stage[s]`
is where the session's receive loop stands; `clients` is `mqtt_clients`;
`topic_list[n]` a sequence of raw pointers; `q` and `dq` the two queues, one
sequence per producer thread (the guarantee moodycamel documents).
`rcvd`, `wire` and `ddsOut` are histories: packets handled, frames written,
messages published.

A handler of an io thread is a list of operations on shared state, computed
from the packet by `message_process`; each operation is a step of its own
(`Insert`, `Identify`, `AddToTopic`, `EnqueueMQTT`, `EnqueueDDS`, `Read`,
`Reaccept`), so handlers interleave between them as they do in the code. The
session's own `MQTT_publish_map` is touched by its one outstanding handler only
and is updated at once. CONNECT's numbering of the clients is the subject of
`TaskLock` and is left out here, and so is the waiting of SUBSCRIBE for its lock.

A writer goes `idle`, `find` (a task for `"-99"`: copy the topic's list),
`lookup` (`get_client`), `decide` (`sub_requested`, put back), `write`
(`MQTTSession::send`), once per target. What the code reads without a lock,
while an io thread is about to write it, is the old value, the new value, or
the end of the process (`WriterRace`, `ListenerRace`). A PUBREL for an unknown
identifier dereferences `end()`: the message is `Garbage`, the process ends, or
decoding throws and the handler returns (`PubrelFault`). `async_write` is given
a buffer that dies with `send`: with `DeferredWrites`, a frame may be torn.
`MainReturns`, `ListenerEnd`, `PublishDDS` hold the three ways in which the
process ends by itself.

The environment is one of `Environments`, chosen in `Init`: `env.script[s]` is
what the peer of s sends (PUBREL only after its client has received PUBREC);
sessions in `env.losable` may break; `env.maxChunk` bounds the packets in one
receive; `env.samples` are what DDS delivers; `env.writers` are the endpoint
writers that run; `env.deferred` lets `async_write` complete late. `StartsAfter`
delays a peer until others are subscribed, `MaxWire` bounds the frames on one
socket. The two queues are the operators of `QueueOps`, one FIFO per producer
thread; that the library provides them is the subject of the next section.

Data that is abstracted: packets are records of the fields the control depends
on, the codec (`MQTTPacket/`, not in the repository) is their constructors, a
payload is a message with two attributes (malformed, too long), logging is left
out. The PUBLISH branch ignores the packet's topic: the writers and the
listener always use `"GPS"`, as does the model. Every frame is sent as 1024
bytes, whatever its length; the surplus is not modelled.

### The moodycamel queue

`src/moodycamel/` is vendored, but every message of the broker passes through
it and every hand-over between its threads is this code. A step is one atomic
operation of the code (a load, store, `fetch_add` or compare-exchange with the
private work around it); `pc[t]` is the next one of thread t's call and `lv[t]`
its local variables. Interleavings are sequentially consistent: the memory
orders the code asks for are taken to suffice.

* `LightweightSemaphore`: `m_count` and the semaphore of the operating system,
  `m_sema`. `tryWait`, the spinning, the sleep with or without a time-out, the
  restoring of the count after a time-out, `waitMany`, `signal`.
* `FreeList`: the initial pool, `malloc`, and the list with its reference
  counts and the `SHOULD_BE_ON_FREELIST` bit.
* `ProducerHash`: `get_or_add_implicit_producer` with the growing of the hash
  table by one thread while others insert, the reuse of producers, and
  `implicit_producer_thread_exited`. A thread of the model has one
  `ProducerToken` at a time: it makes one when its last one is not `valid`, and
  enqueues with one that is.
* `ImplicitProducer`: `enqueue` and `dequeue` of one thread's sub-queue, the
  block index with its wrapping indexes (`IndexMod` is 2^w), and `try_dequeue`.
* `BulkOperations`: the same for several elements, with the way back when a
  block, an index or a constructor fails.
* `ExplicitProducer`: the sub-queue of a `ProducerToken`, a ring of blocks with
  flags for the elements that are empty. `enqueue` is an `enqueue_bulk` of one
  element where the two agree.
* `BlockingConcurrentQueue`: a permit of the semaphore per element, `Destroy`
  (the destructors) once all calls have returned.

`log[p]` and `taken[p]` are histories: what was published in sub-queue p, and
how much of it is claimed. A publication is the store of `tailIndex`, a claim
the `fetch_add` of `headIndex`; the refinement to `AbstractQueue` maps them to
`Put` and `Take`.

### SBDP and BrokerParticipant

One instance has several processes. `net` is a set of datagrams, each with its
receiver: taking any of them is reordering, keeping one that was received is
repetition, `Lose` is loss; errors of a call, time-outs and these draw on
`MaxFaults`. `Terminate` ends a process and `Start` may start it again.

The two threads of the discovery share `BrokerParticipant.cpp`'s copy of
`SBDP_THREAD::mutex`, one as its only reader and one as its only writer. Their
steps are those of `TaskLock` as far as two such threads can tell them apart:
the test under `lock_mutex`, which is kept until the thread is in the wait set
(`rwait`, `wwait`); the passing of `lock_mutex` at the start of `unlock`
(`Announce`, `add_broker`); and the reset with the notification, without it
(`async_send_to`, `async_receive_from`). Each pending counter has one thread
that writes it, so it is where that thread is; a thread is counted before it
tests, so `unlock` notifies the right condition variable whenever a test in vain
came before the reset, and the reset and the notification can be one step. A
thread between its test and its wait set misses it. The constructor's `rlock`
runs before the two threads exist.

What the code does that is easy to overlook:

* `BROKER_CONFIG` is also an empty macro, so `BROKER_ID` in the reader
  (`SBDPBuiltinEndpointDataReader.h:88`) is the main broker's id in every
  process; the member `broker_id` is not used. So nobody lists the main broker,
  and an alternative broker lists itself.
* The reader stops for good at its first receive error, the writer at its first
  send error and after fifty announcements.
* The branch of `broker_trigger == 2` cannot be reached (`BrokerParticipant.cpp:103`).
* Every return of `main` meets joinable threads, whose destructors end the
  process; and when the loop ends as intended, `join` never returns, because
  `work` keeps the io service running: lines 326-337 are not reached.

## 3. What TLC checks

| run | instance | properties | states |
|---|---|---|---|
| `lock_exclusion` | 2 writers, 1 reader, 2 calls each | `TypeOK`, `WriterExclusion`, `ReaderWriterExclusion`, `UniqueNumbers`, `OwnerStep`, `ImplementsLock` | 259,374 |
| `lock_lost_wakeup` | 2 writers, fair | `WaitersSignalled` is violated | |
| `lock_two_readers` | 1 writer, 2 readers | `ReaderWriterExclusion` is violated | |
| `qos2` | 2 io threads; a publisher that repeats PUBLISH and PUBREL, with up to 2 packets per receive; or 2 publishers with one packet identifier; or a client that releases over a second connection while the first may break | `AnsweredOnce`, `ForwardedOnce` | 591,911 |
| `subscribe` | 2 writers, a publisher, a subscriber whose connection may break, torn writes; or 1 writer, 2 subscribers, 2 samples, the second malformed and too long, exit after 1 | `TypeOK`, `SessionsAlive`, `OnlySubscribers`, `SampleAtMostOnce`, `SubackBeforePublish` | 781,788 |
| `liveness` | a subscriber, then a publisher with two messages, fair | `Answered`, `Delivered` | 13,226 |
| `duplicates` | 2 subscribers, one of which publishes | `DeliveredAtMostOnce` is violated | |
| `queue` | 34 workloads of up to 4 threads, fair | `TypeOK`, `PermitsAreElements`, `WakeupsMatchSleepers`, `BlockInOnePlace`, `NothingLeaks`, `BlocksStayUsable`, `LookupsFind`, `ElementsIndexed`, `OneProducerPerThread`, `TablesKeepRoom`, `ImplementsQueue`, `NoElementLeftBehind` | 187,451 |
| `queue_failed_bulk` | a producer with a token whose `try_enqueue_bulk` fails halfway | `ElementsIndexed` is violated | |
| `participant` | 2 brokers, 3 announcements; or the alternative one alone with a client and 2 DDS publishers; 1 fault, fair | `TypeOK`, `ListIsFirstHeard`, `HangsOnlyByLateWait`, `Discovered`, `CompletionNoticed` | 140,157 |
| `participant_port` | the instance of `participant` | `PortIsServed` is violated | |
| `participant_wait` | the instance of `participant` | `BlocksUntilPublisherCompletes` is violated | |

What they say:

* **The lock excludes** (`WriterExclusion`, `ReaderWriterExclusion`) although
  `unlock` does not hold the mutex, and it implements `AbstractLock`: a thread
  is granted the lock only when the abstract lock allows it, and gives it back
  once. `UniqueNumbers` and `OwnerStep` are what the CONNECT handler needs.
* **It may not wake its waiters.** `unlock` decides from counters it reads
  without the mutex, and notifies without it: a thread between its test and its
  `wait` misses the signal (`WaitersSignalled`). `pending_writers++` can also be
  lost against `pending_writers--`. The comment at `DDSThread.h:93` promises a
  signal. Two readers are not safe either, because `unlock` sets `reader_number`
  to 0 for both; no live copy of the lock has two.
* **QoS 2**: a message is forwarded to DDS exactly once per completed
  exchange, under repetition, joined packets, two clients with one identifier
  and reconnection. A PUBREL over a new connection finds no stored message: the
  message is lost and what is forwarded is garbage, or the process ends.
* **Answers**: each handled packet is answered once, to one session of its
  client. After a reconnect this may be the old, dead session: the answer is
  then lost, never duplicated.
* **Sessions never dangle**, because nothing removes a session from
  `mqtt_clients` (the `erase` calls are commented out). The mutant of this
  property is the code with them restored: the raw pointers in the topic list
  would dangle.
* **Subscribers**: nobody receives a message without having subscribed; with
  one writer and writes that complete at once, SUBACK precedes the first
  PUBLISH on the wire (with two writers it need not, and a deferred write may
  send something else in its place). A DDS sample is written once per subscription. A message from
  an MQTT client may be written to one subscriber twice when another subscriber
  has no SUBACK yet (`duplicates`).
* **Delivery**: with one io thread, every accepted message reaches DDS and the
  subscribers that were there before, every packet is answered, unless the
  process ends. With several io threads two messages of one session may reach DDS
  in the other order: they are in the sub-queues of two threads, and nothing in
  the code orders these.
* **The queue is a queue** (`ImplementsQueue`): every element that enters a
  stream is handed to exactly one call, in order, whatever consumers claim too
  much, whichever blocks, producers, hash slots and indexes are used again. Its
  permits are its elements (`PermitsAreElements`), a timed wait neither loses
  nor keeps a wake-up (`WakeupsMatchSleepers`), and no element stays behind
  while a dequeue waits (`NoElementLeftBehind`): the writers' `wait_dequeue`
  neither spins on an empty queue nor sleeps beside a task. The free list
  survives ABA (`BlockInOnePlace`), threads that come, end and come back have
  one producer each (`OneProducerPerThread`), and the destructors find all
  that is left (`NothingLeaks`).
* **But not after every failure.** A bulk enqueue with a token that fails
  halfway leaves empty blocks in the ring that are no longer counted in the
  index; later enqueues overwrite the entry of a block that still holds
  elements (`queue_failed_bulk`). An element whose constructor throws at the
  start of a block (`enqueue` with a token, `concurrentqueue.h:1922-1924`)
  leaves the block marked as in use for ever; `BlocksStayUsable` and
  `NothingLeaks` fail with such a call, and the workloads of `queue` contain
  none. The broker uses neither tokens nor bulk operations.
* **Discovery**: the list holds the first announcement of every id that was
  heard, once (`ListIsFirstHeard`), so the client count in it is never updated;
  a broker is found while it has more announcements to make than there will be
  faults (`Discovered`), and never afterwards. It is not found when one of the
  two threads hangs in the lock, which loses wake-ups as `lock_lost_wakeup`
  shows: if the announcing thread has tested while the other one lists a broker,
  and enters the wait set after the notification, it never announces again; if
  the listing thread is the one that is late, the broker is never listed, and as
  `pending_writers` stays 1 the announcing thread hangs at its next announcement
  too. Nothing else makes them hang: a thread that is in the wait set before the
  other one unlocks is woken (`HangsOnlyByLateWait`), and `Discovered` excepts a
  hang of this kind and no other. Only ids other than the main broker's are
  listed, each once, so a process meets this once in its life. The announced
  port is the main broker's, whoever announces (`participant_port`).
* **main** notices that the last publisher has left, also when it leaves between
  the status and the wait (`CompletionNoticed`); but 180 seconds without a change
  end the process while a publisher is matched (`participant_wait`).

Why the bounds suffice. The races need two threads of a kind and one of each
other kind; every such pair is in some run. Two sessions are the least in which
identities, identifiers and addresses can be confused. Scripts are as long as
one complete exchange plus its repetitions. `MaxWire` is at least the number of
frames a script can cause, except where tasks circulate, and only postpones a
write there. Deadlock is not checked in the broker's runs: a script ends, and
so does the process.

The queue's constants are the least at which every case of the code happens:
blocks of 2 elements, a pool of 2 blocks and 1 from `malloc` (so that blocks are
used again and run out), a block index of 2 entries that can grow once, indexes
modulo 16 (so that they wrap), hash tables of 4 slots that grow twice, 4
producers, bulk operations of 3 elements (two blocks), one spin. All calls by 4
threads in any order would be far out of reach; the 34 workloads of `MCQueue`
each put one part under contention. `turns` makes the first calls one after
another, to bring the queue into the state of interest (a full block, an empty
pool, an index about to wrap); from there on all interleavings are explored.
`memory` says what `malloc` can provide.

In `participant` the alternative broker makes two announcements and the main
one one: with one fault, the other one must still be heard. Its loss,
repetition, the failure of a send, of a receive, of the creation of an entity, a
spurious wakeup, and the time-out with a restart are each a fault. A broker
hears its own announcements, so the two threads of the alternative broker
contend for the lock, also when it is alone; there a client makes its two
announcements differ, and publishers come and leave. The safety properties are
proved for all brokers, announcements, clients, publishers and faults.

Fairness. `TaskLock!FairSpec` and `Broker!FairSpec` ask weak fairness of each
thread's step: the operating system runs every thread that can run, a blocked
`wait` or `wait_dequeue` is not enabled. Nothing is assumed about spurious
wakeups or about peers. A DDS reader is assumed to match eventually (`Match`):
without one, `Broker_Publisher::work` waits for ever. The liveness run has one
io thread, because with several a handler may hang in `task_mutex_wlock`.
`BlockingConcurrentQueue!FairSpec` is weak fairness of each thread; a sleeping
thread is enabled by its wake-up, a timed one by its time-out.
`BrokerParticipant!FairSpec` lets `main` and the io threads run, timers expire
and a datagram arrive that is not lost; nobody has to start a process, no
publisher has to come or leave, and no thread in a wait set has to wake up by
itself. There spurious wakeups are finitely many (`MaxFaults`): a thread that
woke up for ever could keep `lock_mutex` from the other one.

## 4. What is proved

For every value of the constants, by TLAPS:

| theorem | statement | assumptions |
|---|---|---|
| `TaskLockProofs!TypeCorrect` | `Spec => []TypeOK` | the module's |
| `TaskLockProofs!Exclusion`, `ReadersExcluded` | writers exclude each other and the reader | at most one reader |
| `TaskLockProofs!NumbersUnique` | client numbers of different threads differ | at most one reader |
| `TaskLockProofs!HolderOwns` | `OwnerStep` | at most one reader |
| `TaskLockProofs!Refinement` | `Spec => ImplementsLock` | at most one reader |
| `BrokerProofs!BrokerTypeCorrect` | `Spec => []TypeOK` | those of `BrokerState` |
| `BrokerProofs!NoDanglingSession` | `Spec => []SessionsAlive` | the same |
| `SessionProofs!SubscribersOnly` | `Spec => []OnlySubscribers` | the same, and `ConnectFirst` |
| `SessionProofs!SubackFirst` | `Spec => []SubackBeforePublish` | those of `BrokerState` |
| `ForwardProofs!ForwardedExactlyOnce` | `Spec => []ForwardedOnce` | the same |
| `AnswerProofs!AnsweredExactlyOnce` | `Spec => []AnsweredOnce` | the same, and `ConnectFirst` |
| `BrokerParticipantProofs!ParticipantTypeCorrect` | `Spec => []TypeOK` | those of `SBDP`, `BrokerParticipant` |
| `BrokerParticipantProofs!FirstHeardStays` | `Spec => []ListIsFirstHeard` | the same |
| `BrokerParticipantProofs!MissedOnlyByLateWait` | `Spec => HangsOnlyByLateWait` | the same |
| `QueueProofs!PermitsTheorem` | `Spec => []PermitsAreElements` | those of `QueueState` |
| `QueueProofs!WakeupsTheorem` | `Spec => []WakeupsMatchSleepers` | the same |
| `QueueProofs!OneProducerTheorem` | `Spec => []OneProducerPerThread` | the same |

The assumptions of `BrokerState` say that the kinds of values are different
(an address is no client id, `"-99"` is nobody's, garbage is no application
message), what an environment is, and that there are finitely many sessions and
threads, without which nothing could be counted. `ConnectFirst` is MQTT's rule
that CONNECT is the first packet of a connection, and the only one. The code
does not enforce it: a SUBSCRIBE before CONNECT is answered to the empty id,
that is, to any session that has no id either, and a second CONNECT moves the
answers still on their way to another client. The properties that name a client
therefore hold for peers that keep the rule; `MCBroker` asserts that its scripts
do, so the runs and the theorems speak of the same peers. The others hold for
all peers. The assumptions of `QueueState` give the constants their kinds: there
are finitely many threads, whose names are not the marks of free slots, blocks
and indexes have at least two places, and the indexes wrap at a multiple of two
blocks. Nothing is assumed of the calls the threads make.

The lock. `WriterExclusion` alone is not inductive: `unlock` resets
`writer_number` without the mutex, so one must know that whoever does so is the
holder, and that nobody else is between a successful test and the grant while
the counters are 0. `LockInv` says: a thread at a step that holds the mutex owns
it (`OwnerInv`); writers are at writers' steps and readers at readers'
(`RoleInv`); while a writer holds the lock `writer_number` is 1 and
`reader_number` 0, while the reader holds it the other way round, and a thread
that has passed its test still finds the counters as it tested them (`CountInv`). The grants are
serialised by the mutex; resets only make tests succeed and never a passed test
wrong: this is why a release without the mutex is safe. With two readers
`CountInv` fails at the first reset, as the run shows. `NumberInv` adds that
numbers given out are at most `client_no`. The refinement maps holders to
`AbstractLock`'s sets and needs `LockInv` at the grants only.

The broker's types and pointers. `TypeOK` needs what a thread's earlier steps
left it with: `HandlerInv` (a handler with work has a session), `WriterInv` (a
writer past `idle` has a task, past `find` a target, past `lookup` a session),
`ListenerInv` (a listener with a sample has taken it). `SessionsAlive` needs
`StageInv` (a session that receives is in `mqtt_clients`) and `InsertedInv` (a
handler's session is in it, unless its next operation is the insertion):
pointers enter the topic list through SUBSCRIBE's handler, which runs after
`start` inserted the session, and nothing removes it.

Subscriptions. The code has no lock per session; what protects a session's
fields is that it has one outstanding receive or one handler, never both
(`ServeInv`). With `ConnectFirst` a session's id is therefore set once
(`IdInv`, `IdsKept`). `SubInv` follows a SUBACK from the handler through the
queue and the writer to `sub_requested`: wherever it is, it names a client that
has asked (`Entitled`), and a writer past `decide` with a PUBLISH has found the
mark. `SubackFirst` needs no rule about the peers. It rests on there being one
writer: between the step that sets the mark and the write of that SUBACK,
nobody else writes (`SubackOut`), and a socket that is lost in between stays
lost (`DeadStays`).

Counting. "Exactly once" is an equation between numbers of occurrences.
`Counting` defines them as cardinalities of sets of positions, with no
recursion, so that the provers need no induction: `CountingProofs` shows what
`Append` and `Tail` do to a count, from the library's facts on finite sets, and
that a change of one member of a family of sets changes the family's total by
the same amount.

Forwarding. `ForwardInv` is the equation of `ForwardedOnce` together with
`MapInv` (`MQTT_publish_map` holds for each identifier what the session's
history of packets says: the message of the last PUBLISH unless a PUBREL
followed) and `OneDDS` (a handler has at most one message for DDS, so one that
is cut short by `PubrelFault` loses nothing else). A repeated PUBREL finds the
entry gone and forwards `Garbage`, which the equation does not count.

Answers. The answer leaves a session's handler addressed to a client id and is
written to whichever session `get_client` then finds. `AddressInv` says it
cannot go astray: an answer in a handler, queue or writer is for a client with
a session in `mqtt_clients` (`HandlerTo`, `QueueTo`, `WriterTo`), so `Lookup`
never drops it, and the session a writer has found for it has that id; it has
one target, so `Advance` ends it. A session without an id has been sent no
answer and has received its CONNECT at most (`WireTo`, `ConnectInv`), so that
`set_id` moves one request and one answer to the client at once. On top of this
each step is `Balanced`, it asks for as many answers as it makes, or it `Loses`
one where a connection of the client is dead or the write is torn.

Discovery. `FirstHeardStays` needs `Stored` and `Shared`: `local_storage` is the
set of first announcements in some order without repetition, `alt_broker_list`
is it, or lacks the last element while the reader is between the two insertions,
which it is for ever when it hangs in the lock.
That both conversions lose nothing is `JsonInverse`. `MissedOnlyByLateWait` needs
`LockInv`: `lock` says which of the two threads has it, and the listing thread is
never about to wait while the announcing thread waits or is about to (it would
have found the lock free), so no step but a thread's own late wait leaves it in the
wait set with nobody to wake it.

The queue's permits. `PermitsAreElements` equates `m_count`, corrected by the
threads that sleep, with the elements that are published and not claimed, less
the permits in the hands of the threads and the signals they still owe;
`WakeupsMatchSleepers` equates the wake-ups, posted or owed, with the sleepers
that `m_count` no longer counts. Neither is inductive: a step moves one permit
between two terms, and which two depends on how the thread came to its place.
`ThreadInv` is what the code establishes for that place: a thread that searches
has found `seen` elements and a `best` producer or none (`Search`); one that
claims asks for no more than its permits (`Permits`); one that enqueues, or adds
a block to the free list, holds none, and goes back with what it came for
(`Pointing`); one that restores a count after a time-out has read a negative one
(`Waits`). `DataInv` says that every pointer of a thread, a table or the list
leads to a producer whose indexes are in range. `Owing` is a thread's share of
the four sums, and every step has an `Effect`: the semaphore and the elements
change by what the stepping thread owes less or more (`Balanced`), the others
owe what they owed (`Others`). The sums are `Counting`'s totals, in which a
change of one member changes the whole by as much, so no induction is needed.
Most of the proof shows, action by action, that a step is `KeepsOwing`; the
interesting ones are the claim (`ClaimEffect`), the publications
(`PublishEffect`, `BulkPublishEffect`) and the semaphore's. The elements are
counted in the histories `log` and `taken`; that the indexes and the contents of
the blocks agree with these is what the run checks.

The queue's producers. A sub-queue is written without synchronisation, so one
thread only may use it. `OneProducerPerThread` says so of a producer that a
thread reaches through a slot of a table, through its token, or that it has in
hand on the way between the two. It is not inductive, for a thread that looks
for a producer might already have one, and one that ends might leave a slot
behind. `OwnInv` adds `Stage` (a thread that takes over or creates a producer has
no slot in any table, or no valid token, and `implicit_producer_thread_exited`
goes down from the newest table with none left above) and `Kinds` (tables lead to
`ImplicitProducer`s, tokens to `ExplicitProducer`s, and the producer in hand is
of the kind it was sought for). A producer changes hands only where `inactive` is
set, which its owner does last, and reset, which one thread does, by the
compare-exchange. `OwnInv` rests on `QueueInv` for the pointers.

Model-checked only:

* liveness (`Answered`, `Delivered`, `WaitersSignalled`, `Discovered`,
  `CompletionNoticed`, `NoElementLeftBehind`), which the
  prover does not handle;
* `SampleAtMostOnce`, a fact about the instances that does not hold of all: two
  sessions of one client that both subscribe make the listener address two tasks
  to that client, and both may be written to the same session;
* of the queue, `TypeOK` and what is about blocks: `BlockInOnePlace`,
  `NothingLeaks`, `BlocksStayUsable`, `LookupsFind`, `ElementsIndexed` and the
  refinement `ImplementsQueue`. What is on the free list is defined by recursion
  along `freeListNext`, and that an entry is where `get_block_index_index_for_index`
  computes it holds only as long as no index is more than half of `IndexMod`
  behind another: an assumption on how far threads are delayed, which the
  instances meet and no constant states;
* `TablesKeepRoom`. A thread that was delayed between its count and its insertion
  may take a reused slot of an older table and take its count back, so
  `implicitProducerHashCount` is not the number of slots in use in any one table,
  and no bound on it gives the free slot. In the run every table keeps one.

## 5. What is not modelled

* The contents of a torn frame, and two writers using one socket at the same
  time (undefined in asio): a frame is written whole or is `TORN`.
* Failure of the DDS `write`, which the code does not look at.
* SUBACK carries `client_n` instead of the packet identifier of the SUBSCRIBE,
  and PINGREQ is not answered: clients that insist on either will disconnect.
* Task ids: `task_count++` races and is stored in a `short`, against "The task
  id should be unique and identifiable" (`Broker/BrokerTask.h:7`); the ids are
  only written to the log.
* Of the queue: weak memory orders; consumer tokens (which only choose
  the sub-queue to look at first); moving and swapping of tokens and queues;
  a throwing assignment in a dequeue and a throwing constructor in an
  `enqueue_bulk` with a token; a first block index that `malloc` refuses in the
  constructor of a producer, of a token or of a thread (`concurrentqueue.h:1785`,
  `2428`; an implicit producer without one refuses every enqueue for good,
  `2904`); a sub-queue that is full (2^63 elements); `size_approx`.
  `RECYCLE_ALLOCATED_BLOCKS` is false, as in the default traits.
* Of the discovery: a datagram that is not an announcement (the parser throws
  and the thread ends) or that fills the buffer of 1024 bytes; `remove_broker`,
  `get_broker`, `delete_broker`, which nothing calls.
* `DDSThreadPool` and `BrokerDataReaderListener`: no code creates one.
* The legacy session (`Broker/BrokerSubscriber.*`, `DdsBrokerImpl`,
  `BrokerTaskQueue`): its start is commented out (`BrokerParticipant.cpp:114-121`),
  and without it no state of it is one the program can be in.
* `TCPHandler`, `HTTPHandler`: every live call is commented out.
* The MQTT codec is not in the repository; the type support is generated.

## 6. State and plan

Done: the lock; the path of a message; the queue; discovery and `main`; proofs
of types, exclusion, the refinement of the lock, `SessionsAlive`,
`OnlySubscribers`, `SubackBeforePublish`, `ForwardedOnce`, `AnsweredOnce`,
`ListIsFirstHeard`, `PermitsAreElements`, `WakeupsMatchSleepers` and
`OneProducerPerThread`. Possible next steps:

1. `BlockInOnePlace` by an invariant that names the members of the free list in
   a history variable instead of following `freeListNext`; then the type
   invariant of the queue.
2. `SampleAtMostOnce` for clients with different ids.
3. An abstract QoS 2 receiver that `Broker` implements.
4. `README.md:351-355` of the repository gives the roles of `argv[3]` the other
   way round and calls the number of samples after which the process exits "max
   retain queue message": to be stated against `BrokerParticipant`.
