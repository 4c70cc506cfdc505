----------------------------- MODULE QueueState ------------------------------
(***************************************************************************)
(* The shared memory of one moodycamel::BlockingConcurrentQueue             *)
(* (src/moodycamel/) and the threads that use it.  LightweightSemaphore,    *)
(* FreeList, ProducerHash and ImplicitProducer extend this module with the  *)
(* steps of their functions, one atomic operation each;                     *)
(* BlockingConcurrentQueue composes them.                                   *)
(***************************************************************************)
EXTENDS Integers, Sequences, FiniteSets

CONSTANTS
  Threads,      \* threads that enqueue or dequeue
  Free,         \* details::invalid_thread_id: an unused slot of a hash table
  Reusable,     \* details::invalid_thread_id2: the slot of a thread that exited
  Hash,         \* Hash[t]: details::hash_thread_id
  Workloads,    \* the calls that the threads may make, see program and turns
  BulkSize,     \* the count that bulk operations are called with
  BlockSize,    \* BLOCK_SIZE
  PoolSize,     \* initialBlockPoolSize
  HeapBlocks,   \* bound: blocks that malloc can provide at a time
  IndexSize,    \* IMPLICIT_INITIAL_INDEX_SIZE
  MaxIndexes,   \* bound: block index headers of a producer
  IndexMod,     \* 2^w for the w bits of index_t
  HashSize,     \* INITIAL_IMPLICIT_PRODUCER_HASH_SIZE
  MaxTables,    \* bound: hash tables
  MaxProducers, \* bound: ImplicitProducers
  MaxSpins      \* MAX_SEMA_SPINS

Null == 0
Pool == 1..PoolSize                       \* blocks of the initial pool
Blocks == 1..(PoolSize + HeapBlocks)
INVALID_BLOCK_BASE == 1

NoItem == <<>>
Items == Threads \X Nat \X Nat             \* the k-th element of the n-th call of a thread
(* Calls of enqueue whose element's constructor throws. *)
Throwing == {"enqueue_throws", "enqueue_bulk_throws", "token_enqueue_throws"}
TokenBulkEnqueues == {"token_enqueue_bulk", "token_try_enqueue_bulk"}
BulkEnqueues == {"enqueue_bulk", "try_enqueue_bulk", "enqueue_bulk_throws"}
BulkDequeues == {"wait_dequeue_bulk", "wait_dequeue_bulk_timed", "try_dequeue_bulk"}
Enqueues == {"enqueue", "try_enqueue", "enqueue_throws"} \cup BulkEnqueues
Dequeues == {"wait_dequeue", "wait_dequeue_timed", "try_dequeue"} \cup BulkDequeues
(* Calls of enqueue with a ProducerToken: of its ExplicitProducer. *)
TokenEnqueues ==
  {"token_enqueue", "token_try_enqueue", "token_enqueue_throws"} \cup TokenBulkEnqueues
(* AllocationMode CannotAlloc *)
TryEnqueues == {"try_enqueue", "try_enqueue_bulk", "token_try_enqueue", "token_try_enqueue_bulk"}
TryDequeues == {"try_dequeue", "try_dequeue_bulk"}
TimedDequeues == {"wait_dequeue_timed", "wait_dequeue_bulk_timed"}
Calls == Enqueues \cup TokenEnqueues \cup Dequeues \cup {"exit", "token", "drop_token"}

(* How much malloc can provide before it returns nullptr. *)
Memory == [tables : 1..MaxTables, producers : 1..MaxProducers, indexes : 1..MaxIndexes]

ASSUME SizesAssumption ==
  /\ {BulkSize, BlockSize, IndexSize, MaxIndexes, IndexMod, HashSize, MaxTables, MaxProducers}
       \subseteq Nat \ {0}
  /\ BlockSize > 1 /\ IndexSize > 1 /\ IndexMod % (2 * BlockSize) = 0
  /\ PoolSize \in Nat /\ HeapBlocks \in Nat /\ MaxSpins \in Nat
ASSUME ThreadsAssumption ==
  /\ IsFiniteSet(Threads) /\ Free \notin Threads /\ Reusable \notin Threads /\ Free # Reusable
  /\ Hash \in [Threads -> Nat]
  /\ \A w \in Workloads :
       /\ w.calls \in [Threads -> Seq(Calls)] /\ w.turns \in Seq(Threads)
       /\ w.memory \in Memory

VARIABLES
  \* the threads
  program,      \* program[t]: the calls t still has to make or finish
  memory,       \* what malloc can provide, fixed
  turns,        \* the threads that make their next call alone, before the others start
  pc,           \* pc[t]: the next atomic operation of t's current call
  lv,           \* lv[t]: the local variables of t's current call
  \* LightweightSemaphore
  m_count, m_sema,
  \* FreeList and the blocks
  freeListHead, freeListRefs, freeListNext,
  initialBlockPoolIndex,
  heap,         \* blocks allocated with malloc
  elements,     \* elements[b][i]
  elementsCompletelyDequeued,
  \* producers
  prod,         \* the ImplicitProducer objects, by address
  producerListTail,
  \* the implicit producer hash
  tables,       \* the hash tables, the current one last
  implicitProducerHashCount,
  resizing,     \* implicitProducerHashResizeInProgress
  \* history
  log,          \* log[p]: every element that was published in producer p
  taken,        \* taken[p]: how many of them a consumer has claimed
  got,          \* got[t]: the elements that t's calls returned
  freedAtEnd    \* how often the destructor freed each block, once it has run

control == <<program, memory, turns, pc, lv>>
semVars == <<m_count, m_sema>>
blockVars == <<freeListHead, freeListRefs, freeListNext, initialBlockPoolIndex, heap,
               elements, elementsCompletelyDequeued>>
prodVars == <<prod, producerListTail>>
hashVars == <<tables, implicitProducerHashCount, resizing>>
history == <<log, taken, got>>
vars == <<control, semVars, blockVars, prodVars, hashVars, history, freedAtEnd>>

-----------------------------------------------------------------------------
(* Control *)

NoLocals == [
  old |-> 0, spin |-> 0,                                        \* semaphore
  main |-> 0, count |-> 0, slot |-> 0, ptr |-> 0, fail |-> FALSE,  \* hash
  entry |-> 0, blk |-> 0,                                       \* enqueue, dequeue
  head |-> 0, next |-> 0, refs |-> [n |-> 0, should |-> FALSE], \* FreeList
  node |-> 0, link |-> 0, again |-> FALSE,
  prod |-> 0, best |-> 0, size |-> 0, seen |-> 0, rest |-> FALSE, \* try_dequeue
  tail |-> 0, over |-> 0, my |-> 0, index |-> 0, hdr |-> 0,     \* dequeue
  items |-> <<>>, pos |-> 0,
  permits |-> 0, want |-> 0,                                    \* bulk dequeue
  chain |-> <<>>, freed |-> <<>>,                               \* bulk enqueue
  saved |-> <<>>]                                               \* with a token

At(t, label) == pc[t] = label
Call(t) == Head(program[t])
Calling(t, calls) ==
  /\ pc[t] = "idle" /\ program[t] # <<>> /\ Call(t) \in calls
  /\ turns # <<>> => Head(turns) = t
Loc(t) == lv[t]
Bulk(t) == Call(t) \in BulkEnqueues \cup TokenBulkEnqueues \cup BulkDequeues
Token(t) == Call(t) \in TokenEnqueues
(* How many elements t's call is about. *)
Size(t) == IF Bulk(t) THEN BulkSize ELSE 1
Least(m, n) == IF m < n THEN m ELSE n

(* The next operation of t, with these local variables. *)
Go(t, label, locals) ==
  /\ pc' = [pc EXCEPT ![t] = label]
  /\ lv' = [lv EXCEPT ![t] = locals]
  /\ UNCHANGED <<program, memory, turns>>

(* The call of t returns. *)
Return(t) ==
  /\ program' = [program EXCEPT ![t] = Tail(@)]
  /\ turns' = IF turns = <<>> THEN turns ELSE Tail(turns)
  /\ pc' = [pc EXCEPT ![t] = "idle"]
  /\ lv' = [lv EXCEPT ![t] = NoLocals]
  /\ UNCHANGED memory

(* A bulk dequeue goes on to the next producer of the list, after the last  *)
(* one to the first.                                                        *)
NextProducer(t, l) ==
  LET next == prod[l.prod].next
  IN Go(t, IF next = Null THEN "b_scan" ELSE "deq",
        [NoLocals EXCEPT !.permits = l.permits, !.items = l.items, !.prod = next])

(* t has dealt with a block.  An enqueue_bulk that failed has others to     *)
(* free, a bulk dequeue more elements to read or to look for; else the call *)
(* returns, a dequeue with its elements.                                    *)
Proceed(t, l) ==
  \/ /\ l.freed # <<>>
     /\ Go(t, "f_add", [l EXCEPT !.blk = Head(l.freed), !.freed = Tail(@)])
     /\ UNCHANGED got
  \/ /\ l.freed = <<>> /\ l.want > 0
     /\ Go(t, "b_read", l)
     /\ UNCHANGED got
  \/ /\ l.freed = <<>> /\ l.want = 0 /\ l.permits > 0
     /\ NextProducer(t, l)
     /\ UNCHANGED got
  \/ /\ l.freed = <<>> /\ l.want = 0 /\ l.permits = 0
     /\ got' = [got EXCEPT ![t] = @ \o l.items]
     /\ Return(t)

-----------------------------------------------------------------------------
(* Arithmetic of index_t *)

(* details::circular_less_than *)
circular_less_than(a, b) == (a - b) % IndexMod > IndexMod \div 2
Minus(a, b) == (a - b) % IndexMod
Plus(a, b) == (a + b) % IndexMod

(* ImplicitProducer's constructor: an empty sub-queue and the first block   *)
(* index, whose entries are unused.  The last four fields are those of an   *)
(* ExplicitProducer alone.                                                  *)
Unused == [key |-> INVALID_BLOCK_BASE, value |-> Null]
NewProducer(next) ==
  [explicit |-> FALSE, token |-> Free, tailIndex |-> 0, headIndex |-> 0, dequeueOptimisticCount |-> 0, dequeueOvercommit |-> 0,
   tailBlock |-> Null, inactive |-> FALSE, next |-> next,
   entries |-> [i \in 1..IndexSize |-> Unused],
   headers |-> <<[tail |-> IndexSize - 1, index |-> [i \in 1..IndexSize |-> i]]>>,
   pr_blockIndexSlotsUsed |-> 0, pr_blockIndexFront |-> 0, ring |-> <<>>,
   empty |-> [b \in Blocks |-> {}]]

(* ExplicitProducer's: no slot of the index is exposed (front).  Its blocks *)
(* form a ring (Block::next), which it keeps until the queue is destroyed;  *)
(* empty[b] are the offsets of b whose emptyFlags are set.                  *)
NewExplicitProducer(next) ==
  [NewProducer(next) EXCEPT !.explicit = TRUE, !.headers[1].tail = -1]

(* ProducerToken::valid, of t's token: a thread has one at a time. *)
valid(t) == \E p \in DOMAIN prod : prod[p].token = t

(* populate_initial_implicit_producer_hash, and the tables that replace it. *)
EmptyTable(capacity) ==
  [i \in 1..capacity |-> [key |-> Free, value |-> Null]]

(* The constructor of the queue. *)
Init ==
  /\ \E w \in Workloads : program = w.calls /\ turns = w.turns /\ memory = w.memory
  /\ pc = [t \in Threads |-> "idle"]
  /\ lv = [t \in Threads |-> NoLocals]
  /\ m_count = 0 /\ m_sema = 0
  /\ freeListHead = Null
  /\ freeListRefs = [b \in Blocks |-> [n |-> 0, should |-> FALSE]]
  /\ freeListNext = [b \in Blocks |-> Null]
  /\ initialBlockPoolIndex = 0
  /\ heap = {}
  /\ elements = [b \in Blocks |-> [i \in 0..(BlockSize - 1) |-> NoItem]]
  /\ elementsCompletelyDequeued = [b \in Blocks |-> 0]
  /\ prod = <<>> /\ producerListTail = Null
  /\ tables = <<EmptyTable(HashSize)>>
  /\ implicitProducerHashCount = 0 /\ resizing = FALSE
  /\ log = <<>> /\ taken = <<>>
  /\ got = [t \in Threads |-> <<>>]
  /\ freedAtEnd = <<>>

=============================================================================
