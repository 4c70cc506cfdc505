---------------------- MODULE BlockingConcurrentQueue -----------------------
(***************************************************************************)
(* src/moodycamel/blockingconcurrentqueue.h: a ConcurrentQueue and the      *)
(* semaphore that counts its elements.  enqueue publishes an element, then  *)
(* signals; a dequeue first takes a permit, then calls try_dequeue until it *)
(* returns an element.  The bulk operations do so with several elements.    *)
(* Every thread takes one atomic operation at a time.                       *)
(***************************************************************************)
EXTENDS LightweightSemaphore, FreeList, ProducerHash, ExplicitProducer, Counting

Step(t) ==
  \/ SemaphoreStep(t)
  \/ FreeListStep(t)
  \/ HashStep(t)
  \/ EnqueueStep(t)
  \/ DequeueStep(t)
  \/ BulkEnqueueStep(t)
  \/ BulkDequeueStep(t)
  \/ TokenStep(t)

-----------------------------------------------------------------------------
(* The destructor, once every call has returned *)

(* The blocks of producer p that still hold elements, from headIndex on. *)
LeftBlocks(p) ==
  LET r == prod[p]
      h == Header(p)
      first == Base(r.headIndex)
      n == IF r.headIndex = r.tailIndex THEN 0
           ELSE Minus(Base(Minus(r.tailIndex, 1)), first) \div BlockSize + 1
  IN [i \in 1..n |->
       r.entries[Entry(h, SlotFor(p, h, h.tail, Plus(first, (i - 1) * BlockSize)))].value]

(* Mutant: the partly consumed tail block of an empty producer stays. *)
FreedNonempty(p) ==
  LET left == LeftBlocks(p) IN
  IF left = <<>> THEN <<>> ELSE SubSeq(left, 1, Len(left) - 1) \o <<prod[p].tailBlock>>

(* ~ImplicitProducer frees all of these but the last in its loop, then the  *)
(* tail block, unless it was filled and emptied.                            *)
FreedImplicit(p) ==
  LET left == LeftBlocks(p)
      r == prod[p]
  IN SubSeq(left, 1, Len(left) - 1)
       \o (IF r.tailBlock # Null /\ (left # <<>> \/ Offset(r.tailIndex) # 0)
           THEN <<r.tailBlock>> ELSE <<>>)

(* ~ExplicitProducer frees its ring. *)
Freed(p) == IF prod[p].explicit THEN prod[p].ring ELSE FreedImplicit(p)

(* The offsets that ~ImplicitProducer destroys in block x. *)
DestroyedImplicit(p, x) ==
  {i \in 0..(BlockSize - 1) : \E k \in DOMAIN LeftBlocks(p) :
     /\ LeftBlocks(p)[k] = x
     /\ LET index == Plus(Base(prod[p].headIndex), (k - 1) * BlockSize + i)
        IN ~circular_less_than(index, prod[p].headIndex) /\ circular_less_than(index, prod[p].tailIndex)}

(* ~ExplicitProducer looks in the index for the block that headIndex is in. *)
HalfDequeued(p) ==
  LET r == prod[p]
      h == Header(p)
      entry(i) == r.entries[Entry(h, (r.pr_blockIndexFront - r.pr_blockIndexSlotsUsed + i) % IndexCapacity(h))]
      passed(i) == circular_less_than(Plus(entry(i).key, BlockSize), r.headIndex)
  IN IF Offset(r.headIndex) = 0 THEN Null
     ELSE entry(CHOOSE i \in 0..IndexCapacity(h) : ~passed(i) /\ \A j \in 0..(i - 1) : passed(j)).value

(* It destroys what follows headIndex there, and all of every other block   *)
(* that is not empty, in the tail block up to tailIndex.                    *)
DestroyedExplicit(p, x) ==
  LET r == prod[p]
      first == IF x = HalfDequeued(p) THEN Offset(r.headIndex) ELSE 0
      last == IF x = r.tailBlock /\ Offset(r.tailIndex) # 0 THEN Offset(r.tailIndex) ELSE BlockSize
  IN IF \/ \A i \in DOMAIN r.ring : r.ring[i] # x
        \/ is_empty(r, x) THEN {}
     ELSE first..(last - 1)

DestroyedIn(x) ==
  UNION {IF prod[p].explicit THEN DestroyedExplicit(p, x) ELSE DestroyedImplicit(p, x) : p \in DOMAIN prod}

(* ~ConcurrentQueue destroys the producers, and with them the elements and  *)
(* blocks that are left; blocks from malloc are destroyed (the free list    *)
(* has none), those of the pool with the pool.                              *)
Finished == \A t \in Threads : pc[t] = "idle" /\ program[t] = <<>>
Destroy ==
  /\ Finished /\ freedAtEnd = <<>>
  /\ freedAtEnd' = [x \in Blocks |->
       Cardinality(UNION {{p} \X {i \in DOMAIN Freed(p) : Freed(p)[i] = x} : p \in DOMAIN prod})]
  /\ heap' = {x \in heap : freedAtEnd'[x] = 0}
  /\ elements' = [x \in Blocks |-> [i \in DOMAIN elements[x] |->
                    IF i \in DestroyedIn(x) THEN NoItem ELSE elements[x][i]]]
  /\ UNCHANGED <<control, semVars, freeListHead, freeListRefs, freeListNext,
                 initialBlockPoolIndex, elementsCompletelyDequeued, prodVars, hashVars, history>>

(* Nobody has anything left to do, or only to wait for an element. *)
Quiet == \A t \in Threads :
  \/ pc[t] = "idle" /\ program[t] = <<>>
  \/ pc[t] = "s_sleep" /\ m_sema = 0 /\ Call(t) \notin TimedDequeues
Done == Quiet /\ (freedAtEnd = <<>> => \E t \in Threads : pc[t] # "idle") /\ UNCHANGED vars

Next == (\E t \in Threads : Step(t) /\ UNCHANGED freedAtEnd) \/ Destroy \/ Done

Spec == Init /\ [][Next]_vars

(* The scheduler runs every thread that can run. *)
FairSpec == Spec /\ \A t \in Threads : WF_vars(Step(t) /\ UNCHANGED freedAtEnd)

-----------------------------------------------------------------------------
Referring == Blocks \cup {Null}
Indexes == 0..(IndexMod - 1)
Refs == [n : 0..(Cardinality(Threads) + 1), should : BOOLEAN]

(* Types.  In particular no reference count and no count of consumed        *)
(* elements leaves its range, as the code asserts                           *)
(* (concurrentqueue.h:1608, :1631).                                         *)
TypeOK ==
  /\ \A t \in Threads : program[t] \in Seq(Calls)
  /\ m_count \in -Cardinality(Threads)..Len(prod) * IndexMod /\ m_sema \in Nat
  /\ freeListHead \in Referring
  /\ freeListRefs \in [Blocks -> Refs]
  /\ freeListNext \in [Blocks -> Referring]
  /\ initialBlockPoolIndex \in 0..(PoolSize + Cardinality(Threads))
  /\ heap \subseteq Blocks \ Pool
  /\ elementsCompletelyDequeued \in [Blocks -> 0..BlockSize]
  /\ \A p \in DOMAIN prod :
       /\ {prod[p].tailIndex, prod[p].headIndex} \subseteq Indexes
       /\ {prod[p].dequeueOptimisticCount, prod[p].dequeueOvercommit} \subseteq Indexes
       /\ prod[p].next \in 0..Len(prod) /\ prod[p].tailBlock \in Referring
       /\ \A e \in DOMAIN prod[p].entries :
            prod[p].entries[e].key \in Indexes /\ prod[p].entries[e].value \in Referring
  /\ producerListTail \in 0..Len(prod)
  /\ implicitProducerHashCount \in 0..Cardinality(Threads) * MaxTables
  /\ Len(log) = Len(prod) /\ Len(taken) = Len(prod)

-----------------------------------------------------------------------------
(* The semaphore *)

Asleep == {"s_sleep", "s_adjust", "s_trysema", "s_restore"}
Sleepers == Cardinality({t \in Threads : pc[t] \in Asleep})
Permitted == {"scan", "visit", "v_head", "deq", "d_over", "d_opt", "d_claim", "d_recheck",
              "d_undo", "d_fail", "d_head"}
Unclaimed == Total([p \in DOMAIN log |-> 1..Len(log[p])]) - Total([p \in DOMAIN taken |-> 1..taken[p]])
Sum(n(_)) == Total([t \in Threads |-> 1..n(t)])

(* The permits that t's dequeue holds, the elements that t's enqueue has    *)
(* published and not yet signalled, the wake-ups that it is about to post.  *)
Held(t) == IF pc[t] \in Permitted /\ ~Bulk(t) THEN 1 ELSE lv[t].permits
Unsignalled(t) == IF pc[t] = "signal" THEN Size(t) ELSE 0
Unposted(t) == IF pc[t] = "s_post" THEN lv[t].size ELSE 0

(* Every permit stands for one element that was published and nobody has    *)
(* claimed: the permits in m_count and in the hands of dequeues, with the   *)
(* enqueues that have published and not yet signalled, are exactly the      *)
(* elements.  Otherwise a dequeue would spin in try_dequeue for ever        *)
(* (blockingconcurrentqueue.h: `while (!inner.try_dequeue(item))`) or an    *)
(* element stay behind.                                                     *)
PermitsAreElements ==
  m_count + Sleepers + Sum(Held) + Sum(Unsignalled) = Unclaimed

(* A wake-up is posted, or about to be, for exactly the sleepers that       *)
(* m_count no longer counts: none is lost to a timeout, and none is left    *)
(* over to wake a later dequeue without an element.                         *)
WakeupsMatchSleepers ==
  m_sema + Sum(Unposted) + (IF m_count < 0 THEN -m_count ELSE 0) = Sleepers

-----------------------------------------------------------------------------
(* Blocks *)

(* The list from node b on; one longer than there are blocks is a cycle. *)
FreeBlocks ==
  LET from[b \in Referring, n \in 0..(Cardinality(Blocks) + 1)] ==
        IF b = Null \/ n = 0 THEN <<>> ELSE <<b>> \o from[freeListNext[b], n - 1]
  IN from[freeListHead, Cardinality(Blocks) + 1]

Indexed(b) ==
  UNION {{p} \X (IF prod[p].explicit THEN {i \in DOMAIN prod[p].ring : prod[p].ring[i] = b}
                 ELSE {e \in DOMAIN prod[p].entries : prod[p].entries[e].value = b}) :
         p \in DOMAIN prod}
Adding(b) == {t \in Threads : \/ pc[t] = "f_add" /\ lv[t].blk = b
                              \/ pc[t] \in {"f_load", "f_link", "f_push", "f_retry"} /\ lv[t].node = b
                              \/ \E i \in DOMAIN lv[t].freed : lv[t].freed[i] = b}
Inserting(b) == {t \in Threads : \/ pc[t] = "e_block" /\ lv[t].blk = b
                                 \/ pc[t] \in {"e_rewind", "e_unset"} /\ lv[t].blk = b
                                 \/ pc[t] = "f_got" /\ lv[t].head = b}
Unpooled(b) == {b} \cap (initialBlockPoolIndex + 1)..PoolSize
Awaited(b) == IF freeListRefs[b].should /\ freeListRefs[b].n > 0 /\ Adding(b) = {} THEN {b} ELSE {}

(* A block of the pool is in one place: in the pool, in an enqueue's hands, *)
(* in one entry of one producer's block index or in the ring of a token's   *)
(* producer, on its way to the free list,                                   *)
(* left for the last reader to add (SHOULD_BE_ON_FREELIST), or on the free  *)
(* list, once.  Two producers never write to one block and no block is lost.*)
BlockInOnePlace ==
  LET list == FreeBlocks IN
  \A b \in Pool :
    Cardinality(Indexed(b)) + Cardinality({i \in DOMAIN list : list[i] = b})
      + Cardinality(Adding(b)) + Cardinality(Inserting(b)) + Cardinality(Unpooled(b))
      + Cardinality(Awaited(b)) = 1

(* Every element that nobody dequeued and every block from malloc is        *)
(* destroyed with the queue, once, and nothing else is: what the comment of *)
(* ~ImplicitProducer assumes of the remaining blocks holds                  *)
(* (concurrentqueue.h:2433), and the walk of ~ExplicitProducer over its     *)
(* ring stops where the elements do (:1813-1830).                           *)
NothingLeaks ==
  /\ Finished /\ freedAtEnd = <<>> =>
       \A x \in Blocks : \A i \in DestroyedIn(x) : elements[x][i] # NoItem
  /\ freedAtEnd # <<>> =>
       /\ heap = {} /\ \A x \in Blocks : freedAtEnd[x] <= 1
       /\ \A x \in Blocks : \A i \in DOMAIN elements[x] : elements[x][i] = NoItem

(* Once the calls have returned, a block of a token's ring that holds no    *)
(* element is marked as empty, so that the producer can go on to it: an     *)
(* enqueue_bulk that fails halfway will "undo changes (but keep injected    *)
(* blocks)" (concurrentqueue.h:2095).                                       *)
BlocksStayUsable ==
  Finished /\ freedAtEnd = <<>> =>
    \A p \in {x \in DOMAIN prod : prod[x].explicit} : \A i \in DOMAIN prod[p].ring :
      LET b == prod[p].ring[i]
      IN b = prod[p].tailBlock \/ is_empty(prod[p], b)
           \/ \E o \in DOMAIN elements[b] : elements[b][o] # NoItem

(* The asserts of the free list (concurrentqueue.h:1493) and of the block   *)
(* index (:2957, :2962): the node that try_get took does not wait to be     *)
(* added, and a consumer's index finds an entry that is still its own.      *)
LookupsFind ==
  \A t \in Threads :
    /\ At(t, "f_got") => ~freeListRefs[lv[t].head].should
    /\ pc[t] \in {"d_read", "b_read"} =>
         LET p == prod[lv[t].prod]
             e == p.entries[IF Bulk(t) THEN Entry(p.headers[lv[t].hdr], lv[t].slot) ELSE lv[t].entry]
         IN e.key = Base(lv[t].index) /\ e.value # Null

(* A consumer finds every element that is published and not yet claimed: the *)
(* current index leads to the block of its index.  An enqueue that goes on  *)
(* to an empty block of its ring overwrites an entry, "guaranteed to be     *)
(* room since we're conceptually removing the last block from it first"     *)
(* (concurrentqueue.h:1862-1863).                                           *)
ElementsIndexed ==
  \A p \in DOMAIN prod : \A i \in Indexes :
    ~circular_less_than(i, prod[p].headIndex) /\ circular_less_than(i, prod[p].tailIndex) =>
      LET h == Header(p)
          e == prod[p].entries[Entry(h, SlotFor(p, h, h.tail, i))]
      IN e.key = Base(i) /\ e.value # Null

-----------------------------------------------------------------------------
(* Producers *)

(* The producers that t's slots lead to, the one of its token, and the one  *)
(* that it has in hand while it looks for a slot, enqueues or exits.        *)
Obtaining == {"h_copy", "h_copy2", "h_push", "h_reuse", "h_empty", "h_uncount", "enqueue",
              "x_clear", "x_inactive"}
Owned(t) == (UNION {{tables[k][i].value : i \in Slots(k, t)} : k \in DOMAIN tables})
            \cup {p \in DOMAIN prod : prod[p].token = t}
            \cup (IF pc[t] \in Obtaining THEN {lv[t].ptr} ELSE {})

(* A thread has one producer for itself and one for its token, which are    *)
(* active and nobody else's, in all the tables and through every resize,    *)
(* exit and reuse: a producer is written by one thread without locks.       *)
OneProducerPerThread ==
  \A t \in Threads :
    /\ \A p, r \in Owned(t) : prod[p].explicit = prod[r].explicit => p = r
    /\ \A p \in Owned(t) : ~prod[p].inactive
    /\ \A u \in Threads \ {t} : Owned(t) \cap Owned(u) = {}

(* Every table keeps a free slot, on which the probing of absent threads    *)
(* relies ("Not an infinite loop because at least one slot is free in the   *)
(* hash table", concurrentqueue.h:3412).                                    *)
TablesKeepRoom ==
  \A k \in DOMAIN tables : \E i \in DOMAIN tables[k] : tables[k][i].key = Free

-----------------------------------------------------------------------------
(* The abstract queue *)

Streams == 1..MaxProducers
Garbage == <<Null, Null, Null>>    \* what lies beyond the published elements
Hand(t) ==
  LET l == lv[t]
      claimed == IF l.pos = 0 THEN 0 ELSE l.want
  IN l.items \o [i \in 1..claimed |-> IF l.pos + i - 1 > Len(log[l.prod]) THEN Garbage
                                      ELSE log[l.prod][l.pos + i - 1]]

Promise == INSTANCE AbstractQueue WITH
  q <- [s \in Streams |-> IF s > Len(log) THEN <<>>
                          ELSE SubSeq(log[s], taken[s] + 1, Len(log[s]))],
  hand <- [t \in Threads |-> Hand(t)]

(* The library is a queue: every element that enters a stream is handed to  *)
(* exactly one call, first in first out, whole, and after it entered.       *)
ImplementsQueue == Promise!Spec

(* No element is left behind while a call waits: whenever a dequeue is      *)
(* under way and there is an unclaimed element, some dequeue claims it or   *)
(* stops waiting.                                                           *)
Waiting == \E t \in Threads :
  pc[t] \in Permitted \cup {"s_try", "s_spin", "s_spincas", "s_sub", "s_sleep", "s_more",
                            "b_scan", "b_over"}
NoElementLeftBehind == []<>(~Waiting \/ Unclaimed = 0)

=============================================================================
