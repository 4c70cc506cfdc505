---------------------------- MODULE BulkOperations ---------------------------
(* src/moodycamel/concurrentqueue.h: ImplicitProducer's enqueue_bulk and     *)
(* dequeue_bulk, and try_dequeue_bulk.  enqueue_bulk inserts all the blocks *)
(* it needs before it publishes its elements with one store of tailIndex,   *)
(* or takes them all back.                                                  *)
EXTENDS ImplicitProducer

(* The index of the last block that the elements of t's call reach. *)
LastBase(t) == Base(Plus(prod[Loc(t).ptr].tailIndex, BulkSize - 1))

(* enqueue_bulk: which blocks are needed. *)
BulkStart(t) ==
  /\ At(t, "enqueue") /\ Bulk(t)
  /\ LET index == Base(Minus(prod[Loc(t).ptr].tailIndex, 1))
     IN Go(t, IF LastBase(t) = index THEN "b_publish" ELSE "b_full", [Loc(t) EXCEPT !.index = index])
  /\ UNCHANGED loads

(* The next block needs the sub-queue not to be full. *)
BulkFull(t) ==
  /\ At(t, "b_full")
  /\ LET index == Plus(Loc(t).index, BlockSize)
     IN IF circular_less_than(prod[Loc(t).ptr].headIndex, Plus(index, BlockSize))
        THEN Go(t, "e_entry", [Loc(t) EXCEPT !.index = index])
        ELSE Revert(t, Loc(t))
  /\ UNCHANGED loads

(* reset_empty; the block enters the index and the chain of new blocks      *)
(* (Block::next, from firstAllocatedBlock on).                              *)
BulkInsertBlock(t) ==
  /\ At(t, "e_block") /\ Bulk(t) /\ ~Token(t)
  /\ LET l == Loc(t)
     IN /\ elementsCompletelyDequeued' = [elementsCompletelyDequeued EXCEPT ![l.blk] = 0]
        /\ SetBlock(l.ptr, l.entry, l.blk)
        /\ Go(t, IF l.index = LastBase(t) THEN "b_publish" ELSE "b_full",
              [NoLocals EXCEPT !.ptr = l.ptr, !.index = l.index, !.chain = Append(l.chain, l.blk)])
  /\ UNCHANGED <<prodUnchanged, elements, history>>

(* The elements are constructed block by block and tailIndex is stored; when *)
(* a constructor throws, those that exist are destroyed again.              *)
BulkPublish(t) ==
  /\ At(t, "b_publish")
  /\ LET p == Loc(t).ptr
         start == prod[p].tailIndex
         blocks == (IF Offset(start) # 0 THEN <<prod[p].tailBlock>> ELSE <<>>) \o Loc(t).chain
         item(k) == <<t, Len(program[t]), k>>
         \* the element that goes to offset o of the i-th block
         number(i, o) == (i - 1) * BlockSize + o - Offset(start)
         new(i, o) == number(i, o) \in 0..(BulkSize - 1)
     IN \/ /\ Call(t) \in Throwing
           /\ Revert(t, Loc(t))
           /\ UNCHANGED <<elements, prod, log>>
        \/ /\ Call(t) \notin Throwing
           /\ elements' = [x \in Blocks |-> [o \in DOMAIN elements[x] |->
                IF \E i \in DOMAIN blocks : blocks[i] = x /\ new(i, o)
                THEN item(number(CHOOSE i \in DOMAIN blocks : blocks[i] = x /\ new(i, o), o))
                ELSE elements[x][o]]]
           /\ prod' = [prod EXCEPT ![p].tailIndex = Plus(start, BulkSize),
                                   ![p].tailBlock = blocks[Len(blocks)]]
           /\ log' = [log EXCEPT ![p] = @ \o [k \in 1..BulkSize |-> item(k - 1)]]
           /\ Go(t, "signal", NoLocals)
  /\ UNCHANGED <<prodUnchanged, elementsCompletelyDequeued, taken, got>>

(* The revert: every new block leaves the index, first to last              *)
(* (get_block_index_entry_for_index), and the tail goes back; then the      *)
(* blocks are freed (add_blocks_to_free_list).                              *)
RevertUnset(t) ==
  /\ At(t, "b_unset")
  /\ LET l == Loc(t)
         h == Header(l.ptr)
         index == Plus(Base(Minus(prod[l.ptr].tailIndex, 1)), BlockSize * (Len(l.freed) + 1))
     IN /\ SetBlock(l.ptr, Entry(h, SlotFor(l.ptr, h, h.tail, index)), Null)
        /\ Go(t, "b_rewind", [NoLocals EXCEPT !.ptr = l.ptr, !.chain = Tail(l.chain),
                                              !.freed = Append(l.freed, Head(l.chain))])
  /\ UNCHANGED <<prodUnchanged, dataUnchanged>>

(* Mutant: the tail of the index stays. *)
RevertKeepsTail(t) ==
  /\ At(t, "b_rewind")
  /\ LET l == Loc(t) IN
     IF l.chain # <<>> THEN Go(t, "b_unset", l)
     ELSE Go(t, "f_add", [NoLocals EXCEPT !.blk = Head(l.freed), !.freed = Tail(l.freed)])
  /\ UNCHANGED loads

RevertTail(t) ==
  /\ At(t, "b_rewind")
  /\ LET l == Loc(t)
         h == Header(l.ptr)
     IN /\ SetTail(l.ptr, (h.tail - 1) % IndexCapacity(h))
        /\ IF l.chain # <<>> THEN Go(t, "b_unset", l)
           ELSE Go(t, "f_add", [NoLocals EXCEPT !.blk = Head(l.freed), !.freed = Tail(l.freed)])
  /\ UNCHANGED <<prodUnchanged, dataUnchanged>>

-----------------------------------------------------------------------------
(* try_dequeue_bulk, called until the call has an element for each permit:  *)
(* every producer in turn, from the tail of the list.                       *)
BulkScan(t) ==
  /\ At(t, "b_scan")
  /\ Go(t, IF producerListTail = Null THEN "b_scan" ELSE "deq",
        [Loc(t) EXCEPT !.prod = producerListTail])
  /\ UNCHANGED loads

(* dequeue_bulk: how many elements does no other consumer count on? *)
BulkCheck(t) ==
  /\ At(t, "d_opt") /\ Bulk(t)
  /\ LET l == Loc(t)
         desired == Minus(l.tail, Minus(prod[l.prod].dequeueOptimisticCount, l.over))
     IN IF circular_less_than(0, desired)
        THEN Go(t, "d_claim", [l EXCEPT !.tail = 0, !.want = Least(desired, l.permits)])
        ELSE NextProducer(t, l)
  /\ UNCHANGED loads

(* Others may have taken some of them meanwhile. *)
BulkRecheck(t) ==
  /\ At(t, "d_recheck") /\ Bulk(t)
  /\ LET l == Loc(t)
         left == Minus(prod[l.prod].tailIndex, Minus(l.my, l.over))
         actual == IF circular_less_than(0, left) THEN Least(l.want, left) ELSE 0
     IN Go(t, IF actual < l.want THEN "b_over" ELSE "d_head",
           [l EXCEPT !.my = 0, !.over = l.want - actual, !.want = actual])
  /\ UNCHANGED loads

(* What was claimed too much is an overcommit. *)
BulkOvercommit(t) ==
  /\ At(t, "b_over")
  /\ LET l == Loc(t)
     IN /\ prod' = [prod EXCEPT ![l.prod].dequeueOvercommit = Plus(@, l.over)]
        /\ IF l.want = 0 THEN NextProducer(t, l) ELSE Go(t, "d_head", [l EXCEPT !.over = 0])
  /\ UNCHANGED <<prodUnchanged, dataUnchanged>>

(* The elements of one block are moved out of it and destroyed; the next    *)
(* block is behind the next slot of the index.                              *)
BulkRead(t) ==
  /\ At(t, "b_read")
  /\ LET l == Loc(t)
         h == prod[l.prod].headers[l.hdr]
         e == Entry(h, l.slot)
         x == prod[l.prod].entries[e].value
         o == Offset(l.index)
         n == Least(l.want, BlockSize - o)
     IN /\ elements' = [elements EXCEPT ![x] =
                          [i \in DOMAIN @ |-> IF i \in o..(o + n - 1) THEN NoItem ELSE @[i]]]
        /\ Go(t, "b_empty", [l EXCEPT
                !.entry = e, !.blk = x, !.size = n, !.want = @ - n, !.pos = @ + n,
                !.index = Plus(@, n), !.slot = (@ + 1) % IndexCapacity(h),
                !.items = @ \o [i \in 1..n |-> elements[x][o + i - 1]]])
  /\ UNCHANGED <<prod, prodUnchanged, elementsCompletelyDequeued, history>>

(* set_many_empty *)
SetManyEmpty(t) ==
  /\ At(t, "b_empty") /\ ~prod[Loc(t).prod].explicit
  /\ LET l == Loc(t)
         n == elementsCompletelyDequeued[l.blk] + l.size
     IN /\ elementsCompletelyDequeued' = [elementsCompletelyDequeued EXCEPT ![l.blk] = n]
        /\ IF n = BlockSize
           THEN Go(t, "d_release", l) /\ UNCHANGED got
           ELSE Proceed(t, [l EXCEPT !.entry = 0, !.blk = 0, !.size = 0])
  /\ UNCHANGED <<prod, prodUnchanged, elements, log, taken>>

BulkEnqueueStep(t) ==
  \/ BulkStart(t) \/ BulkFull(t) \/ BulkInsertBlock(t) \/ BulkPublish(t)
  \/ RevertUnset(t) \/ RevertTail(t)

(* dequeue_bulk, of an ImplicitProducer or an ExplicitProducer. *)
BulkDequeueStep(t) ==
  \/ BulkScan(t) \/ BulkCheck(t) \/ BulkRecheck(t) \/ BulkOvercommit(t) \/ BulkRead(t)
  \/ SetManyEmpty(t)

=============================================================================
