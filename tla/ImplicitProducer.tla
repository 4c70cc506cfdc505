--------------------------- MODULE ImplicitProducer --------------------------
(* src/moodycamel/concurrentqueue.h, ImplicitProducer: one FIFO, filled by   *)
(* the thread that owns it and emptied by all.  Its elements lie in blocks; *)
(* the block index, a ring of entries, maps the index of a block's first    *)
(* element to the block.  And try_dequeue, which chooses among producers.   *)
EXTENDS QueueState

prodUnchanged == <<semVars, freeListHead, freeListRefs, freeListNext, initialBlockPoolIndex,
                   heap, producerListTail, hashVars>>
dataUnchanged == <<elements, elementsCompletelyDequeued, history>>

Offset(index) == index % BlockSize
Base(index) == index - Offset(index)
blockIndex(p) == Len(prod[p].headers)          \* the current header
Header(p) == prod[p].headers[blockIndex(p)]
IndexCapacity(h) == Len(h.index)
Entry(h, i) == h.index[i + 1]                  \* h->index[i]

(* enqueue: within the tail block the element is written at once; a new     *)
(* block needs the sub-queue not to be full.                                *)
EnqueueStart(t) ==
  /\ At(t, "enqueue") /\ ~Bulk(t)
  /\ LET p == prod[Loc(t).ptr] IN
     \/ /\ Offset(p.tailIndex) # 0
        /\ IF Call(t) = "enqueue_throws" THEN Return(t) ELSE Go(t, "e_publish", Loc(t))
     \/ /\ Offset(p.tailIndex) = 0
        /\ IF circular_less_than(p.headIndex, Plus(p.tailIndex, BlockSize))
           THEN Go(t, "e_entry", [Loc(t) EXCEPT !.index = p.tailIndex]) ELSE Return(t)
  /\ UNCHANGED <<prod, prodUnchanged, dataUnchanged>>

(* new_block_index: twice the entries, the old ones first, in their order   *)
(* from the one after the tail.                                             *)
new_block_index(p) ==
  LET h == Header(p)
      c == IndexCapacity(h)
  IN [prod EXCEPT
       ![p].entries = @ \o [i \in 1..c |-> Unused],
       ![p].headers = Append(@, [tail |-> c - 1, index |-> [i \in 1..(2 * c) |->
                                   IF i <= c THEN Entry(h, (h.tail + i) % c) ELSE i]])]

(* The call fails; an enqueue_bulk first takes back the blocks it inserted. *)
Revert(t, l) == IF l.chain = <<>> THEN Return(t) ELSE Go(t, "b_unset", l)

(* insert_block_index_entry: the entry after the tail if it has no block;   *)
(* else a larger index, if there is memory for it and the call may allocate.*)
InsertEntry(t) ==
  /\ At(t, "e_entry")
  /\ LET p == Loc(t).ptr
         h == Header(p)
         newTail == (h.tail + 1) % IndexCapacity(h)
         e == Entry(h, newTail)
         unused == prod[p].entries[e].key = INVALID_BLOCK_BASE \/ prod[p].entries[e].value = Null
         grow == blockIndex(p) < memory.indexes /\ Call(t) \notin TryEnqueues
     IN \/ /\ unused
           /\ prod' = [prod EXCEPT ![p].entries[e].key = Loc(t).index]
           /\ Go(t, "e_tail", [Loc(t) EXCEPT !.entry = e, !.tail = newTail])
        \/ ~unused /\ grow /\ prod' = new_block_index(p) /\ UNCHANGED control
        \/ ~unused /\ ~grow /\ Revert(t, Loc(t)) /\ UNCHANGED prod
  /\ UNCHANGED <<prodUnchanged, dataUnchanged>>

SetTail(p, i) == prod' = [prod EXCEPT ![p].headers[blockIndex(p)].tail = i]
SetBlock(p, e, b) == prod' = [prod EXCEPT ![p].entries[e].value = b]

InsertTail(t) ==
  /\ At(t, "e_tail")
  /\ SetTail(Loc(t).ptr, Loc(t).tail)
  /\ Go(t, "e_pool", [Loc(t) EXCEPT !.tail = 0])
  /\ UNCHANGED <<prodUnchanged, dataUnchanged>>

(* requisition_block found no block, or the element's constructor threw:    *)
(* rewind_block_index_tail, the entry has no block, and the new one goes to *)
(* the free list.                                                           *)
Rewind(t) ==
  /\ At(t, "e_rewind") /\ ~Token(t)
  /\ LET p == Loc(t).ptr
     IN SetTail(p, (Header(p).tail - 1) % IndexCapacity(Header(p)))
  /\ Go(t, "e_unset", Loc(t))
  /\ UNCHANGED <<prodUnchanged, dataUnchanged>>

Unset(t) ==
  /\ At(t, "e_unset")
  /\ SetBlock(Loc(t).ptr, Loc(t).entry, Null)
  /\ IF Loc(t).blk = Null THEN Revert(t, Loc(t))
     ELSE Go(t, "f_add", [NoLocals EXCEPT !.blk = Loc(t).blk])
  /\ UNCHANGED <<prodUnchanged, dataUnchanged>>

(* Mutant: reset_empty is missing. *)
InsertBlockUnreset(t) ==
  /\ At(t, "e_block") /\ ~Bulk(t) /\ ~Token(t)
  /\ LET p == Loc(t).ptr
         b == Loc(t).blk
     IN /\ prod' = [prod EXCEPT ![p].entries[Loc(t).entry].value = b, ![p].tailBlock = b]
        /\ Go(t, "e_publish", [NoLocals EXCEPT !.ptr = p])
  /\ UNCHANGED <<prodUnchanged, dataUnchanged>>

(* reset_empty, then the block enters the index. *)
InsertBlock(t) ==
  /\ At(t, "e_block") /\ ~Bulk(t) /\ ~Token(t)
  /\ LET p == Loc(t).ptr
         b == Loc(t).blk
     IN /\ elementsCompletelyDequeued' = [elementsCompletelyDequeued EXCEPT ![b] = 0]
        /\ \/ /\ Call(t) = "enqueue_throws"
              /\ Go(t, "e_rewind", [NoLocals EXCEPT !.ptr = p, !.blk = b, !.entry = Loc(t).entry])
              /\ UNCHANGED prod
           \/ /\ Call(t) # "enqueue_throws"
              /\ prod' = [prod EXCEPT ![p].entries[Loc(t).entry].value = b, ![p].tailBlock = b]
              /\ Go(t, "e_publish", [NoLocals EXCEPT !.ptr = p])
  /\ UNCHANGED <<prodUnchanged, elements, history>>

(* The element is constructed in its slot and tailIndex stored. *)
Publish(t) ==
  /\ At(t, "e_publish")
  /\ LET p == Loc(t).ptr
         i == prod[p].tailIndex
         item == <<t, Len(program[t]), 0>>
     IN /\ elements' = [elements EXCEPT ![prod[p].tailBlock][Offset(i)] = item]
        /\ prod' = [prod EXCEPT ![p].tailIndex = Plus(i, 1)]
        /\ log' = [log EXCEPT ![p] = Append(@, item)]
  /\ Go(t, "signal", NoLocals)
  /\ UNCHANGED <<prodUnchanged, elementsCompletelyDequeued, taken, got>>

EnqueueStep(t) ==
  \/ EnqueueStart(t) \/ InsertEntry(t) \/ InsertTail(t) \/ Rewind(t) \/ Unset(t)
  \/ InsertBlock(t) \/ Publish(t)

-----------------------------------------------------------------------------
loads == <<prod, prodUnchanged, dataUnchanged>>

(* try_dequeue: look for the fullest of the first three producers that are  *)
(* not empty.                                                               *)
Scan(t) ==
  /\ At(t, "scan")
  /\ Go(t, "visit", [NoLocals EXCEPT !.prod = producerListTail])
  /\ UNCHANGED loads

(* size_approx loads tailIndex, then headIndex. *)
Visit(t) ==
  /\ At(t, "visit")
  /\ LET p == Loc(t).prod IN
     \/ /\ p # Null /\ Loc(t).seen < 3
        /\ Go(t, "v_head", [Loc(t) EXCEPT !.tail = prod[p].tailIndex])
     \/ /\ p = Null \/ Loc(t).seen = 3
        /\ IF Loc(t).seen > 0
           THEN Go(t, "deq", [NoLocals EXCEPT !.prod = Loc(t).best, !.best = Loc(t).best])
           ELSE Go(t, "scan", NoLocals)
  /\ UNCHANGED loads

VisitHead(t) ==
  /\ At(t, "v_head")
  /\ LET l == Loc(t)
         p == prod[l.prod]
         next == [l EXCEPT !.prod = p.next, !.tail = 0]
         size == Minus(l.tail, p.headIndex)
     IN \/ ~circular_less_than(p.headIndex, l.tail) /\ Go(t, "visit", next)
        \/ /\ circular_less_than(p.headIndex, l.tail)
           /\ Go(t, "visit", IF size > l.size
                             THEN [next EXCEPT !.seen = @ + 1, !.size = size, !.best = l.prod]
                             ELSE [next EXCEPT !.seen = @ + 1])
  /\ UNCHANGED loads

(* dequeue: is there an element that no other consumer counts on? *)
DequeueTail(t) ==
  /\ At(t, "deq")
  /\ Go(t, "d_over", [Loc(t) EXCEPT !.tail = prod[Loc(t).prod].tailIndex])
  /\ UNCHANGED loads

DequeueOvercommit(t) ==
  /\ At(t, "d_over")
  /\ Go(t, "d_opt", [Loc(t) EXCEPT !.over = prod[Loc(t).prod].dequeueOvercommit])
  /\ UNCHANGED loads

DequeueCheck(t) ==
  /\ At(t, "d_opt") /\ ~Bulk(t)
  /\ LET l == Loc(t)
         opt == prod[l.prod].dequeueOptimisticCount
     IN Go(t, IF circular_less_than(Minus(opt, l.over), l.tail) THEN "d_claim" ELSE "d_fail",
           [l EXCEPT !.tail = 0])
  /\ UNCHANGED loads

(* How many elements t claims at once. *)
Claimed(t) == IF Bulk(t) THEN Loc(t).want ELSE 1

(* Count on them, then look again. *)
DequeueClaim(t) ==
  /\ At(t, "d_claim")
  /\ LET p == Loc(t).prod
         opt == prod[p].dequeueOptimisticCount
     IN /\ prod' = [prod EXCEPT ![p].dequeueOptimisticCount = Plus(opt, Claimed(t))]
        /\ Go(t, "d_recheck", [Loc(t) EXCEPT !.my = opt])
  /\ UNCHANGED <<prodUnchanged, dataUnchanged>>

(* Mutant: the element is taken for granted. *)
RecheckSkipped(t) ==
  /\ At(t, "d_recheck") /\ ~Bulk(t)
  /\ Go(t, "d_head", [Loc(t) EXCEPT !.my = 0, !.over = 0])
  /\ UNCHANGED loads

DequeueRecheck(t) ==
  /\ At(t, "d_recheck") /\ ~Bulk(t)
  /\ LET l == Loc(t)
     IN Go(t, IF circular_less_than(Minus(l.my, l.over), prod[l.prod].tailIndex)
              THEN "d_head" ELSE "d_undo",
           [l EXCEPT !.my = 0, !.over = 0])
  /\ UNCHANGED loads

(* Mutant: the overcommit is not counted. *)
UndoForgotten(t) ==
  /\ At(t, "d_undo")
  /\ Go(t, "d_fail", Loc(t))
  /\ UNCHANGED loads

(* Too late: this claim is an overcommit. *)
DequeueUndo(t) ==
  /\ At(t, "d_undo")
  /\ prod' = [prod EXCEPT ![Loc(t).prod].dequeueOvercommit = Plus(@, 1)]
  /\ Go(t, "d_fail", Loc(t))
  /\ UNCHANGED <<prodUnchanged, dataUnchanged>>

(* The best producer was emptied meanwhile: try every other one, then       *)
(* return false, and the blocking queue calls try_dequeue again.            *)
DequeueFailed(t) ==
  /\ At(t, "d_fail")
  /\ LET l == Loc(t)
         next == IF l.rest THEN prod[l.prod].next ELSE producerListTail
         other == IF next = l.best THEN prod[next].next ELSE next
     IN IF other = Null THEN Go(t, "scan", NoLocals)
        ELSE Go(t, "deq", [NoLocals EXCEPT !.prod = other, !.best = l.best, !.rest = TRUE])
  /\ UNCHANGED loads

(* The elements are ours: headIndex.fetch_add gives the first index. *)
DequeueHead(t) ==
  /\ At(t, "d_head")
  /\ LET l == Loc(t)
         p == l.prod
         n == Claimed(t)
         i == prod[p].headIndex
     IN /\ prod' = [prod EXCEPT ![p].headIndex = Plus(i, n)]
        /\ taken' = [taken EXCEPT ![p] = @ + n]
        /\ Go(t, "d_index", [NoLocals EXCEPT !.prod = p, !.index = i, !.pos = taken[p] + 1,
                               !.want = n, !.permits = l.permits - l.want, !.items = l.items])
  /\ UNCHANGED <<prodUnchanged, elements, elementsCompletelyDequeued, log, got>>

(* get_block_index_index_for_index: load blockIndex, its tail and the key   *)
(* of that entry; the signed distance of the two blocks leads to ours.      *)
LookupHeader(t) ==
  /\ At(t, "d_index")
  /\ Go(t, "d_tail", [Loc(t) EXCEPT !.hdr = blockIndex(Loc(t).prod)])
  /\ UNCHANGED loads

LookupTail(t) ==
  /\ At(t, "d_tail")
  /\ Go(t, "d_entry", [Loc(t) EXCEPT !.tail = prod[Loc(t).prod].headers[Loc(t).hdr].tail])
  /\ UNCHANGED loads

Signed(n) == IF n >= IndexMod \div 2 THEN n - IndexMod ELSE n
SlotFor(p, h, tail, index) ==
  LET tailBase == prod[p].entries[Entry(h, tail)].key
      offset == Signed(Minus(Base(index), tailBase)) \div BlockSize
  IN (tail + offset) % IndexCapacity(h)

LookupEntry(t) ==
  /\ At(t, "d_entry")
  /\ LET l == Loc(t)
         h == prod[l.prod].headers[l.hdr]
         slot == SlotFor(l.prod, h, l.tail, l.index)
     IN IF Bulk(t) THEN Go(t, "b_read", [l EXCEPT !.slot = slot, !.tail = 0])
        ELSE Go(t, "d_read", [l EXCEPT !.entry = Entry(h, slot), !.hdr = 0, !.tail = 0])
  /\ UNCHANGED loads

(* The element is moved out of the block and destroyed. *)
Read(t) ==
  /\ At(t, "d_read")
  /\ LET l == Loc(t)
         b == prod[l.prod].entries[l.entry].value
     IN /\ elements' = [elements EXCEPT ![b][Offset(l.index)] = NoItem]
        /\ Go(t, "d_empty", [l EXCEPT !.blk = b, !.want = 0,
                                      !.items = <<elements[b][Offset(l.index)]>>])
  /\ UNCHANGED <<prod, prodUnchanged, elementsCompletelyDequeued, history>>

(* set_empty: the consumer of a block's last element releases the block. *)
SetEmpty(t) ==
  /\ At(t, "d_empty") /\ ~prod[Loc(t).prod].explicit
  /\ LET l == Loc(t)
         n == elementsCompletelyDequeued[l.blk]
     IN /\ elementsCompletelyDequeued' = [elementsCompletelyDequeued EXCEPT ![l.blk] = n + 1]
        /\ IF n = BlockSize - 1
           THEN Go(t, "d_release", l) /\ UNCHANGED got
           ELSE Proceed(t, l)
  /\ UNCHANGED <<prod, prodUnchanged, elements, log, taken>>

(* The entry has no block any more, then the block is free. *)
Release(t) ==
  /\ At(t, "d_release")
  /\ SetBlock(Loc(t).prod, Loc(t).entry, Null)
  /\ Go(t, "f_add", [Loc(t) EXCEPT !.entry = 0, !.size = 0])
  /\ UNCHANGED <<prodUnchanged, dataUnchanged>>

(* dequeue, of an ImplicitProducer or an ExplicitProducer. *)
DequeueStep(t) ==
  \/ Scan(t) \/ Visit(t) \/ VisitHead(t)
  \/ DequeueTail(t) \/ DequeueOvercommit(t) \/ DequeueCheck(t) \/ DequeueClaim(t)
  \/ DequeueRecheck(t) \/ DequeueUndo(t) \/ DequeueFailed(t) \/ DequeueHead(t)
  \/ LookupHeader(t) \/ LookupTail(t) \/ LookupEntry(t) \/ Read(t) \/ SetEmpty(t) \/ Release(t)

=============================================================================
