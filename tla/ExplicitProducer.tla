--------------------------- MODULE ExplicitProducer --------------------------
(* src/moodycamel/concurrentqueue.h, ExplicitProducer: the sub-queue of a    *)
(* ProducerToken.  Its blocks form a ring: when the tail block is full, the *)
(* producer goes on to the next one if that is empty again, and otherwise   *)
(* inserts a new block there.  Consumers take elements as from an           *)
(* ImplicitProducer; they only mark them as empty.  enqueue is modelled as  *)
(* an enqueue_bulk of one element, where the two agree.                     *)
EXTENDS BulkOperations

(* The producer of t's token; a caller tests valid, as enqueue does not. *)
TokenProducer(t) == CHOOSE p \in DOMAIN prod : prod[p].token = t

(* The flags of a block: set_all_empty, reset_empty, is_empty. *)
AllEmpty == 0..(BlockSize - 1)
reset_empty(r, b) == [r EXCEPT !.empty[b] = {}]
is_empty(r, b) == r.empty[b] = AllEmpty

(* The ring: the place of the tail block, and the block after it. *)
TailPlace(r) == IF r.tailBlock = Null THEN 0 ELSE CHOOSE i \in DOMAIN r.ring : r.ring[i] = r.tailBlock
Ahead(r) == r.ring[(TailPlace(r) % Len(r.ring)) + 1]
firstAllocatedBlock(l) == IF l.chain = <<>> THEN Null ELSE Head(l.chain)
CanReuse(r, l) ==
  /\ r.tailBlock # Null /\ is_empty(r, Ahead(r))
  /\ ~l.rest /\ Ahead(r) # firstAllocatedBlock(l)
InsertInRing(r, b) ==
  SubSeq(r.ring, 1, TailPlace(r)) \o <<b>> \o SubSeq(r.ring, TailPlace(r) + 1, Len(r.ring))

(* The index of the last block that t's elements reach. *)
LastNeeded(t) == Base(Plus(prod[Loc(t).ptr].tailIndex, Size(t) - 1))

(* What enqueue and enqueue_bulk remember, to take back what they did. *)
Saved(p) == [block |-> prod[p].tailBlock, front |-> prod[p].pr_blockIndexFront,
             used |-> prod[p].pr_blockIndexSlotsUsed]
Reverted(r, l) ==
  [r EXCEPT !.pr_blockIndexFront = l.saved.front, !.pr_blockIndexSlotsUsed = l.saved.used,
            !.tailBlock = IF l.saved.block = Null THEN firstAllocatedBlock(l) ELSE l.saved.block]
Fails(t) ==
  /\ prod' = [prod EXCEPT ![Loc(t).ptr] = Reverted(@, Loc(t))]
  /\ Return(t)

(* enqueue(token, item) and enqueue_bulk(token, ...): which blocks are      *)
(* needed.                                                                  *)
TokenEnqueue(t) ==
  /\ Calling(t, TokenEnqueues) /\ valid(t)
  /\ LET p == TokenProducer(t)
         i == prod[p].tailIndex
         l == [NoLocals EXCEPT !.ptr = p]
     IN IF Call(t) \in Throwing /\ Offset(i) # 0 THEN Return(t)
        ELSE IF Base(Plus(i, Size(t) - 1)) = Base(Minus(i, 1))
        THEN Go(t, IF Bulk(t) THEN "b_publish" ELSE "e_publish", l)
        ELSE Go(t, "t_block", [l EXCEPT !.index = Base(Minus(i, 1)), !.saved = Saved(p)])
  /\ UNCHANGED loads

(* The block enters the index: entries[pr_blockIndexFront++]. *)
WithEntry(p, r, index, b) ==
  LET h == Header(p)
  IN [r EXCEPT !.entries[Entry(h, r.pr_blockIndexFront)] = [key |-> index, value |-> b],
               !.pr_blockIndexFront = (@ + 1) % IndexCapacity(h)]

(* Mutant: enqueue_bulk resets the flags of each block at once. *)
AdvanceResets(t, r, b) ==
  LET l == Loc(t)
      p == l.ptr
      index == Plus(l.index, BlockSize)
      reset == reset_empty(r, b)
  IN /\ prod' = [prod EXCEPT ![p] = IF Bulk(t) THEN WithEntry(p, reset, index, b) ELSE reset]
     /\ Go(t, "t_block", [NoLocals EXCEPT !.ptr = p, !.index = index, !.saved = l.saved,
                                          !.chain = Append(l.chain, b), !.rest = l.rest])

(* Block b is the next one.  enqueue_bulk puts it into the index at once    *)
(* and resets its flags only when it has all its blocks.                    *)
Advance(t, r, b) ==
  LET l == Loc(t)
      p == l.ptr
      index == Plus(l.index, BlockSize)
  IN /\ prod' = [prod EXCEPT ![p] =
          IF Bulk(t) THEN WithEntry(p, r, index, b) ELSE reset_empty(r, b)]
     /\ Go(t, "t_block", [NoLocals EXCEPT !.ptr = p, !.index = index, !.saved = l.saved,
                                          !.chain = Append(l.chain, b), !.rest = l.rest])

(* The block ahead is empty: use it again. *)
TokenReuse(t) ==
  /\ At(t, "t_block") /\ Loc(t).index # LastNeeded(t)
  /\ LET r == prod[Loc(t).ptr]
     IN CanReuse(r, Loc(t)) /\ Advance(t, [r EXCEPT !.tailBlock = Ahead(r)], Ahead(r))
  /\ UNCHANGED <<prodUnchanged, dataUnchanged>>

(* It is not: from now on (`rest`) all blocks are new ones.  A new block    *)
(* needs the sub-queue not to be full and room in the index.                *)
TokenRoom(t) ==
  /\ At(t, "t_block") /\ Loc(t).index # LastNeeded(t)
  /\ LET r == prod[Loc(t).ptr]
         full == ~circular_less_than(r.headIndex, Plus(Loc(t).index, 2 * BlockSize))
     IN /\ ~CanReuse(r, Loc(t))
        /\ IF full THEN Fails(t)
           ELSE /\ Go(t, IF r.pr_blockIndexSlotsUsed = IndexCapacity(Header(Loc(t).ptr))
                         THEN "t_index" ELSE "e_pool", [Loc(t) EXCEPT !.rest = TRUE])
                /\ UNCHANGED prod
  /\ UNCHANGED <<prodUnchanged, dataUnchanged>>

(* Mutant: the entries are copied from the first slot on. *)
LargerIndexUnrotated(p, exposed) ==
  LET r == prod[p]
      h == Header(p)
      c == IndexCapacity(h)
      used == r.pr_blockIndexSlotsUsed
  IN [r EXCEPT !.entries = @ \o [i \in 1..(2 * c) |-> IF i <= used THEN r.entries[Entry(h, i - 1)] ELSE Unused],
               !.headers = Append(@, [tail |-> exposed - 1,
                                      index |-> [i \in 1..(2 * c) |-> Len(r.entries) + i]]),
               !.pr_blockIndexFront = used]

(* new_block_index: copies of the entries in use, oldest first, in an index *)
(* of twice the size, of which `exposed` are visible.                       *)
LargerIndex(p, exposed) ==
  LET r == prod[p]
      h == Header(p)
      c == IndexCapacity(h)
      used == r.pr_blockIndexSlotsUsed
      old(i) == r.entries[Entry(h, (r.pr_blockIndexFront - used + i - 1) % c)]
  IN [r EXCEPT !.entries = @ \o [i \in 1..(2 * c) |-> IF i <= used THEN old(i) ELSE Unused],
               !.headers = Append(@, [tail |-> exposed - 1,
                                      index |-> [i \in 1..(2 * c) |-> Len(r.entries) + i]]),
               !.pr_blockIndexFront = used]

TokenIndex(t) ==
  /\ At(t, "t_index")
  /\ LET l == Loc(t)
     IN IF blockIndex(l.ptr) < memory.indexes /\ Call(t) \notin TryEnqueues
        THEN /\ prod' = [prod EXCEPT ![l.ptr] = LargerIndex(l.ptr, l.saved.used)]
             /\ Go(t, "e_pool", [l EXCEPT !.saved.front = l.saved.used])
        ELSE Fails(t)
  /\ UNCHANGED <<prodUnchanged, dataUnchanged>>

(* requisition_block has returned: a block for the ring, or nullptr. *)
TokenInsert(t) ==
  /\ At(t, "e_block") /\ Token(t)
  /\ LET b == Loc(t).blk
         r == prod[Loc(t).ptr]
     IN Advance(t, [r EXCEPT !.ring = InsertInRing(r, b), !.tailBlock = b, !.empty[b] = AllEmpty,
                             !.pr_blockIndexSlotsUsed = @ + 1], b)
  /\ UNCHANGED <<prodUnchanged, dataUnchanged>>

TokenNoBlock(t) ==
  /\ At(t, "e_rewind") /\ Token(t)
  /\ Fails(t)
  /\ UNCHANGED <<prodUnchanged, dataUnchanged>>

(* All blocks are there.  enqueue constructs its element, which may throw,  *)
(* before the block enters the index; enqueue_bulk resets the flags and     *)
(* goes back to the first block to fill.                                    *)
TokenReady(t) ==
  /\ At(t, "t_block") /\ Loc(t).index = LastNeeded(t)
  /\ LET l == Loc(t)
         r == prod[l.ptr]
         cleared == [b \in Blocks |-> IF \E i \in DOMAIN l.chain : l.chain[i] = b
                                      THEN {} ELSE r.empty[b]]
     IN IF Call(t) \in Throwing THEN Fails(t)
        ELSE /\ prod' = [prod EXCEPT ![l.ptr] =
                  IF Bulk(t) THEN [r EXCEPT !.empty = cleared, !.tailBlock = l.saved.block]
                  ELSE WithEntry(l.ptr, r, l.index, r.tailBlock)]
             /\ Go(t, "t_front", [NoLocals EXCEPT !.ptr = l.ptr, !.chain = l.chain])
  /\ UNCHANGED <<prodUnchanged, dataUnchanged>>

(* blockIndex->front.store: consumers find the new blocks. *)
TokenFront(t) ==
  /\ At(t, "t_front")
  /\ LET p == Loc(t).ptr
     IN SetTail(p, (prod[p].pr_blockIndexFront - 1) % IndexCapacity(Header(p)))
  /\ Go(t, IF Bulk(t) THEN "b_publish" ELSE "e_publish", Loc(t))
  /\ UNCHANGED <<prodUnchanged, dataUnchanged>>

(* set_empty and set_many_empty of a consumer: the producer will find the   *)
(* flags.                                                                   *)
SetFlags(t) ==
  /\ pc[t] \in {"d_empty", "b_empty"} /\ prod[Loc(t).prod].explicit
  /\ LET l == Loc(t)
         n == IF Bulk(t) THEN l.size ELSE 1
         o == Offset(IF Bulk(t) THEN Minus(l.index, n) ELSE l.index)
     IN /\ prod' = [prod EXCEPT ![l.prod].empty[l.blk] = @ \cup o..(o + n - 1)]
        /\ Proceed(t, [l EXCEPT !.entry = 0, !.blk = 0, !.size = 0])
  /\ UNCHANGED <<prodUnchanged, elements, elementsCompletelyDequeued, log, taken>>

TokenStep(t) ==
  \/ TokenEnqueue(t) \/ TokenReuse(t) \/ TokenRoom(t) \/ TokenIndex(t) \/ TokenInsert(t)
  \/ TokenNoBlock(t) \/ TokenReady(t) \/ TokenFront(t) \/ SetFlags(t)

=============================================================================
