------------------------------ MODULE FreeList -------------------------------
(* src/moodycamel/concurrentqueue.h, FreeList and the block pool: where an   *)
(* enqueue takes the next block from, and where a dequeue puts an empty     *)
(* block.  freeListRefs counts the threads that look at a node, and one for *)
(* the list; `should` is its SHOULD_BE_ON_FREELIST bit.                     *)
EXTENDS QueueState

freeUnchanged == <<semVars, prodVars, hashVars, history>>
Ref(n, should) == [n |-> n, should |-> should]

(* The end of try_get's loop turn: `head` is what the failed                *)
(* compare-exchange found.                                                  *)
GetLabel(head) == IF head = Null THEN "e_create" ELSE "f_refs"

(* requisition_block: try_get_block_from_initial_pool. *)
PoolLoad(t) ==
  /\ At(t, "e_pool")
  /\ Go(t, IF initialBlockPoolIndex >= PoolSize THEN "f_get" ELSE "e_take", Loc(t))
  /\ UNCHANGED <<blockVars, freeUnchanged>>

PoolTake(t) ==
  /\ At(t, "e_take")
  /\ initialBlockPoolIndex' = initialBlockPoolIndex + 1
  /\ IF initialBlockPoolIndex < PoolSize
     THEN Go(t, "e_block", [Loc(t) EXCEPT !.blk = initialBlockPoolIndex + 1])
     ELSE Go(t, "f_get", Loc(t))
  /\ UNCHANGED <<freeListHead, freeListRefs, freeListNext, heap, elements,
                 elementsCompletelyDequeued, freeUnchanged>>

(* try_get: load freeListHead. *)
GetHead(t) ==
  /\ At(t, "f_get")
  /\ Go(t, GetLabel(freeListHead), [Loc(t) EXCEPT !.head = freeListHead])
  /\ UNCHANGED <<blockVars, freeUnchanged>>

(* Load the node's reference count: zero means that it left the list. *)
GetRefs(t) ==
  /\ At(t, "f_refs")
  /\ LET r == freeListRefs[Loc(t).head]
     IN Go(t, IF r.n = 0 THEN "f_get" ELSE "f_ref", [Loc(t) EXCEPT !.refs = r])
  /\ UNCHANGED <<blockVars, freeUnchanged>>

(* The compare-exchange that takes a reference. *)
GetRef(t) ==
  /\ At(t, "f_ref")
  /\ LET h == Loc(t).head
     IN IF freeListRefs[h] = Loc(t).refs
        THEN /\ freeListRefs' = [freeListRefs EXCEPT ![h].n = @ + 1]
             /\ Go(t, "f_next", Loc(t))
        ELSE Go(t, "f_get", Loc(t)) /\ UNCHANGED freeListRefs
  /\ UNCHANGED <<freeListHead, freeListNext, initialBlockPoolIndex, heap, elements,
                 elementsCompletelyDequeued, freeUnchanged>>

GetNext(t) ==
  /\ At(t, "f_next")
  /\ Go(t, "f_cas", [Loc(t) EXCEPT !.next = freeListNext[Loc(t).head]])
  /\ UNCHANGED <<blockVars, freeUnchanged>>

(* The compare-exchange of freeListHead: the node is ours, or the head has  *)
(* changed and the reference must be given back.                            *)
GetCAS(t) ==
  /\ At(t, "f_cas")
  /\ LET h == Loc(t).head
     IN IF freeListHead = h
        THEN freeListHead' = Loc(t).next /\ Go(t, "f_got", Loc(t))
        ELSE /\ Go(t, "f_unref", [Loc(t) EXCEPT !.node = h, !.head = freeListHead])
             /\ UNCHANGED freeListHead
  /\ UNCHANGED <<freeListRefs, freeListNext, initialBlockPoolIndex, heap, elements,
                 elementsCompletelyDequeued, freeUnchanged>>

(* fetch_sub(2): our reference and the list's. *)
GetDone(t) ==
  /\ At(t, "f_got")
  /\ LET h == Loc(t).head
     IN /\ freeListRefs' = [freeListRefs EXCEPT ![h].n = @ - 2]
        /\ Go(t, "e_block", [Loc(t) EXCEPT !.blk = h])
  /\ UNCHANGED <<freeListHead, freeListNext, initialBlockPoolIndex, heap, elements,
                 elementsCompletelyDequeued, freeUnchanged>>

(* Mutant: a node that was released meanwhile is forgotten. *)
GetUnrefForgets(t) ==
  /\ At(t, "f_unref")
  /\ freeListRefs' = [freeListRefs EXCEPT ![Loc(t).node].n = @ - 1]
  /\ Go(t, GetLabel(Loc(t).head), Loc(t))
  /\ UNCHANGED <<freeListHead, freeListNext, initialBlockPoolIndex, heap, elements,
                 elementsCompletelyDequeued, freeUnchanged>>

(* fetch_sub(1): the last one to look at a node that was released meanwhile *)
(* puts it on the list.                                                     *)
GetUnref(t) ==
  /\ At(t, "f_unref")
  /\ LET n == Loc(t).node
     IN /\ freeListRefs' = [freeListRefs EXCEPT ![n].n = @ - 1]
        /\ IF freeListRefs[n] = Ref(1, TRUE)
           THEN Go(t, "f_load", [Loc(t) EXCEPT !.again = TRUE])
           ELSE Go(t, GetLabel(Loc(t).head), Loc(t))
  /\ UNCHANGED <<freeListHead, freeListNext, initialBlockPoolIndex, heap, elements,
                 elementsCompletelyDequeued, freeUnchanged>>

(* create<Block>, when the free list is empty; nullptr when malloc fails or  *)
(* the call may not allocate.                                               *)
CreateBlock(t) ==
  /\ At(t, "e_create")
  /\ LET unused == Blocks \ (Pool \cup heap)
     IN IF unused = {} \/ Call(t) \in TryEnqueues
        THEN Go(t, "e_rewind", Loc(t)) /\ UNCHANGED heap
        ELSE LET b == CHOOSE x \in unused : \A y \in unused : x <= y
             IN heap' = heap \cup {b} /\ Go(t, "e_block", [Loc(t) EXCEPT !.blk = b])
  /\ UNCHANGED <<freeListHead, freeListRefs, freeListNext, initialBlockPoolIndex, elements,
                 elementsCompletelyDequeued, freeUnchanged>>

-----------------------------------------------------------------------------
Deliver(t) == Proceed(t, [Loc(t) EXCEPT !.blk = 0, !.node = 0, !.link = 0])

(* add_knowing_refcount_is_zero returns to try_get or to add. *)
Added(t) == IF Loc(t).again
            THEN /\ Go(t, GetLabel(Loc(t).head), [Loc(t) EXCEPT !.again = FALSE])
                 /\ UNCHANGED got
            ELSE Deliver(t)

addUnchanged == <<initialBlockPoolIndex, elements, elementsCompletelyDequeued,
                  semVars, prodVars, hashVars, log, taken>>

(* FreeList::add: the last thread that refers to the node adds it. *)
Add(t, b) ==
  /\ freeListRefs' = [freeListRefs EXCEPT ![b] = Ref(@.n, TRUE)]
  /\ IF freeListRefs[b].n = 0
     THEN Go(t, "f_load", [Loc(t) EXCEPT !.node = b]) /\ UNCHANGED got
     ELSE Deliver(t)

(* add_block_to_free_list: a block from malloc is destroyed (Traits::       *)
(* RECYCLE_ALLOCATED_BLOCKS is false).                                      *)
AddBlock(t) ==
  /\ At(t, "f_add")
  /\ LET b == Loc(t).blk
     IN \/ b \notin Pool /\ heap' = heap \ {b} /\ Deliver(t) /\ UNCHANGED freeListRefs
        \/ b \in Pool /\ Add(t, b) /\ UNCHANGED heap
  /\ UNCHANGED <<freeListHead, freeListNext, addUnchanged>>

(* add_knowing_refcount_is_zero: load freeListHead. *)
AddLoad(t) ==
  /\ At(t, "f_load")
  /\ Go(t, "f_link", [Loc(t) EXCEPT !.link = freeListHead])
  /\ UNCHANGED <<freeListHead, freeListRefs, freeListNext, heap, got, addUnchanged>>

(* freeListNext is stored, then the reference of the list: nobody looks at  *)
(* a node without references, so the two are one step.                      *)
AddLink(t) ==
  /\ At(t, "f_link")
  /\ freeListNext' = [freeListNext EXCEPT ![Loc(t).node] = Loc(t).link]
  /\ freeListRefs' = [freeListRefs EXCEPT ![Loc(t).node] = Ref(1, FALSE)]
  /\ Go(t, "f_push", Loc(t))
  /\ UNCHANGED <<freeListHead, heap, got, addUnchanged>>

AddPush(t) ==
  /\ At(t, "f_push")
  /\ IF freeListHead = Loc(t).link
     THEN freeListHead' = Loc(t).node /\ Added(t)
     ELSE /\ Go(t, "f_retry", [Loc(t) EXCEPT !.link = freeListHead])
          /\ UNCHANGED <<freeListHead, got>>
  /\ UNCHANGED <<freeListRefs, freeListNext, heap, addUnchanged>>

(* fetch_add(SHOULD_BE_ON_FREELIST - 1): try again, unless somebody looks   *)
(* at the node and will add it.                                             *)
AddRetry(t) ==
  /\ At(t, "f_retry")
  /\ LET n == Loc(t).node
     IN /\ freeListRefs' = [freeListRefs EXCEPT ![n] = Ref(@.n - 1, TRUE)]
        /\ IF freeListRefs[n] = Ref(1, FALSE)
           THEN Go(t, "f_link", Loc(t)) /\ UNCHANGED got
           ELSE Added(t)
  /\ UNCHANGED <<freeListHead, freeListNext, heap, addUnchanged>>

FreeListStep(t) ==
  \/ PoolLoad(t) \/ PoolTake(t) \/ GetHead(t) \/ GetRefs(t) \/ GetRef(t) \/ GetNext(t)
  \/ GetCAS(t) \/ GetDone(t) \/ GetUnref(t) \/ CreateBlock(t)
  \/ AddBlock(t) \/ AddLoad(t) \/ AddLink(t) \/ AddPush(t) \/ AddRetry(t)

=============================================================================
