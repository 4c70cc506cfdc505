---------------------------- MODULE ProducerHash -----------------------------
(* src/moodycamel/concurrentqueue.h: how a thread finds its ImplicitProducer *)
(* in the hash tables, how it gets one at its first enqueue, and how it     *)
(* gives it back when the thread ends.                                      *)
EXTENDS QueueState

hashUnchanged == <<semVars, blockVars>>

(* The slots of a table whose key is t: a thread's key is written by the    *)
(* thread alone, and probing from its hash finds it.                        *)
Slots(k, t) == {i \in DOMAIN tables[k] : tables[k][i].key = t}
Holding(t) == {k \in DOMAIN tables : Slots(k, t) # {}}
Capacity(k) == Len(tables[k])
Home(k, t) == (Hash[t] % Capacity(k)) + 1
NextSlot(k, i) == (i % Capacity(k)) + 1
Found(k, t) == tables[k][CHOOSE i \in Slots(k, t) : TRUE].value
Newest(ks) == CHOOSE k \in ks : \A j \in ks : j <= k

(* get_or_add_implicit_producer: look for the thread in the current table   *)
(* and in the ones that it replaced.                                        *)
Lookup(t) ==
  /\ Calling(t, Enqueues)
  /\ LET main == Len(tables)
         k == Newest(Holding(t))
     IN IF Holding(t) = {} THEN Go(t, "h_count", [NoLocals EXCEPT !.main = main])
        ELSE IF k = main THEN Go(t, "enqueue", [NoLocals EXCEPT !.ptr = Found(k, t)])
        ELSE Go(t, "h_copy", [NoLocals EXCEPT !.main = main, !.ptr = Found(k, t),
                                              !.slot = Home(main, t)])
  /\ UNCHANGED <<hashUnchanged, prodVars, hashVars, history>>

(* The compare-exchange of a slot's key, with the store of its value. *)
Claim(t, expected) ==
  /\ tables[Loc(t).main][Loc(t).slot].key = expected
  /\ tables' = [tables EXCEPT ![Loc(t).main][Loc(t).slot] = [key |-> t, value |-> Loc(t).ptr]]
Ready(t) == Go(t, "enqueue", [NoLocals EXCEPT !.ptr = Loc(t).ptr])

(* A thread of an older table copies its producer to the current one. *)
Copy(t) ==
  /\ At(t, "h_copy")
  /\ \/ Claim(t, Free) /\ Ready(t)
     \/ /\ tables[Loc(t).main][Loc(t).slot].key # Free
        /\ Go(t, "h_copy2", Loc(t)) /\ UNCHANGED tables
  /\ UNCHANGED <<implicitProducerHashCount, resizing, hashUnchanged, prodVars, history>>

CopyReusable(t) ==
  /\ At(t, "h_copy2")
  /\ \/ Claim(t, Reusable) /\ Ready(t)
     \/ /\ tables[Loc(t).main][Loc(t).slot].key # Reusable
        /\ Go(t, "h_copy", [Loc(t) EXCEPT !.slot = NextSlot(Loc(t).main, @)])
        /\ UNCHANGED tables
  /\ UNCHANGED <<implicitProducerHashCount, resizing, hashUnchanged, prodVars, history>>

(* A new thread counts itself. *)
CountSelf(t) ==
  /\ At(t, "h_count")
  /\ implicitProducerHashCount' = implicitProducerHashCount + 1
  /\ Go(t, "h_full", [Loc(t) EXCEPT !.count = implicitProducerHashCount + 1])
  /\ UNCHANGED <<tables, resizing, hashUnchanged, prodVars, history>>

Half(k) == Capacity(k) \div 2
(* Less than three quarters full: use the table; else wait for the next. *)
Room(k, count) == IF count < Half(k) + Capacity(k) \div 4 THEN "h_recycle" ELSE "h_reload"

(* Half full: the thread that sets the flag replaces the table. *)
Full(t) ==
  /\ At(t, "h_full")
  /\ LET k == Loc(t).main IN
     IF Loc(t).count >= Half(k) /\ ~resizing
     THEN resizing' = TRUE /\ Go(t, "h_resize", Loc(t))
     ELSE Go(t, Room(k, Loc(t).count), Loc(t)) /\ UNCHANGED resizing
  /\ UNCHANGED <<tables, implicitProducerHashCount, hashUnchanged, prodVars, history>>

(* The smallest doubling of the table that count leaves half empty. *)
Doubled(capacity, count) ==
  LET fits == {n \in 1..(count + 1) : count < capacity * 2 ^ (n - 1)}
  IN capacity * 2 ^ (CHOOSE n \in fits : \A m \in fits : n <= m)

(* With the flag: reload the current table and, if it is still too small,   *)
(* publish a larger one; without memory the thread no longer counts.        *)
Resize(t) ==
  /\ At(t, "h_resize")
  /\ LET main == Len(tables)
         count == Loc(t).count
     IN \/ /\ count < Half(main)
           /\ Go(t, "h_clear", [Loc(t) EXCEPT !.main = main])
           /\ UNCHANGED <<tables, implicitProducerHashCount>>
        \/ /\ count >= Half(main) /\ main < memory.tables
           /\ tables' = Append(tables, EmptyTable(Doubled(Capacity(main), count)))
           /\ Go(t, "h_clear", [Loc(t) EXCEPT !.main = main + 1])
           /\ UNCHANGED implicitProducerHashCount
        \/ /\ count >= Half(main) /\ main = memory.tables
           /\ implicitProducerHashCount' = implicitProducerHashCount - 1
           /\ Go(t, "h_clear", [Loc(t) EXCEPT !.fail = TRUE])
           /\ UNCHANGED tables
  /\ UNCHANGED <<resizing, hashUnchanged, prodVars, history>>

Clear(t) ==
  /\ At(t, "h_clear")
  /\ resizing' = FALSE
  /\ IF Loc(t).fail THEN Return(t) ELSE Go(t, Room(Loc(t).main, Loc(t).count), Loc(t))
  /\ UNCHANGED <<tables, implicitProducerHashCount, hashUnchanged, prodVars, history>>

Reload(t) ==
  /\ At(t, "h_reload")
  /\ Go(t, "h_full", [Loc(t) EXCEPT !.main = Len(tables)])
  /\ UNCHANGED <<hashUnchanged, prodVars, hashVars, history>>

-----------------------------------------------------------------------------
(* recycle_or_create_producer: walk the list from its tail.  The constructor *)
(* of ProducerToken calls it for an ExplicitProducer, when t's last token,  *)
(* if it had one, is gone.                                                  *)
Recycle(t) ==
  /\ At(t, "h_recycle") \/ (Calling(t, {"token"}) /\ ~valid(t))
  /\ Go(t, IF producerListTail = Null THEN "h_create" ELSE "h_walk",
        [Loc(t) EXCEPT !.ptr = producerListTail])
  /\ UNCHANGED <<hashUnchanged, prodVars, hashVars, history>>

(* The thread has its producer p: it looks for a slot in the table, or the  *)
(* token is complete.                                                       *)
ForToken(t) == Call(t) = "token"
Obtained(t) ==
  IF ForToken(t) THEN Return(t)
  ELSE Go(t, "h_reuse", [Loc(t) EXCEPT !.slot = Home(Loc(t).main, t)])
TokenOf(t) == IF ForToken(t) THEN t ELSE Free

(* A producer whose thread or token has ended is taken over by              *)
(* compare-exchange.                                                        *)
Walk(t) ==
  /\ At(t, "h_walk")
  /\ LET p == Loc(t).ptr
         next == prod[p].next
     IN IF prod[p].inactive /\ prod[p].explicit = ForToken(t)
        THEN /\ prod' = [prod EXCEPT ![p].inactive = FALSE, ![p].token = TokenOf(t)]
             /\ Obtained(t)
        ELSE /\ Go(t, IF next = Null THEN "h_create" ELSE "h_walk", [Loc(t) EXCEPT !.ptr = next])
             /\ UNCHANGED prod
  /\ UNCHANGED <<producerListTail, hashUnchanged, hashVars, history>>

(* create<ImplicitProducer> or create<ExplicitProducer>; without memory the *)
(* thread no longer counts, or the token is not valid.                      *)
CreateProducer(t) ==
  /\ At(t, "h_create")
  /\ \/ /\ Len(prod) < memory.producers
        /\ prod' = Append(prod, IF ForToken(t) THEN NewExplicitProducer(producerListTail)
                                ELSE NewProducer(producerListTail))
        /\ log' = Append(log, <<>>) /\ taken' = Append(taken, 0)
        /\ Go(t, "h_push", [Loc(t) EXCEPT !.ptr = Len(prod) + 1])
        /\ UNCHANGED implicitProducerHashCount
     \/ /\ Len(prod) = memory.producers
        /\ implicitProducerHashCount' = implicitProducerHashCount - (IF ForToken(t) THEN 0 ELSE 1)
        /\ Return(t)
        /\ UNCHANGED <<prod, log, taken>>
  /\ UNCHANGED <<producerListTail, tables, resizing, got, hashUnchanged>>

(* add_producer *)
PushProducer(t) ==
  /\ At(t, "h_push")
  /\ LET p == Loc(t).ptr
     IN \/ /\ producerListTail = prod[p].next
           /\ producerListTail' = p
           /\ Obtained(t)
           /\ prod' = [prod EXCEPT ![p].token = TokenOf(t)]
        \/ /\ producerListTail # prod[p].next
           /\ prod' = [prod EXCEPT ![p].next = producerListTail]
           /\ UNCHANGED <<control, producerListTail>>
  /\ UNCHANGED <<hashUnchanged, hashVars, history>>

(* Take the slot of a thread that has ended, which is counted already, or   *)
(* a free one.                                                              *)
InsertReusable(t) ==
  /\ At(t, "h_reuse")
  /\ \/ Claim(t, Reusable) /\ Go(t, "h_uncount", Loc(t))
     \/ /\ tables[Loc(t).main][Loc(t).slot].key # Reusable
        /\ Go(t, "h_empty", Loc(t)) /\ UNCHANGED tables
  /\ UNCHANGED <<implicitProducerHashCount, resizing, hashUnchanged, prodVars, history>>

(* Mutant: a thread in a new slot does not stay counted. *)
InsertFreeUncounts(t) ==
  /\ At(t, "h_empty")
  /\ \/ Claim(t, Free) /\ Go(t, "h_uncount", Loc(t))
     \/ /\ tables[Loc(t).main][Loc(t).slot].key # Free
        /\ Go(t, "h_reuse", [Loc(t) EXCEPT !.slot = NextSlot(Loc(t).main, @)])
        /\ UNCHANGED tables
  /\ UNCHANGED <<implicitProducerHashCount, resizing, hashUnchanged, prodVars, history>>

InsertFree(t) ==
  /\ At(t, "h_empty")
  /\ \/ Claim(t, Free) /\ Ready(t)
     \/ /\ tables[Loc(t).main][Loc(t).slot].key # Free
        /\ Go(t, "h_reuse", [Loc(t) EXCEPT !.slot = NextSlot(Loc(t).main, @)])
        /\ UNCHANGED tables
  /\ UNCHANGED <<implicitProducerHashCount, resizing, hashUnchanged, prodVars, history>>

Uncount(t) ==
  /\ At(t, "h_uncount")
  /\ implicitProducerHashCount' = implicitProducerHashCount - 1
  /\ Ready(t)
  /\ UNCHANGED <<tables, resizing, hashUnchanged, prodVars, history>>

-----------------------------------------------------------------------------
(* implicit_producer_thread_exited, which the thread's exit listener calls  *)
(* if the thread has a producer: its key becomes reusable in every table,   *)
(* then the producer inactive.  A thread that starts later may have the     *)
(* same id.                                                                 *)
Exit(t) ==
  /\ Calling(t, {"exit"})
  /\ IF Holding(t) = {} THEN Return(t)
     ELSE Go(t, "x_clear", [NoLocals EXCEPT !.main = Len(tables),
                                            !.ptr = Found(Newest(Holding(t)), t)])
  /\ UNCHANGED <<hashUnchanged, prodVars, hashVars, history>>

(* Mutant: the older tables keep the thread's key. *)
ExitCurrentOnly(t) ==
  /\ At(t, "x_clear")
  /\ LET k == Loc(t).main
     IN /\ tables' = [tables EXCEPT ![k] = [i \in DOMAIN @ |->
                        IF @[i].key = t THEN [@[i] EXCEPT !.key = Reusable] ELSE @[i]]]
        /\ Go(t, "x_inactive", Loc(t))
  /\ UNCHANGED <<implicitProducerHashCount, resizing, hashUnchanged, prodVars, history>>

ExitTable(t) ==
  /\ At(t, "x_clear")
  /\ LET k == Loc(t).main
     IN /\ tables' = [tables EXCEPT ![k] = [i \in DOMAIN @ |->
                        IF @[i].key = t THEN [@[i] EXCEPT !.key = Reusable] ELSE @[i]]]
        /\ Go(t, IF k = 1 THEN "x_inactive" ELSE "x_clear", [Loc(t) EXCEPT !.main = k - 1])
  /\ UNCHANGED <<implicitProducerHashCount, resizing, hashUnchanged, prodVars, history>>

ExitProducer(t) ==
  /\ At(t, "x_inactive")
  /\ prod' = [prod EXCEPT ![Loc(t).ptr].inactive = TRUE]
  /\ Return(t)
  /\ UNCHANGED <<producerListTail, hashUnchanged, hashVars, history>>

(* ~ProducerToken *)
DropToken(t) ==
  /\ Calling(t, {"drop_token"})
  /\ prod' = [p \in DOMAIN prod |-> IF prod[p].token = t
                THEN [prod[p] EXCEPT !.token = Free, !.inactive = TRUE] ELSE prod[p]]
  /\ Return(t)
  /\ UNCHANGED <<producerListTail, hashUnchanged, hashVars, history>>

HashStep(t) ==
  \/ Lookup(t) \/ Copy(t) \/ CopyReusable(t) \/ CountSelf(t) \/ Full(t) \/ Resize(t) \/ Clear(t)
  \/ Reload(t) \/ Recycle(t) \/ Walk(t) \/ CreateProducer(t) \/ PushProducer(t)
  \/ InsertReusable(t) \/ InsertFree(t) \/ Uncount(t)
  \/ Exit(t) \/ ExitTable(t) \/ ExitProducer(t) \/ DropToken(t)

=============================================================================
