------------------------- MODULE BrokerMQTTPublisher -------------------------
(***************************************************************************)
(* The endpoint writer threads of src/Broker/BrokerMQTTPublisher.h: each    *)
(* takes a task from the MQTT queue, resolves the sessions it is for and    *)
(* writes it to their sockets (MQTTSession::send).                          *)
(***************************************************************************)
EXTENDS BrokerState

At(w, pc) == up /\ wt[w].pc = pc
WriterGoto(w, pc) == wt' = [wt EXCEPT ![w].pc = pc]

(* The loop over the targets of one task: the next target, or the next task. *)
Advance(w) ==
  wt' = [wt EXCEPT ![w].targets = Tail(@),
                   ![w].pc = IF Len(wt[w].targets) > 1 THEN "lookup" ELSE "idle"]

(* wait_dequeue: the head of any producer's queue. *)
Dequeue(w) ==
  /\ At(w, "idle") /\ w \in Running
  /\ \E p \in {p \in Producers : Nonempty(q, p)} :
       LET task == Head(q[p])
       IN /\ q' = Dequeued(q, p)
          /\ wt' = [wt EXCEPT ![w] =
               IF task.to = Broadcast
               THEN [pc |-> "find", task |-> task, targets |-> <<>>, client |-> 0]
               ELSE [pc |-> "lookup", task |-> task, targets |-> <<task.to>>, client |-> 0]]
  /\ UNCHANGED <<env, up, sessionVars, topic_list, dq, ioVars, ddsVars>>

FindTopicSkipsFirst(w) ==
  /\ At(w, "find")
  /\ LET found == find_topic(Gps)
     IN wt' = [wt EXCEPT ![w].targets = IF found = <<>> THEN found ELSE Tail(found),
                         ![w].pc = IF Len(found) < 2 THEN "idle" ELSE "lookup"]
  /\ UNCHANGED <<env, up, sessionVars, topic_list, queueVars, ioVars, ddsVars>>

(* A task for "-99": a copy of the topic's list of sessions, read without   *)
(* the lock that AddToTopic takes.                                          *)
FindTopic(w) ==
  /\ At(w, "find")
  /\ wt' = [wt EXCEPT ![w].targets = find_topic(Gps),
                      ![w].pc = IF find_topic(Gps) = <<>> THEN "idle" ELSE "lookup"]
  /\ UNCHANGED <<env, up, sessionVars, topic_list, queueVars, ioVars, ddsVars>>

(* The client id of a target: the id a directed task names, or that of a    *)
(* subscribed session at this moment.                                       *)
TargetId(x) == IF x \in Sessions THEN sid[x] ELSE x

(* send_message: get_client over the unlocked set of sessions. *)
Lookup(w) ==
  /\ At(w, "lookup")
  /\ LET id == TargetId(Head(wt[w].targets))
     IN IF Matching(id) = {} THEN Advance(w)
        ELSE wt' = [wt EXCEPT ![w].client = get_client(id), ![w].pc = "decide"]
  /\ UNCHANGED <<env, up, sessionVars, topic_list, queueVars, ioVars, ddsVars>>

(* FindTopic or Lookup meets a write of the list, of the set or of an id. *)
WriterRace(w) ==
  /\ \/ At(w, "find") /\ Racing({"subscribe"})
     \/ At(w, "lookup") /\ Racing({"insert", "setid"})
  /\ Crash
  /\ UNCHANGED <<env, sessionVars, topic_list, queueVars, ioVars, wt, ddsVars>>

Store(w) == q' = Enqueue(q, w, wt[w].task)

DecideMarksAnyFrame(w) ==
  /\ At(w, "decide")
  /\ sub_requested' = [sub_requested EXCEPT ![wt[w].client] = TRUE]
  /\ WriterGoto(w, "write")
  /\ UNCHANGED <<env, up, stage, clients, sid, publish_map, next, rcvd, wire,
                 topic_list, queueVars, ioVars, ddsVars>>

(* sub_requested of the session is tested; the first SUBACK sets it, and a  *)
(* PUBLISH before it is put back into the queue as it was.  The code then   *)
(* sends what std::move left, a null buffer, which the socket refuses.      *)
Decide(w) ==
  /\ At(w, "decide")
  /\ LET c == wt[w].client
         f == wt[w].task.frame
         tooEarly == ~sub_requested[c] /\ f.type = "PUBLISH"
     IN /\ sub_requested' = IF f.type = "SUBACK" THEN [sub_requested EXCEPT ![c] = TRUE]
                            ELSE sub_requested
        /\ IF tooEarly THEN Store(w) /\ Advance(w)
                       ELSE UNCHANGED q /\ WriterGoto(w, "write")
  /\ UNCHANGED <<env, up, stage, clients, sid, publish_map, next, rcvd, wire,
                 topic_list, dq, ioVars, ddsVars>>

TooLong(f) == f.type = "PUBLISH" /\ f.arg \in Oversize

(* MQTTSession::send: more than 1024 bytes are refused. *)
SendRefused(w) ==
  /\ At(w, "write") /\ TooLong(wt[w].task.frame)
  /\ Store(w) /\ Advance(w)
  /\ UNCHANGED <<env, up, sessionVars, topic_list, dq, ioVars, ddsVars>>

(* async_write.  A write to a closed socket fails in a handler that ignores *)
(* the error.  A write that cannot complete at once reads its buffer after  *)
(* send returned and destroyed it.                                          *)
Send(w) ==
  /\ At(w, "write") /\ ~TooLong(wt[w].task.frame)
  /\ LET c == wt[w].client
     IN IF stage[c] = "dead" THEN UNCHANGED wire
        ELSE /\ Len(wire[c]) < MaxWire
             /\ \E f \in {wt[w].task.frame} \cup (IF DeferredWrites THEN {TornFrame} ELSE {}) :
                  wire' = [wire EXCEPT ![c] = Append(@, f)]
  /\ Advance(w)
  /\ UNCHANGED <<env, up, stage, clients, sid, sub_requested, publish_map, next, rcvd,
                 topic_list, queueVars, ioVars, ddsVars>>

WriterStep(w) == \/ Dequeue(w) \/ FindTopic(w) \/ Lookup(w) \/ WriterRace(w)
                 \/ Decide(w) \/ SendRefused(w) \/ Send(w)

=============================================================================
