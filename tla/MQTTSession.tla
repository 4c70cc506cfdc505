----------------------------- MODULE MQTTSession -----------------------------
(***************************************************************************)
(* The io_service threads: accepting connections                            *)
(* (src/Broker/BrokerMQTTSubscriber.cpp), and MQTTSession::read and          *)
(* message_process (src/Broker/MQTTSession.cpp).  A handler is a sequence   *)
(* of operations on shared state, its `todo`; every operation is a step, so *)
(* handlers of different sessions, and the other threads, interleave        *)
(* between them.                                                            *)
(***************************************************************************)
EXTENDS BrokerState

Op(kind) == [op |-> kind]
SetId(c) == [op |-> "setid", id |-> c]
Subscribe(n) == [op |-> "subscribe", topic |-> n]
ToClient(type, arg) == [op |-> "ack", type |-> type, arg |-> arg]
ToAll(m) == [op |-> "publish", msg |-> m]
ToDDS(m) == [op |-> "dds", msg |-> m]

(* The branches of message_process, as the operations they perform.  The    *)
(* client number of CONNECT is taken under the lock of TaskLock.            *)
ConnectOps(p) == <<SetId(p.client), ToClient("CONNACK", 0)>>

(* broker_cache is never filled: no retained message is sent. *)
SubscribeOps(p) == <<Subscribe(p.topic), ToClient("SUBACK", 0)>>

PubrecOps(p) == <<ToClient("PUBREL", p.id)>>

(* PUBACK and PUBCOMP are decoded and change nothing. *)
PubackOps(p) == <<>>
PubcompOps(p) == <<>>

(* The PUBLISH branch: acknowledge unless QoS 0, forward now unless QoS 2. *)
PublishOps(p) ==
  (IF p.qos = 1 THEN <<ToClient("PUBACK", p.id)>>
   ELSE IF p.qos = 2 THEN <<ToClient("PUBREC", p.id)>> ELSE <<>>)
  \o (IF p.qos # 2 THEN <<ToAll(p.msg), ToDDS(p.msg)>> ELSE <<>>)

PubrelNotCompleted(p, m) == <<ToDDS(m), ToAll(m)>>

(* The PUBREL branch: PUBCOMP is queued before the stored message m is      *)
(* looked up.                                                               *)
PubrelOps(p, m) ==
  <<ToClient("PUBCOMP", p.id), ToDDS(m), ToAll(m)>>

(* message_process: the operations that packet p causes on a session whose  *)
(* MQTT_publish_map holds m for p's identifier.  Other types are ignored.   *)
message_process(p, m) ==
  CASE p.type = "CONNECT"   -> ConnectOps(p)
    [] p.type = "SUBSCRIBE" -> SubscribeOps(p)
    [] p.type = "PUBACK"    -> PubackOps(p)
    [] p.type = "PUBREC"    -> PubrecOps(p)
    [] p.type = "PUBREL"    -> PubrelOps(p, m)
    [] p.type = "PUBCOMP"   -> PubcompOps(p)
    [] p.type = "PUBLISH"   -> PublishOps(p)
    [] OTHER                -> <<>>

StoredMessagesKeepReleased(map, p) ==
  CASE p.type = "PUBLISH" /\ p.qos = 2 -> [map EXCEPT ![p.id] = p.msg]
    [] OTHER                           -> map

(* What the packet leaves in MQTT_publish_map, private to the session. *)
StoredMessages(map, p) ==
  CASE p.type = "PUBLISH" /\ p.qos = 2 -> [map EXCEPT ![p.id] = p.msg]
    [] p.type = "PUBREL"               -> [map EXCEPT ![p.id] = NoMsg]
    [] OTHER                           -> map

-----------------------------------------------------------------------------
(* A thread takes steps while the process is up. *)
Idle(t) == up /\ io[t].todo = <<>>
NextOp(t, kind) == up /\ io[t].todo # <<>> /\ Head(io[t].todo).op = kind
Done(t) == io' = [io EXCEPT ![t].todo = Tail(@)]

(* BrokerMQTTSubscriber::do_accept's handler, and MQTTSession::start. *)
Accept(t, s) ==
  /\ Idle(t) /\ accepting /\ stage[s] = "none" /\ Started(s)
  /\ accepting' = FALSE
  /\ stage' = [stage EXCEPT ![s] = "open"]
  /\ io' = [io EXCEPT ![t] = [s |-> s, todo |-> <<Op("insert"), Op("read"), Op("accept")>>]]
  /\ UNCHANGED <<env, up, clients, sid, sub_requested, publish_map, next, rcvd, wire,
                 topic_list, queueVars, wt, ddsVars>>

(* mqtt_clients_.insert, under mqtt_clients_mutex_ (which no reader takes). *)
Insert(t) ==
  /\ NextOp(t, "insert")
  /\ clients' = clients \cup {io[t].s}
  /\ Done(t)
  /\ UNCHANGED <<env, up, stage, sid, sub_requested, publish_map, next, rcvd, wire,
                 topic_list, queueVars, accepting, wt, ddsVars>>

(* read(): the session's only outstanding receive. *)
Read(t) ==
  /\ NextOp(t, "read")
  /\ stage' = [stage EXCEPT ![io[t].s] = "reading"]
  /\ Done(t)
  /\ UNCHANGED <<env, up, clients, sid, sub_requested, publish_map, next, rcvd, wire,
                 topic_list, queueVars, accepting, wt, ddsVars>>

Reaccept(t) ==
  /\ NextOp(t, "accept")
  /\ accepting' = TRUE
  /\ Done(t)
  /\ UNCHANGED <<env, up, sessionVars, topic_list, queueVars, wt, ddsVars>>

(* A peer follows MQTT's handshake: it releases a QoS 2 message only once   *)
(* its client has the PUBREC, over this connection or an earlier one.       *)
PeerSends(s, p) ==
  p.type = "PUBREL" =>
    \E u \in Sessions, i \in 1..MaxWire :
      /\ sid[u] = sid[s] /\ i <= Len(wire[u])
      /\ wire[u][i] = [type |-> "PUBREC", arg |-> p.id]

(* The handler of async_receive.  A receive returns whatever TCP has: the   *)
(* first of k packets is handled, the bytes of the others are dropped.      *)
(* A PUBREL whose identifier is not in the map dereferences end(): the      *)
(* message is garbage, or PubrelFault happens.                              *)
Receive(t, s) ==
  /\ Idle(t) /\ stage[s] = "reading"
  /\ \E k \in 1..MaxChunk :
       /\ next[s] + k - 1 <= Len(Script[s])
       /\ next' = [next EXCEPT ![s] = @ + k]
  /\ LET p == Script[s][next[s]]
         m == IF p.type = "PUBREL" THEN publish_map[s][p.id] ELSE NoMsg
     IN /\ PeerSends(s, p)
        /\ rcvd' = [rcvd EXCEPT ![s] = Append(@, p)]
        /\ publish_map' = [publish_map EXCEPT ![s] = StoredMessages(@, p)]
        /\ io' = [io EXCEPT ![t] =
             [s |-> s, todo |-> message_process(p, IF m = NoMsg THEN Garbage ELSE m)
                                  \o <<Op("read")>>]]
  /\ stage' = [stage EXCEPT ![s] = "busy"]
  /\ UNCHANGED <<env, up, clients, sid, sub_requested, wire, topic_list, queueVars,
                 accepting, wt, ddsVars>>

(* The garbage takes the process down, or its interpretation throws and the *)
(* catch clause ends the handler.                                           *)
PubrelFault(t) ==
  /\ NextOp(t, "dds") /\ Head(io[t].todo).msg = Garbage
  /\ \/ Crash /\ UNCHANGED io
     \/ io' = [io EXCEPT ![t].todo = <<Op("read")>>] /\ UNCHANGED up
  /\ UNCHANGED <<env, sessionVars, topic_list, queueVars, accepting, wt, ddsVars>>

ReadErrorErases(s) ==
  /\ up /\ s \in Losable /\ stage[s] = "reading"
  /\ stage' = [stage EXCEPT ![s] = "dead"]
  /\ clients' = clients \ {s}
  /\ UNCHANGED <<env, up, sid, sub_requested, publish_map, next, rcvd, wire,
                 topic_list, queueVars, ioVars, wt, ddsVars>>

(* The peer is gone.  The handler does nothing: the session stays in        *)
(* mqtt_clients and in the topic list.                                      *)
ReadError(s) ==
  /\ up /\ s \in Losable /\ stage[s] = "reading"
  /\ stage' = [stage EXCEPT ![s] = "dead"]
  /\ UNCHANGED <<env, up, clients, sid, sub_requested, publish_map, next, rcvd, wire,
                 topic_list, queueVars, ioVars, wt, ddsVars>>

(* connected_client.set_id. *)
Identify(t) ==
  /\ NextOp(t, "setid")
  /\ sid' = [sid EXCEPT ![io[t].s] = Head(io[t].todo).id]
  /\ Done(t)
  /\ UNCHANGED <<env, up, stage, clients, sub_requested, publish_map, next, rcvd, wire,
                 topic_list, queueVars, accepting, wt, ddsVars>>

(* DTHREAD's write lock around add_mqtt_client_to_topic. *)
AddToTopic(t) ==
  /\ NextOp(t, "subscribe")
  /\ topic_list' = add_mqtt_client_to_topic(Head(io[t].todo).topic, io[t].s)
  /\ Done(t)
  /\ UNCHANGED <<env, up, sessionVars, queueVars, accepting, wt, ddsVars>>

(* MQTT_broker_task_queue.enqueue: an answer for this session's client, or  *)
(* a PUBLISH for "-99".                                                     *)
EnqueueMQTT(t) ==
  /\ NextOp(t, "ack") \/ NextOp(t, "publish")
  /\ LET h == Head(io[t].todo)
     IN q' = Enqueue(q, t, IF h.op = "ack" THEN AckTask(sid[io[t].s], h.type, h.arg)
                                           ELSE PublishTask(Broadcast, h.msg))
  /\ Done(t)
  /\ UNCHANGED <<env, up, sessionVars, topic_list, dq, accepting, wt, ddsVars>>

(* DDS_task_queue.enqueue. *)
EnqueueDDS(t) ==
  /\ NextOp(t, "dds")
  /\ dq' = Enqueue(dq, t, Head(io[t].todo).msg)
  /\ Done(t)
  /\ UNCHANGED <<env, up, sessionVars, topic_list, q, accepting, wt, ddsVars>>

IoStep(t) ==
  \/ \E s \in Sessions : Accept(t, s) \/ Receive(t, s)
  \/ Insert(t) \/ Read(t) \/ Reaccept(t) \/ Identify(t) \/ AddToTopic(t)
  \/ EnqueueMQTT(t) \/ EnqueueDDS(t) \/ PubrelFault(t)

=============================================================================
