------------------------------- MODULE Broker --------------------------------
(***************************************************************************)
(* The broker process: io threads, endpoint writers, the DDS listener and   *)
(* the DDS publisher over the state they share, as BrokerParticipant.cpp    *)
(* starts them.                                                             *)
(***************************************************************************)
EXTENDS MQTTSession, BrokerMQTTPublisher, DDSBridge, Counting

(* main waits 180 s for a change of the DDS matches, and returns when there *)
(* is none: the threads it has not joined take the process down.            *)
MainReturns ==
  /\ up /\ Crash
  /\ UNCHANGED <<env, sessionVars, topic_list, queueVars, ioVars, wt, ddsVars>>

Next ==
  \/ \E t \in IoThreads : IoStep(t)
  \/ \E s \in Sessions : ReadError(s)
  \/ \E w \in Writers : WriterStep(w)
  \/ ListenerStep
  \/ Match
  \/ PublishDDS
  \/ MainReturns

Spec == Init /\ [][Next]_vars

(* Every thread that can take a step eventually does, and a DDS reader      *)
(* eventually matches.  A handler that calls task_mutex_wlock can hang when *)
(* io threads contend (see TaskLock): instances with liveness properties    *)
(* have one io thread, which never waits for the lock.                      *)
FairSpec ==
  /\ Spec
  /\ \A t \in IoThreads : WF_vars(IoStep(t))
  /\ \A w \in Writers : WF_vars(WriterStep(w))
  /\ WF_vars(ListenerStep) /\ WF_vars(Match) /\ WF_vars(PublishDDS)

-----------------------------------------------------------------------------
(* Type invariant *)

Ops == [op : {"insert", "read", "accept"}]
         \cup [op : {"setid"}, id : Clients]
         \cup [op : {"subscribe"}, topic : Topics]
         \cup [op : {"ack"}, type : {"CONNACK", "SUBACK"}, arg : {0}]
         \cup [op : {"ack"}, type : {"PUBACK", "PUBREC", "PUBREL", "PUBCOMP"}, arg : PacketIds]
         \cup [op : {"publish", "dds"}, msg : Contents]

Handler == [s : Sessions \cup {0}, todo : Seq(Ops)]
WriterState == [pc : {"idle", "find", "lookup", "decide", "write"},
                task : Task \cup {<<>>}, targets : Seq(Sessions \cup Ids),
                client : Sessions \cup {0}]
ListenerState == [pc : {"idle", "find", "each", "count"}, targets : Seq(Sessions), taken : Nat]

(* Every variable keeps its type: the sessions, queues and threads hold     *)
(* what the declarations of MQTTSession.h and BrokerMQTTPublisher.h say.    *)
TypeOK ==
  /\ env \in Environments
  /\ up \in BOOLEAN
  /\ stage \in [Sessions -> {"none", "open", "reading", "busy", "dead"}]
  /\ clients \subseteq Sessions
  /\ sid \in [Sessions -> Ids]
  /\ sub_requested \in [Sessions -> BOOLEAN]
  /\ publish_map \in [Sessions -> [PacketIds -> Msgs \cup {NoMsg}]]
  /\ next \in [Sessions -> Nat \ {0}]
  /\ rcvd \in [Sessions -> Seq(Packet)]
  /\ wire \in [Sessions -> Seq(Frame \cup {TornFrame})]
  /\ topic_list \in [Topics -> Seq(Sessions)]
  /\ q \in [Producers -> Seq(Task)]
  /\ dq \in [DDSProducers -> Seq(Contents)]
  /\ io \in [IoThreads -> Handler]
  /\ accepting \in BOOLEAN
  /\ wt \in [Writers -> WriterState]
  /\ lst \in ListenerState
  /\ retained \in Nat
  /\ matched \in BOOLEAN
  /\ ddsOut \in Seq(Contents)

-----------------------------------------------------------------------------
(* Safety *)

(* The raw MQTTSession pointers that the topic list, the writers and the    *)
(* listener follow belong to sessions that mqtt_clients keeps alive         *)
(* (BrokerClient.h:13, MQTTSession.cpp:19): no step follows a pointer to a  *)
(* destroyed session, also after the peer is gone (MQTTSession.cpp:104-112). *)
SessionsAlive ==
  /\ \A n \in Topics : Elements(topic_list[n]) \subseteq clients
  /\ Elements(lst.targets) \subseteq clients
  /\ \A w \in Writers :
       /\ Elements(wt[w].targets) \cap Sessions \subseteq clients
       /\ wt[w].pc \in {"decide", "write"} => wt[w].client \in clients

(* The peers that follow MQTT's rule for CONNECT, the first packet of a     *)
(* connection and only the first.                                           *)
ConnectFirst ==
  \A e \in Environments : \A s \in Sessions : \A i \in 1..Len(e.script[s]) :
    e.script[s][i].type = "CONNECT" <=> i = 1

Published(s) == \E i \in 1..Len(wire[s]) : wire[s][i].type = "PUBLISH"
Asked(s) == \E i \in 1..Len(rcvd[s]) : rcvd[s][i].type = "SUBSCRIBE"

(* A PUBLISH is written only to a session whose SUBACK a writer has already *)
(* taken (BrokerMQTTPublisher.h:64-88), and a SUBACK is on its way only to  *)
(* a client one of whose sessions asked for it: a client that never         *)
(* subscribed receives no message, whatever the queues reorder.             *)
OnlySubscribers ==
  \A s \in Sessions :
    /\ Published(s) => sub_requested[s]
    /\ sub_requested[s] => \E u \in Sessions : sid[u] = sid[s] /\ Asked(u)

(* With a single writer thread, and writes that complete at once, SUBACK is *)
(* the first of the two on the wire.  (A second writer may overtake the     *)
(* first between set_sub_requested and send, BrokerMQTTPublisher.h:67-89,   *)
(* and a deferred write may send something else than the SUBACK,            *)
(* MQTTSession.cpp:68.)                                                     *)
SubackBeforePublish ==
  Cardinality(Running) = 1 /\ ~DeferredWrites => \A s \in Sessions : \A i \in 1..Len(wire[s]) :
    wire[s][i].type = "PUBLISH" => \E j \in 1..(i - 1) : wire[s][j].type = "SUBACK"

(* The answer MQTT asks for a packet. *)
Answer(p) ==
  CASE p.type = "CONNECT"              -> [type |-> "CONNACK", arg |-> 0]
    [] p.type = "SUBSCRIBE"            -> [type |-> "SUBACK", arg |-> 0]
    [] p.type = "PUBLISH" /\ p.qos = 1 -> [type |-> "PUBACK", arg |-> p.id]
    [] p.type = "PUBLISH" /\ p.qos = 2 -> [type |-> "PUBREC", arg |-> p.id]
    [] p.type = "PUBREC"               -> [type |-> "PUBREL", arg |-> p.id]
    [] p.type = "PUBREL"               -> [type |-> "PUBCOMP", arg |-> p.id]
    [] OTHER                           -> TornFrame

Answers == {f \in Frame : f.type # "PUBLISH"}

(* How often the sessions of client c asked for answer f, and got it. *)
AskedFor(c, f) ==
  Total([s \in Sessions |-> {i \in 1..Len(rcvd[s]) : sid[s] = c /\ Answer(rcvd[s][i]) = f}])
Written(c, f) == Total([s \in Sessions |-> {i \in Positions(wire[s], f) : sid[s] = c}])

(* Answers f to client c that are still on their way: in the handler of a   *)
(* session, in the queues, in the hands of a writer.                        *)
InHandlers(c, f) ==
  Total([t \in IoThreads |->
           {i \in Positions(io[t].todo, ToClient(f.type, f.arg)) : sid[io[t].s] = c}])
InQueues(c, f) == Total([p \in Producers |-> Positions(q[p], [to |-> c, frame |-> f])])
InWriters(c, f) ==
  Cardinality({w \in Writers : wt[w].pc # "idle" /\ wt[w].task = [to |-> c, frame |-> f]})

(* Every packet that message_process handled is answered exactly once to    *)
(* the client it came from: no queue, requeue or lookup by client id        *)
(* duplicates an answer, or loses one unless a connection of that client    *)
(* broke or a deferred write sent something else (MQTTSession.cpp:68,       *)
(* 174-183, 222-224, 380-415, 539-540; BrokerMQTTPublisher.h:42-127).       *)
AnsweredOnce ==
  \A c \in Clients : \A f \in Answers :
    LET asked == AskedFor(c, f)
        answered == Written(c, f) + InHandlers(c, f) + InQueues(c, f) + InWriters(c, f)
    IN /\ answered <= asked
       /\ \/ answered = asked
          \/ DeferredWrites \/ \E s \in Sessions : sid[s] = c /\ stage[s] = "dead"

(* Which packets release a message of QoS 2: a PUBREL, when the last packet *)
(* before it about its identifier is a PUBLISH.                             *)
QoS2(p) == p.type = "PUBLISH" /\ p.qos = 2
About(p, id) == (QoS2(p) \/ p.type = "PUBREL") /\ p.id = id
Releases(s, m) ==
  {i \in 1..Len(rcvd[s]) :
     /\ rcvd[s][i].type = "PUBREL"
     /\ \E j \in 1..(i - 1) :
          /\ QoS2(rcvd[s][j]) /\ rcvd[s][j].id = rcvd[s][i].id /\ rcvd[s][j].msg = m
          /\ \A k \in (j + 1)..(i - 1) : ~About(rcvd[s][k], rcvd[s][i].id)}
Direct(s, m) ==
  {i \in 1..Len(rcvd[s]) :
     rcvd[s][i].type = "PUBLISH" /\ rcvd[s][i].qos # 2 /\ rcvd[s][i].msg = m}

(* The packets of session s that make the broker forward message m, and     *)
(* what is still on its way to DDS.                                         *)
Accepted(s, m) == Direct(s, m) \cup Releases(s, m)
ToDDSPending(m) ==
  Total([t \in IoThreads |-> Positions(io[t].todo, ToDDS(m))])
    + Total([p \in DDSProducers |-> Positions(dq[p], m)])

(* A message reaches DDS once for each QoS 0 or 1 PUBLISH and once for each *)
(* completed QoS 2 exchange, however often its PUBLISH or PUBREL is         *)
(* repeated (MQTTSession.cpp:400-430, 471-579).  One that is no GPS         *)
(* document does not: it ends the process (BrokerPublisher.cpp:84).         *)
ForwardedOnce ==
  \A m \in Msgs \ Elements(SampleSeq) :
    up \/ m \notin Malformed =>
      Total([s \in Sessions |-> Accepted(s, m)]) = Count(ddsOut, m) + ToDDSPending(m)

Deliveries(s, m) == Count(wire[s], [type |-> "PUBLISH", arg |-> m])
Subscriptions(s) == Cardinality({i \in 1..Len(rcvd[s]) : rcvd[s][i].type = "SUBSCRIBE"})

(* A DDS sample is written to a session once for each time the session      *)
(* subscribed: the listener addresses its tasks to one client each, so a    *)
(* task that a writer stores again never reaches another client             *)
(* (DataReaderListenerImpl.cpp:153-181, BrokerMQTTPublisher.h:79).          *)
SampleAtMostOnce ==
  \A s \in Sessions : \A m \in Elements(SampleSeq) : Deliveries(s, m) <= Subscriptions(s)

(* No message is written to a session more often than it subscribed.        *)
(* BrokerMQTTPublisher.h:82 says of a client that has no SUBACK yet that    *)
(* the task "will be stored again": for that client, not for the others.    *)
DeliveredAtMostOnce ==
  \A s \in Sessions : \A m \in Msgs : Deliveries(s, m) <= Subscriptions(s)

-----------------------------------------------------------------------------
(* Liveness *)

(* Every packet the broker handled is answered, unless the process or the   *)
(* connection ends.                                                         *)
Answered ==
  \A s \in Sessions : \A i \in UNION {1..Len(e.script[s]) : e \in Environments} :
    (Len(rcvd[s]) >= i)
      ~> \/ ~up \/ stage[s] = "dead"
         \/ Len(rcvd[s]) >= i /\ Answer(rcvd[s][i]) \in Elements(wire[s]) \cup {TornFrame}

(* Every message the broker accepts reaches DDS and each session that was   *)
(* subscribed before its publisher connected.                               *)
Delivered ==
  \A s \in Sessions : \A m \in Msgs :
    (Direct(s, m) # {} \/ Releases(s, m) # {})
      ~> \/ ~up
         \/ /\ m \in Elements(ddsOut)
            /\ \A u \in StartsAfter[s] :
                 stage[u] = "dead" \/ [type |-> "PUBLISH", arg |-> m] \in Elements(wire[u])

=============================================================================
