---------------------------- MODULE BrokerProofs ----------------------------
(* Proofs about Broker, for any peers, threads, sessions and bounds. *)
EXTENDS Broker, WellFoundedInduction, TLAPS

-----------------------------------------------------------------------------
(* What the helpers return *)

LEMMA TailFacts ==
  ASSUME NEW S, NEW seq \in Seq(S), seq # <<>>
  PROVE  /\ Head(seq) \in S /\ Tail(seq) \in Seq(S)
         /\ Len(seq) > 1 => Tail(seq) # <<>>
         /\ Head(seq) \in Elements(seq)
         /\ Elements(Tail(seq)) \subseteq Elements(seq)
<1>1. Len(seq) \in Nat /\ Len(seq) >= 1
  OBVIOUS
<1>2. Head(seq) \in S /\ Tail(seq) \in Seq(S)
  OBVIOUS
<1>3. Len(Tail(seq)) = Len(seq) - 1
  OBVIOUS
<1>4. \A i \in 1..Len(Tail(seq)) : Tail(seq)[i] = seq[i + 1]
  OBVIOUS
<1>5. Elements(Tail(seq)) \subseteq Elements(seq)
  <2> DEFINE tail == Tail(seq)
  <2> HIDE DEF tail
  <2>1. Len(tail) = Len(seq) - 1 /\ \A i \in 1..Len(tail) : tail[i] = seq[i + 1]
    BY <1>3, <1>4 DEF tail
  <2>2. \A i \in 1..Len(tail) : i + 1 \in 1..Len(seq)
    BY <1>1, <2>1
  <2>3. Elements(tail) \subseteq Elements(seq)
    BY <2>1, <2>2 DEF Elements
  <2> QED BY <2>3 DEF tail
<1>6. Head(seq) \in Elements(seq)
  <2>1. Head(seq) = seq[1] /\ 1 \in 1..Len(seq)
    BY <1>1
  <2> QED BY <2>1 DEF Elements
<1>7. Len(seq) > 1 => Tail(seq) # <<>>
  <2> DEFINE tail == Tail(seq)
             none == <<>>
  <2>1. Len(none) = 0 /\ Len(tail) = Len(seq) - 1
    BY <1>3
  <2> HIDE DEF tail, none
  <2>2. Len(seq) > 1 => tail # none
    BY <1>1, <2>1
  <2> QED BY <2>2 DEF tail, none
<1> QED BY <1>2, <1>5, <1>6, <1>7

LEMMA AppendElements ==
  ASSUME NEW S, NEW seq \in Seq(S), NEW x \in S
  PROVE  Elements(Append(seq, x)) \subseteq Elements(seq) \cup {x}
<1> DEFINE more == Append(seq, x)
<1>1. /\ Len(more) = Len(seq) + 1 /\ Len(seq) \in Nat
      /\ \A i \in 1..Len(seq) : more[i] = seq[i]
      /\ more[Len(seq) + 1] = x
  OBVIOUS
<1> HIDE DEF more
<1>2. \A i \in 1..Len(more) : i \in 1..Len(seq) \/ i = Len(seq) + 1
  BY <1>1
<1>3. Elements(more) \subseteq Elements(seq) \cup {x}
  BY <1>1, <1>2 DEF Elements
<1> QED BY <1>3 DEF more

LEMMA PacketKinds ==
  ASSUME NEW p \in Packet
  PROVE  /\ p.type = "CONNECT" => p.client \in Clients
         /\ p.type = "SUBSCRIBE" => p.topic \in Topics
         /\ p.type = "PUBLISH" => p.qos \in 0..2 /\ p.id \in PacketIds /\ p.msg \in Msgs
         /\ p.type \in {"PUBACK", "PUBREC", "PUBREL", "PUBCOMP"} => p.id \in PacketIds
BY DEF Packet

LEMMA OpKinds ==
  ASSUME NEW o \in Ops
  PROVE  /\ o.op = "setid" => o.id \in Clients
         /\ o.op = "subscribe" => o.topic \in Topics
         /\ o.op = "ack" => [type |-> o.type, arg |-> o.arg] \in Frame
         /\ o.op \in {"publish", "dds"} => o.msg \in Contents
BY DEF Ops, Frame

LEMMA MessageProcessType ==
  ASSUME NEW p \in Packet, NEW m \in Contents
  PROVE  message_process(p, m) \o <<Op("read")>> \in Seq(Ops)
<1>1. Op("read") \in Ops
  BY DEF Op, Ops
<1>2. \A x \in Contents : ToAll(x) \in Ops /\ ToDDS(x) \in Ops
  BY DEF ToAll, ToDDS, Ops
<1>3. \A type \in {"PUBACK", "PUBREC", "PUBREL", "PUBCOMP"}, i \in PacketIds :
        ToClient(type, i) \in Ops
  BY DEF ToClient, Ops
<1>4. ToClient("CONNACK", 0) \in Ops /\ ToClient("SUBACK", 0) \in Ops
  BY DEF ToClient, Ops
<1>5. \A c \in Clients : SetId(c) \in Ops
  BY DEF SetId, Ops
<1>6. \A n \in Topics : Subscribe(n) \in Ops
  BY DEF Subscribe, Ops
<1>7. CASE p.type = "CONNECT"
  BY <1>1, <1>4, <1>5, <1>7, PacketKinds DEF message_process, ConnectOps
<1>8. CASE p.type = "SUBSCRIBE"
  BY <1>1, <1>4, <1>6, <1>8, PacketKinds DEF message_process, SubscribeOps
<1>9. CASE p.type = "PUBREC"
  BY <1>1, <1>3, <1>9, PacketKinds DEF message_process, PubrecOps
<1>10. CASE p.type = "PUBREL"
  BY <1>1, <1>2, <1>3, <1>10, PacketKinds DEF message_process, PubrelOps
<1>11. CASE p.type = "PUBLISH"
  <2>1. p.msg \in Contents /\ p.id \in PacketIds
    BY <1>11, PacketKinds DEF Contents
  <2>2. PublishOps(p) \in Seq(Ops)
    BY <1>2, <1>3, <2>1 DEF PublishOps
  <2> QED BY <1>1, <1>11, <2>2 DEF message_process
<1>12. CASE p.type \notin {"CONNECT", "SUBSCRIBE", "PUBREC", "PUBREL", "PUBLISH"}
  BY <1>1, <1>12 DEF message_process, PubackOps, PubcompOps
<1> QED BY <1>7, <1>8, <1>9, <1>10, <1>11, <1>12

LEMMA StoredMessagesType ==
  ASSUME NEW p \in Packet, NEW map \in [PacketIds -> Msgs \cup {NoMsg}]
  PROVE  StoredMessages(map, p) \in [PacketIds -> Msgs \cup {NoMsg}]
BY PacketKinds DEF StoredMessages

LEMMA EnqueueType ==
  ASSUME NEW S, NEW P, NEW queue \in [P -> Seq(S)], NEW p \in P, NEW x \in S
  PROVE  Enqueue(queue, p, x) \in [P -> Seq(S)]
BY DEF Enqueue

LEMMA DequeuedType ==
  ASSUME NEW S, NEW P, NEW queue \in [P -> Seq(S)], NEW p \in P, Nonempty(queue, p)
  PROVE  Dequeued(queue, p) \in [P -> Seq(S)] /\ Head(queue[p]) \in S
BY DEF Dequeued, Nonempty

(* The set of sessions with an id has a lowest address, so get_client is    *)
(* one of them.                                                             *)
LEMMA GetClientMatches ==
  ASSUME clients \subseteq Sessions, NEW id, Matching(id) # {}
  PROVE  get_client(id) \in Matching(id)
<1> DEFINE less == {ss \in Nat \X Nat : ss[1] < ss[2]}
<1>1. Matching(id) \subseteq Nat
  BY KindsAssumption DEF Matching
<1>2. IsWellFoundedOn(less, Nat)
  BY NatLessThanWellFounded, Zenon DEF OpToRel
<1>3. \E s \in Matching(id) : \A u \in Matching(id) : ~(<<u, s>> \in less)
  <2> HIDE DEF less
  <2> QED BY <1>1, <1>2, WFMin, Zenon
<1>4. \A s, u \in Nat : <<u, s>> \notin less => s <= u
  OBVIOUS
<1>5. \E s \in Matching(id) : \A u \in Matching(id) : s <= u
  <2> HIDE DEF less
  <2> QED BY <1>1, <1>3, <1>4
<1> QED BY <1>5 DEF get_client

-----------------------------------------------------------------------------
(* Type correctness *)

LEMMA TypeInit == Init => TypeOK
<1> SUFFICES ASSUME Init PROVE TypeOK
  OBVIOUS
<1>1. io \in [IoThreads -> Handler]
  BY DEF Init, Handler
<1>2. wt \in [Writers -> WriterState]
  <2> DEFINE idle == [pc |-> "idle", task |-> <<>>, targets |-> <<>>, client |-> 0]
  <2>1. <<>> \in Seq(Sessions \cup Ids)
    OBVIOUS
  <2>2. idle \in WriterState
    BY <2>1, Zenon DEF WriterState
  <2>3. wt = [w \in Writers |-> idle]
    BY DEF Init
  <2> HIDE DEF idle
  <2> QED BY <2>2, <2>3
<1>3. lst \in ListenerState
  BY DEF Init, ListenerState
<1>4. publish_map \in [Sessions -> [PacketIds -> Msgs \cup {NoMsg}]]
  BY DEF Init
<1>5. up \in BOOLEAN /\ accepting \in BOOLEAN /\ matched \in BOOLEAN
  BY Zenon DEF Init
<1>6. sid \in [Sessions -> Ids] /\ sub_requested \in [Sessions -> BOOLEAN]
  BY DEF Init, Ids
<1>7. /\ rcvd \in [Sessions -> Seq(Packet)]
      /\ wire \in [Sessions -> Seq(Frame \cup {TornFrame})]
      /\ topic_list \in [Topics -> Seq(Sessions)]
  BY DEF Init
<1>8. /\ q \in [Producers -> Seq(Task)]
      /\ dq \in [DDSProducers -> Seq(Contents)]
      /\ ddsOut \in Seq(Contents)
  BY DEF Init
<1>9. /\ env \in Environments
      /\ stage \in [Sessions -> {"none", "open", "reading", "busy", "dead"}]
      /\ clients \subseteq Sessions
      /\ next \in [Sessions -> Nat \ {0}] /\ retained \in Nat
  BY DEF Init
<1> QED BY <1>1, <1>2, <1>3, <1>4, <1>5, <1>6, <1>7, <1>8, <1>9 DEF TypeOK

LEMMA TypeSession ==
  ASSUME TypeOK, NEW t \in IoThreads, NEW s \in Sessions, Accept(t, s) \/ Receive(t, s)
  PROVE  TypeOK'
<1> USE DEF sessionVars, queueVars, ioVars, ddsVars
<1>1. CASE Accept(t, s)
  <2>1. [s |-> s, todo |-> <<Op("insert"), Op("read"), Op("accept")>>] \in Handler
    BY DEF Op, Ops, Handler
  <2>2. io' \in [IoThreads -> Handler]
    BY <1>1, <2>1 DEF Accept, TypeOK
  <2>3. stage' \in [Sessions -> {"none", "open", "reading", "busy", "dead"}]
    BY <1>1 DEF Accept, TypeOK
  <2>4. UNCHANGED <<env, up, clients, sid, sub_requested, publish_map, next, rcvd, wire,
                    topic_list, queueVars, wt, ddsVars>>
    BY <1>1 DEF Accept
  <2>5. accepting' \in BOOLEAN
    BY <1>1, Zenon DEF Accept
  <2> QED BY <2>2, <2>3, <2>4, <2>5 DEF TypeOK
<1>2. CASE Receive(t, s)
  <2>1. PICK k \in 1..MaxChunk : /\ next[s] + k - 1 <= Len(Script[s])
                                 /\ next' = [next EXCEPT ![s] = @ + k]
    BY <1>2 DEF Receive
  <2>2. /\ next \in [Sessions -> Nat \ {0}]
        /\ k \in Nat \ {0}
        /\ Script[s] \in Seq(Packet)
    <3>1. next \in [Sessions -> Nat \ {0}]
      BY DEF TypeOK
    <3>2. k \in Nat \ {0}
      BY EnvironmentsAssumption DEF TypeOK, MaxChunk
    <3>3. Script[s] \in Seq(Packet)
      BY EnvironmentsAssumption DEF TypeOK, Script
    <3> QED BY <3>1, <3>2, <3>3
  <2>3. next' \in [Sessions -> Nat \ {0}] /\ next[s] \in 1..Len(Script[s])
    BY <2>1, <2>2
  <2> DEFINE p == Script[s][next[s]]
             m == IF p.type = "PUBREL" THEN publish_map[s][p.id] ELSE NoMsg
             x == IF m = NoMsg THEN Garbage ELSE m
  <2>4. p \in Packet
    <3> DEFINE j == next[s]
               script == Script[s]
    <3>1. script \in Seq(Packet) /\ j \in 1..Len(script)
      BY <2>2, <2>3
    <3> HIDE DEF j, script
    <3>2. script[j] \in Packet
      BY <3>1
    <3> QED BY <3>2 DEF j, script
  <2>5. x \in Contents
    <3>1. p.type = "PUBREL" => p.id \in PacketIds
      BY <2>4, PacketKinds
    <3> QED BY <3>1 DEF Contents, TypeOK
  <2>6. /\ io' = [io EXCEPT ![t] = [s |-> s, todo |-> message_process(p, x) \o <<Op("read")>>]]
        /\ rcvd' = [rcvd EXCEPT ![s] = Append(@, p)]
        /\ publish_map' = [publish_map EXCEPT ![s] = StoredMessages(@, p)]
    BY <1>2 DEF Receive
  <2> HIDE DEF p, x
  <2>7. [s |-> s, todo |-> message_process(p, x) \o <<Op("read")>>] \in Handler
    BY <2>4, <2>5, MessageProcessType DEF Handler
  <2>8. io' \in [IoThreads -> Handler]
    BY <2>6, <2>7 DEF TypeOK
  <2>9. publish_map' \in [Sessions -> [PacketIds -> Msgs \cup {NoMsg}]]
    BY <2>4, <2>6, StoredMessagesType DEF TypeOK
  <2>10. rcvd' \in [Sessions -> Seq(Packet)]
    BY <2>4, <2>6 DEF TypeOK
  <2> QED BY <1>2, <2>3, <2>8, <2>9, <2>10 DEF Receive, TypeOK
<1> QED BY <1>1, <1>2

LEMMA TypeOperation ==
  ASSUME TypeOK, NEW t \in IoThreads, io[t].s \in Sessions,
         \/ Insert(t) \/ Read(t) \/ Reaccept(t) \/ Identify(t) \/ AddToTopic(t)
         \/ EnqueueMQTT(t) \/ EnqueueDDS(t) \/ PubrelFault(t)
  PROVE  TypeOK'
<1> USE DEF sessionVars, queueVars, ioVars, ddsVars
<1> DEFINE h == Head(io[t].todo)
<1>1. io[t].todo # <<>>
  BY DEF NextOp, Insert, Read, Reaccept, Identify, AddToTopic, EnqueueMQTT, EnqueueDDS,
         PubrelFault
<1>2. io[t] \in Handler
  BY DEF TypeOK
<1>3. h \in Ops /\ Tail(io[t].todo) \in Seq(Ops)
  BY <1>1, <1>2 DEF Handler
<1>4. ASSUME NEW rest \in Seq(Ops)
      PROVE  [io EXCEPT ![t].todo = rest] \in [IoThreads -> Handler]
  BY DEF TypeOK, Handler
<1>5. Done(t) => io' \in [IoThreads -> Handler]
  BY <1>3, <1>4 DEF Done
<1>6. CASE Insert(t)
  BY <1>5, <1>6 DEF Insert, TypeOK
<1>7. CASE Read(t)
  BY <1>5, <1>7 DEF Read, TypeOK
<1>8. CASE Reaccept(t)
  BY <1>5, <1>8 DEF Reaccept, TypeOK
<1>9. CASE Identify(t)
  <2>1. h.id \in Ids
    BY <1>3, <1>9, OpKinds DEF Identify, NextOp, Ids
  <2> QED BY <1>5, <1>9, <2>1 DEF Identify, TypeOK
<1>10. CASE AddToTopic(t)
  <2>1. h.topic \in Topics
    BY <1>3, <1>10, OpKinds DEF AddToTopic, NextOp
  <2>2. topic_list' \in [Topics -> Seq(Sessions)]
    BY <1>10, <2>1 DEF AddToTopic, add_mqtt_client_to_topic, TypeOK
  <2> QED BY <1>5, <1>10, <2>2 DEF AddToTopic, TypeOK
<1>11. CASE EnqueueMQTT(t)
  <2>1. t \in Producers
    BY DEF Producers
  <2>2. h.op = "ack" => AckTask(sid[io[t].s], h.type, h.arg) \in Task
    BY <1>3, OpKinds DEF AckTask, Task, TypeOK
  <2>3. h.op = "publish" => PublishTask(Broadcast, h.msg) \in Task
    BY <1>3, OpKinds DEF PublishTask, Task, Frame
  <2>4. q' \in [Producers -> Seq(Task)]
    BY <1>11, <2>1, <2>2, <2>3, EnqueueType DEF EnqueueMQTT, NextOp, TypeOK
  <2> QED BY <1>5, <1>11, <2>4 DEF EnqueueMQTT, TypeOK
<1>12. CASE EnqueueDDS(t)
  <2>1. t \in DDSProducers /\ h.msg \in Contents
    BY <1>3, <1>12, OpKinds DEF EnqueueDDS, NextOp, DDSProducers
  <2>2. dq' \in [DDSProducers -> Seq(Contents)]
    BY <1>12, <2>1, EnqueueType DEF EnqueueDDS, TypeOK
  <2> QED BY <1>5, <1>12, <2>2 DEF EnqueueDDS, TypeOK
<1>13. CASE PubrelFault(t)
  <2>1. <<Op("read")>> \in Seq(Ops)
    BY DEF Op, Ops
  <2>2. io' \in [IoThreads -> Handler]
    BY <1>4, <1>13, <2>1 DEF PubrelFault, TypeOK
  <2> QED BY <1>13, <2>2 DEF PubrelFault, Crash, TypeOK
<1> QED BY <1>6, <1>7, <1>8, <1>9, <1>10, <1>11, <1>12, <1>13

-----------------------------------------------------------------------------
(* What a thread holds in the middle of its work.  TypeOK alone is not      *)
(* inductive: a step of a thread is well typed because of what the thread's *)
(* earlier steps left.                                                      *)
HandlerInv == \A t \in IoThreads : io[t].todo # <<>> => io[t].s \in Sessions
WriterInv ==
  \A w \in Writers :
    /\ wt[w].pc # "idle" => wt[w].task \in Task
    /\ wt[w].pc \in {"lookup", "decide", "write"} => wt[w].targets # <<>>
    /\ wt[w].pc \in {"decide", "write"} => wt[w].client \in Sessions
ListenerInv ==
  /\ lst.taken <= Len(SampleSeq)
  /\ lst.pc \in {"find", "each"} => lst.taken >= 1
TypeInv == TypeOK /\ HandlerInv /\ WriterInv /\ ListenerInv

(* A writer that only changes its own state keeps its invariant when its    *)
(* new state satisfies it.                                                  *)
LEMMA WriterUpdate ==
  ASSUME TypeOK, WriterInv, NEW w \in Writers, NEW new \in WriterState,
         wt' = [wt EXCEPT ![w] = new],
         new.pc # "idle" => new.task \in Task,
         new.pc \in {"lookup", "decide", "write"} => new.targets # <<>>,
         new.pc \in {"decide", "write"} => new.client \in Sessions
  PROVE  wt' \in [Writers -> WriterState] /\ WriterInv'
<1>1. wt \in [Writers -> WriterState]
  BY DEF TypeOK
<1>2. wt' \in [Writers -> WriterState]
  BY <1>1
<1>3. ASSUME NEW v \in Writers
      PROVE  /\ wt'[v].pc # "idle" => wt'[v].task \in Task
             /\ wt'[v].pc \in {"lookup", "decide", "write"} => wt'[v].targets # <<>>
             /\ wt'[v].pc \in {"decide", "write"} => wt'[v].client \in Sessions
  <2>1. CASE v = w
    BY <1>1, <2>1
  <2>2. CASE v # w
    BY <1>1, <2>2 DEF WriterInv
  <2> QED BY <2>1, <2>2
<1> QED BY <1>2, <1>3 DEF WriterInv

(* Advance leaves the writer idle, or with targets to look up. *)
LEMMA AdvanceType ==
  ASSUME TypeOK, WriterInv, NEW w \in Writers, wt[w].pc \in {"lookup", "decide", "write"},
         Advance(w)
  PROVE  wt' \in [Writers -> WriterState] /\ WriterInv'
<1>1. wt[w] \in WriterState /\ wt \in [Writers -> WriterState]
  BY DEF TypeOK
<1>2. /\ wt[w].targets \in Seq(Sessions \cup Ids) /\ wt[w].targets # <<>>
      /\ wt[w].task \in Task
  BY <1>1 DEF WriterState, WriterInv
<1>3. /\ Tail(wt[w].targets) \in Seq(Sessions \cup Ids)
      /\ Len(wt[w].targets) > 1 => Tail(wt[w].targets) # <<>>
  BY <1>2, TailFacts
<1> DEFINE pc2 == IF Len(wt[w].targets) > 1 THEN "lookup" ELSE "idle"
           new == [wt[w] EXCEPT !.targets = Tail(@), !.pc = pc2]
<1>4. wt' = [wt EXCEPT ![w] = new]
  BY <1>1 DEF Advance, WriterState
<1>5. /\ new \in WriterState
      /\ new.pc = pc2 /\ new.targets = Tail(wt[w].targets) /\ new.task = wt[w].task
  BY <1>1, <1>3 DEF WriterState
<1> HIDE DEF new
<1> QED BY <1>2, <1>3, <1>4, <1>5, WriterUpdate

LEMMA TypeWriter ==
  ASSUME TypeInv, NEW w \in Writers, WriterStep(w)
  PROVE  TypeInv'
<1> USE DEF sessionVars, queueVars, ioVars, ddsVars
<1> DEFINE old == wt[w]
<1>1. /\ wt \in [Writers -> WriterState] /\ old \in WriterState
      /\ w \in Producers /\ TypeOK /\ WriterInv /\ HandlerInv /\ ListenerInv
  BY DEF TypeInv, TypeOK, Producers
<1>2. /\ old.pc # "idle" => old.task \in Task
      /\ old.pc \in {"lookup", "decide", "write"} => old.targets # <<>>
      /\ old.pc \in {"decide", "write"} => old.client \in Sessions
  BY <1>1 DEF WriterInv
<1>3. ASSUME UNCHANGED <<env, io, lst>>
      PROVE  HandlerInv' /\ ListenerInv'
  BY <1>1, <1>3 DEF HandlerInv, ListenerInv, SampleSeq
<1>4. CASE Dequeue(w)
  <2>1. PICK p \in {p \in Producers : Nonempty(q, p)} :
          /\ q' = Dequeued(q, p)
          /\ wt' = [wt EXCEPT ![w] =
               IF Head(q[p]).to = Broadcast
               THEN [pc |-> "find", task |-> Head(q[p]), targets |-> <<>>, client |-> 0]
               ELSE [pc |-> "lookup", task |-> Head(q[p]), targets |-> <<Head(q[p]).to>>,
                     client |-> 0]]
    BY <1>4 DEF Dequeue
  <2> DEFINE task == Head(q[p])
             new == IF task.to = Broadcast
                    THEN [pc |-> "find", task |-> task, targets |-> <<>>, client |-> 0]
                    ELSE [pc |-> "lookup", task |-> task, targets |-> <<task.to>>, client |-> 0]
  <2>2. q \in [Producers -> Seq(Task)]
    BY <1>1 DEF TypeOK
  <2>3. q' \in [Producers -> Seq(Task)] /\ task \in Task
    BY <2>1, <2>2, DequeuedType
  <2>4. task.to \in Ids \cup {Broadcast}
    BY <2>3 DEF Task
  <2> HIDE DEF task
  <2>5. <<>> \in Seq(Sessions \cup Ids) /\ (task.to # Broadcast => <<task.to>> \in Seq(Sessions \cup Ids))
    BY <2>4
  <2>6. new \in WriterState /\ new.task \in Task
    <3>1. CASE task.to = Broadcast
      BY <2>3, <2>5, <3>1, Zenon DEF WriterState
    <3>2. CASE task.to # Broadcast
      BY <2>3, <2>5, <3>2 DEF WriterState
    <3> QED BY <3>1, <3>2
  <2>7. /\ new.pc \in {"find", "lookup"}
        /\ new.pc = "lookup" => new.targets # <<>>
    OBVIOUS
  <2>8. wt' = [wt EXCEPT ![w] = new]
    BY <2>1 DEF task
  <2> HIDE DEF new
  <2>9. wt' \in [Writers -> WriterState] /\ WriterInv'
    BY <1>1, <2>6, <2>7, <2>8, WriterUpdate
  <2>10. TypeOK'
    BY <1>1, <1>4, <2>3, <2>9 DEF Dequeue, TypeOK
  <2> QED BY <1>3, <1>4, <2>9, <2>10 DEF Dequeue, TypeInv
<1>5. CASE FindTopic(w)
  <2> DEFINE found == find_topic(Gps)
             new == [wt[w] EXCEPT !.targets = found,
                                  !.pc = IF found = <<>> THEN "idle" ELSE "lookup"]
  <2>1. found \in Seq(Sessions)
    BY <1>1, KindsAssumption DEF find_topic, TypeOK
  <2> HIDE DEF found
  <2>2. found \in Seq(Sessions \cup Ids)
    BY <2>1
  <2>3. old.task \in Task
    BY <1>2, <1>5 DEF FindTopic, At
  <2>4. wt' = [wt EXCEPT ![w] = new]
    BY <1>1, <1>5 DEF FindTopic, WriterState, found
  <2>5. /\ new \in WriterState /\ new.task = old.task /\ new.pc \in {"idle", "lookup"}
        /\ new.pc = "lookup" => new.targets # <<>>
    BY <1>1, <2>2 DEF WriterState
  <2> HIDE DEF new
  <2>6. wt' \in [Writers -> WriterState] /\ WriterInv'
    BY <1>1, <2>3, <2>4, <2>5, WriterUpdate
  <2>7. TypeOK'
    BY <1>1, <1>5, <2>6 DEF FindTopic, TypeOK
  <2> QED BY <1>3, <1>5, <2>6, <2>7 DEF FindTopic, TypeInv
<1>6. CASE Lookup(w)
  <2> DEFINE id == TargetId(Head(wt[w].targets))
             new == [wt[w] EXCEPT !.client = get_client(id), !.pc = "decide"]
  <2>1. old.pc = "lookup"
    BY <1>6 DEF Lookup, At
  <2>2. wt' \in [Writers -> WriterState] /\ WriterInv'
    <3>1. CASE Matching(id) = {}
      <4>1. Advance(w)
        BY <1>6, <3>1 DEF Lookup
      <4> QED BY <1>1, <2>1, <4>1, AdvanceType
    <3>2. CASE Matching(id) # {}
      <4>1. get_client(id) \in Sessions
        <5>1. clients \subseteq Sessions
          BY <1>1 DEF TypeOK
        <5> HIDE DEF id
        <5>2. get_client(id) \in Matching(id)
          BY <3>2, <5>1, GetClientMatches
        <5> QED BY <5>1, <5>2 DEF Matching
      <4>2. wt' = [wt EXCEPT ![w] = new]
        BY <1>1, <1>6, <3>2 DEF Lookup, WriterState
      <4> HIDE DEF id
      <4>3. /\ new \in WriterState /\ new.task = old.task /\ new.targets = old.targets
            /\ new.pc = "decide" /\ new.client = get_client(id)
        BY <1>1, <4>1 DEF WriterState
      <4> HIDE DEF new
      <4> QED BY <1>1, <1>2, <2>1, <4>1, <4>2, <4>3, WriterUpdate
    <3> QED BY <3>1, <3>2
  <2>3. TypeOK'
    BY <1>1, <1>6, <2>2 DEF Lookup, TypeOK
  <2> QED BY <1>3, <1>6, <2>2, <2>3 DEF Lookup, TypeInv
<1>7. CASE WriterRace(w)
  <2>1. WriterInv' /\ HandlerInv' /\ ListenerInv'
    BY <1>1, <1>7 DEF WriterRace, WriterInv, HandlerInv, ListenerInv, SampleSeq
  <2>2. up' \in BOOLEAN
    BY <1>7, Zenon DEF WriterRace, Crash
  <2>3. TypeOK'
    BY <1>1, <1>7, <2>2 DEF WriterRace, TypeOK
  <2> QED BY <2>1, <2>3 DEF TypeInv
<1>8. Store(w) /\ old.pc # "idle" => q' \in [Producers -> Seq(Task)]
  <2>1. q \in [Producers -> Seq(Task)]
    BY <1>1 DEF TypeOK
  <2>2. ASSUME NEW x \in Task PROVE Enqueue(q, w, x) \in [Producers -> Seq(Task)]
    BY <1>1, <2>1, EnqueueType
  <2> QED BY <1>2, <2>2 DEF Store
<1>9. CASE Decide(w)
  <2>1. old.pc = "decide" /\ old.client \in Sessions
    BY <1>2, <1>9 DEF Decide, At
  <2>2. sub_requested' \in [Sessions -> BOOLEAN]
    BY <1>1, <1>9 DEF Decide, TypeOK
  <2>3. CASE Store(w) /\ Advance(w)
    <3>1. wt' \in [Writers -> WriterState] /\ WriterInv'
      BY <1>1, <2>1, <2>3, AdvanceType
    <3>2. TypeOK'
      BY <1>1, <1>8, <1>9, <2>1, <2>2, <2>3, <3>1 DEF Decide, TypeOK
    <3> QED BY <1>3, <1>9, <3>1, <3>2 DEF Decide, TypeInv
  <2>4. CASE UNCHANGED q /\ WriterGoto(w, "write")
    <3> DEFINE new == [wt[w] EXCEPT !.pc = "write"]
    <3>1. wt' = [wt EXCEPT ![w] = new]
      BY <1>1, <2>4 DEF WriterGoto, WriterState
    <3>2. /\ new \in WriterState /\ new.task = old.task /\ new.targets = old.targets
          /\ new.client = old.client
      BY <1>1 DEF WriterState
    <3> HIDE DEF new
    <3>3. wt' \in [Writers -> WriterState] /\ WriterInv'
      BY <1>1, <1>2, <2>1, <3>1, <3>2, WriterUpdate
    <3>4. TypeOK'
      BY <1>1, <1>9, <2>2, <2>4, <3>3 DEF Decide, TypeOK
    <3> QED BY <1>3, <1>9, <3>3, <3>4 DEF Decide, TypeInv
  <2> QED BY <1>9, <2>3, <2>4 DEF Decide
<1>10. CASE SendRefused(w)
  <2>1. old.pc = "write" /\ Store(w) /\ Advance(w)
    BY <1>10 DEF SendRefused, At
  <2>2. wt' \in [Writers -> WriterState] /\ WriterInv'
    BY <1>1, <2>1, AdvanceType
  <2>3. TypeOK'
    BY <1>1, <1>8, <1>10, <2>1, <2>2 DEF SendRefused, TypeOK
  <2> QED BY <1>3, <1>10, <2>2, <2>3 DEF SendRefused, TypeInv
<1>11. CASE Send(w)
  <2>1. old.pc = "write" /\ Advance(w) /\ old.client \in Sessions /\ old.task \in Task
    BY <1>2, <1>11 DEF Send, At
  <2>2. wt' \in [Writers -> WriterState] /\ WriterInv'
    BY <1>1, <2>1, AdvanceType
  <2>3. old.task.frame \in Frame
    BY <2>1 DEF Task
  <2>4. wire' \in [Sessions -> Seq(Frame \cup {TornFrame})]
    <3> DEFINE Wire == Frame \cup {TornFrame}
    <3>1. wire \in [Sessions -> Seq(Wire)]
      BY <1>1 DEF TypeOK
    <3>2. \/ wire' = wire
          \/ \E f \in Wire : wire' = Enqueue(wire, old.client, f)
      BY <1>11, <2>3 DEF Send, Enqueue
    <3> HIDE DEF Wire
    <3>3. ASSUME NEW f \in Wire PROVE Enqueue(wire, old.client, f) \in [Sessions -> Seq(Wire)]
      BY <2>1, <3>1, EnqueueType
    <3>4. wire' \in [Sessions -> Seq(Wire)]
      BY <3>1, <3>2, <3>3
    <3> QED BY <3>4 DEF Wire
  <2>5. TypeOK'
    BY <1>1, <1>11, <2>2, <2>4 DEF Send, TypeOK
  <2> QED BY <1>3, <1>11, <2>2, <2>5 DEF Send, TypeInv
<1> QED BY <1>4, <1>5, <1>6, <1>7, <1>9, <1>10, <1>11 DEF WriterStep

LEMMA TypeDDS ==
  ASSUME TypeInv, ListenerStep \/ Match \/ PublishDDS
  PROVE  TypeInv'
<1> USE DEF sessionVars, queueVars, ioVars, ddsVars
<1>1. /\ TypeOK /\ HandlerInv /\ WriterInv /\ ListenerInv /\ lst \in ListenerState
      /\ Listener \in Producers /\ Listener \in DDSProducers
  BY DEF TypeInv, TypeOK, Producers, DDSProducers
<1>2. SampleSeq \in Seq(Msgs) /\ Len(SampleSeq) \in Nat
  BY <1>1, EnvironmentsAssumption DEF TypeOK, SampleSeq
<1>3. ASSUME UNCHANGED <<io, wt>>
      PROVE  HandlerInv' /\ WriterInv'
  BY <1>1, <1>3 DEF HandlerInv, WriterInv
<1>4. lst.taken \in Nat /\ lst.targets \in Seq(Sessions)
  BY <1>1 DEF ListenerState
<1>5. CASE TakeSample
  <2>1. lst.taken + 1 \in 1..Len(SampleSeq)
    BY <1>2, <1>4, <1>5 DEF TakeSample
  <2>2. SampleSeq[lst.taken + 1] \in Contents
    BY <1>2, <2>1 DEF Contents
  <2>3. dq' \in [DDSProducers -> Seq(Contents)]
    BY <1>1, <1>5, <2>2, EnqueueType DEF TakeSample, TypeOK
  <2>4. lst' \in ListenerState /\ ListenerInv'
    <3> DEFINE n == lst.taken + 1
    <3>0. n \in Nat /\ lst' = [lst EXCEPT !.pc = "find", !.taken = n]
      BY <1>4, <1>5 DEF TakeSample
    <3> HIDE DEF n
    <3>1. lst' \in ListenerState /\ lst'.taken = n
      BY <1>1, <3>0 DEF ListenerState
    <3> USE DEF n
    <3> QED BY <1>2, <1>4, <1>5, <2>1, <3>1 DEF TakeSample, ListenerInv, SampleSeq
  <2>5. TypeOK'
    BY <1>1, <1>5, <2>3, <2>4 DEF TakeSample, TypeOK
  <2> QED BY <1>3, <1>5, <2>4, <2>5 DEF TakeSample, TypeInv
<1>6. CASE TakeFails
  <2>1. lst' \in ListenerState /\ ListenerInv'
    <3> DEFINE n == lst.taken + 1
    <3>0. n \in Nat /\ lst' = [lst EXCEPT !.pc = "count", !.taken = n]
      BY <1>4, <1>6 DEF TakeFails
    <3> HIDE DEF n
    <3>1. lst' \in ListenerState /\ lst'.taken = n /\ lst'.pc = "count"
      BY <1>1, <3>0 DEF ListenerState
    <3> USE DEF n
    <3>2. lst.taken < Len(SampleSeq)
      BY <1>6 DEF TakeFails
    <3> QED BY <1>2, <1>4, <1>6, <3>1, <3>2 DEF TakeFails, ListenerInv, SampleSeq
  <2>2. TypeOK'
    BY <1>1, <1>6, <2>1 DEF TakeFails, TypeOK
  <2> QED BY <1>3, <1>6, <2>1, <2>2 DEF TakeFails, TypeInv
<1>7. CASE ListenerFind
  <2>1. find_topic(Gps) \in Seq(Sessions)
    BY <1>1, KindsAssumption DEF find_topic, TypeOK
  <2>2. lst' \in ListenerState /\ ListenerInv'
    BY <1>1, <1>7, <2>1 DEF ListenerFind, ListenerAt, ListenerState, ListenerInv, SampleSeq
  <2>3. TypeOK'
    BY <1>1, <1>7, <2>2 DEF ListenerFind, TypeOK
  <2> QED BY <1>3, <1>7, <2>2, <2>3 DEF ListenerFind, TypeInv
<1>8. CASE ListenerEnqueue
  <2>1. Head(lst.targets) \in Sessions /\ Tail(lst.targets) \in Seq(Sessions)
    BY <1>4, <1>8, TailFacts DEF ListenerEnqueue
  <2>2. Sample \in Contents
    BY <1>1, <1>2, <1>4, <1>8 DEF ListenerEnqueue, ListenerAt, ListenerInv, Sample, SampleSeq, Contents
  <2>3. PublishTask(sid[Head(lst.targets)], Sample) \in Task
    BY <1>1, <2>1, <2>2 DEF PublishTask, Task, Frame, TypeOK
  <2>4. q' \in [Producers -> Seq(Task)]
    BY <1>1, <1>8, <2>3, EnqueueType DEF ListenerEnqueue, TypeOK
  <2>5. lst' \in ListenerState /\ ListenerInv'
    BY <1>1, <1>8, <2>1 DEF ListenerEnqueue, ListenerState, ListenerInv, SampleSeq
  <2>6. TypeOK'
    BY <1>1, <1>8, <2>4, <2>5 DEF ListenerEnqueue, TypeOK
  <2> QED BY <1>3, <1>8, <2>5, <2>6 DEF ListenerEnqueue, TypeInv
<1>9. CASE ListenerRace
  <2>1. up' \in BOOLEAN
    BY <1>9, Zenon DEF ListenerRace, Crash
  <2>2. TypeOK'
    BY <1>1, <1>9, <2>1 DEF ListenerRace, TypeOK
  <2> QED BY <1>1, <1>3, <1>9, <2>2 DEF ListenerRace, TypeInv, ListenerInv, SampleSeq
<1>10. CASE ListenerEnd
  <2>1. up' \in BOOLEAN
    BY <1>1, <1>10 DEF ListenerEnd, Crash, TypeOK
  <2>2. lst' \in ListenerState /\ ListenerInv'
    BY <1>1, <1>10 DEF ListenerEnd, ListenerState, ListenerInv, SampleSeq
  <2>3. TypeOK'
    BY <1>1, <1>10, <2>1, <2>2 DEF ListenerEnd, TypeOK
  <2> QED BY <1>3, <1>10, <2>2, <2>3 DEF ListenerEnd, TypeInv
<1>11. CASE CountSample
  <2>1. lst' \in ListenerState /\ ListenerInv'
    BY <1>1, <1>11 DEF CountSample, ListenerState, ListenerInv, SampleSeq
  <2>2. TypeOK'
    BY <1>1, <1>11, <2>1 DEF CountSample, TypeOK
  <2> QED BY <1>3, <1>11, <2>1, <2>2 DEF CountSample, TypeInv
<1>12. CASE Match
  <2>1. matched' \in BOOLEAN
    BY <1>12, Zenon DEF Match
  <2>2. TypeOK'
    BY <1>1, <1>12, <2>1 DEF Match, TypeOK
  <2> QED BY <1>1, <1>3, <1>12, <2>2 DEF Match, TypeInv, ListenerInv, SampleSeq
<1>13. CASE PublishDDS
  <2>1. PICK p \in {p \in DDSProducers : Nonempty(dq, p)} :
          /\ dq' = Dequeued(dq, p)
          /\ \/ up' = FALSE /\ UNCHANGED ddsOut
             \/ ddsOut' = Append(ddsOut, Head(dq[p])) /\ UNCHANGED up
    BY <1>13 DEF PublishDDS, Crash
  <2>2. dq \in [DDSProducers -> Seq(Contents)] /\ ddsOut \in Seq(Contents)
    BY <1>1 DEF TypeOK
  <2>3. dq' \in [DDSProducers -> Seq(Contents)] /\ Head(dq[p]) \in Contents
    BY <2>1, <2>2, DequeuedType
  <2>4. ddsOut' \in Seq(Contents)
    <3>1. Append(ddsOut, Head(dq[p])) \in Seq(Contents)
      BY <2>2, <2>3
    <3>2. ddsOut' = ddsOut \/ ddsOut' = Append(ddsOut, Head(dq[p]))
      BY <2>1
    <3> QED BY <2>2, <3>1, <3>2, Zenon
  <2>5. up' \in BOOLEAN
    <3>1. CASE up' = FALSE
      BY <3>1, Zenon
    <3>2. CASE UNCHANGED up
      BY <1>1, <3>2 DEF TypeOK
    <3> QED BY <2>1, <3>1, <3>2
  <2>6. TypeOK'
    BY <1>1, <1>13, <2>3, <2>4, <2>5 DEF PublishDDS, TypeOK
  <2> QED BY <1>1, <1>3, <1>13, <2>6 DEF PublishDDS, TypeInv, ListenerInv, SampleSeq
<1> QED BY <1>5, <1>6, <1>7, <1>8, <1>9, <1>10, <1>11, <1>12, <1>13 DEF ListenerStep

(* What a receive does apart from the contents of the packet. *)
LEMMA ReceiveStep ==
  ASSUME NEW t \in IoThreads, NEW s \in Sessions, Receive(t, s), io \in [IoThreads -> Handler]
  PROVE  /\ stage[s] = "reading" /\ stage' = [stage EXCEPT ![s] = "busy"]
         /\ UNCHANGED <<env, clients, topic_list, wt, lst>>
         /\ io'[t].s = s /\ \A u \in IoThreads \ {t} : io'[u] = io[u]
<1> DEFINE p == Script[s][next[s]]
           m == IF p.type = "PUBREL" THEN publish_map[s][p.id] ELSE NoMsg
           todo == message_process(p, IF m = NoMsg THEN Garbage ELSE m) \o <<Op("read")>>
<1>1. io' = [io EXCEPT ![t] = [s |-> s, todo |-> todo]]
  BY Zenon DEF Receive
<1>2. stage[s] = "reading" /\ stage' = [stage EXCEPT ![s] = "busy"]
  BY Zenon DEF Receive
<1>3. UNCHANGED <<env, clients, topic_list, wt, ddsVars>>
  BY Zenon DEF Receive
<1>4. UNCHANGED lst
  BY <1>3 DEF ddsVars
<1> HIDE DEF todo
<1> QED BY <1>1, <1>2, <1>3, <1>4

(* A step of an io thread keeps what the other threads hold, and gives its  *)
(* own handler a session.                                                   *)
LEMMA TypeIo ==
  ASSUME TypeInv, NEW t \in IoThreads, IoStep(t)
  PROVE  TypeInv'
<1> USE DEF sessionVars, queueVars, ioVars, ddsVars
<1>1. /\ TypeOK /\ HandlerInv /\ WriterInv /\ ListenerInv
      /\ io \in [IoThreads -> Handler] /\ io[t] \in Handler
  BY DEF TypeInv, TypeOK
<1>3. ASSUME UNCHANGED <<env, wt, lst>>
      PROVE  WriterInv' /\ ListenerInv'
  BY <1>1, <1>3 DEF WriterInv, ListenerInv, SampleSeq
<1>4. CASE \E s \in Sessions : Accept(t, s) \/ Receive(t, s)
  <2>1. PICK s \in Sessions : Accept(t, s) \/ Receive(t, s)
    BY <1>4
  <2>2. TypeOK'
    BY <1>1, <2>1, TypeSession
  <2>3. ASSUME UNCHANGED <<env, wt, lst>>, io'[t].s = s, \A u \in IoThreads \ {t} : io'[u] = io[u]
        PROVE  TypeInv'
    BY <1>1, <1>3, <2>2, <2>3 DEF HandlerInv, TypeInv
  <2>4. CASE Accept(t, s)
    <3>1. UNCHANGED <<env, wt, lst>> /\ io'[t].s = s /\ \A u \in IoThreads \ {t} : io'[u] = io[u]
      BY <1>1, <2>4 DEF Accept
    <3> QED BY <2>3, <3>1
  <2>5. CASE Receive(t, s)
    BY <1>1, <2>3, <2>5, ReceiveStep
  <2> QED BY <2>1, <2>4, <2>5
<1>5. CASE \/ Insert(t) \/ Read(t) \/ Reaccept(t) \/ Identify(t) \/ AddToTopic(t)
           \/ EnqueueMQTT(t) \/ EnqueueDDS(t) \/ PubrelFault(t)
  <2>1. io[t].todo # <<>>
    BY <1>5 DEF NextOp, Insert, Read, Reaccept, Identify, AddToTopic, EnqueueMQTT, EnqueueDDS,
                PubrelFault
  <2>2. io[t].s \in Sessions
    BY <1>1, <2>1 DEF HandlerInv
  <2>3. TypeOK'
    BY <1>1, <1>5, <2>2, TypeOperation
  <2>4. io' = io \/ \E todo : io' = [io EXCEPT ![t].todo = todo]
    BY <1>5 DEF Done, Insert, Read, Reaccept, Identify, AddToTopic, EnqueueMQTT, EnqueueDDS,
                PubrelFault
  <2>5. HandlerInv'
    BY <1>1, <2>2, <2>4 DEF HandlerInv, Handler
  <2>6. UNCHANGED <<env, wt, lst>>
    BY <1>5 DEF Insert, Read, Reaccept, Identify, AddToTopic, EnqueueMQTT, EnqueueDDS,
                PubrelFault
  <2> QED BY <1>3, <2>3, <2>5, <2>6 DEF TypeInv
<1> QED BY <1>4, <1>5 DEF IoStep

LEMMA TypeInvInductive == TypeInv /\ [Next]_vars => TypeInv'
<1> USE DEF sessionVars, queueVars, ioVars, ddsVars
<1> SUFFICES ASSUME TypeInv, [Next]_vars PROVE TypeInv'
  OBVIOUS
<1>1. ASSUME NEW s \in Sessions, ReadError(s) PROVE TypeInv'
  BY <1>1 DEF ReadError, TypeInv, TypeOK, HandlerInv, WriterInv, ListenerInv, SampleSeq
<1>2. CASE UNCHANGED vars
  BY <1>2 DEF vars, TypeInv, TypeOK, HandlerInv, WriterInv, ListenerInv, SampleSeq
<1>3. CASE MainReturns
  BY <1>3 DEF MainReturns, Crash, TypeInv, TypeOK, HandlerInv, WriterInv, ListenerInv, SampleSeq
<1> QED BY <1>1, <1>2, <1>3, TypeIo, TypeWriter, TypeDDS DEF Next

LEMMA TypeInvInit == Init => TypeInv
<1> SUFFICES ASSUME Init PROVE HandlerInv /\ WriterInv /\ ListenerInv
  BY TypeInit DEF TypeInv
<1>1. HandlerInv /\ WriterInv
  BY DEF Init, HandlerInv, WriterInv
<1>2. ListenerInv
  BY EnvironmentsAssumption DEF Init, ListenerInv, SampleSeq
<1> QED BY <1>1, <1>2

(* Type correctness, for any number of sessions, threads and packets: no    *)
(* handler, queue or writer of MQTTSession.cpp, BrokerMQTTPublisher.h and   *)
(* DataReaderListenerImpl.cpp ever holds what its declaration excludes.     *)
THEOREM BrokerTypeCorrect == Spec => []TypeOK
<1>1. TypeInv => TypeOK
  BY DEF TypeInv
<1> QED BY <1>1, TypeInvInit, TypeInvInductive, PTL DEF Spec

-----------------------------------------------------------------------------
(* No dangling session *)

(* The pointers that the threads follow stay valid because clients only     *)
(* grows and because a session gets to them through its own handler, which  *)
(* inserts it before its first receive.                                     *)
StageInv == \A s \in Sessions : stage[s] \in {"reading", "busy", "dead"} => s \in clients
InsertedInv ==
  \A t \in IoThreads :
    io[t].todo # <<>> => io[t].s \in clients \/ Head(io[t].todo).op = "insert"
AliveInv == SessionsAlive /\ StageInv /\ InsertedInv

(* Once its session is inserted, a handler keeps InsertedInv however much   *)
(* of its work remains.                                                     *)
LEMMA InsertedUpdate ==
  ASSUME TypeInv, InsertedInv, NEW t \in IoThreads, clients \subseteq clients',
         \A u \in IoThreads \ {t} : io'[u] = io[u],
         io'[t].s \in clients'
  PROVE  InsertedInv'
BY DEF InsertedInv

LEMMA AliveIo ==
  ASSUME TypeInv, AliveInv, NEW t \in IoThreads, IoStep(t)
  PROVE  AliveInv'
<1> USE DEF sessionVars, queueVars, ioVars, ddsVars
<1>1. /\ SessionsAlive /\ StageInv /\ InsertedInv
      /\ io \in [IoThreads -> Handler] /\ io[t] \in Handler
      /\ stage \in [Sessions -> {"none", "open", "reading", "busy", "dead"}]
      /\ topic_list \in [Topics -> Seq(Sessions)]
      /\ io[t].todo # <<>> => io[t].s \in Sessions
  BY DEF TypeInv, TypeOK, AliveInv, HandlerInv
<1>2. ASSUME UNCHANGED <<topic_list, wt, lst>>, clients \subseteq clients'
      PROVE  SessionsAlive'
  BY <1>1, <1>2 DEF SessionsAlive
<1>3. ASSUME UNCHANGED stage, clients \subseteq clients' PROVE StageInv'
  BY <1>1, <1>3 DEF StageInv
<1>4. Done(t) => io'[t].s = io[t].s /\ \A u \in IoThreads \ {t} : io'[u] = io[u]
  BY <1>1 DEF Done, Handler
<1>5. CASE \E s \in Sessions : Accept(t, s)
  <2>1. PICK s \in Sessions : Accept(t, s)
    BY <1>5
  <2>2. SessionsAlive'
    BY <1>2, <2>1 DEF Accept
  <2>3. StageInv'
    BY <1>1, <2>1 DEF Accept, StageInv
  <2>4. /\ UNCHANGED clients /\ \A u \in IoThreads \ {t} : io'[u] = io[u]
        /\ io'[t].todo = <<Op("insert"), Op("read"), Op("accept")>>
    BY <1>1, <2>1 DEF Accept
  <2>5. Head(io'[t].todo).op = "insert"
    BY <2>4 DEF Op
  <2>6. InsertedInv'
    BY <1>1, <2>4, <2>5 DEF InsertedInv
  <2> QED BY <2>2, <2>3, <2>6 DEF AliveInv
<1>6. CASE \E s \in Sessions : Receive(t, s)
  <2>1. PICK s \in Sessions : Receive(t, s)
    BY <1>6
  <2>2. s \in clients /\ UNCHANGED <<clients, topic_list, wt, lst>>
        /\ stage' = [stage EXCEPT ![s] = "busy"]
    BY <1>1, <2>1, ReceiveStep DEF StageInv
  <2>3. io'[t].s = s /\ \A u \in IoThreads \ {t} : io'[u] = io[u]
    BY <1>1, <2>1, ReceiveStep
  <2>4. SessionsAlive'
    BY <1>2, <2>2
  <2>5. StageInv'
    BY <1>1, <2>2 DEF StageInv
  <2>6. InsertedInv'
    BY <1>1, <2>2, <2>3, InsertedUpdate
  <2> QED BY <2>4, <2>5, <2>6 DEF AliveInv
<1>7. CASE Insert(t)
  <2>1. /\ UNCHANGED <<stage, topic_list, wt, lst>> /\ Done(t)
        /\ clients \subseteq clients' /\ io[t].s \in clients'
    BY <1>7 DEF Insert
  <2>2. InsertedInv'
    BY <1>1, <1>4, <2>1, InsertedUpdate
  <2> QED BY <1>2, <1>3, <2>1, <2>2 DEF AliveInv
<1>8. ASSUME NEW kind, NextOp(t, kind), kind # "insert"
      PROVE  io[t].s \in clients /\ io[t].s \in Sessions
  BY <1>1, <1>8 DEF NextOp, InsertedInv
<1>9. ASSUME io[t].s \in clients, Done(t), UNCHANGED clients PROVE InsertedInv'
  BY <1>1, <1>4, <1>9, InsertedUpdate
<1>10. CASE Read(t)
  <2>1. NextOp(t, "read") /\ Done(t) /\ stage' = [stage EXCEPT ![io[t].s] = "reading"]
        /\ UNCHANGED <<clients, topic_list, wt, lst>>
    BY <1>10 DEF Read
  <2>2. io[t].s \in clients /\ io[t].s \in Sessions
    BY <1>8, <2>1
  <2>3. StageInv'
    BY <1>1, <2>1, <2>2 DEF StageInv
  <2> QED BY <1>2, <1>9, <2>1, <2>2, <2>3 DEF AliveInv
<1>11. CASE AddToTopic(t)
  <2> DEFINE n == Head(io[t].todo).topic
             s == io[t].s
  <2>1. /\ NextOp(t, "subscribe") /\ Done(t) /\ UNCHANGED <<clients, stage, wt, lst>>
        /\ topic_list' = [topic_list EXCEPT ![n] = Append(@, s)]
    BY <1>11 DEF AddToTopic, add_mqtt_client_to_topic
  <2>2. s \in clients /\ s \in Sessions
    BY <1>8, <2>1
  <2>3. ASSUME NEW k \in Topics PROVE Elements(topic_list'[k]) \subseteq clients
    <3> HIDE DEF n, s
    <3>1. topic_list'[k] = topic_list[k] \/ topic_list'[k] = Append(topic_list[k], s)
      BY <1>1, <2>1
    <3>2. Elements(Append(topic_list[k], s)) \subseteq Elements(topic_list[k]) \cup {s}
      BY <1>1, <2>2, AppendElements
    <3>3. Elements(topic_list[k]) \subseteq clients
      BY <1>1 DEF SessionsAlive
    <3>4. CASE topic_list'[k] = topic_list[k]
      BY <3>3, <3>4
    <3>5. CASE topic_list'[k] = Append(topic_list[k], s)
      BY <2>2, <3>2, <3>3, <3>5
    <3> QED BY <3>1, <3>4, <3>5
  <2>4. SessionsAlive'
    BY <1>1, <2>1, <2>3 DEF SessionsAlive
  <2> QED BY <1>3, <1>9, <2>1, <2>2, <2>4 DEF AliveInv
<1>12. CASE Reaccept(t) \/ Identify(t) \/ EnqueueMQTT(t) \/ EnqueueDDS(t)
  <2>1. Done(t) /\ UNCHANGED <<clients, stage, topic_list, wt, lst>>
    BY <1>12 DEF Reaccept, Identify, EnqueueMQTT, EnqueueDDS
  <2>2. \/ NextOp(t, "accept") \/ NextOp(t, "setid") \/ NextOp(t, "ack")
        \/ NextOp(t, "publish") \/ NextOp(t, "dds")
    BY <1>12 DEF Reaccept, Identify, EnqueueMQTT, EnqueueDDS
  <2>3. io[t].s \in clients
    BY <1>8, <2>2
  <2> QED BY <1>2, <1>3, <1>9, <2>1, <2>3 DEF AliveInv
<1>13. CASE PubrelFault(t)
  <2>1. NextOp(t, "dds") /\ UNCHANGED <<clients, stage, topic_list, wt, lst>>
    BY <1>13 DEF PubrelFault
  <2>2. io'[t].s = io[t].s /\ \A u \in IoThreads \ {t} : io'[u] = io[u]
    BY <1>1, <1>13 DEF PubrelFault, Handler
  <2>3. InsertedInv'
    BY <1>1, <1>8, <2>1, <2>2, InsertedUpdate
  <2> QED BY <1>2, <1>3, <2>1, <2>3 DEF AliveInv
<1> QED BY <1>5, <1>6, <1>7, <1>10, <1>11, <1>12, <1>13 DEF IoStep

(* What SessionsAlive says of one writer. *)
WriterAlive(state) ==
  /\ Elements(state.targets) \cap Sessions \subseteq clients
  /\ state.pc \in {"decide", "write"} => state.client \in clients

(* A step that changes no session, list or other thread, and gives writer w *)
(* a state without dangling pointers.                                       *)
LEMMA AliveWriterUpdate ==
  ASSUME TypeInv, AliveInv, NEW w \in Writers, NEW new,
         wt' = [wt EXCEPT ![w] = new], WriterAlive(new),
         UNCHANGED <<clients, stage, topic_list, io, lst>>
  PROVE  AliveInv'
<1>1. wt \in [Writers -> WriterState] /\ SessionsAlive
  BY DEF TypeInv, TypeOK, AliveInv
<1>2. ASSUME NEW v \in Writers
      PROVE  /\ Elements(wt'[v].targets) \cap Sessions \subseteq clients'
             /\ wt'[v].pc \in {"decide", "write"} => wt'[v].client \in clients'
  <2>1. CASE v = w
    BY <1>1, <2>1 DEF WriterAlive
  <2>2. CASE v # w
    BY <1>1, <2>2 DEF SessionsAlive
  <2> QED BY <2>1, <2>2
<1>3. SessionsAlive'
  BY <1>1, <1>2 DEF SessionsAlive
<1>4. StageInv' /\ InsertedInv'
  BY DEF AliveInv, StageInv, InsertedInv
<1> QED BY <1>3, <1>4 DEF AliveInv

LEMMA AliveAdvance ==
  ASSUME TypeInv, AliveInv, NEW w \in Writers, Advance(w),
         wt[w].pc \in {"lookup", "decide", "write"},
         UNCHANGED <<clients, stage, topic_list, io, lst>>
  PROVE  AliveInv'
<1>1. /\ wt \in [Writers -> WriterState] /\ wt[w] \in WriterState
      /\ wt[w].targets \in Seq(Sessions \cup Ids) /\ wt[w].targets # <<>>
  BY DEF TypeInv, TypeOK, WriterInv, WriterState
<1>2. Elements(wt[w].targets) \cap Sessions \subseteq clients
  BY DEF AliveInv, SessionsAlive
<1>3. Elements(Tail(wt[w].targets)) \subseteq Elements(wt[w].targets)
  BY <1>1, TailFacts
<1> DEFINE pc2 == IF Len(wt[w].targets) > 1 THEN "lookup" ELSE "idle"
           new == [wt[w] EXCEPT !.targets = Tail(@), !.pc = pc2]
<1>4. wt' = [wt EXCEPT ![w] = new]
  BY <1>1 DEF Advance, WriterState
<1>5. new.pc = pc2 /\ new.targets = Tail(wt[w].targets)
  BY <1>1 DEF WriterState
<1> HIDE DEF new
<1>6. WriterAlive(new)
  BY <1>2, <1>3, <1>5 DEF WriterAlive
<1> QED BY <1>4, <1>6, AliveWriterUpdate

LEMMA AliveWriter ==
  ASSUME TypeInv, AliveInv, NEW w \in Writers, WriterStep(w)
  PROVE  AliveInv'
<1> USE DEF sessionVars, queueVars, ioVars, ddsVars
<1>1. /\ wt \in [Writers -> WriterState] /\ wt[w] \in WriterState
      /\ clients \subseteq Sessions
  BY DEF TypeInv, TypeOK
<1>2. WriterAlive(wt[w])
  BY DEF AliveInv, SessionsAlive, WriterAlive
<1>3. CASE Dequeue(w)
  <2>1. PICK p \in {p \in Producers : Nonempty(q, p)} :
          wt' = [wt EXCEPT ![w] =
            IF Head(q[p]).to = Broadcast
            THEN [pc |-> "find", task |-> Head(q[p]), targets |-> <<>>, client |-> 0]
            ELSE [pc |-> "lookup", task |-> Head(q[p]), targets |-> <<Head(q[p]).to>>,
                  client |-> 0]]
    BY <1>3 DEF Dequeue
  <2> DEFINE task == Head(q[p])
             new == IF task.to = Broadcast
                    THEN [pc |-> "find", task |-> task, targets |-> <<>>, client |-> 0]
                    ELSE [pc |-> "lookup", task |-> task, targets |-> <<task.to>>, client |-> 0]
  <2>2. q \in [Producers -> Seq(Task)]
    BY DEF TypeInv, TypeOK
  <2>3. task \in Task
    BY <2>1, <2>2, DequeuedType
  <2>4. task.to \notin Sessions
    BY <2>3, KindsAssumption DEF Task
  <2>5. wt' = [wt EXCEPT ![w] = new] /\ UNCHANGED <<clients, stage, topic_list, io, lst>>
    BY <1>3, <2>1 DEF Dequeue
  <2> HIDE DEF task
  <2>6. new.pc \in {"find", "lookup"} /\ (new.targets = <<>> \/ new.targets = <<task.to>>)
    OBVIOUS
  <2>7. Elements(<<>>) = {} /\ Elements(<<task.to>>) = {task.to}
    BY DEF Elements
  <2> HIDE DEF new
  <2>8. WriterAlive(new)
    BY <2>4, <2>6, <2>7 DEF WriterAlive
  <2> QED BY <2>5, <2>8, AliveWriterUpdate
<1>4. CASE FindTopic(w)
  <2> DEFINE found == find_topic(Gps)
             new == [wt[w] EXCEPT !.targets = found,
                                  !.pc = IF found = <<>> THEN "idle" ELSE "lookup"]
  <2>1. Elements(found) \subseteq clients
    BY KindsAssumption DEF AliveInv, SessionsAlive, find_topic
  <2>2. wt' = [wt EXCEPT ![w] = new] /\ UNCHANGED <<clients, stage, topic_list, io, lst>>
    BY <1>1, <1>4 DEF FindTopic, WriterState
  <2> HIDE DEF found
  <2>3. new.targets = found /\ new.pc \in {"idle", "lookup"}
    BY <1>1 DEF WriterState
  <2> HIDE DEF new
  <2>4. WriterAlive(new)
    BY <2>1, <2>3 DEF WriterAlive
  <2> QED BY <2>2, <2>4, AliveWriterUpdate
<1>5. CASE Lookup(w)
  <2> DEFINE id == TargetId(Head(wt[w].targets))
             new == [wt[w] EXCEPT !.client = get_client(id), !.pc = "decide"]
  <2>1. wt[w].pc = "lookup" /\ UNCHANGED <<clients, stage, topic_list, io, lst>>
    BY <1>5 DEF Lookup, At
  <2>2. CASE Matching(id) = {}
    <3>1. Advance(w)
      BY <1>5, <2>2 DEF Lookup
    <3> QED BY <2>1, <3>1, AliveAdvance
  <2>3. CASE Matching(id) # {}
    <3>1. wt' = [wt EXCEPT ![w] = new]
      BY <1>1, <1>5, <2>3 DEF Lookup, WriterState
    <3> HIDE DEF id
    <3>2. get_client(id) \in clients
      <4>1. get_client(id) \in Matching(id)
        BY <1>1, <2>3, GetClientMatches
      <4> QED BY <4>1 DEF Matching
    <3>3. new.targets = wt[w].targets /\ new.client = get_client(id)
      BY <1>1 DEF WriterState
    <3> HIDE DEF new
    <3>4. WriterAlive(new)
      BY <1>2, <3>2, <3>3 DEF WriterAlive
    <3> QED BY <2>1, <3>1, <3>4, AliveWriterUpdate
  <2> QED BY <2>2, <2>3
<1>6. CASE WriterRace(w)
  BY <1>6 DEF WriterRace, AliveInv, SessionsAlive, StageInv, InsertedInv
<1>7. CASE Decide(w)
  <2>1. wt[w].pc = "decide" /\ UNCHANGED <<clients, stage, topic_list, io, lst>>
    BY <1>7 DEF Decide, At
  <2>2. CASE Advance(w)
    BY <2>1, <2>2, AliveAdvance
  <2>3. CASE WriterGoto(w, "write")
    <3> DEFINE new == [wt[w] EXCEPT !.pc = "write"]
    <3>1. wt' = [wt EXCEPT ![w] = new]
      BY <1>1, <2>3 DEF WriterGoto, WriterState
    <3>2. new.targets = wt[w].targets /\ new.client = wt[w].client
      BY <1>1 DEF WriterState
    <3> HIDE DEF new
    <3>3. WriterAlive(new)
      BY <1>2, <2>1, <3>2 DEF WriterAlive
    <3> QED BY <2>1, <3>1, <3>3, AliveWriterUpdate
  <2> QED BY <1>7, <2>2, <2>3 DEF Decide
<1>8. CASE SendRefused(w) \/ Send(w)
  <2>1. /\ wt[w].pc = "write" /\ Advance(w)
        /\ UNCHANGED <<clients, stage, topic_list, io, lst>>
    BY <1>8 DEF SendRefused, Send, At
  <2> QED BY <2>1, AliveAdvance
<1> QED BY <1>3, <1>4, <1>5, <1>6, <1>7, <1>8 DEF WriterStep

LEMMA AliveDDS ==
  ASSUME TypeInv, AliveInv, ListenerStep \/ Match \/ PublishDDS
  PROVE  AliveInv'
<1> USE DEF sessionVars, queueVars, ioVars, ddsVars
<1>1. lst \in ListenerState /\ lst.targets \in Seq(Sessions)
  BY DEF TypeInv, TypeOK, ListenerState
<1>2. ASSUME UNCHANGED <<clients, stage, topic_list, io, wt>>,
             Elements(lst'.targets) \subseteq clients
      PROVE  AliveInv'
  BY <1>2 DEF AliveInv, SessionsAlive, StageInv, InsertedInv
<1>3. Elements(lst.targets) \subseteq clients
  BY DEF AliveInv, SessionsAlive
<1>4. CASE ListenerFind
  <2>1. lst'.targets = find_topic(Gps)
    BY <1>1, <1>4 DEF ListenerFind, ListenerState
  <2>2. Elements(find_topic(Gps)) \subseteq clients
    BY KindsAssumption DEF AliveInv, SessionsAlive, find_topic
  <2> QED BY <1>2, <1>4, <2>1, <2>2 DEF ListenerFind
<1>5. CASE ListenerEnqueue
  <2>1. lst'.targets = Tail(lst.targets)
    BY <1>1, <1>5 DEF ListenerEnqueue, ListenerState
  <2>2. Elements(Tail(lst.targets)) \subseteq Elements(lst.targets)
    BY <1>1, <1>5, TailFacts DEF ListenerEnqueue
  <2>3. Elements(lst'.targets) \subseteq clients
    BY <1>3, <2>1, <2>2
  <2> QED BY <1>2, <1>5, <2>3 DEF ListenerEnqueue
<1>6. CASE TakeSample \/ TakeFails \/ ListenerRace \/ ListenerEnd \/ CountSample
  <2>1. /\ lst'.targets = lst.targets
        /\ UNCHANGED <<clients, stage, topic_list, io, wt>>
    BY <1>1, <1>6 DEF TakeSample, TakeFails, ListenerRace, ListenerEnd, CountSample,
                      ListenerState
  <2> QED BY <1>2, <1>3, <2>1
<1>7. CASE Match \/ PublishDDS
  <2>1. UNCHANGED <<lst, clients, stage, topic_list, io, wt>>
    BY <1>7 DEF Match, PublishDDS
  <2> QED BY <1>2, <1>3, <2>1
<1> QED BY <1>4, <1>5, <1>6, <1>7 DEF ListenerStep

LEMMA AliveInit == Init => AliveInv
<1> SUFFICES ASSUME Init PROVE AliveInv
  OBVIOUS
<1>1. Elements(<<>>) = {}
  BY DEF Elements
<1>2. SessionsAlive
  BY <1>1 DEF Init, SessionsAlive
<1>3. StageInv /\ InsertedInv
  BY DEF Init, StageInv, InsertedInv
<1> QED BY <1>2, <1>3 DEF AliveInv

LEMMA AliveNext ==
  ASSUME TypeInv, AliveInv, [Next]_vars
  PROVE  AliveInv'
<1>1. ASSUME NEW s \in Sessions, ReadError(s) PROVE AliveInv'
  <2>1. /\ stage[s] = "reading" /\ stage' = [stage EXCEPT ![s] = "dead"]
        /\ UNCHANGED <<clients, topic_list, io, wt, lst>>
    BY <1>1 DEF ReadError, ioVars, ddsVars
  <2>2. StageInv'
    BY <2>1 DEF TypeInv, TypeOK, AliveInv, StageInv
  <2> QED BY <2>1, <2>2 DEF AliveInv, SessionsAlive, InsertedInv
<1>2. ASSUME UNCHANGED vars \/ MainReturns PROVE AliveInv'
  <2>1. UNCHANGED <<clients, stage, topic_list, io, wt, lst>>
    BY <1>2 DEF vars, MainReturns, sessionVars, ioVars, ddsVars
  <2>2. SessionsAlive'
    BY <2>1 DEF AliveInv, SessionsAlive
  <2>3. StageInv' /\ InsertedInv'
    BY <2>1 DEF AliveInv, StageInv, InsertedInv
  <2> QED BY <2>2, <2>3 DEF AliveInv
<1> QED BY <1>1, <1>2, AliveIo, AliveWriter, AliveDDS DEF Next

(* No thread ever follows a pointer to a destroyed MQTTSession, whatever    *)
(* the numbers of sessions and threads and whichever connections break: the *)
(* raw pointers in the topic list (BrokerClient.h:13) and the sessions that *)
(* the writers and the listener work on are held by mqtt_clients.           *)
THEOREM NoDanglingSession == Spec => []SessionsAlive
<1>1. Init => TypeInv /\ AliveInv
  BY TypeInvInit, AliveInit
<1>2. TypeInv /\ AliveInv /\ [Next]_vars => TypeInv' /\ AliveInv'
  BY TypeInvInductive, AliveNext
<1>3. AliveInv => SessionsAlive
  BY DEF AliveInv
<1> QED BY <1>1, <1>2, <1>3, PTL DEF Spec

=============================================================================
