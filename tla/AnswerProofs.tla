----------------------------- MODULE AnswerProofs -----------------------------
(* Proof that the broker answers every packet exactly once, to the client   *)
(* it came from.                                                            *)
EXTENDS SessionProofs, CountingProofs

-----------------------------------------------------------------------------
(* The answer in a handler *)

(* A handler queues its answer before it forwards. *)
AckFirst(todo) ==
  \A i, j \in 1..Len(todo) : i < j /\ todo[i].op = "dds" => todo[j].op # "ack"

LEMMA AckFirstTail ==
  ASSUME NEW S, NEW todo \in Seq(S), todo # <<>>, AckFirst(todo)
  PROVE  /\ AckFirst(Tail(todo))
         /\ Head(todo).op = "dds" => \A o \in Elements(Tail(todo)) : o.op # "ack"
<1> DEFINE rest == Tail(todo)
<1>1. /\ Len(todo) \in Nat /\ Len(rest) = Len(todo) - 1 /\ Len(todo) >= 1
      /\ \A i \in 1..Len(rest) : rest[i] = todo[i + 1]
      /\ Head(todo) = todo[1]
  OBVIOUS
<1> HIDE DEF rest
<1>2. \A i \in 1..Len(rest) : i + 1 \in 1..Len(todo) /\ 1 < i + 1
  BY <1>1
<1>3. 1 \in 1..Len(todo)
  BY <1>1
<1>4. AckFirst(rest)
  <2> SUFFICES ASSUME NEW i \in 1..Len(rest), NEW j \in 1..Len(rest), i < j, rest[i].op = "dds"
               PROVE  rest[j].op # "ack"
    BY DEF AckFirst
  <2>1. i + 1 < j + 1
    OBVIOUS
  <2> QED BY <1>1, <1>2, <2>1 DEF AckFirst
<1>5. Head(todo).op = "dds" => \A o \in Elements(rest) : o.op # "ack"
  BY <1>1, <1>2, <1>3 DEF AckFirst, Elements
<1> QED BY <1>4, <1>5 DEF rest

(* The operation that answers with frame f. *)
Acks(f) == ToClient(f.type, f.arg)

LEMMA AnswerKinds ==
  /\ \A f \in Answers : f = [type |-> f.type, arg |-> f.arg] /\ f # TornFrame /\ f.type # "PUBLISH"
  /\ \A f, type, arg : Acks(f).op = "ack" /\ ToClient(type, arg).op = "ack"
  /\ \A f \in Answers : \A type, arg :
       ToClient(type, arg) = Acks(f) <=> [type |-> type, arg |-> arg] = f
<1>1. \A f \in Answers : f = [type |-> f.type, arg |-> f.arg] /\ f.type # "PUBLISH"
  BY DEF Answers, Frame
<1>2. TornFrame.type = "TORN" /\ \A f \in Answers : f.type # "TORN"
  BY DEF Answers, Frame, TornFrame
<1>3. \A f, type, arg : Acks(f).op = "ack" /\ ToClient(type, arg).op = "ack"
  BY DEF Acks, ToClient
<1>4. \A f, type, arg : ToClient(type, arg) = Acks(f) <=> type = f.type /\ arg = f.arg
  BY DEF Acks, ToClient
<1>5. \A f, type, arg : [type |-> type, arg |-> arg] = [type |-> f.type, arg |-> f.arg]
                          <=> type = f.type /\ arg = f.arg
  OBVIOUS
<1> QED BY <1>1, <1>2, <1>3, <1>4, <1>5

(* The only operation that may answer is the k-th. *)
LEMMA AckAt ==
  ASSUME NEW todo \in Seq(Ops), NEW k \in 1..Len(todo), NEW f,
         \A i \in 1..Len(todo) : todo[i].op = "ack" => i = k
  PROVE  Count(todo, Acks(f)) = IF todo[k] = Acks(f) THEN 1 ELSE 0
<1>1. Acks(f).op = "ack"
  BY AnswerKinds
<1>2. CASE todo[k] = Acks(f)
  <2>1. Positions(todo, Acks(f)) = {k}
    BY <1>1, <1>2 DEF Positions
  <2> QED BY <1>2, <2>1, FS_Singleton DEF Count
<1>3. CASE todo[k] # Acks(f)
  <2>1. Positions(todo, Acks(f)) = {}
    BY <1>1, <1>3 DEF Positions
  <2> QED BY <1>3, <2>1, FS_EmptySet DEF Count
<1> QED BY <1>2, <1>3

LEMMA AckNowhere ==
  ASSUME NEW todo \in Seq(Ops), NEW f, \A i \in 1..Len(todo) : todo[i].op # "ack"
  PROVE  Count(todo, Acks(f)) = 0 /\ Positions(todo, Acks(f)) = {}
<1>1. Positions(todo, Acks(f)) = {}
  BY AnswerKinds DEF Positions
<1> QED BY <1>1, FS_EmptySet DEF Count

LEMMA PacketAnswers ==
  ASSUME NEW p \in Packet, NEW m \in Contents
  PROVE  LET todo == message_process(p, m) \o <<Op("read")>> IN
         /\ AckFirst(todo)
         /\ \A f \in Answers : Count(todo, Acks(f)) = IF Answer(p) = f THEN 1 ELSE 0
<1> DEFINE todo == message_process(p, m) \o <<Op("read")>>
<1>1. todo \in Seq(Ops)
  BY MessageProcessType
<1>2. \A type, x : ToClient(type, x).op = "ack" /\ ToAll(x).op = "publish" /\ ToDDS(x).op = "dds"
  BY DEF ToClient, ToAll, ToDDS
<1>3. \A x : SetId(x).op = "setid" /\ Subscribe(x).op = "subscribe" /\ Op("read").op = "read"
  BY DEF SetId, Subscribe, Op
<1>4. \A i \in 1..4 : i = 1 \/ i = 2 \/ i = 3 \/ i = 4
  OBVIOUS
<1>5. \A i \in 1..3 : i = 1 \/ i = 2 \/ i = 3
  OBVIOUS
<1>6. \A i \in 1..2 : i = 1 \/ i = 2
  OBVIOUS
<1> SUFFICES AckFirst(todo) /\ \A f \in Answers : Count(todo, Acks(f)) = IF Answer(p) = f THEN 1 ELSE 0
  OBVIOUS
<1>7. ASSUME NEW k \in 1..Len(todo), NEW type, NEW arg,
             todo[k] = ToClient(type, arg), Answer(p) = [type |-> type, arg |-> arg],
             \A i \in 1..Len(todo) : todo[i].op = "ack" => i = k,
             \A i \in 1..Len(todo) : todo[i].op = "dds" => k < i
      PROVE  AckFirst(todo) /\ \A f \in Answers : Count(todo, Acks(f)) = IF Answer(p) = f THEN 1 ELSE 0
  <2> HIDE DEF todo
  <2>1. Len(todo) \in Nat
    BY <1>1
  <2>2. AckFirst(todo)
    BY <1>7, <2>1 DEF AckFirst
  <2>3. ASSUME NEW f \in Answers PROVE Count(todo, Acks(f)) = IF Answer(p) = f THEN 1 ELSE 0
    <3>1. Count(todo, Acks(f)) = IF todo[k] = Acks(f) THEN 1 ELSE 0
      BY <1>1, <1>7, AckAt
    <3>2. todo[k] = Acks(f) <=> Answer(p) = f
      BY <1>7, AnswerKinds
    <3> QED BY <3>1, <3>2
  <2> QED BY <2>2, <2>3
<1>8. ASSUME Answer(p) = TornFrame, \A i \in 1..Len(todo) : todo[i].op # "ack"
      PROVE  AckFirst(todo) /\ \A f \in Answers : Count(todo, Acks(f)) = IF Answer(p) = f THEN 1 ELSE 0
  <2> HIDE DEF todo
  <2>1. AckFirst(todo)
    BY <1>8 DEF AckFirst
  <2>2. \A f \in Answers : Count(todo, Acks(f)) = 0 /\ Answer(p) # f
    BY <1>1, <1>8, AckNowhere, AnswerKinds
  <2> QED BY <2>1, <2>2
<1>9. CASE p.type = "CONNECT"
  <2>1. todo = <<SetId(p.client), ToClient("CONNACK", 0), Op("read")>>
    BY <1>9, PacketTodo
  <2> HIDE DEF todo
  <2>2. /\ Len(todo) = 3 /\ todo[2] = ToClient("CONNACK", 0)
        /\ todo[1].op = "setid" /\ todo[3].op = "read" /\ todo[2].op = "ack"
    BY <1>2, <1>3, <2>1
  <2>3. Answer(p) = [type |-> "CONNACK", arg |-> 0]
    BY <1>9 DEF Answer
  <2> QED BY <1>5, <1>7, <2>2, <2>3
<1>10. CASE p.type = "SUBSCRIBE"
  <2>1. todo = <<Subscribe(p.topic), ToClient("SUBACK", 0), Op("read")>>
    BY <1>10, PacketTodo
  <2> HIDE DEF todo
  <2>2. /\ Len(todo) = 3 /\ todo[2] = ToClient("SUBACK", 0)
        /\ todo[1].op = "subscribe" /\ todo[3].op = "read" /\ todo[2].op = "ack"
    BY <1>2, <1>3, <2>1
  <2>3. Answer(p) = [type |-> "SUBACK", arg |-> 0]
    BY <1>10 DEF Answer
  <2> QED BY <1>5, <1>7, <2>2, <2>3
<1>11. CASE p.type = "PUBREC"
  <2>1. todo = <<ToClient("PUBREL", p.id), Op("read")>>
    BY <1>11, PacketTodo
  <2> HIDE DEF todo
  <2>2. Len(todo) = 2 /\ todo[1] = ToClient("PUBREL", p.id) /\ todo[1].op = "ack" /\ todo[2].op = "read"
    BY <1>2, <1>3, <2>1
  <2>3. Answer(p) = [type |-> "PUBREL", arg |-> p.id]
    BY <1>11 DEF Answer
  <2> QED BY <1>6, <1>7, <2>2, <2>3
<1>12. CASE p.type = "PUBREL"
  <2>1. todo = <<ToClient("PUBCOMP", p.id), ToDDS(m), ToAll(m), Op("read")>>
    BY <1>12, PacketTodo
  <2> HIDE DEF todo
  <2>2. /\ Len(todo) = 4 /\ todo[1] = ToClient("PUBCOMP", p.id) /\ todo[1].op = "ack"
        /\ todo[2].op = "dds" /\ todo[3].op = "publish" /\ todo[4].op = "read"
    BY <1>2, <1>3, <2>1
  <2>3. Answer(p) = [type |-> "PUBCOMP", arg |-> p.id]
    BY <1>12 DEF Answer
  <2> QED BY <1>4, <1>7, <2>2, <2>3
<1>13. CASE p.type = "PUBLISH" /\ p.qos = 0
  <2>1. todo = <<ToAll(p.msg), ToDDS(p.msg), Op("read")>>
    BY <1>13, PacketTodo
  <2> HIDE DEF todo
  <2>2. Len(todo) = 3 /\ todo[1].op = "publish" /\ todo[2].op = "dds" /\ todo[3].op = "read"
    BY <1>2, <1>3, <2>1
  <2>3. Answer(p) = TornFrame
    BY <1>13 DEF Answer
  <2> QED BY <1>5, <1>8, <2>2, <2>3
<1>14. CASE p.type = "PUBLISH" /\ p.qos = 1
  <2>1. todo = <<ToClient("PUBACK", p.id), ToAll(p.msg), ToDDS(p.msg), Op("read")>>
    BY <1>14, PacketTodo
  <2> HIDE DEF todo
  <2>2. /\ Len(todo) = 4 /\ todo[1] = ToClient("PUBACK", p.id) /\ todo[1].op = "ack"
        /\ todo[2].op = "publish" /\ todo[3].op = "dds" /\ todo[4].op = "read"
    BY <1>2, <1>3, <2>1
  <2>3. Answer(p) = [type |-> "PUBACK", arg |-> p.id]
    BY <1>14 DEF Answer
  <2> QED BY <1>4, <1>7, <2>2, <2>3
<1>15. CASE p.type = "PUBLISH" /\ p.qos = 2
  <2>1. todo = <<ToClient("PUBREC", p.id), Op("read")>>
    BY <1>15, PacketTodo
  <2> HIDE DEF todo
  <2>2. Len(todo) = 2 /\ todo[1] = ToClient("PUBREC", p.id) /\ todo[1].op = "ack" /\ todo[2].op = "read"
    BY <1>2, <1>3, <2>1
  <2>3. Answer(p) = [type |-> "PUBREC", arg |-> p.id]
    BY <1>15 DEF Answer
  <2> QED BY <1>6, <1>7, <2>2, <2>3
<1>16. CASE p.type \notin {"CONNECT", "SUBSCRIBE", "PUBREC", "PUBREL", "PUBLISH"}
  <2>1. todo = <<Op("read")>>
    BY <1>16, PacketTodo
  <2> HIDE DEF todo
  <2>2. Len(todo) = 1 /\ todo[1].op = "read"
    BY <1>3, <2>1
  <2>3. Answer(p) = TornFrame
    BY <1>16 DEF Answer
  <2> QED BY <1>8, <2>2, <2>3
<1>17. p.type = "PUBLISH" => p.qos = 0 \/ p.qos = 1 \/ p.qos = 2
  BY PacketKinds
<1> QED BY <1>9, <1>10, <1>11, <1>12, <1>13, <1>14, <1>15, <1>16, <1>17

-----------------------------------------------------------------------------
(* Whom an answer is for *)

IsAnswer(frame) == frame.type # "PUBLISH"

(* A session of client c is in mqtt_clients. *)
Known(c) == c \in Clients /\ \E s \in clients : sid[s] = c

(* A handler answers a session that has its id, or is about to get it; an   *)
(* answer in a queue or with a writer is for the id of a session, and the   *)
(* writer that is about to write it has found a session of that id.         *)
HandlerTo ==
  \A t \in IoThreads :
    /\ AckFirst(io[t].todo)
    /\ (\E o \in Elements(io[t].todo) : o.op = "ack") =>
         sid[io[t].s] \in Clients \/ Head(io[t].todo).op = "setid"
QueueTo == \A p \in Producers : \A k \in Elements(q[p]) : IsAnswer(k.frame) => Known(k.to)
Aimed(state) ==
  state.pc # "idle" /\ IsAnswer(state.task.frame) =>
    /\ Known(state.task.to) /\ state.pc # "find" /\ state.targets = <<state.task.to>>
    /\ state.pc \in {"decide", "write"} => sid[state.client] = state.task.to
WriterTo == \A w \in Writers : Aimed(wt[w])
NamedAlive == \A s \in Sessions : sid[s] \in Clients => s \in clients

(* Before it has an id, a session has received its CONNECT at most, and no  *)
(* answer.                                                                  *)
WireTo ==
  \A s \in Sessions : sid[s] = NoClient =>
    \A i \in 1..Len(wire[s]) : wire[s][i].type \in {"PUBLISH", "TORN"}
ConnectInv ==
  /\ \A s \in Sessions : next[s] = 1 => rcvd[s] = <<>>
  /\ \A t \in IoThreads, s \in Sessions : Identifying(t, s) =>
       \E p \in Packet :
         /\ p.type = "CONNECT" /\ rcvd[s] = <<p>>
         /\ io[t].todo = <<SetId(p.client), ToClient("CONNACK", 0), Op("read")>>

AddressInv == HandlerTo /\ QueueTo /\ WriterTo /\ NamedAlive /\ WireTo /\ ConnectInv

LEMMA KnownStays ==
  ASSUME TypeInv, IdsKept, [Next]_vars
  PROVE  /\ clients \subseteq clients'
         /\ \A c : Known(c) => c \in Clients /\ \E s \in clients' : sid'[s] = c
<1> USE DEF sessionVars, queueVars, ioVars, ddsVars
<1>1. clients \subseteq clients'
  <2>1. ASSUME NEW t \in IoThreads, IoStep(t) PROVE clients \subseteq clients'
    BY <2>1 DEF IoStep, Accept, Receive, Insert, Read, Reaccept, Identify, AddToTopic,
       EnqueueMQTT, EnqueueDDS, PubrelFault
  <2> QED BY <2>1, OthersFrame
<1>2. clients \subseteq Sessions
  BY DEF TypeInv, TypeOK
<1> QED BY <1>1, <1>2 DEF Known, IdsKept

(* Steps that leave the writers and the sockets alone. *)
LEMMA AddressFrame ==
  ASSUME TypeInv, TypeInv', AddressInv, IdsKept, [Next]_vars, UNCHANGED <<wt, wire>>
  PROVE  WriterTo' /\ WireTo'
<1>1. \A c : Known(c) => c \in Clients /\ \E s \in clients' : sid'[s] = c
  BY KnownStays
<1>2. WireTo'
  <2> SUFFICES ASSUME NEW s \in Sessions, sid'[s] = NoClient
               PROVE  sid[s] = NoClient
    BY DEF AddressInv, WireTo
  <2>1. sid[s] \in Clients \/ sid[s] = NoClient
    BY DEF TypeInv, TypeOK, Ids
  <2> QED BY <2>1, KindsAssumption DEF IdsKept
<1>3. ASSUME NEW w \in Writers PROVE Aimed(wt[w])'
  <2>1. Aimed(wt[w])
    BY DEF AddressInv, WriterTo
  <2>2. wt[w].pc \in {"decide", "write"} => wt[w].client \in Sessions
    BY DEF TypeInv, WriterInv
  <2> SUFFICES ASSUME wt[w].pc # "idle", IsAnswer(wt[w].task.frame)
               PROVE  /\ Known(wt[w].task.to)' /\ wt[w].pc # "find"
                      /\ wt[w].targets = <<wt[w].task.to>>
                      /\ wt[w].pc \in {"decide", "write"} => sid'[wt[w].client] = wt[w].task.to
    BY DEF Aimed, IsAnswer
  <2>3. Known(wt[w].task.to)
    BY <2>1 DEF Aimed
  <2>4. wt[w].task.to \in Clients /\ \E s \in clients' : sid'[s] = wt[w].task.to
    BY <1>1, <2>3
  <2>5. Known(wt[w].task.to)'
    BY <2>4 DEF Known
  <2> QED BY <2>1, <2>2, <2>4, <2>5 DEF Aimed, IdsKept
<1> QED BY <1>2, <1>3 DEF WriterTo

LEMMA QueueToSame ==
  ASSUME TypeInv, AddressInv, IdsKept, [Next]_vars, UNCHANGED q
  PROVE  QueueTo'
<1> SUFFICES ASSUME NEW p \in Producers, NEW k \in Elements(q[p]), IsAnswer(k.frame)
             PROVE  Known(k.to)'
  BY DEF QueueTo, IsAnswer
<1>1. Known(k.to)
  BY DEF AddressInv, QueueTo
<1> QED BY <1>1, KnownStays DEF Known

LEMMA QueueToEnqueue ==
  ASSUME TypeInv, AddressInv, IdsKept, [Next]_vars,
         NEW p \in Producers, NEW x \in Task, q' = Enqueue(q, p, x),
         IsAnswer(x.frame) => Known(x.to)
  PROVE  QueueTo'
<1>1. q \in [Producers -> Seq(Task)]
  BY DEF TypeInv, TypeOK
<1> SUFFICES ASSUME NEW r \in Producers, NEW k \in Elements(q'[r]), IsAnswer(k.frame)
             PROVE  Known(k.to)'
  BY DEF QueueTo, IsAnswer
<1>2. q'[p] = Append(q[p], x) /\ \A u \in Producers \ {p} : q'[u] = q[u]
  BY <1>1 DEF Enqueue
<1>3. k \in Elements(q[r]) \/ k = x
  <2>1. Elements(Append(q[p], x)) \subseteq Elements(q[p]) \cup {x}
    BY <1>1, AppendElements
  <2> QED BY <1>2, <2>1
<1>4. Known(k.to)
  BY <1>3 DEF AddressInv, QueueTo
<1> QED BY <1>4, KnownStays DEF Known

(* The other handlers keep what they have. *)
LEMMA HandlerToUpdate ==
  ASSUME TypeInv, AddressInv, IdsKept, NEW t \in IoThreads,
         \A u \in IoThreads \ {t} : io'[u] = io[u],
         AckFirst(io'[t].todo),
         (\E o \in Elements(io'[t].todo) : o.op = "ack") =>
           sid'[io'[t].s] \in Clients \/ Head(io'[t].todo).op = "setid"
  PROVE  HandlerTo'
<1>1. ASSUME NEW u \in IoThreads
      PROVE  /\ AckFirst(io'[u].todo)
             /\ (\E o \in Elements(io'[u].todo) : o.op = "ack") =>
                  sid'[io'[u].s] \in Clients \/ Head(io'[u].todo).op = "setid"
  <2>1. CASE u = t
    BY <2>1
  <2>2. CASE u # t
    <3>1. io'[u] = io[u]
      BY <2>2
    <3>2. /\ AckFirst(io[u].todo)
          /\ (\E o \in Elements(io[u].todo) : o.op = "ack") =>
               sid[io[u].s] \in Clients \/ Head(io[u].todo).op = "setid"
      BY DEF AddressInv, HandlerTo
    <3>3. (\E o \in Elements(io[u].todo) : o.op = "ack") => io[u].s \in Sessions
      <4>1. Elements(<<>>) = {}
        BY DEF Elements
      <4> QED BY <4>1 DEF TypeInv, HandlerInv
    <3> QED BY <3>1, <3>2, <3>3 DEF IdsKept
  <2> QED BY <2>1, <2>2
<1> QED BY <1>1 DEF HandlerTo, Elements

LEMMA ConnectUpdate ==
  ASSUME AddressInv, NEW t \in IoThreads, UNCHANGED <<next, rcvd>>,
         \A u \in IoThreads \ {t} : io'[u] = io[u],
         io'[t].todo # <<>> => Head(io'[t].todo).op # "setid"
  PROVE  ConnectInv'
<1> SUFFICES ASSUME NEW u \in IoThreads, NEW s \in Sessions, Identifying(u, s)'
             PROVE  \E p \in Packet :
                      /\ p.type = "CONNECT" /\ rcvd[s] = <<p>>
                      /\ io'[u].todo = <<SetId(p.client), ToClient("CONNACK", 0), Op("read")>>
  BY DEF AddressInv, ConnectInv, SetId, ToClient, Op
<1>1. u # t /\ io'[u] = io[u]
  BY DEF Identifying
<1>2. Identifying(u, s)
  BY <1>1 DEF Identifying
<1> QED BY <1>1, <1>2 DEF AddressInv, ConnectInv

LEMMA AddressIo ==
  ASSUME ConnectFirst, TypeInv, TypeInv', ServeInv, AliveInv, IdInv, AddressInv, IdsKept,
         [Next]_vars, NEW t \in IoThreads, IoStep(t)
  PROVE  AddressInv'
<1> USE DEF sessionVars, queueVars, ioVars, ddsVars
<1>1. /\ io \in [IoThreads -> Handler] /\ io[t] \in Handler /\ io[t].todo \in Seq(Ops)
      /\ io[t].todo # <<>> => io[t].s \in Sessions
      /\ rcvd \in [Sessions -> Seq(Packet)] /\ sid \in [Sessions -> Ids]
      /\ next \in [Sessions -> Nat \ {0}] /\ env \in Environments
  BY DEF TypeInv, TypeOK, HandlerInv, Handler
<1>2. UNCHANGED <<wt, wire>>
  <2>1. ASSUME NEW s \in Sessions, Receive(t, s) PROVE UNCHANGED <<wt, wire>>
    BY <2>1, ReceiveFacts
  <2> QED BY <2>1 DEF IoStep, Accept, Insert, Read, Reaccept, Identify, AddToTopic, EnqueueMQTT,
                      EnqueueDDS, PubrelFault
<1>3. WriterTo' /\ WireTo'
  BY <1>2, AddressFrame
<1>4. ASSUME UNCHANGED sid PROVE NamedAlive'
  <2>1. clients \subseteq clients'
    BY KnownStays
  <2> QED BY <1>4, <2>1 DEF AddressInv, NamedAlive
<1>5. /\ AckFirst(io[t].todo)
      /\ (\E o \in Elements(io[t].todo) : o.op = "ack") =>
           sid[io[t].s] \in Clients \/ Head(io[t].todo).op = "setid"
  BY DEF AddressInv, HandlerTo
<1>6. ASSUME NEW s \in Sessions, Accept(t, s) PROVE AddressInv'
  <2> DEFINE ops == <<Op("insert"), Op("read"), Op("accept")>>
  <2>1. /\ Len(ops) = 3 /\ ops[1].op = "insert" /\ ops[2].op = "read" /\ ops[3].op = "accept"
        /\ Head(ops) = ops[1]
    BY DEF Op
  <2>2. /\ io'[t].todo = ops /\ UNCHANGED <<q, sid, next, rcvd>>
        /\ \A u \in IoThreads \ {t} : io'[u] = io[u]
    BY <1>1, <1>6 DEF Accept
  <2> HIDE DEF ops
  <2>3. \A i \in 1..3 : i = 1 \/ i = 2 \/ i = 3
    OBVIOUS
  <2>4. \A i \in 1..Len(ops) : ops[i].op # "ack" /\ ops[i].op # "dds"
    BY <2>1, <2>3
  <2>5. AckFirst(ops) /\ \A o \in Elements(ops) : o.op # "ack"
    BY <2>4 DEF Elements, AckFirst
  <2>6. HandlerTo'
    BY <2>2, <2>5, HandlerToUpdate
  <2>7. ConnectInv'
    BY <2>1, <2>2, ConnectUpdate
  <2> QED BY <1>3, <1>4, <2>2, <2>6, <2>7, QueueToSame DEF AddressInv
<1>7. ASSUME NEW s \in Sessions, Receive(t, s) PROVE AddressInv'
  <2> DEFINE p == Arriving(s)
  <2>1. /\ io' = [io EXCEPT ![t] = [s |-> s, todo |-> Handling(s)]] /\ io[t].todo = <<>>
        /\ Handles(Handling(s), p) /\ p \in Packet /\ Content(s) \in Contents
        /\ next[s] \in 1..Len(Script[s]) /\ next' \in [Sessions -> Nat \ {0}]
        /\ next'[s] > next[s] /\ \A u \in Sessions \ {s} : next'[u] = next[u]
        /\ stage[s] = "reading" /\ UNCHANGED <<sid, q>>
        /\ rcvd' = [rcvd EXCEPT ![s] = Append(@, p)]
    BY <1>7, ReceiveFacts
  <2>2. io'[t].s = s /\ io'[t].todo = Handling(s) /\ \A u \in IoThreads \ {t} : io'[u] = io[u]
    BY <1>1, <2>1
  <2>3. p.type = "CONNECT" <=> next[s] = 1
    BY <1>1, <2>1 DEF ConnectFirst, Arriving, Script
  <2>4. \A u \in IoThreads : ~Identifying(u, s)
    BY <2>1 DEF ServeInv, Identifying, Serving
  <2>5. AckFirst(Handling(s))
    BY <2>1, PacketAnswers DEF Handling
  <2>6. p.type = "CONNECT" =>
          Handling(s) = <<SetId(p.client), ToClient("CONNACK", 0), Op("read")>>
    BY <2>1, PacketTodo DEF Handling
  <2> HIDE DEF p
  <2>7. sid[s] \in Clients \/ p.type = "CONNECT"
    <3>1. next[s] = 1 \/ next[s] > 1
      BY <2>1
    <3> QED BY <2>3, <2>4, <3>1 DEF IdInv
  <2>8. p.type = "CONNECT" => Head(Handling(s)).op = "setid"
    BY <2>1 DEF Handles, SetId
  <2>9. HandlerTo'
    BY <2>1, <2>2, <2>5, <2>7, <2>8, HandlerToUpdate
  <2>10. ConnectInv'
    <3>1. \A u \in Sessions : next'[u] = 1 => rcvd'[u] = <<>>
      <4> SUFFICES ASSUME NEW u \in Sessions, next'[u] = 1 PROVE rcvd'[u] = <<>>
        OBVIOUS
      <4>1. u # s
        BY <2>1
      <4>2. next[u] = 1 /\ rcvd'[u] = rcvd[u]
        BY <1>1, <2>1, <4>1
      <4> QED BY <4>2 DEF AddressInv, ConnectInv
    <3>2. ASSUME NEW u \in IoThreads, NEW x \in Sessions, Identifying(u, x)'
          PROVE  \E k \in Packet :
                   /\ k.type = "CONNECT" /\ rcvd'[x] = <<k>>
                   /\ io'[u].todo = <<SetId(k.client), ToClient("CONNACK", 0), Op("read")>>
      <4>1. CASE u = t
        <5>1. x = s /\ Head(Handling(s)).op = "setid"
          BY <2>2, <3>2, <4>1 DEF Identifying
        <5>2. p.type = "CONNECT"
          BY <2>1, <5>1, NoSetIdHead DEF Handles
        <5>3. rcvd[s] = <<>>
          BY <2>3, <5>2 DEF AddressInv, ConnectInv
        <5>4. rcvd'[s] = Append(<<>>, p)
          BY <1>1, <2>1, <5>3
        <5>5. rcvd'[s] = <<p>>
          BY <5>4
        <5> QED BY <2>1, <2>2, <2>6, <4>1, <5>1, <5>2, <5>5
      <4>2. CASE u # t
        <5>1. io'[u] = io[u]
          BY <2>2, <4>2
        <5>2. Identifying(u, x)
          BY <3>2, <5>1 DEF Identifying
        <5>3. rcvd'[x] = rcvd[x]
          BY <1>1, <2>1, <2>4, <5>2
        <5> QED BY <5>1, <5>2, <5>3 DEF AddressInv, ConnectInv
      <4> QED BY <4>1, <4>2
    <3> QED BY <3>1, <3>2 DEF ConnectInv, SetId, ToClient, Op
  <2> QED BY <1>3, <1>4, <2>1, <2>9, <2>10, QueueToSame DEF AddressInv
<1>8. ASSUME io[t].todo # <<>>, Done(t), UNCHANGED <<next, rcvd>>,
             Head(io[t].todo).op = "setid" => sid'[io[t].s] \in Clients
      PROVE  HandlerTo' /\ ConnectInv'
  <2>1. /\ io'[t].s = io[t].s /\ io'[t].todo = Tail(io[t].todo)
        /\ \A u \in IoThreads \ {t} : io'[u] = io[u]
        /\ Elements(Tail(io[t].todo)) \subseteq Elements(io[t].todo)
        /\ NoSetId(Tail(io[t].todo))
    BY <1>8, DoneFacts
  <2>2. AckFirst(Tail(io[t].todo)) /\ Tail(io[t].todo) \in Seq(Ops)
    BY <1>1, <1>5, <1>8, AckFirstTail, TailFacts
  <2>3. (\E o \in Elements(io'[t].todo) : o.op = "ack") => sid'[io'[t].s] \in Clients
    BY <1>1, <1>5, <1>8, <2>1 DEF IdsKept
  <2>4. io'[t].todo # <<>> => Head(io'[t].todo).op # "setid"
    BY <2>1, <2>2, NoSetIdHead
  <2> QED BY <1>8, <2>1, <2>2, <2>3, <2>4, HandlerToUpdate, ConnectUpdate
<1>9. CASE Insert(t) \/ Read(t) \/ Reaccept(t) \/ AddToTopic(t) \/ EnqueueDDS(t)
  <2>1. /\ io[t].todo # <<>> /\ Done(t) /\ UNCHANGED <<next, rcvd, sid, q>>
        /\ Head(io[t].todo).op # "setid"
    BY <1>9 DEF NextOp, Insert, Read, Reaccept, AddToTopic, EnqueueDDS
  <2> QED BY <1>3, <1>4, <1>8, <2>1, QueueToSame DEF AddressInv
<1>10. CASE Identify(t)
  <2> DEFINE s == io[t].s
  <2>1. /\ io[t].todo # <<>> /\ Head(io[t].todo).op = "setid" /\ Done(t)
        /\ sid' = [sid EXCEPT ![s] = Head(io[t].todo).id] /\ UNCHANGED <<next, rcvd, q, clients>>
    BY <1>10 DEF Identify, NextOp
  <2>2. Head(io[t].todo).id \in Clients /\ s \in Sessions
    BY <1>1, <2>1, TailFacts, OpKinds
  <2>3. s \in clients
    BY <2>1 DEF AliveInv, InsertedInv
  <2> HIDE DEF s
  <2>4. sid'[s] \in Clients /\ \A x \in Sessions \ {s} : sid'[x] = sid[x]
    BY <1>1, <2>1, <2>2
  <2>5. NamedAlive'
    BY <2>1, <2>3, <2>4 DEF AddressInv, NamedAlive
  <2>6. HandlerTo' /\ ConnectInv'
    BY <1>8, <2>1, <2>4 DEF s
  <2> QED BY <1>3, <2>1, <2>5, <2>6, QueueToSame DEF AddressInv
<1>11. CASE EnqueueMQTT(t)
  <2> DEFINE h == Head(io[t].todo)
             x == IF h.op = "ack" THEN AckTask(sid[io[t].s], h.type, h.arg)
                  ELSE PublishTask(Broadcast, h.msg)
  <2>1. /\ io[t].todo # <<>> /\ Done(t) /\ h.op \in {"ack", "publish"} /\ q' = Enqueue(q, t, x)
        /\ UNCHANGED <<next, rcvd, sid>>
    BY <1>11 DEF NextOp, EnqueueMQTT
  <2>2. h \in Ops /\ h \in Elements(io[t].todo) /\ io[t].s \in Sessions /\ sid[io[t].s] \in Ids
    BY <1>1, <2>1, TailFacts
  <2>3. HandlerTo' /\ ConnectInv'
    BY <1>8, <2>1
  <2>4. h.op = "ack" => sid[io[t].s] \in Clients
    BY <1>5, <2>1, <2>2
  <2> HIDE DEF h
  <2>5. x \in Task /\ (IsAnswer(x.frame) => Known(x.to))
    <3>1. CASE h.op = "ack"
      <4>1. x = [to |-> sid[io[t].s], frame |-> [type |-> h.type, arg |-> h.arg]]
        BY <3>1 DEF AckTask
      <4>2. [type |-> h.type, arg |-> h.arg] \in Frame
        BY <2>2, <3>1, OpKinds
      <4>3. x \in Task
        BY <2>2, <4>1, <4>2 DEF Task
      <4>4. Known(sid[io[t].s])
        BY <2>2, <2>4, <3>1 DEF AddressInv, NamedAlive, Known
      <4> QED BY <4>1, <4>3, <4>4
    <3>2. CASE h.op = "publish"
      <4>1. x = [to |-> Broadcast, frame |-> [type |-> "PUBLISH", arg |-> h.msg]]
        BY <3>2 DEF PublishTask
      <4>2. h.msg \in Contents
        BY <2>2, <3>2, OpKinds
      <4> QED BY <4>1, <4>2 DEF Task, Frame, IsAnswer
    <3> QED BY <2>1, <3>1, <3>2
  <2> HIDE DEF x
  <2>6. t \in Producers
    BY DEF Producers
  <2>7. QueueTo'
    BY <2>1, <2>5, <2>6, QueueToEnqueue
  <2> QED BY <1>3, <1>4, <2>1, <2>3, <2>7 DEF AddressInv
<1>12. CASE PubrelFault(t)
  <2>1. /\ io[t].todo # <<>> /\ Head(io[t].todo).op = "dds" /\ UNCHANGED <<q, sid, next, rcvd>>
        /\ io' = io \/ io' = [io EXCEPT ![t].todo = <<Op("read")>>]
    BY <1>12 DEF PubrelFault, NextOp
  <2>2. CASE io' = io
    <3>1. HandlerTo'
      BY <1>5, <2>1, <2>2, HandlerToUpdate
    <3>2. ConnectInv'
      BY <2>1, <2>2, ConnectUpdate
    <3> QED BY <1>3, <1>4, <2>1, <3>1, <3>2, QueueToSame DEF AddressInv
  <2>3. CASE io' = [io EXCEPT ![t].todo = <<Op("read")>>]
    <3> DEFINE new == <<Op("read")>>
    <3>1. io'[t].todo = new /\ \A u \in IoThreads \ {t} : io'[u] = io[u]
      BY <1>1, <2>3 DEF Handler
    <3>2. Len(new) = 1 /\ new[1].op = "read" /\ Head(new).op = "read"
      BY DEF Op
    <3> HIDE DEF new
    <3>3. \A i \in 1..Len(new) : new[i].op = "read"
      BY <3>2
    <3>4. AckFirst(new) /\ \A o \in Elements(new) : o.op # "ack"
      BY <3>3 DEF AckFirst, Elements
    <3>5. HandlerTo'
      BY <3>1, <3>4, HandlerToUpdate
    <3>6. ConnectInv'
      BY <2>1, <3>1, <3>2, ConnectUpdate
    <3> QED BY <1>3, <1>4, <2>1, <3>5, <3>6, QueueToSame DEF AddressInv
  <2> QED BY <2>1, <2>2, <2>3
<1> QED BY <1>6, <1>7, <1>9, <1>10, <1>11, <1>12 DEF IoStep

LEMMA AimedUpdate ==
  ASSUME TypeInv, AddressInv, NEW w \in Writers, NEW new,
         wt' = [wt EXCEPT ![w] = new], UNCHANGED <<sid, clients>>, Aimed(new)
  PROVE  WriterTo'
<1>1. wt \in [Writers -> WriterState]
  BY DEF TypeInv, TypeOK
<1>2. \A v \in Writers : Aimed(wt'[v])
  <2> SUFFICES ASSUME NEW v \in Writers PROVE Aimed(wt'[v])
    OBVIOUS
  <2>1. CASE v = w
    BY <1>1, <2>1
  <2>2. CASE v # w
    <3>1. wt'[v] = wt[v] /\ Aimed(wt[v])
      BY <1>1, <2>2 DEF AddressInv, WriterTo
    <3> QED BY <3>1
  <2> QED BY <2>1, <2>2
<1>3. \A v \in Writers : Aimed(wt[v])' <=> Aimed(wt'[v])
  BY DEF Aimed, Known, IsAnswer
<1> QED BY <1>2, <1>3 DEF WriterTo

(* Advance ends a writer's work on an answer, which has one target. *)
LEMMA AdvanceFacts ==
  ASSUME TypeInv, AddressInv, NEW w \in Writers, Advance(w),
         wt[w].pc \in {"lookup", "decide", "write"}
  PROVE  /\ \A v \in Writers \ {w} : wt'[v] = wt[v]
         /\ wt'[w].task = wt[w].task
         /\ IsAnswer(wt[w].task.frame) => wt'[w].pc = "idle"
         /\ UNCHANGED <<sid, clients>> => WriterTo'
<1>1. /\ wt \in [Writers -> WriterState] /\ wt[w] \in WriterState /\ Aimed(wt[w])
  BY DEF TypeInv, TypeOK, AddressInv, WriterTo
<1> DEFINE pc2 == IF Len(wt[w].targets) > 1 THEN "lookup" ELSE "idle"
           new == [wt[w] EXCEPT !.targets = Tail(@), !.pc = pc2]
<1>2. wt' = [wt EXCEPT ![w] = new]
  BY <1>1 DEF Advance, WriterState
<1>3. new.pc = pc2 /\ new.task = wt[w].task
  BY <1>1 DEF WriterState
<1> HIDE DEF new
<1>4. ASSUME IsAnswer(wt[w].task.frame) PROVE new.pc = "idle"
  <2>1. wt[w].targets = <<wt[w].task.to>>
    BY <1>1, <1>4 DEF Aimed
  <2>2. Len(wt[w].targets) = 1
    BY <2>1
  <2> QED BY <1>3, <2>2
<1>5. Aimed(new)
  BY <1>3, <1>4 DEF Aimed
<1>6. UNCHANGED <<sid, clients>> => WriterTo'
  BY <1>2, <1>5, AimedUpdate
<1>7. wt'[w] = new /\ \A v \in Writers \ {w} : wt'[v] = wt[v]
  BY <1>1, <1>2
<1> QED BY <1>3, <1>4, <1>6, <1>7

LEMMA AddressWriter ==
  ASSUME TypeInv, AddressInv, IdsKept, [Next]_vars, NEW w \in Writers, WriterStep(w)
  PROVE  AddressInv'
<1> USE DEF sessionVars, queueVars, ioVars, ddsVars
<1>1. /\ wt \in [Writers -> WriterState] /\ wt[w] \in WriterState
      /\ clients \subseteq Sessions /\ q \in [Producers -> Seq(Task)]
      /\ wire \in [Sessions -> Seq(Frame \cup {TornFrame})]
      /\ wt[w].pc # "idle" => wt[w].task \in Task
      /\ wt[w].pc \in {"decide", "write"} => wt[w].client \in Sessions
      /\ w \in Producers
  BY DEF TypeInv, TypeOK, WriterInv, Producers
<1>2. Aimed(wt[w])
  BY DEF AddressInv, WriterTo
<1>3. UNCHANGED <<io, sid, rcvd, next, clients>>
  BY DEF WriterStep, Dequeue, FindTopic, Lookup, WriterRace, Decide, SendRefused, Send
<1>4. HandlerTo' /\ NamedAlive'
  BY <1>3 DEF AddressInv, HandlerTo, NamedAlive, AckFirst, Elements
<1>5. ConnectInv'
  BY <1>3 DEF AddressInv, ConnectInv, Identifying, SetId, ToClient, Op
<1>6. ASSUME UNCHANGED wire PROVE WireTo'
  BY <1>3, <1>6 DEF AddressInv, WireTo
<1>7. CASE Dequeue(w)
  <2>1. PICK p \in {p \in Producers : Nonempty(q, p)} :
          /\ q' = Dequeued(q, p)
          /\ wt' = [wt EXCEPT ![w] =
               IF Head(q[p]).to = Broadcast
               THEN [pc |-> "find", task |-> Head(q[p]), targets |-> <<>>, client |-> 0]
               ELSE [pc |-> "lookup", task |-> Head(q[p]), targets |-> <<Head(q[p]).to>>,
                     client |-> 0]]
    BY <1>7 DEF Dequeue
  <2> DEFINE task == Head(q[p])
             new == IF task.to = Broadcast
                    THEN [pc |-> "find", task |-> task, targets |-> <<>>, client |-> 0]
                    ELSE [pc |-> "lookup", task |-> task, targets |-> <<task.to>>, client |-> 0]
  <2>2. q[p] \in Seq(Task) /\ q[p] # <<>>
    BY <1>1, <2>1 DEF Nonempty
  <2>3. task \in Elements(q[p]) /\ Elements(Tail(q[p])) \subseteq Elements(q[p])
    BY <2>2, TailFacts
  <2>4. wt' = [wt EXCEPT ![w] = new]
    BY <2>1
  <2>5. IsAnswer(task.frame) => Known(task.to)
    BY <2>3 DEF AddressInv, QueueTo
  <2> HIDE DEF task
  <2>6. Broadcast \notin Clients
    BY KindsAssumption DEF Ids
  <2>7. /\ new.task = task /\ new.pc \in {"find", "lookup"}
        /\ task.to # Broadcast => new.pc = "lookup" /\ new.targets = <<task.to>>
    OBVIOUS
  <2> HIDE DEF new
  <2>8. Aimed(new)
    BY <2>5, <2>6, <2>7 DEF Aimed, Known
  <2>9. WriterTo'
    BY <1>3, <2>4, <2>8, AimedUpdate
  <2>10. \A r \in Producers : Elements(q'[r]) \subseteq Elements(q[r])
    BY <1>1, <2>1, <2>3 DEF Dequeued
  <2>11. QueueTo'
    BY <1>3, <2>10 DEF AddressInv, QueueTo, IsAnswer, Known
  <2>12. UNCHANGED wire
    BY <1>7 DEF Dequeue
  <2> QED BY <1>4, <1>5, <1>6, <2>9, <2>11, <2>12 DEF AddressInv
<1>8. CASE FindTopic(w)
  <2> DEFINE found == find_topic(Gps)
             new == [wt[w] EXCEPT !.targets = found,
                                  !.pc = IF found = <<>> THEN "idle" ELSE "lookup"]
  <2>1. wt' = [wt EXCEPT ![w] = new] /\ UNCHANGED <<q, wire>> /\ wt[w].pc = "find"
    BY <1>1, <1>8 DEF FindTopic, WriterState, At
  <2> HIDE DEF found
  <2>2. new.task = wt[w].task
    BY <1>1 DEF WriterState
  <2> HIDE DEF new
  <2>3. Aimed(new)
    BY <1>2, <2>1, <2>2 DEF Aimed
  <2>4. WriterTo'
    BY <1>3, <2>1, <2>3, AimedUpdate
  <2> QED BY <1>4, <1>5, <1>6, <2>1, <2>4, QueueToSame DEF AddressInv
<1>9. CASE Lookup(w)
  <2> DEFINE id == TargetId(Head(wt[w].targets))
             new == [wt[w] EXCEPT !.client = get_client(id), !.pc = "decide"]
  <2>1. wt[w].pc = "lookup" /\ UNCHANGED <<q, wire>>
    BY <1>9 DEF Lookup, At
  <2>2. WriterTo'
    <3>1. CASE Matching(id) = {}
      <4>1. Advance(w)
        BY <1>9, <3>1 DEF Lookup
      <4> QED BY <1>3, <2>1, <4>1, AdvanceFacts
    <3>2. CASE Matching(id) # {}
      <4>1. wt' = [wt EXCEPT ![w] = new]
        BY <1>1, <1>9, <3>2 DEF Lookup, WriterState
      <4>2. new.task = wt[w].task /\ new.pc = "decide" /\ new.targets = wt[w].targets
            /\ new.client = get_client(id)
        BY <1>1 DEF WriterState
      <4>3. sid[get_client(id)] = id
        <5> HIDE DEF id
        <5>1. get_client(id) \in Matching(id)
          BY <1>1, <3>2, GetClientMatches
        <5> QED BY <5>1 DEF Matching
      <4>4. ASSUME IsAnswer(wt[w].task.frame) PROVE id = wt[w].task.to
        <5>1. wt[w].targets = <<wt[w].task.to>> /\ wt[w].task.to \in Clients
          BY <1>2, <2>1, <4>4 DEF Aimed, Known
        <5>2. Head(wt[w].targets) = wt[w].task.to
          BY <5>1
        <5>3. wt[w].task.to \notin Sessions
          BY <5>1, KindsAssumption DEF Ids
        <5> QED BY <5>2, <5>3 DEF TargetId
      <4> HIDE DEF new, id
      <4>5. Aimed(new)
        BY <1>2, <2>1, <4>2, <4>3, <4>4 DEF Aimed
      <4> QED BY <1>3, <4>1, <4>5, AimedUpdate
    <3> QED BY <3>1, <3>2
  <2> QED BY <1>4, <1>5, <1>6, <2>1, <2>2, QueueToSame DEF AddressInv
<1>10. CASE WriterRace(w)
  <2>1. UNCHANGED <<wt, q, wire>>
    BY <1>10 DEF WriterRace
  <2>2. WriterTo'
    BY <1>3, <2>1 DEF AddressInv, WriterTo, Aimed, Known, IsAnswer
  <2> QED BY <1>4, <1>5, <1>6, <2>1, <2>2, QueueToSame DEF AddressInv
<1>11. CASE Decide(w)
  <2> DEFINE c == wt[w].client
             f == wt[w].task.frame
  <2>1. wt[w].pc = "decide" /\ UNCHANGED wire
    BY <1>11 DEF Decide, At
  <2>2. \/ f.type = "PUBLISH" /\ Store(w) /\ Advance(w)
        \/ UNCHANGED q /\ WriterGoto(w, "write")
    BY <1>11 DEF Decide
  <2> HIDE DEF c, f
  <2>3. CASE f.type = "PUBLISH" /\ Store(w) /\ Advance(w)
    <3>1. q' = Enqueue(q, w, wt[w].task) /\ ~IsAnswer(wt[w].task.frame) /\ wt[w].task \in Task
      BY <1>1, <2>1, <2>3 DEF Store, IsAnswer, f
    <3>2. QueueTo'
      BY <1>1, <3>1, QueueToEnqueue
    <3>3. WriterTo'
      BY <1>3, <2>1, <2>3, AdvanceFacts
    <3> QED BY <1>4, <1>5, <1>6, <2>1, <3>2, <3>3 DEF AddressInv
  <2>4. CASE UNCHANGED q /\ WriterGoto(w, "write")
    <3> DEFINE new == [wt[w] EXCEPT !.pc = "write"]
    <3>1. wt' = [wt EXCEPT ![w] = new]
      BY <1>1, <2>4 DEF WriterGoto, WriterState
    <3>2. new.targets = wt[w].targets /\ new.client = wt[w].client /\ new.task = wt[w].task
          /\ new.pc = "write"
      BY <1>1 DEF WriterState
    <3> HIDE DEF new
    <3>3. Aimed(new)
      BY <1>2, <2>1, <3>2 DEF Aimed
    <3>4. WriterTo'
      BY <1>3, <3>1, <3>3, AimedUpdate
    <3> QED BY <1>4, <1>5, <1>6, <2>1, <2>4, <3>4, QueueToSame DEF AddressInv
  <2> QED BY <2>2, <2>3, <2>4
<1>12. CASE SendRefused(w)
  <2>1. /\ wt[w].pc = "write" /\ Store(w) /\ Advance(w) /\ TooLong(wt[w].task.frame)
        /\ UNCHANGED wire
    BY <1>12 DEF SendRefused, At
  <2>2. q' = Enqueue(q, w, wt[w].task) /\ ~IsAnswer(wt[w].task.frame)
    BY <2>1 DEF Store, TooLong, IsAnswer
  <2>3. QueueTo'
    BY <1>1, <2>1, <2>2, QueueToEnqueue
  <2>4. WriterTo'
    BY <1>3, <2>1, AdvanceFacts
  <2> QED BY <1>4, <1>5, <1>6, <2>1, <2>3, <2>4 DEF AddressInv
<1>13. CASE Send(w)
  <2> DEFINE c == wt[w].client
             f == wt[w].task.frame
  <2>1. wt[w].pc = "write" /\ Advance(w) /\ UNCHANGED q
    BY <1>13 DEF Send, At
  <2>2. \/ UNCHANGED wire
        \/ \E g \in {f, TornFrame} : wire' = [wire EXCEPT ![c] = Append(@, g)]
    BY <1>13 DEF Send
  <2>3. c \in Sessions /\ f \in Frame
    BY <1>1, <2>1 DEF Task
  <2>4. sid[c] = NoClient => f.type = "PUBLISH"
    BY <1>2, <2>1, KindsAssumption DEF Aimed, IsAnswer, Known
  <2> HIDE DEF c, f
  <2>5. ASSUME NEW s \in Sessions, sid[s] = NoClient, NEW i \in 1..Len(wire'[s])
        PROVE  wire'[s][i].type \in {"PUBLISH", "TORN"}
    <3>1. \A j \in 1..Len(wire[s]) : wire[s][j].type \in {"PUBLISH", "TORN"}
      BY <2>5 DEF AddressInv, WireTo
    <3>2. CASE wire'[s] = wire[s]
      BY <2>5, <3>1, <3>2
    <3>3. CASE wire'[s] # wire[s]
      <4>1. PICK g \in {f, TornFrame} : wire' = [wire EXCEPT ![c] = Append(@, g)]
        BY <2>2, <3>3
      <4>2. s = c /\ wire'[s] = Append(wire[s], g) /\ wire[s] \in Seq(Frame \cup {TornFrame})
        BY <1>1, <2>3, <3>3, <4>1
      <4>3. g.type \in {"PUBLISH", "TORN"}
        BY <2>4, <2>5, <4>2 DEF TornFrame
      <4> DEFINE old == wire[s]
                 now == Append(old, g)
      <4>4. /\ Len(now) = Len(old) + 1 /\ now[Len(old) + 1] = g /\ Len(old) \in Nat
            /\ \A j \in 1..Len(old) : now[j] = old[j]
        BY <2>3, <4>2
      <4>5. wire'[s] = now
        BY <4>2
      <4> HIDE DEF now, old
      <4>6. i \in 1..Len(old) \/ i = Len(old) + 1
        BY <4>4, <4>5
      <4>7. now[i].type \in {"PUBLISH", "TORN"}
        BY <3>1, <4>3, <4>4, <4>6 DEF old
      <4> QED BY <4>5, <4>7
    <3> QED BY <3>2, <3>3
  <2>6. WireTo'
    BY <1>3, <2>5 DEF WireTo
  <2>7. WriterTo'
    BY <1>3, <2>1, AdvanceFacts
  <2> QED BY <1>4, <1>5, <2>1, <2>6, <2>7, QueueToSame DEF AddressInv
<1> QED BY <1>7, <1>8, <1>9, <1>10, <1>11, <1>12, <1>13 DEF WriterStep

LEMMA AddressDDS ==
  ASSUME TypeInv, TypeInv', AddressInv, IdsKept, [Next]_vars,
         ListenerStep \/ Match \/ PublishDDS \/ MainReturns \/ UNCHANGED vars
         \/ \E s \in Sessions : ReadError(s)
  PROVE  AddressInv'
<1> USE DEF sessionVars, queueVars, ioVars, ddsVars
<1>1. UNCHANGED <<io, sid, rcvd, next, clients, wt, wire>>
  BY DEF vars, MainReturns, ListenerStep, TakeSample, TakeFails, ListenerFind,
         ListenerEnqueue, ListenerRace, ListenerEnd, CountSample, Match, PublishDDS, ReadError
<1>2. WriterTo' /\ WireTo'
  BY <1>1, AddressFrame
<1>3. HandlerTo' /\ NamedAlive'
  BY <1>1 DEF AddressInv, HandlerTo, NamedAlive, AckFirst, Elements
<1>4. ConnectInv'
  BY <1>1 DEF AddressInv, ConnectInv, Identifying, SetId, ToClient, Op
<1>5. CASE ListenerEnqueue
  <2> DEFINE x == PublishTask(sid[Head(lst.targets)], Sample)
  <2>1. q' = Enqueue(q, Listener, x)
    BY <1>5 DEF ListenerEnqueue
  <2>2. x \in Task /\ x.frame.type = "PUBLISH"
    BY <1>5, ListenerTask
  <2> HIDE DEF x
  <2>3. QueueTo'
    BY <2>1, <2>2, QueueToEnqueue DEF Producers, IsAnswer
  <2> QED BY <1>2, <1>3, <1>4, <2>3 DEF AddressInv
<1>6. CASE ~ListenerEnqueue
  <2>1. UNCHANGED q
    BY <1>6 DEF vars, MainReturns, ListenerStep, TakeSample, TakeFails, ListenerFind,
                ListenerRace, ListenerEnd, CountSample, Match, PublishDDS, ReadError
  <2> QED BY <1>2, <1>3, <1>4, <2>1, QueueToSame DEF AddressInv
<1> QED BY <1>5, <1>6

LEMMA AddressInit == Init => AddressInv
<1> SUFFICES ASSUME Init PROVE AddressInv
  OBVIOUS
<1>1. Elements(<<>>) = {} /\ AckFirst(<<>>)
  BY DEF Elements, AckFirst
<1>2. HandlerTo /\ QueueTo
  BY <1>1 DEF Init, HandlerTo, QueueTo
<1>3. WriterTo /\ NamedAlive
  BY KindsAssumption DEF Init, WriterTo, Aimed, NamedAlive
<1>4. WireTo /\ ConnectInv
  BY DEF Init, WireTo, ConnectInv, Identifying
<1> QED BY <1>2, <1>3, <1>4 DEF AddressInv

LEMMA AddressNext ==
  ASSUME ConnectFirst, TypeInv, TypeInv', ServeInv, AliveInv, IdInv, AddressInv, IdsKept,
         [Next]_vars
  PROVE  AddressInv'
BY AddressIo, AddressWriter, AddressDDS DEF Next

-----------------------------------------------------------------------------
(* The counts of AnsweredOnce *)

Packed(c, f) == [to |-> c, frame |-> f]
Mine(id, c, n) == IF id = c THEN n ELSE 0
Share(id, c, S) == {i \in S : id = c}
AskedAt(seq, f) == {i \in 1..Len(seq) : Answer(seq[i]) = f}
Holds(state, c, f) == state.pc # "idle" /\ state.task = Packed(c, f)
Holders(c, f) == {w \in Writers : Holds(wt[w], c, f)}

LEMMA ShareFinite ==
  ASSUME NEW id, NEW c, NEW S, IsFiniteSet(S)
  PROVE  /\ IsFiniteSet(Share(id, c, S))
         /\ Cardinality(Share(id, c, S)) = Mine(id, c, Cardinality(S))
<1>1. CASE id = c
  <2>1. Share(id, c, S) = S
    BY <1>1 DEF Share
  <2> QED BY <1>1, <2>1 DEF Mine
<1>2. CASE id # c
  <2>1. Share(id, c, S) = {}
    BY <1>2 DEF Share
  <2> QED BY <1>2, <2>1, FS_EmptySet DEF Mine
<1> QED BY <1>1, <1>2

LEMMA AskedFinite ==
  ASSUME NEW S, NEW seq \in Seq(S), NEW f
  PROVE  IsFiniteSet(AskedAt(seq, f)) /\ Cardinality(AskedAt(seq, f)) \in Nat
<1>1. IsFiniteSet(1..Len(seq))
  BY FS_Interval
<1>2. AskedAt(seq, f) \subseteq 1..Len(seq)
  BY DEF AskedAt
<1> QED BY <1>1, <1>2, FS_Subset, FS_CardinalityType

LEMMA AskedAppend ==
  ASSUME NEW seq \in Seq(Packet), NEW p \in Packet, NEW f
  PROVE  Cardinality(AskedAt(Append(seq, p), f)) =
           Cardinality(AskedAt(seq, f)) + (IF Answer(p) = f THEN 1 ELSE 0)
<1> DEFINE more == Append(seq, p)
           n == Len(seq)
<1>1. Len(more) = n + 1 /\ n \in Nat /\ more[n + 1] = p /\ \A i \in 1..n : more[i] = seq[i]
  OBVIOUS
<1>2. AskedAt(seq, f) = {i \in 1..n : Answer(seq[i]) = f}
  BY DEF AskedAt
<1>3. IsFiniteSet(AskedAt(seq, f)) /\ Cardinality(AskedAt(seq, f)) \in Nat
  BY AskedFinite
<1> HIDE DEF more, n
<1>4. \A i : i \in 1..Len(more) <=> i \in 1..n \/ i = n + 1
  BY <1>1
<1>5. n + 1 \notin 1..n
  BY <1>1
<1>6. \A i \in 1..n : Answer(more[i]) = Answer(seq[i])
  BY <1>1
<1>7. Answer(more[n + 1]) = Answer(p)
  BY <1>1
<1>8. CASE Answer(p) = f
  <2>1. AskedAt(more, f) = AskedAt(seq, f) \cup {n + 1} /\ n + 1 \notin AskedAt(seq, f)
    BY <1>2, <1>4, <1>5, <1>6, <1>7, <1>8 DEF AskedAt
  <2>2. Cardinality(AskedAt(seq, f) \cup {n + 1}) = Cardinality(AskedAt(seq, f)) + 1
    BY <1>3, <2>1, FS_AddElement
  <2> QED BY <1>8, <2>1, <2>2 DEF more
<1>9. CASE Answer(p) # f
  <2>1. AskedAt(more, f) = AskedAt(seq, f)
    BY <1>2, <1>4, <1>5, <1>6, <1>7, <1>9 DEF AskedAt
  <2> QED BY <1>3, <1>9, <2>1 DEF more
<1> QED BY <1>8, <1>9

LEMMA CountsFamilies ==
  ASSUME NEW c, NEW f
  PROVE  /\ AskedFor(c, f) = Total([s \in Sessions |-> Share(sid[s], c, AskedAt(rcvd[s], f))])
         /\ Written(c, f) = Total([s \in Sessions |-> Share(sid[s], c, Positions(wire[s], f))])
         /\ InHandlers(c, f) = Total([t \in IoThreads |->
                                 Share(sid[io[t].s], c, Positions(io[t].todo, Acks(f)))])
         /\ InQueues(c, f) = Total([p \in Producers |-> Positions(q[p], Packed(c, f))])
         /\ InWriters(c, f) = Cardinality(Holders(c, f))
<1>1. \A s \in Sessions : {i \in 1..Len(rcvd[s]) : sid[s] = c /\ Answer(rcvd[s][i]) = f}
                            = Share(sid[s], c, AskedAt(rcvd[s], f))
  BY DEF Share, AskedAt
<1>2. AskedFor(c, f) = Total([s \in Sessions |-> Share(sid[s], c, AskedAt(rcvd[s], f))])
  BY <1>1 DEF AskedFor
<1>3. Written(c, f) = Total([s \in Sessions |-> Share(sid[s], c, Positions(wire[s], f))])
  BY DEF Written, Share
<1>4. InHandlers(c, f) = Total([t \in IoThreads |->
                           Share(sid[io[t].s], c, Positions(io[t].todo, Acks(f)))])
  BY DEF InHandlers, Share, Acks
<1>5. InQueues(c, f) = Total([p \in Producers |-> Positions(q[p], Packed(c, f))])
  BY DEF InQueues, Packed
<1>6. InWriters(c, f) = Cardinality(Holders(c, f))
  BY DEF InWriters, Holders, Holds, Packed
<1> QED BY <1>2, <1>3, <1>4, <1>5, <1>6

CountsNat ==
  \A c, f : /\ AskedFor(c, f) \in Nat /\ Written(c, f) \in Nat /\ InHandlers(c, f) \in Nat
            /\ InQueues(c, f) \in Nat /\ InWriters(c, f) \in Nat

LEMMA CountsAreNat == TypeInv => CountsNat
<1> SUFFICES ASSUME TypeInv, NEW c, NEW f
             PROVE  /\ AskedFor(c, f) \in Nat /\ Written(c, f) \in Nat /\ InHandlers(c, f) \in Nat
                    /\ InQueues(c, f) \in Nat /\ InWriters(c, f) \in Nat
  BY DEF CountsNat
<1>1. /\ rcvd \in [Sessions -> Seq(Packet)] /\ wire \in [Sessions -> Seq(Frame \cup {TornFrame})]
      /\ q \in [Producers -> Seq(Task)] /\ \A t \in IoThreads : io[t].todo \in Seq(Ops)
  BY DEF TypeInv, TypeOK, Handler
<1>2. IsFiniteSet(Producers)
  <2>1. IsFiniteSet(IoThreads \cup Writers)
    BY FinitenessAssumption, FS_Union
  <2> QED BY <2>1, FS_AddElement DEF Producers
<1> DEFINE asks == [s \in Sessions |-> Share(sid[s], c, AskedAt(rcvd[s], f))]
           wrote == [s \in Sessions |-> Share(sid[s], c, Positions(wire[s], f))]
           handled == [t \in IoThreads |-> Share(sid[io[t].s], c, Positions(io[t].todo, Acks(f)))]
           queued == [p \in Producers |-> Positions(q[p], Packed(c, f))]
<1>3. DOMAIN asks = Sessions /\ \A s \in Sessions : IsFiniteSet(asks[s])
  BY <1>1, AskedFinite, ShareFinite
<1>4. DOMAIN wrote = Sessions /\ \A s \in Sessions : IsFiniteSet(wrote[s])
  BY <1>1, PositionsFinite, ShareFinite
<1>5. DOMAIN handled = IoThreads /\ \A t \in IoThreads : IsFiniteSet(handled[t])
  BY <1>1, PositionsFinite, ShareFinite
<1>6. DOMAIN queued = Producers /\ \A p \in Producers : IsFiniteSet(queued[p])
  BY <1>1, PositionsFinite
<1>7. IsFiniteSet(Holders(c, f))
  BY FinitenessAssumption, FS_Subset DEF Holders
<1>8. AskedFor(c, f) = Total(asks) /\ Written(c, f) = Total(wrote)
      /\ InHandlers(c, f) = Total(handled) /\ InQueues(c, f) = Total(queued)
      /\ InWriters(c, f) = Cardinality(Holders(c, f))
  BY CountsFamilies
<1> HIDE DEF asks, wrote, handled, queued
<1>9. Total(asks) \in Nat /\ Total(wrote) \in Nat
  BY <1>3, <1>4, FinitenessAssumption, PairsFinite
<1>10. Total(handled) \in Nat /\ Total(queued) \in Nat
  BY <1>2, <1>5, <1>6, FinitenessAssumption, PairsFinite
<1> QED BY <1>7, <1>8, <1>9, <1>10, FS_CardinalityType

LEMMA CountsNext == ASSUME TypeInv' PROVE CountsNat'
BY CountsAreNat, PTL

(* A step that changes one session, one handler, one producer's queue or    *)
(* one writer changes each count by what happens there.                     *)
LEMMA AskedStep ==
  ASSUME TypeInv, TypeInv', NEW s \in Sessions, NEW c, NEW f,
         \A u \in Sessions \ {s} : rcvd'[u] = rcvd[u] /\ sid'[u] = sid[u]
  PROVE  AskedFor(c, f)' + Mine(sid[s], c, Cardinality(AskedAt(rcvd[s], f)))
           = AskedFor(c, f) + Mine(sid'[s], c, Cardinality(AskedAt(rcvd'[s], f)))
<1> DEFINE x == [u \in Sessions |-> Share(sid[u], c, AskedAt(rcvd[u], f))]
           y == [u \in Sessions |-> Share(sid'[u], c, AskedAt(rcvd'[u], f))]
<1>1. rcvd \in [Sessions -> Seq(Packet)] /\ rcvd' \in [Sessions -> Seq(Packet)]
  BY DEF TypeInv, TypeOK
<1>2. \A u \in Sessions :
        /\ IsFiniteSet(x[u]) /\ Cardinality(x[u]) = Mine(sid[u], c, Cardinality(AskedAt(rcvd[u], f)))
        /\ IsFiniteSet(y[u]) /\ Cardinality(y[u]) = Mine(sid'[u], c, Cardinality(AskedAt(rcvd'[u], f)))
  BY <1>1, AskedFinite, ShareFinite
<1>3. DOMAIN x = Sessions /\ DOMAIN y = Sessions /\ \A u \in Sessions \ {s} : y[u] = x[u]
  OBVIOUS
<1>4. AskedFor(c, f) = Total(x)
  <2>1. \A u \in Sessions : {i \in 1..Len(rcvd[u]) : sid[u] = c /\ Answer(rcvd[u][i]) = f}
                              = Share(sid[u], c, AskedAt(rcvd[u], f))
    BY DEF Share, AskedAt
  <2> QED BY <2>1 DEF AskedFor, Answer
<1>5. AskedFor(c, f)' = Total(y)
  <2>1. \A u \in Sessions : {i \in 1..Len(rcvd'[u]) : sid'[u] = c /\ Answer(rcvd'[u][i]) = f}
                              = Share(sid'[u], c, AskedAt(rcvd'[u], f))
    BY DEF Share, AskedAt
  <2> QED BY <2>1 DEF AskedFor, Answer
<1> HIDE DEF x, y
<1>6. Total(y) + Cardinality(x[s]) = Total(x) + Cardinality(y[s])
  BY <1>2, <1>3, FinitenessAssumption, TotalUpdate
<1> QED BY <1>2, <1>4, <1>5, <1>6

LEMMA WrittenStep ==
  ASSUME TypeInv, TypeInv', NEW s \in Sessions, NEW c, NEW f,
         \A u \in Sessions \ {s} : wire'[u] = wire[u] /\ sid'[u] = sid[u]
  PROVE  Written(c, f)' + Mine(sid[s], c, Count(wire[s], f))
           = Written(c, f) + Mine(sid'[s], c, Count(wire'[s], f))
<1> DEFINE x == [u \in Sessions |-> Share(sid[u], c, Positions(wire[u], f))]
           y == [u \in Sessions |-> Share(sid'[u], c, Positions(wire'[u], f))]
<1>1. /\ wire \in [Sessions -> Seq(Frame \cup {TornFrame})]
      /\ wire' \in [Sessions -> Seq(Frame \cup {TornFrame})]
  BY DEF TypeInv, TypeOK
<1>2. \A u \in Sessions :
        /\ IsFiniteSet(x[u]) /\ Cardinality(x[u]) = Mine(sid[u], c, Count(wire[u], f))
        /\ IsFiniteSet(y[u]) /\ Cardinality(y[u]) = Mine(sid'[u], c, Count(wire'[u], f))
  BY <1>1, PositionsFinite, ShareFinite DEF Count
<1>3. DOMAIN x = Sessions /\ DOMAIN y = Sessions /\ \A u \in Sessions \ {s} : y[u] = x[u]
  OBVIOUS
<1>4. Written(c, f) = Total(x)
  BY DEF Written, Share
<1>5. Written(c, f)' = Total(y)
  BY DEF Written, Share
<1> HIDE DEF x, y
<1>6. Total(y) + Cardinality(x[s]) = Total(x) + Cardinality(y[s])
  BY <1>2, <1>3, FinitenessAssumption, TotalUpdate
<1> QED BY <1>2, <1>4, <1>5, <1>6

LEMMA HandlersStep ==
  ASSUME TypeInv, TypeInv', NEW t \in IoThreads, NEW c, NEW f,
         \A u \in IoThreads \ {t} :
           Share(sid'[io'[u].s], c, Positions(io'[u].todo, Acks(f)))
             = Share(sid[io[u].s], c, Positions(io[u].todo, Acks(f)))
  PROVE  InHandlers(c, f)' + Mine(sid[io[t].s], c, Count(io[t].todo, Acks(f)))
           = InHandlers(c, f) + Mine(sid'[io'[t].s], c, Count(io'[t].todo, Acks(f)))
<1> DEFINE x == [u \in IoThreads |-> Share(sid[io[u].s], c, Positions(io[u].todo, Acks(f)))]
           y == [u \in IoThreads |-> Share(sid'[io'[u].s], c, Positions(io'[u].todo, Acks(f)))]
<1>1. \A u \in IoThreads : io[u].todo \in Seq(Ops) /\ io'[u].todo \in Seq(Ops)
  BY DEF TypeInv, TypeOK, Handler
<1>2. \A u \in IoThreads :
        /\ IsFiniteSet(x[u]) /\ Cardinality(x[u]) = Mine(sid[io[u].s], c, Count(io[u].todo, Acks(f)))
        /\ IsFiniteSet(y[u]) /\ Cardinality(y[u]) = Mine(sid'[io'[u].s], c, Count(io'[u].todo, Acks(f)))
  BY <1>1, PositionsFinite, ShareFinite DEF Count
<1>3. DOMAIN x = IoThreads /\ DOMAIN y = IoThreads /\ \A u \in IoThreads \ {t} : y[u] = x[u]
  OBVIOUS
<1>4. InHandlers(c, f) = Total(x)
  BY CountsFamilies
<1>5. InHandlers(c, f)' = Total(y)
  BY DEF InHandlers, Share, Acks, ToClient
<1> HIDE DEF x, y
<1>6. Total(y) + Cardinality(x[t]) = Total(x) + Cardinality(y[t])
  BY <1>2, <1>3, FinitenessAssumption, TotalUpdate
<1> QED BY <1>2, <1>4, <1>5, <1>6

LEMMA QueuesStep ==
  ASSUME TypeInv, TypeInv', NEW p \in Producers, NEW c, NEW f,
         \A r \in Producers \ {p} : q'[r] = q[r]
  PROVE  InQueues(c, f)' + Count(q[p], Packed(c, f)) = InQueues(c, f) + Count(q'[p], Packed(c, f))
<1> DEFINE x == [r \in Producers |-> Positions(q[r], Packed(c, f))]
           y == [r \in Producers |-> Positions(q'[r], Packed(c, f))]
<1>1. q \in [Producers -> Seq(Task)] /\ q' \in [Producers -> Seq(Task)]
  BY DEF TypeInv, TypeOK
<1>2. \A r \in Producers :
        /\ IsFiniteSet(x[r]) /\ Cardinality(x[r]) = Count(q[r], Packed(c, f))
        /\ IsFiniteSet(y[r]) /\ Cardinality(y[r]) = Count(q'[r], Packed(c, f))
  BY <1>1, PositionsFinite DEF Count
<1>3. DOMAIN x = Producers /\ DOMAIN y = Producers /\ \A r \in Producers \ {p} : y[r] = x[r]
  OBVIOUS
<1>4. InQueues(c, f) = Total(x)
  BY CountsFamilies
<1>5. InQueues(c, f)' = Total(y)
  BY DEF InQueues, Packed
<1>6. IsFiniteSet(Producers)
  <2>1. IsFiniteSet(IoThreads \cup Writers)
    BY FinitenessAssumption, FS_Union
  <2> QED BY <2>1, FS_AddElement DEF Producers
<1> HIDE DEF x, y
<1>7. Total(y) + Cardinality(x[p]) = Total(x) + Cardinality(y[p])
  BY <1>2, <1>3, <1>6, TotalUpdate
<1> QED BY <1>2, <1>4, <1>5, <1>7

LEMMA WritersStep ==
  ASSUME NEW w \in Writers, NEW c, NEW f, \A v \in Writers \ {w} : wt'[v] = wt[v]
  PROVE  InWriters(c, f)' + (IF Holds(wt[w], c, f) THEN 1 ELSE 0)
           = InWriters(c, f) + (IF Holds(wt'[w], c, f) THEN 1 ELSE 0)
<1> DEFINE others == {v \in Writers \ {w} : Holds(wt[v], c, f)}
           later == {v \in Writers : Holds(wt'[v], c, f)}
<1>1. IsFiniteSet(others) /\ w \notin others
  BY FinitenessAssumption, FS_Subset
<1>2. /\ Holders(c, f) = IF Holds(wt[w], c, f) THEN others \cup {w} ELSE others
      /\ later = IF Holds(wt'[w], c, f) THEN others \cup {w} ELSE others
  BY DEF Holders
<1>3. InWriters(c, f) = Cardinality(Holders(c, f))
  BY CountsFamilies
<1>4. InWriters(c, f)' = Cardinality(later)
  BY DEF InWriters, Holds, Packed
<1> HIDE DEF others, later
<1>5. Cardinality(others \cup {w}) = Cardinality(others) + 1 /\ Cardinality(others) \in Nat
  BY <1>1, FS_AddElement, FS_CardinalityType
<1> QED BY <1>2, <1>3, <1>4, <1>5

LEMMA CountsSame ==
  ASSUME NEW c, NEW f
  PROVE  /\ UNCHANGED <<sid, rcvd>> => AskedFor(c, f)' = AskedFor(c, f)
         /\ UNCHANGED <<sid, wire>> => Written(c, f)' = Written(c, f)
         /\ UNCHANGED <<sid, io>> => InHandlers(c, f)' = InHandlers(c, f)
         /\ UNCHANGED q => InQueues(c, f)' = InQueues(c, f)
         /\ UNCHANGED wt => InWriters(c, f)' = InWriters(c, f)
<1>1. UNCHANGED <<sid, rcvd>> => AskedFor(c, f)' = AskedFor(c, f)
  BY DEF AskedFor, Answer
<1>2. UNCHANGED <<sid, wire>> => Written(c, f)' = Written(c, f)
  BY DEF Written
<1>3. UNCHANGED <<sid, io>> => InHandlers(c, f)' = InHandlers(c, f)
  BY DEF InHandlers, ToClient
<1>4. UNCHANGED q => InQueues(c, f)' = InQueues(c, f)
  BY DEF InQueues
<1>5. UNCHANGED wt => InWriters(c, f)' = InWriters(c, f)
  BY DEF InWriters
<1> QED BY <1>1, <1>2, <1>3, <1>4, <1>5

-----------------------------------------------------------------------------
(* No step makes or loses an answer *)

Got(c, f) == Written(c, f) + InHandlers(c, f) + InQueues(c, f) + InWriters(c, f)

(* What AnsweredOnce accepts as the loss of an answer to client c. *)
Lossy(c) == DeferredWrites \/ \E s \in Sessions : sid[s] = c /\ stage[s] = "dead"
Settled(c, f) == Got(c, f) <= AskedFor(c, f) /\ (Got(c, f) = AskedFor(c, f) \/ Lossy(c))

(* A step that asks for as many answers as it makes, or that loses one      *)
(* where it may be lost.                                                    *)
Balanced(c, f) == AskedFor(c, f)' + Got(c, f) = AskedFor(c, f) + Got(c, f)'
Loses(c, f) == AskedFor(c, f)' = AskedFor(c, f) /\ Got(c, f)' <= Got(c, f) /\ Lossy(c)

LEMMA LossyStays ==
  ASSUME TypeInv, ServeInv, IdsKept, [Next]_vars, NEW c \in Clients, Lossy(c)
  PROVE  Lossy(c)'
<1> USE DEF sessionVars, queueVars, ioVars, ddsVars
<1>1. env' = env
  <2>1. ASSUME NEW t \in IoThreads, IoStep(t) PROVE env' = env
    BY <2>1 DEF IoStep, Accept, Receive, Insert, Read, Reaccept, Identify, AddToTopic,
       EnqueueMQTT, EnqueueDDS, PubrelFault
  <2> QED BY <2>1, OthersFrame
<1>2. CASE DeferredWrites
  BY <1>1, <1>2 DEF Lossy, DeferredWrites
<1>3. ASSUME NEW s \in Sessions, sid[s] = c, stage[s] = "dead" PROVE Lossy(c)'
  <2>1. sid'[s] = c /\ stage'[s] = "dead"
    BY <1>3, DeadStays DEF IdsKept
  <2> QED BY <2>1 DEF Lossy
<1> QED BY <1>2, <1>3 DEF Lossy

LEMMA SettledStep ==
  ASSUME TypeInv, TypeInv', ServeInv, IdsKept, [Next]_vars, NEW c \in Clients, NEW f,
         Settled(c, f), Balanced(c, f) \/ Loses(c, f)
  PROVE  Settled(c, f)'
<1>1. Lossy(c) => Lossy(c)'
  BY LossyStays
<1>2. AskedFor(c, f) \in Nat /\ AskedFor(c, f)' \in Nat /\ Got(c, f) \in Nat /\ Got(c, f)' \in Nat
  BY CountsAreNat, CountsNext DEF CountsNat, Got
<1> QED BY <1>1, <1>2 DEF Settled, Balanced, Loses

LEMMA HandlerStep ==
  ASSUME TypeInv, TypeInv', NEW t \in IoThreads, NEW c, NEW f, UNCHANGED sid,
         \A u \in IoThreads \ {t} : io'[u] = io[u]
  PROVE  InHandlers(c, f)' + Mine(sid[io[t].s], c, Count(io[t].todo, Acks(f)))
           = InHandlers(c, f) + Mine(sid[io'[t].s], c, Count(io'[t].todo, Acks(f)))
BY HandlersStep

(* The end of an operation of a handler. *)
LEMMA HandlerDone ==
  ASSUME TypeInv, TypeInv', ServeInv, NEW t \in IoThreads, io[t].todo # <<>>, Done(t),
         UNCHANGED sid, NEW c, NEW f
  PROVE  InHandlers(c, f) = InHandlers(c, f)'
           + (IF sid[io[t].s] = c /\ Head(io[t].todo) = Acks(f) THEN 1 ELSE 0)
<1>1. /\ io'[t].todo = Tail(io[t].todo) /\ io[t].todo \in Seq(Ops) /\ io'[t].s = io[t].s
      /\ \A u \in IoThreads \ {t} : io'[u] = io[u]
  BY DoneFacts
<1>2. InHandlers(c, f)' + Mine(sid[io[t].s], c, Count(io[t].todo, Acks(f)))
        = InHandlers(c, f) + Mine(sid[io[t].s], c, Count(Tail(io[t].todo), Acks(f)))
  BY <1>1, HandlerStep
<1>3. Count(io[t].todo, Acks(f)) = Count(Tail(io[t].todo), Acks(f))
        + (IF Acks(f) = Head(io[t].todo) THEN 1 ELSE 0)
  BY <1>1, CountTail
<1>4. Tail(io[t].todo) \in Seq(Ops)
  BY <1>1
<1>5. Count(Tail(io[t].todo), Acks(f)) \in Nat
  BY <1>4, PositionsFinite
<1>6. InHandlers(c, f) \in Nat /\ InHandlers(c, f)' \in Nat
  BY CountsAreNat, CountsNext DEF CountsNat
<1> QED BY <1>2, <1>3, <1>5, <1>6 DEF Mine

(* A received packet asks for what its handler will answer. *)
LEMMA AnswerReceive ==
  ASSUME TypeInv, TypeInv', NEW t \in IoThreads, NEW s \in Sessions, Receive(t, s),
         NEW c, NEW f \in Answers
  PROVE  Balanced(c, f)
<1> DEFINE p == Arriving(s)
           one == IF Answer(p) = f THEN 1 ELSE 0
           n == Cardinality(AskedAt(rcvd[s], f))
<1>1. /\ io' = [io EXCEPT ![t] = [s |-> s, todo |-> Handling(s)]] /\ io[t].todo = <<>>
      /\ p \in Packet /\ Content(s) \in Contents /\ UNCHANGED <<sid, q, wt, wire>>
      /\ rcvd' = [rcvd EXCEPT ![s] = Append(@, p)]
  BY ReceiveFacts
<1>2. io \in [IoThreads -> Handler] /\ rcvd \in [Sessions -> Seq(Packet)]
  BY DEF TypeInv, TypeOK
<1>3. Count(Handling(s), Acks(f)) = one
  BY <1>1, PacketAnswers DEF Handling
<1>4. n \in Nat /\ Cardinality(AskedAt(Append(rcvd[s], p), f)) = n + one
  BY <1>1, <1>2, AskedFinite, AskedAppend
<1> HIDE DEF p, n, one
<1>5. /\ io'[t].s = s /\ io'[t].todo = Handling(s) /\ \A u \in IoThreads \ {t} : io'[u] = io[u]
      /\ rcvd'[s] = Append(rcvd[s], p) /\ \A u \in Sessions \ {s} : rcvd'[u] = rcvd[u]
  BY <1>1, <1>2
<1>6. InHandlers(c, f)' + Mine(sid[io[t].s], c, 0) = InHandlers(c, f) + Mine(sid[s], c, one)
  BY <1>1, <1>3, <1>5, HandlerStep, CountEmpty
<1>7. AskedFor(c, f)' + Mine(sid[s], c, n) = AskedFor(c, f) + Mine(sid[s], c, n + one)
  <2>1. AskedFor(c, f)' + Mine(sid[s], c, Cardinality(AskedAt(rcvd[s], f)))
          = AskedFor(c, f) + Mine(sid'[s], c, Cardinality(AskedAt(rcvd'[s], f)))
    BY <1>1, <1>5, AskedStep
  <2> QED BY <1>1, <1>4, <1>5, <2>1 DEF n
<1>8. /\ Written(c, f)' = Written(c, f) /\ InQueues(c, f)' = InQueues(c, f)
      /\ InWriters(c, f)' = InWriters(c, f)
  BY <1>1, CountsSame
<1>9. CountsNat /\ CountsNat'
  BY CountsAreNat, CountsNext
<1>10. one \in Nat
  BY DEF one
<1>11. /\ AskedFor(c, f) \in Nat /\ AskedFor(c, f)' \in Nat /\ InHandlers(c, f) \in Nat
       /\ InHandlers(c, f)' \in Nat /\ Written(c, f) \in Nat /\ InQueues(c, f) \in Nat
       /\ InWriters(c, f) \in Nat
  BY <1>9 DEF CountsNat
<1> QED BY <1>4, <1>6, <1>7, <1>8, <1>10, <1>11 DEF Balanced, Got, Mine

(* set_id gives the client its CONNECT and the answer that is to come: the  *)
(* session has nothing else yet.                                            *)
LEMMA AnswerIdentify ==
  ASSUME TypeInv, TypeInv', ServeInv, IdInv, AddressInv, NEW t \in IoThreads, Identify(t),
         NEW c \in Clients, NEW f \in Answers
  PROVE  Balanced(c, f)
<1> USE DEF sessionVars, queueVars, ioVars, ddsVars
<1> DEFINE s == io[t].s
<1>1. /\ io[t].todo # <<>> /\ Head(io[t].todo).op = "setid" /\ Done(t)
      /\ sid' = [sid EXCEPT ![s] = Head(io[t].todo).id] /\ UNCHANGED <<rcvd, q, wt, wire>>
  BY DEF Identify, NextOp
<1>2. /\ io'[t].todo = Tail(io[t].todo) /\ io[t].todo \in Seq(Ops) /\ io'[t].s = s
      /\ \A u \in IoThreads \ {t} : io'[u] = io[u]
  BY <1>1, DoneFacts
<1>3. s \in Sessions /\ sid \in [Sessions -> Ids]
  BY <1>1 DEF TypeInv, TypeOK, HandlerInv
<1>4. Identifying(t, s)
  BY <1>1 DEF Identifying
<1> HIDE DEF s
<1>5. sid[s] = NoClient /\ sid[s] # c
  BY <1>3, <1>4, KindsAssumption DEF IdInv
<1>6. PICK p \in Packet :
        /\ p.type = "CONNECT" /\ rcvd[s] = <<p>>
        /\ io[t].todo = <<SetId(p.client), ToClient("CONNACK", 0), Op("read")>>
  BY <1>3, <1>4 DEF AddressInv, ConnectInv
<1> DEFINE one == IF Answer(p) = f THEN 1 ELSE 0
<1>7. \A u \in Sessions \ {s} : sid'[u] = sid[u]
  BY <1>1, <1>3
<1>8. Cardinality(AskedAt(rcvd[s], f)) = one
  <2>1. rcvd[s] = Append(<<>>, p) /\ <<>> \in Seq(Packet)
    BY <1>6
  <2>2. AskedAt(<<>>, f) = {}
    BY DEF AskedAt
  <2>3. Cardinality(AskedAt(Append(<<>>, p), f)) = Cardinality(AskedAt(<<>>, f)) + one
    BY <2>1, AskedAppend
  <2>4. Cardinality({}) = 0 /\ 0 + one = one
    BY FS_EmptySet
  <2> QED BY <2>1, <2>2, <2>3, <2>4
<1>9. Count(Tail(io[t].todo), Acks(f)) = one
  <2> DEFINE todo == io[t].todo
  <2>1. Answer(p) = [type |-> "CONNACK", arg |-> 0]
    BY <1>6 DEF Answer
  <2>2. Len(todo) = 3 /\ todo[1].op = "setid" /\ todo[2] = ToClient("CONNACK", 0)
        /\ todo[3].op = "read" /\ Head(todo) = todo[1]
    BY <1>6 DEF SetId, Op
  <2> HIDE DEF todo
  <2>3. \A i \in 1..3 : i = 1 \/ i = 2 \/ i = 3
    OBVIOUS
  <2>4. 2 \in 1..Len(todo) /\ \A i \in 1..Len(todo) : todo[i].op = "ack" => i = 2
    BY <2>2, <2>3
  <2>5. Count(todo, Acks(f)) = IF todo[2] = Acks(f) THEN 1 ELSE 0
    BY <1>2, <2>4, AckAt DEF todo
  <2>6. todo[2] = Acks(f) <=> Answer(p) = f
    BY <2>1, <2>2, AnswerKinds
  <2>7. Acks(f) # Head(todo)
    BY <2>2, AnswerKinds
  <2>8. Count(todo, Acks(f)) = Count(Tail(todo), Acks(f))
    <3>1. Count(todo, Acks(f)) = Count(Tail(todo), Acks(f)) + 0
      BY <1>1, <1>2, <2>7, CountTail DEF todo
    <3>2. Tail(todo) \in Seq(Ops)
      BY <1>1, <1>2 DEF todo
    <3>3. Count(Tail(todo), Acks(f)) \in Nat
      BY <3>2, PositionsFinite
    <3> QED BY <3>1, <3>3
  <2> QED BY <2>5, <2>6, <2>8 DEF todo
<1>10. Count(wire[s], f) = 0
  <2>1. \A i \in 1..Len(wire[s]) : wire[s][i].type \in {"PUBLISH", "TORN"}
    BY <1>3, <1>5 DEF AddressInv, WireTo
  <2>2. f.type # "PUBLISH" /\ f.type # "TORN"
    BY DEF Answers, Frame
  <2>3. Positions(wire[s], f) = {}
    BY <2>1, <2>2 DEF Positions
  <2> QED BY <2>3, FS_EmptySet DEF Count
<1> HIDE DEF one
<1>11. AskedFor(c, f)' + 0 = AskedFor(c, f) + Mine(sid'[s], c, one)
  <2>1. AskedFor(c, f)' + Mine(sid[s], c, Cardinality(AskedAt(rcvd[s], f)))
          = AskedFor(c, f) + Mine(sid'[s], c, Cardinality(AskedAt(rcvd'[s], f)))
    BY <1>1, <1>3, <1>7, AskedStep
  <2>2. Mine(sid[s], c, Cardinality(AskedAt(rcvd[s], f))) = 0
    BY <1>5 DEF Mine
  <2>3. rcvd'[s] = rcvd[s]
    BY <1>1
  <2> QED BY <1>8, <2>1, <2>2, <2>3
<1>12. Written(c, f)' + 0 = Written(c, f) + 0
  <2>1. Written(c, f)' + Mine(sid[s], c, Count(wire[s], f))
          = Written(c, f) + Mine(sid'[s], c, Count(wire'[s], f))
    BY <1>1, <1>3, <1>7, WrittenStep
  <2>2. wire'[s] = wire[s]
    BY <1>1
  <2> QED BY <1>10, <2>1, <2>2 DEF Mine
<1>13. InHandlers(c, f)' + 0 = InHandlers(c, f) + Mine(sid'[s], c, one)
  <2>1. ASSUME NEW u \in IoThreads \ {t}
        PROVE  Share(sid'[io'[u].s], c, Positions(io'[u].todo, Acks(f)))
                 = Share(sid[io[u].s], c, Positions(io[u].todo, Acks(f)))
    <3>1. io'[u] = io[u]
      BY <1>2
    <3>2. CASE io[u].s = s
      <4>1. \A i \in 1..Len(io[u].todo) : io[u].todo[i].op # "ack"
        <5>1. ~Serving(u, s)
          BY <1>1, <1>3, <1>4 DEF ServeInv, Serving, Identifying
        <5>2. io[u].todo = <<>> \/ Head(io[u].todo).op = "accept"
          BY <3>2, <5>1 DEF Serving
        <5>3. Shape(io[u].todo) /\ io[u].todo \in Seq(Ops)
          BY DEF ServeInv, TypeInv, TypeOK, Handler
        <5>4. CASE io[u].todo # <<>>
          <6>1. Head(io[u].todo) = io[u].todo[1] /\ 1 \in 1..Len(io[u].todo)
            BY <5>3, <5>4
          <6>2. Len(io[u].todo) = 1
            BY <5>2, <5>3, <5>4, <6>1 DEF Shape
          <6> QED BY <5>2, <5>4, <6>1, <6>2
        <5> QED BY <5>4
      <4>2. io[u].todo \in Seq(Ops)
        BY DEF TypeInv, TypeOK, Handler
      <4>3. Positions(io[u].todo, Acks(f)) = {}
        BY <4>1, <4>2, AckNowhere
      <4> QED BY <3>1, <4>3 DEF Share
    <3>3. CASE io[u].s # s /\ io[u].todo # <<>>
      <4>1. io[u].s \in Sessions
        BY <3>3 DEF TypeInv, HandlerInv
      <4> QED BY <1>7, <3>1, <3>3, <4>1
    <3>4. CASE io[u].todo = <<>>
      BY <3>1, <3>4, CountEmpty DEF Share
    <3> QED BY <3>2, <3>3, <3>4
  <2>2. InHandlers(c, f)' + Mine(sid[io[t].s], c, Count(io[t].todo, Acks(f)))
          = InHandlers(c, f) + Mine(sid'[io'[t].s], c, Count(io'[t].todo, Acks(f)))
    BY <2>1, HandlersStep
  <2>3. Mine(sid[io[t].s], c, Count(io[t].todo, Acks(f))) = 0
    BY <1>5 DEF Mine, s
  <2> QED BY <1>2, <1>9, <2>2, <2>3
<1>14. InQueues(c, f)' = InQueues(c, f) /\ InWriters(c, f)' = InWriters(c, f)
  BY <1>1, CountsSame
<1>15. one \in Nat /\ Mine(sid'[s], c, one) \in Nat
  BY DEF one, Mine
<1>16. /\ AskedFor(c, f) \in Nat /\ AskedFor(c, f)' \in Nat /\ InHandlers(c, f) \in Nat
       /\ InHandlers(c, f)' \in Nat /\ Written(c, f) \in Nat /\ Written(c, f)' \in Nat
       /\ InQueues(c, f) \in Nat /\ InWriters(c, f) \in Nat
  BY CountsAreNat, CountsNext DEF CountsNat
<1> QED BY <1>11, <1>12, <1>13, <1>14, <1>15, <1>16 DEF Balanced, Got

(* Queueing an answer for the id of a session. *)
LEMMA AnswerEnqueue ==
  ASSUME TypeInv, TypeInv', ServeInv, NEW t \in IoThreads, EnqueueMQTT(t),
         NEW c \in Clients, NEW f \in Answers
  PROVE  Balanced(c, f)
<1> USE DEF sessionVars, queueVars, ioVars, ddsVars
<1> DEFINE h == Head(io[t].todo)
           x == IF h.op = "ack" THEN AckTask(sid[io[t].s], h.type, h.arg)
                ELSE PublishTask(Broadcast, h.msg)
           one == IF sid[io[t].s] = c /\ h = Acks(f) THEN 1 ELSE 0
<1>1. /\ io[t].todo # <<>> /\ Done(t) /\ h.op \in {"ack", "publish"} /\ q' = Enqueue(q, t, x)
      /\ UNCHANGED <<rcvd, sid, wt, wire>>
  BY DEF NextOp, EnqueueMQTT
<1>2. h \in Ops /\ io[t].s \in Sessions /\ sid[io[t].s] \in Ids
  BY <1>1, DoneFacts DEF TypeInv, TypeOK, HandlerInv
<1>3. InHandlers(c, f) = InHandlers(c, f)' + one
  BY <1>1, HandlerDone
<1> HIDE DEF h
<1>4. x \in Task /\ (x = Packed(c, f) <=> sid[io[t].s] = c /\ h = Acks(f))
  <2>1. CASE h.op = "ack"
    <3>1. x = [to |-> sid[io[t].s], frame |-> [type |-> h.type, arg |-> h.arg]]
      BY <2>1 DEF AckTask
    <3>2. [type |-> h.type, arg |-> h.arg] \in Frame /\ h = ToClient(h.type, h.arg)
      BY <1>2, <2>1, OpKinds DEF Ops, ToClient
    <3>3. h = Acks(f) <=> [type |-> h.type, arg |-> h.arg] = f
      BY <3>2, AnswerKinds
    <3> QED BY <1>2, <3>1, <3>2, <3>3 DEF Task, Packed
  <2>2. CASE h.op = "publish"
    <3>1. x = [to |-> Broadcast, frame |-> [type |-> "PUBLISH", arg |-> h.msg]]
      BY <2>2 DEF PublishTask
    <3>2. h.msg \in Contents
      BY <1>2, <2>2, OpKinds
    <3>3. Acks(f).op = "ack" /\ Broadcast # c
      BY AnswerKinds, KindsAssumption DEF Ids
    <3> QED BY <2>2, <3>1, <3>2, <3>3 DEF Task, Frame, Packed
  <2> QED BY <1>1, <2>1, <2>2
<1> HIDE DEF x
<1>5. InQueues(c, f)' = InQueues(c, f) + one
  <2>1. q \in [Producers -> Seq(Task)] /\ t \in Producers
    BY DEF TypeInv, TypeOK, Producers
  <2>2. q'[t] = Append(q[t], x) /\ \A r \in Producers \ {t} : q'[r] = q[r]
    BY <1>1, <2>1 DEF Enqueue
  <2>3. Count(q'[t], Packed(c, f)) = Count(q[t], Packed(c, f)) + one
    BY <1>4, <2>1, <2>2, CountAppend
  <2>4. InQueues(c, f)' + Count(q[t], Packed(c, f)) = InQueues(c, f) + Count(q'[t], Packed(c, f))
    BY <2>1, <2>2, QueuesStep
  <2>5. Count(q[t], Packed(c, f)) \in Nat
    BY <2>1, PositionsFinite
  <2>6. InQueues(c, f) \in Nat /\ InQueues(c, f)' \in Nat
    BY CountsAreNat, CountsNext DEF CountsNat
  <2> QED BY <2>3, <2>4, <2>5, <2>6
<1>6. /\ AskedFor(c, f)' = AskedFor(c, f) /\ Written(c, f)' = Written(c, f)
      /\ InWriters(c, f)' = InWriters(c, f)
  BY <1>1, CountsSame
<1>7. /\ AskedFor(c, f) \in Nat /\ InHandlers(c, f)' \in Nat /\ Written(c, f) \in Nat
      /\ InQueues(c, f) \in Nat /\ InWriters(c, f) \in Nat /\ one \in Nat
  BY CountsAreNat, CountsNext DEF CountsNat
<1> HIDE DEF one
<1> QED BY <1>3, <1>5, <1>6, <1>7 DEF Balanced, Got

LEMMA AnswerIo ==
  ASSUME TypeInv, TypeInv', ServeInv, IdInv, AddressInv, NEW t \in IoThreads, IoStep(t),
         NEW c \in Clients, NEW f \in Answers
  PROVE  Balanced(c, f)
<1> USE DEF sessionVars, queueVars, ioVars, ddsVars
<1>1. /\ AskedFor(c, f) \in Nat /\ InHandlers(c, f) \in Nat /\ InHandlers(c, f)' \in Nat
      /\ Written(c, f) \in Nat /\ InQueues(c, f) \in Nat /\ InWriters(c, f) \in Nat
  BY CountsAreNat, CountsNext DEF CountsNat
<1>2. ASSUME UNCHANGED <<sid, rcvd, q, wt, wire>>, InHandlers(c, f)' = InHandlers(c, f)
      PROVE  Balanced(c, f)
  <2>1. /\ AskedFor(c, f)' = AskedFor(c, f) /\ Written(c, f)' = Written(c, f)
        /\ InQueues(c, f)' = InQueues(c, f) /\ InWriters(c, f)' = InWriters(c, f)
    BY <1>2, CountsSame
  <2> QED BY <1>1, <1>2, <2>1 DEF Balanced, Got
<1>3. /\ io \in [IoThreads -> Handler]
      /\ \A u \in IoThreads : io[u].todo \in Seq(Ops) /\ io'[u].todo \in Seq(Ops)
  BY DEF TypeInv, TypeOK, Handler
<1>4. ASSUME UNCHANGED sid, \A u \in IoThreads \ {t} : io'[u] = io[u],
             Count(io[t].todo, Acks(f)) = 0, Count(io'[t].todo, Acks(f)) = 0
      PROVE  InHandlers(c, f)' = InHandlers(c, f)
  <2>1. InHandlers(c, f)' + Mine(sid[io[t].s], c, 0) = InHandlers(c, f) + Mine(sid[io'[t].s], c, 0)
    BY <1>4, HandlerStep
  <2> QED BY <1>1, <2>1 DEF Mine
<1>5. ASSUME NEW s \in Sessions, Accept(t, s) PROVE Balanced(c, f)
  <2> DEFINE ops == <<Op("insert"), Op("read"), Op("accept")>>
  <2>1. Len(ops) = 3 /\ ops[1].op # "ack" /\ ops[2].op # "ack" /\ ops[3].op # "ack"
    BY DEF Op
  <2>2. /\ io' = [io EXCEPT ![t] = [s |-> s, todo |-> ops]] /\ io[t].todo = <<>>
        /\ UNCHANGED <<sid, rcvd, q, wt, wire>>
    BY <1>5 DEF Accept, Idle
  <2> HIDE DEF ops
  <2>3. io'[t].todo = ops /\ \A u \in IoThreads \ {t} : io'[u] = io[u]
    BY <1>3, <2>2
  <2>4. \A i \in 1..Len(ops) : ops[i].op # "ack"
    <3>1. \A i \in 1..3 : i = 1 \/ i = 2 \/ i = 3
      OBVIOUS
    <3> QED BY <2>1, <3>1
  <2>5. ops \in Seq(Ops)
    BY <1>3, <2>3
  <2>6. Count(io'[t].todo, Acks(f)) = 0
    BY <2>3, <2>4, <2>5, AckNowhere
  <2>7. Count(io[t].todo, Acks(f)) = 0
    BY <2>2, CountEmpty
  <2> QED BY <1>2, <1>4, <2>2, <2>3, <2>6, <2>7
<1>6. CASE Insert(t) \/ Read(t) \/ Reaccept(t) \/ AddToTopic(t) \/ EnqueueDDS(t)
  <2>1. /\ io[t].todo # <<>> /\ Done(t) /\ UNCHANGED <<sid, rcvd, q, wt, wire>>
        /\ Head(io[t].todo).op # "ack"
    BY <1>6 DEF NextOp, Insert, Read, Reaccept, AddToTopic, EnqueueDDS
  <2>2. Head(io[t].todo) # Acks(f)
    BY <2>1, AnswerKinds
  <2>3. InHandlers(c, f) = InHandlers(c, f)' + 0
    BY <2>1, <2>2, HandlerDone
  <2> QED BY <1>1, <1>2, <2>1, <2>3
<1>7. CASE PubrelFault(t)
  <2>1. /\ io[t].todo # <<>> /\ Head(io[t].todo).op = "dds" /\ UNCHANGED <<sid, rcvd, q, wt, wire>>
        /\ io' = io \/ io' = [io EXCEPT ![t].todo = <<Op("read")>>]
    BY <1>7 DEF PubrelFault, NextOp
  <2>2. CASE io' = io
    <3>1. InHandlers(c, f)' = InHandlers(c, f)
      BY <2>1, <2>2, CountsSame
    <3> QED BY <1>2, <2>1, <3>1
  <2>3. CASE io' = [io EXCEPT ![t].todo = <<Op("read")>>]
    <3> DEFINE new == <<Op("read")>>
    <3>1. io'[t].todo = new /\ \A u \in IoThreads \ {t} : io'[u] = io[u]
      BY <1>3, <2>3 DEF Handler
    <3>2. Len(new) = 1 /\ new[1].op # "ack"
      BY DEF Op
    <3> HIDE DEF new
    <3>3. \A i \in 1..Len(new) : new[i].op # "ack"
      BY <3>2
    <3>4. Count(io'[t].todo, Acks(f)) = 0
      BY <1>3, <3>1, <3>3, AckNowhere
    <3>5. Count(io[t].todo, Acks(f)) = 0
      <4>1. \A o \in Elements(Tail(io[t].todo)) : o.op # "ack"
        BY <1>3, <2>1, AckFirstTail DEF AddressInv, HandlerTo
      <4>2. Tail(io[t].todo) \in Seq(Ops)
        BY <1>3, <2>1
      <4>3. Count(Tail(io[t].todo), Acks(f)) = 0
        BY <4>1, <4>2, AckNowhere DEF Elements
      <4>4. Head(io[t].todo) # Acks(f)
        BY <2>1, AnswerKinds
      <4> QED BY <1>3, <2>1, <4>3, <4>4, CountTail
    <3>6. InHandlers(c, f)' = InHandlers(c, f)
      BY <1>4, <2>1, <3>1, <3>4, <3>5
    <3> QED BY <1>2, <2>1, <3>6
  <2> QED BY <2>1, <2>2, <2>3
<1> QED BY <1>5, <1>6, <1>7, AnswerReceive, AnswerIdentify, AnswerEnqueue DEF IoStep

(* A write of an answer reaches a session of the client it is for, unless   *)
(* the connection is lost or the write sends something else.                *)
LEMMA AnswerSend ==
  ASSUME TypeInv, TypeInv', AddressInv, NEW w \in Writers, Send(w),
         NEW c \in Clients, NEW f \in Answers
  PROVE  Balanced(c, f) \/ Loses(c, f)
<1> USE DEF sessionVars, queueVars, ioVars, ddsVars
<1> DEFINE s == wt[w].client
           g == wt[w].task.frame
           held == IF wt[w].task = Packed(c, f) THEN 1 ELSE 0
<1>1. /\ wt[w].pc = "write" /\ Advance(w) /\ UNCHANGED <<q, io, sid, rcvd>>
      /\ \/ stage[s] = "dead" /\ UNCHANGED wire
         \/ wire' = [wire EXCEPT ![s] = Append(@, g)]
         \/ DeferredWrites /\ wire' = [wire EXCEPT ![s] = Append(@, TornFrame)]
  BY DEF Send, At
<1>2. s \in Sessions /\ wt[w].task \in Task /\ g \in Frame
  BY <1>1 DEF TypeInv, WriterInv, Task
<1>3. IsAnswer(g) => sid[s] = wt[w].task.to
  BY <1>1 DEF AddressInv, WriterTo, Aimed
<1>4. wt[w].task = Packed(c, f) <=> wt[w].task.to = c /\ g = f
  BY <1>2 DEF Task, Packed
<1>5. IsAnswer(f) /\ f # TornFrame /\ f \in Frame
  BY AnswerKinds DEF IsAnswer, Answers
<1>6. /\ \A v \in Writers \ {w} : wt'[v] = wt[v]
      /\ wt'[w].task = wt[w].task /\ (IsAnswer(g) => wt'[w].pc = "idle")
  BY <1>1, AdvanceFacts
<1>7. InWriters(c, f)' + held = InWriters(c, f)
  <2>1. InWriters(c, f)' + (IF Holds(wt[w], c, f) THEN 1 ELSE 0)
          = InWriters(c, f) + (IF Holds(wt'[w], c, f) THEN 1 ELSE 0)
    BY <1>6, WritersStep
  <2>2. Holds(wt[w], c, f) <=> wt[w].task = Packed(c, f)
    BY <1>1 DEF Holds
  <2>3. ~Holds(wt'[w], c, f)
    BY <1>4, <1>5, <1>6 DEF Holds
  <2>4. InWriters(c, f) \in Nat /\ InWriters(c, f)' \in Nat
    BY CountsAreNat, CountsNext DEF CountsNat
  <2> QED BY <2>1, <2>2, <2>3, <2>4
<1>8. /\ AskedFor(c, f)' = AskedFor(c, f) /\ InHandlers(c, f)' = InHandlers(c, f)
      /\ InQueues(c, f)' = InQueues(c, f)
      /\ UNCHANGED wire => Written(c, f)' = Written(c, f)
  BY <1>1, CountsSame
<1>9. /\ AskedFor(c, f) \in Nat /\ InHandlers(c, f) \in Nat /\ InQueues(c, f) \in Nat
      /\ Written(c, f) \in Nat /\ Written(c, f)' \in Nat
      /\ InWriters(c, f) \in Nat /\ InWriters(c, f)' \in Nat /\ held \in Nat
  BY CountsAreNat, CountsNext DEF CountsNat
<1>10. wire \in [Sessions -> Seq(Frame \cup {TornFrame})]
  BY DEF TypeInv, TypeOK
<1> HIDE DEF s, g
<1>11. ASSUME NEW x \in Frame \cup {TornFrame}, wire' = [wire EXCEPT ![s] = Append(@, x)]
       PROVE  Written(c, f)' = Written(c, f) + (IF sid[s] = c /\ f = x THEN 1 ELSE 0)
  <2>1. wire'[s] = Append(wire[s], x) /\ \A u \in Sessions \ {s} : wire'[u] = wire[u]
    BY <1>2, <1>10, <1>11
  <2>2. Written(c, f)' + Mine(sid[s], c, Count(wire[s], f))
          = Written(c, f) + Mine(sid[s], c, Count(wire'[s], f))
    <3>1. sid' = sid
      BY <1>1
    <3>2. Written(c, f)' + Mine(sid[s], c, Count(wire[s], f))
            = Written(c, f) + Mine(sid'[s], c, Count(wire'[s], f))
      BY <1>2, <2>1, <3>1, WrittenStep
    <3> QED BY <3>1, <3>2
  <2>3. Count(wire'[s], f) = Count(wire[s], f) + (IF f = x THEN 1 ELSE 0)
    BY <1>2, <1>10, <2>1, CountAppend
  <2>4. Count(wire[s], f) \in Nat
    BY <1>2, <1>10, PositionsFinite
  <2> QED BY <1>9, <2>2, <2>3, <2>4 DEF Mine
<1>12. CASE stage[s] = "dead" /\ UNCHANGED wire
  <2>1. CASE wt[w].task = Packed(c, f)
    <3>1. Lossy(c)
      BY <1>2, <1>3, <1>4, <1>5, <1>12, <2>1 DEF Lossy
    <3>2. Got(c, f)' <= Got(c, f)
      BY <1>7, <1>8, <1>9, <1>12 DEF Got
    <3> QED BY <1>8, <3>1, <3>2 DEF Loses
  <2>2. CASE wt[w].task # Packed(c, f)
    <3>1. InWriters(c, f)' = InWriters(c, f)
      BY <1>7, <1>9, <2>2
    <3> QED BY <1>8, <1>9, <1>12, <3>1 DEF Balanced, Got
  <2> QED BY <2>1, <2>2
<1>13. CASE wire' = [wire EXCEPT ![s] = Append(@, g)]
  <2>1. Written(c, f)' = Written(c, f) + (IF sid[s] = c /\ f = g THEN 1 ELSE 0)
    BY <1>2, <1>11, <1>13
  <2>2. sid[s] = c /\ f = g <=> wt[w].task = Packed(c, f)
    BY <1>3, <1>4, <1>5
  <2>3. Written(c, f)' = Written(c, f) + held
    BY <2>1, <2>2
  <2> HIDE DEF held
  <2> QED BY <1>7, <1>8, <1>9, <2>3 DEF Balanced, Got
<1>14. CASE DeferredWrites /\ wire' = [wire EXCEPT ![s] = Append(@, TornFrame)]
  <2>1. Written(c, f)' = Written(c, f) + 0
    BY <1>5, <1>11, <1>14
  <2>2. Got(c, f)' <= Got(c, f)
    BY <1>7, <1>8, <1>9, <2>1 DEF Got
  <2> QED BY <1>8, <1>14, <2>2 DEF Loses, Lossy
<1> QED BY <1>1, <1>12, <1>13, <1>14 DEF s, g

LEMMA AnswerWriter ==
  ASSUME TypeInv, TypeInv', AddressInv, NEW w \in Writers, WriterStep(w),
         NEW c \in Clients, NEW f \in Answers
  PROVE  Balanced(c, f) \/ Loses(c, f)
<1> USE DEF sessionVars, queueVars, ioVars, ddsVars
<1>1. /\ wt \in [Writers -> WriterState] /\ wt[w] \in WriterState
      /\ q \in [Producers -> Seq(Task)] /\ w \in Producers
      /\ wt[w].pc # "idle" => wt[w].task \in Task
  BY DEF TypeInv, TypeOK, WriterInv, Producers
<1>2. Aimed(wt[w])
  BY DEF AddressInv, WriterTo
<1>3. UNCHANGED <<io, sid, rcvd>>
  BY DEF WriterStep, Dequeue, FindTopic, Lookup, WriterRace, Decide, SendRefused, Send
<1>4. /\ AskedFor(c, f)' = AskedFor(c, f) /\ InHandlers(c, f)' = InHandlers(c, f)
      /\ UNCHANGED wire => Written(c, f)' = Written(c, f)
      /\ UNCHANGED q => InQueues(c, f)' = InQueues(c, f)
      /\ UNCHANGED wt => InWriters(c, f)' = InWriters(c, f)
  BY <1>3, CountsSame
<1>5. /\ AskedFor(c, f) \in Nat /\ InHandlers(c, f) \in Nat /\ Written(c, f) \in Nat
      /\ InQueues(c, f) \in Nat /\ InQueues(c, f)' \in Nat
      /\ InWriters(c, f) \in Nat /\ InWriters(c, f)' \in Nat
  BY CountsAreNat, CountsNext DEF CountsNat
<1>6. ASSUME UNCHANGED wire,
             InQueues(c, f)' + InWriters(c, f)' = InQueues(c, f) + InWriters(c, f)
      PROVE  Balanced(c, f)
  BY <1>4, <1>5, <1>6 DEF Balanced, Got
<1>7. ASSUME \A v \in Writers \ {w} : wt'[v] = wt[v], Holds(wt'[w], c, f) <=> Holds(wt[w], c, f)
      PROVE  InWriters(c, f)' = InWriters(c, f)
  <2>1. InWriters(c, f)' + (IF Holds(wt[w], c, f) THEN 1 ELSE 0)
          = InWriters(c, f) + (IF Holds(wt'[w], c, f) THEN 1 ELSE 0)
    BY <1>7, WritersStep
  <2> QED BY <1>5, <1>7, <2>1
<1>8. IsAnswer(f) /\ Packed(c, f).frame = f
  BY AnswerKinds DEF IsAnswer, Packed
<1>9. ASSUME \A v \in Writers \ {w} : wt'[v] = wt[v], wt'[w].task = wt[w].task,
             ~IsAnswer(wt[w].task.frame)
      PROVE  InWriters(c, f)' = InWriters(c, f)
  BY <1>7, <1>8, <1>9 DEF Holds
<1>10. CASE Dequeue(w)
  <2>1. PICK p \in {p \in Producers : Nonempty(q, p)} :
          /\ q' = Dequeued(q, p)
          /\ wt' = [wt EXCEPT ![w] =
               IF Head(q[p]).to = Broadcast
               THEN [pc |-> "find", task |-> Head(q[p]), targets |-> <<>>, client |-> 0]
               ELSE [pc |-> "lookup", task |-> Head(q[p]), targets |-> <<Head(q[p]).to>>,
                     client |-> 0]]
    BY <1>10 DEF Dequeue
  <2> DEFINE x == Head(q[p])
             one == IF Packed(c, f) = x THEN 1 ELSE 0
  <2>2. q[p] \in Seq(Task) /\ q[p] # <<>> /\ p \in Producers
    BY <1>1, <2>1 DEF Nonempty
  <2>3. /\ wt'[w].task = x /\ wt'[w].pc # "idle" /\ wt[w].pc = "idle" /\ UNCHANGED wire
        /\ \A v \in Writers \ {w} : wt'[v] = wt[v]
    BY <1>1, <1>10, <2>1 DEF Dequeue, At
  <2>4. q'[p] = Tail(q[p]) /\ \A r \in Producers \ {p} : q'[r] = q[r]
    BY <1>1, <2>1 DEF Dequeued
  <2> HIDE DEF x
  <2>5. InWriters(c, f)' = InWriters(c, f) + one
    <3>1. InWriters(c, f)' + (IF Holds(wt[w], c, f) THEN 1 ELSE 0)
            = InWriters(c, f) + (IF Holds(wt'[w], c, f) THEN 1 ELSE 0)
      BY <2>3, WritersStep
    <3>2. ~Holds(wt[w], c, f) /\ (Holds(wt'[w], c, f) <=> Packed(c, f) = x)
      BY <2>3 DEF Holds
    <3> QED BY <1>5, <3>1, <3>2
  <2>6. InQueues(c, f)' + Count(q[p], Packed(c, f)) = InQueues(c, f) + Count(Tail(q[p]), Packed(c, f))
    BY <2>2, <2>4, QueuesStep
  <2>7. Count(q[p], Packed(c, f)) = Count(Tail(q[p]), Packed(c, f)) + one
    BY <2>2, CountTail DEF x
  <2>8. Count(Tail(q[p]), Packed(c, f)) \in Nat
    <3>1. Tail(q[p]) \in Seq(Task)
      BY <2>2
    <3> QED BY <3>1, PositionsFinite
  <2>9. InQueues(c, f) = InQueues(c, f)' + one
    BY <1>5, <2>6, <2>7, <2>8
  <2> QED BY <1>5, <1>6, <2>3, <2>5, <2>9
<1>11. CASE FindTopic(w)
  <2>1. /\ wt' = [wt EXCEPT ![w] = [wt[w] EXCEPT
                    !.targets = find_topic(Gps),
                    !.pc = IF find_topic(Gps) = <<>> THEN "idle" ELSE "lookup"]]
        /\ UNCHANGED <<q, wire>> /\ wt[w].pc = "find"
    BY <1>1, <1>11 DEF FindTopic, WriterState, At
  <2>2. wt'[w].task = wt[w].task /\ \A v \in Writers \ {w} : wt'[v] = wt[v]
    BY <1>1, <2>1 DEF WriterState
  <2>3. ~IsAnswer(wt[w].task.frame)
    BY <1>2, <2>1 DEF Aimed
  <2> QED BY <1>4, <1>6, <1>9, <2>1, <2>2, <2>3
<1>12. CASE Lookup(w)
  <2> DEFINE id == TargetId(Head(wt[w].targets))
  <2>1. wt[w].pc = "lookup" /\ UNCHANGED <<q, wire>>
    BY <1>12 DEF Lookup, At
  <2>2. CASE Matching(id) = {}
    <3>1. Advance(w)
      BY <1>12, <2>2 DEF Lookup
    <3>2. ~IsAnswer(wt[w].task.frame)
      <4> SUFFICES ASSUME IsAnswer(wt[w].task.frame) PROVE FALSE
        OBVIOUS
      <4>1. wt[w].targets = <<wt[w].task.to>> /\ Known(wt[w].task.to)
        BY <1>2, <2>1 DEF Aimed
      <4>2. Head(wt[w].targets) = wt[w].task.to
        BY <4>1
      <4>3. wt[w].task.to \notin Sessions
        BY <4>1, KindsAssumption DEF Ids, Known
      <4>4. id = wt[w].task.to
        BY <4>2, <4>3 DEF TargetId
      <4> HIDE DEF id
      <4> QED BY <2>2, <4>1, <4>4 DEF Matching, Known
    <3>3. wt'[w].task = wt[w].task /\ \A v \in Writers \ {w} : wt'[v] = wt[v]
      BY <2>1, <3>1, AdvanceFacts
    <3> QED BY <1>4, <1>6, <1>9, <2>1, <3>2, <3>3
  <2>3. CASE Matching(id) # {}
    <3>1. wt' = [wt EXCEPT ![w] = [wt[w] EXCEPT !.client = get_client(id), !.pc = "decide"]]
      BY <1>1, <1>12, <2>3 DEF Lookup, WriterState
    <3>2. /\ wt'[w].task = wt[w].task /\ wt'[w].pc = "decide"
          /\ \A v \in Writers \ {w} : wt'[v] = wt[v]
      BY <1>1, <3>1 DEF WriterState
    <3>3. Holds(wt'[w], c, f) <=> Holds(wt[w], c, f)
      BY <2>1, <3>2 DEF Holds
    <3> QED BY <1>4, <1>6, <1>7, <2>1, <3>2, <3>3
  <2> QED BY <2>2, <2>3
<1>13. CASE WriterRace(w)
  <2>1. UNCHANGED <<wt, q, wire>>
    BY <1>13 DEF WriterRace
  <2> QED BY <1>4, <1>6, <2>1
<1>14. ASSUME Store(w), Advance(w), UNCHANGED wire, wt[w].pc \in {"decide", "write"},
              ~IsAnswer(wt[w].task.frame)
       PROVE  Balanced(c, f)
  <2>1. q'[w] = Append(q[w], wt[w].task) /\ \A r \in Producers \ {w} : q'[r] = q[r]
    BY <1>1, <1>14 DEF Store, Enqueue
  <2>2. q[w] \in Seq(Task) /\ wt[w].task \in Task /\ wt[w].task # Packed(c, f)
    BY <1>1, <1>8, <1>14
  <2>3. Count(q'[w], Packed(c, f)) = Count(q[w], Packed(c, f)) + 0
    BY <2>1, <2>2, CountAppend
  <2>4. Count(q[w], Packed(c, f)) \in Nat
    BY <2>2, PositionsFinite
  <2>5. InQueues(c, f)' + Count(q[w], Packed(c, f)) = InQueues(c, f) + Count(q'[w], Packed(c, f))
    BY <1>1, <2>1, QueuesStep
  <2>6. InQueues(c, f)' = InQueues(c, f)
    BY <1>5, <2>3, <2>4, <2>5
  <2>7. wt'[w].task = wt[w].task /\ \A v \in Writers \ {w} : wt'[v] = wt[v]
    BY <1>14, AdvanceFacts
  <2> QED BY <1>6, <1>9, <1>14, <2>6, <2>7
<1>15. CASE Decide(w)
  <2> DEFINE g == wt[w].task.frame
  <2>1. wt[w].pc = "decide" /\ UNCHANGED wire
    BY <1>15 DEF Decide, At
  <2>2. \/ g.type = "PUBLISH" /\ Store(w) /\ Advance(w)
        \/ UNCHANGED q /\ WriterGoto(w, "write")
    BY <1>15 DEF Decide
  <2>3. CASE g.type = "PUBLISH" /\ Store(w) /\ Advance(w)
    BY <1>14, <2>1, <2>3 DEF IsAnswer
  <2>4. CASE UNCHANGED q /\ WriterGoto(w, "write")
    <3>1. wt' = [wt EXCEPT ![w] = [wt[w] EXCEPT !.pc = "write"]]
      BY <1>1, <2>4 DEF WriterGoto, WriterState
    <3>2. /\ wt'[w].task = wt[w].task /\ wt'[w].pc = "write"
          /\ \A v \in Writers \ {w} : wt'[v] = wt[v]
      BY <1>1, <3>1 DEF WriterState
    <3>3. Holds(wt'[w], c, f) <=> Holds(wt[w], c, f)
      BY <2>1, <3>2 DEF Holds
    <3> QED BY <1>4, <1>6, <1>7, <2>1, <2>4, <3>2, <3>3
  <2> QED BY <2>2, <2>3, <2>4
<1>16. CASE SendRefused(w)
  <2>1. /\ wt[w].pc = "write" /\ Store(w) /\ Advance(w) /\ TooLong(wt[w].task.frame)
        /\ UNCHANGED wire
    BY <1>16 DEF SendRefused, At
  <2> QED BY <1>14, <2>1 DEF TooLong, IsAnswer
<1> QED BY <1>10, <1>11, <1>12, <1>13, <1>15, <1>16, AnswerSend DEF WriterStep

LEMMA AnswerDDS ==
  ASSUME TypeInv, TypeInv',
         ListenerStep \/ Match \/ PublishDDS \/ MainReturns \/ UNCHANGED vars
         \/ \E s \in Sessions : ReadError(s),
         NEW c \in Clients, NEW f \in Answers
  PROVE  Balanced(c, f)
<1> USE DEF sessionVars, queueVars, ioVars, ddsVars
<1>1. UNCHANGED <<io, sid, rcvd, wt, wire>>
  BY DEF vars, MainReturns, ListenerStep, TakeSample, TakeFails, ListenerFind,
         ListenerEnqueue, ListenerRace, ListenerEnd, CountSample, Match, PublishDDS, ReadError
<1>2. /\ AskedFor(c, f)' = AskedFor(c, f) /\ Written(c, f)' = Written(c, f)
      /\ InHandlers(c, f)' = InHandlers(c, f) /\ InWriters(c, f)' = InWriters(c, f)
      /\ UNCHANGED q => InQueues(c, f)' = InQueues(c, f)
  BY <1>1, CountsSame
<1>3. /\ AskedFor(c, f) \in Nat /\ Written(c, f) \in Nat /\ InHandlers(c, f) \in Nat
      /\ InQueues(c, f) \in Nat /\ InQueues(c, f)' \in Nat /\ InWriters(c, f) \in Nat
  BY CountsAreNat, CountsNext DEF CountsNat
<1>4. CASE ListenerEnqueue
  <2> DEFINE x == PublishTask(sid[Head(lst.targets)], Sample)
  <2>1. q' = Enqueue(q, Listener, x)
    BY <1>4 DEF ListenerEnqueue
  <2>2. x \in Task /\ x.frame.type = "PUBLISH"
    BY <1>4, ListenerTask
  <2> HIDE DEF x
  <2>3. q \in [Producers -> Seq(Task)] /\ Listener \in Producers
    BY DEF TypeInv, TypeOK, Producers
  <2>4. q'[Listener] = Append(q[Listener], x) /\ \A r \in Producers \ {Listener} : q'[r] = q[r]
    BY <2>1, <2>3 DEF Enqueue
  <2>5. x # Packed(c, f)
    BY <2>2, AnswerKinds DEF Packed
  <2>6. Count(q'[Listener], Packed(c, f)) = Count(q[Listener], Packed(c, f)) + 0
    BY <2>2, <2>3, <2>4, <2>5, CountAppend
  <2>7. Count(q[Listener], Packed(c, f)) \in Nat
    BY <2>3, PositionsFinite
  <2>8. InQueues(c, f)' + Count(q[Listener], Packed(c, f))
          = InQueues(c, f) + Count(q'[Listener], Packed(c, f))
    BY <2>3, <2>4, QueuesStep
  <2>9. InQueues(c, f)' = InQueues(c, f)
    BY <1>3, <2>6, <2>7, <2>8
  <2> QED BY <1>2, <1>3, <2>9 DEF Balanced, Got
<1>5. CASE ~ListenerEnqueue
  <2>1. UNCHANGED q
    BY <1>5 DEF vars, MainReturns, ListenerStep, TakeSample, TakeFails, ListenerFind,
                ListenerRace, ListenerEnd, CountSample, Match, PublishDDS, ReadError
  <2> QED BY <1>2, <1>3, <2>1 DEF Balanced, Got
<1> QED BY <1>4, <1>5

LEMMA AnswerInit ==
  ASSUME Init, NEW c \in Clients, NEW f
  PROVE  Settled(c, f)
<1>1. \A s \in Sessions : rcvd[s] = <<>> /\ wire[s] = <<>> /\ sid[s] = NoClient
  BY DEF Init
<1>2. \A t \in IoThreads : io[t].todo = <<>>
  BY DEF Init
<1>3. \A p \in Producers : q[p] = <<>>
  BY DEF Init
<1>4. \A w \in Writers : wt[w].pc = "idle"
  BY DEF Init
<1>5. \A x : Positions(<<>>, x) = {}
  BY CountEmpty
<1> DEFINE asks == [s \in Sessions |-> {i \in 1..Len(rcvd[s]) : sid[s] = c /\ Answer(rcvd[s][i]) = f}]
           wrote == [s \in Sessions |-> {i \in Positions(wire[s], f) : sid[s] = c}]
           handled == [t \in IoThreads |->
                         {i \in Positions(io[t].todo, ToClient(f.type, f.arg)) : sid[io[t].s] = c}]
           queued == [p \in Producers |-> Positions(q[p], [to |-> c, frame |-> f])]
<1>6. AskedFor(c, f) = 0
  <2>1. \A s \in Sessions : asks[s] = {}
    BY <1>1, KindsAssumption
  <2>2. Total(asks) = 0
    BY <2>1, TotalEmpty
  <2> QED BY <2>2 DEF AskedFor
<1>7. Written(c, f) = 0
  <2>1. \A s \in Sessions : wrote[s] = {}
    BY <1>1, <1>5
  <2>2. Total(wrote) = 0
    BY <2>1, TotalEmpty
  <2> QED BY <2>2 DEF Written
<1>8. InHandlers(c, f) = 0
  <2>1. \A t \in IoThreads : handled[t] = {}
    BY <1>2, <1>5
  <2>2. Total(handled) = 0
    BY <2>1, TotalEmpty
  <2> QED BY <2>2 DEF InHandlers
<1>9. InQueues(c, f) = 0
  <2>1. \A p \in Producers : queued[p] = {}
    BY <1>3, <1>5
  <2>2. Total(queued) = 0
    BY <2>1, TotalEmpty
  <2> QED BY <2>2 DEF InQueues
<1>10. InWriters(c, f) = 0
  <2>1. {w \in Writers : wt[w].pc # "idle" /\ wt[w].task = [to |-> c, frame |-> f]} = {}
    BY <1>4
  <2> QED BY <2>1, FS_EmptySet DEF InWriters
<1> QED BY <1>6, <1>7, <1>8, <1>9, <1>10 DEF Settled, Got

AnswerInv ==
  /\ TypeInv /\ ServeInv /\ AliveInv /\ IdInv /\ AddressInv
  /\ \A c \in Clients : \A f \in Answers : Settled(c, f)

(* Whatever the queues reorder, however many writers and io threads share   *)
(* them, and whichever connections break: every packet that message_process *)
(* handled has exactly one answer, on the wire of a session of its client   *)
(* or on its way there; an answer is lost only where a connection of the    *)
(* client broke or a deferred write sent something else                     *)
(* (MQTTSession.cpp:68, 174-183, 222-224, 380-415, 539-540;                 *)
(* BrokerMQTTPublisher.h:42-127).  Peers send CONNECT first, and once: an   *)
(* answer before it would be for the empty id.                              *)
THEOREM AnsweredExactlyOnce == ASSUME ConnectFirst PROVE Spec => []AnsweredOnce
<1>1. Init => AnswerInv
  <2> SUFFICES ASSUME Init PROVE AnswerInv
    OBVIOUS
  <2>1. \A c \in Clients : \A f \in Answers : Settled(c, f)
    BY AnswerInit
  <2> QED BY <2>1, TypeInvInit, ServeInit, AliveInit, IdInit, AddressInit DEF AnswerInv
<1>2. AnswerInv /\ [Next]_vars => AnswerInv'
  <2> SUFFICES ASSUME AnswerInv, [Next]_vars PROVE AnswerInv'
    OBVIOUS
  <2>1. /\ TypeInv /\ ServeInv /\ AliveInv /\ IdInv /\ AddressInv
        /\ \A c \in Clients : \A f \in Answers : Settled(c, f)
    BY DEF AnswerInv
  <2>2. TypeInv'
    BY <2>1, TypeInvInductive
  <2>3. ServeInv' /\ AliveInv'
    BY <2>1, ServeNext, AliveNext
  <2>4. IdInv' /\ IdsKept
    BY <2>1, IdNext
  <2>5. AddressInv'
    BY <2>1, <2>2, <2>4, AddressNext
  <2>6. ASSUME NEW c \in Clients, NEW f \in Answers PROVE Settled(c, f)'
    <3>1. Balanced(c, f) \/ Loses(c, f)
      BY <2>1, <2>2, AnswerIo, AnswerWriter, AnswerDDS DEF Next
    <3>2. Settled(c, f)
      BY <2>1
    <3> QED BY <2>1, <2>2, <2>4, <3>1, <3>2, SettledStep
  <2>7. Answers' = Answers
    BY DEF Answers, Frame
  <2> QED BY <2>2, <2>3, <2>4, <2>5, <2>6, <2>7 DEF AnswerInv
<1>3. AnswerInv => AnsweredOnce
  BY DEF AnswerInv, AnsweredOnce, Settled, Got, Lossy
<1> QED BY <1>1, <1>2, <1>3, PTL DEF Spec

=============================================================================
