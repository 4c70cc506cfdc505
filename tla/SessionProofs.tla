---------------------------- MODULE SessionProofs -----------------------------
(* Proofs about the sessions of the broker: one handler serves a session at *)
(* a time, a session gets its client id once, and who receives a PUBLISH    *)
(* has subscribed.  For any numbers of sessions, threads and packets.       *)
EXTENDS BrokerProofs, SequenceTheorems, FiniteSetTheorems

-----------------------------------------------------------------------------
(* The operations of a handler *)

(* set_id comes first, and read() last but for the next async_accept.       *)
Shape(todo) ==
  \A i \in 1..Len(todo) :
    /\ todo[i].op = "setid" => i = 1
    /\ todo[i].op = "read" => \A j \in 1..Len(todo) : j > i => todo[j].op = "accept"
    /\ todo[i].op = "accept" => i = Len(todo)

NoSetId(todo) == \A i \in 1..Len(todo) : todo[i].op # "setid"

LEMMA ShapeTail ==
  ASSUME NEW S, NEW todo \in Seq(S), todo # <<>>, Shape(todo)
  PROVE  /\ Shape(Tail(todo)) /\ NoSetId(Tail(todo))
         /\ Head(todo).op = "read" /\ Tail(todo) # <<>> => Head(Tail(todo)).op = "accept"
         /\ Head(todo).op = "accept" => Tail(todo) = <<>>
<1> DEFINE rest == Tail(todo)
<1>1. /\ Len(todo) \in Nat /\ Len(todo) >= 1 /\ Len(rest) = Len(todo) - 1
      /\ rest \in Seq(S) /\ Head(todo) = todo[1]
      /\ \A i \in 1..Len(rest) : rest[i] = todo[i + 1]
      /\ rest # <<>> => Head(rest) = rest[1] /\ 1 \in 1..Len(rest)
      /\ Len(rest) = 0 => rest = <<>>
  OBVIOUS
<1> HIDE DEF rest
<1>2. \A i \in 1..Len(rest) : i + 1 \in 1..Len(todo) /\ i + 1 # 1 /\ i \in Nat
  BY <1>1
<1>3. NoSetId(rest)
  BY <1>1, <1>2 DEF Shape, NoSetId
<1>4. Shape(rest)
  <2> SUFFICES ASSUME NEW i \in 1..Len(rest)
               PROVE  /\ rest[i].op = "read" => \A j \in 1..Len(rest) : j > i => rest[j].op = "accept"
                      /\ rest[i].op = "accept" => i = Len(rest)
    BY <1>3 DEF Shape, NoSetId
  <2>1. ASSUME rest[i].op = "accept" PROVE i = Len(rest)
    <3>1. i + 1 \in 1..Len(todo) /\ todo[i + 1].op = "accept"
      BY <1>1, <1>2, <2>1
    <3>2. i + 1 = Len(todo)
      BY <3>1 DEF Shape
    <3> QED BY <1>1, <3>2
  <2>2. ASSUME rest[i].op = "read", NEW j \in 1..Len(rest), j > i PROVE rest[j].op = "accept"
    <3>1. todo[i + 1].op = "read" /\ i + 1 \in 1..Len(todo) /\ j + 1 \in 1..Len(todo) /\ j + 1 > i + 1
      BY <1>1, <1>2, <2>2
    <3>2. todo[j + 1].op = "accept"
      BY <3>1 DEF Shape
    <3> QED BY <1>1, <3>2
  <2> QED BY <2>1, <2>2
<1>5. ASSUME Head(todo).op = "read", rest # <<>> PROVE Head(rest).op = "accept"
  <2>1. 1 \in 1..Len(todo) /\ 2 \in 1..Len(todo) /\ todo[1].op = "read" /\ Head(rest) = todo[2] /\ 2 > 1
    BY <1>1, <1>2, <1>5
  <2>2. todo[2].op = "accept"
    BY <2>1 DEF Shape
  <2> QED BY <2>1, <2>2
<1>6. ASSUME Head(todo).op = "accept" PROVE rest = <<>>
  <2>1. 1 \in 1..Len(todo) /\ todo[1].op = "accept"
    BY <1>1, <1>6
  <2>2. 1 = Len(todo)
    BY <2>1 DEF Shape
  <2> QED BY <1>1, <2>2
<1> QED BY <1>3, <1>4, <1>5, <1>6 DEF rest

(* Tuples, concatenated. *)
LEMMA Tuple11 ==
  ASSUME NEW S, NEW a \in S, NEW b \in S
  PROVE  <<a>> \o <<b>> = <<a, b>>
<1> DEFINE s == <<a>> \o <<b>>
           t == <<a, b>>
<1>1. /\ s \in Seq(S) /\ t \in Seq(S) /\ Len(s) = 2 /\ Len(t) = 2
      /\ s[1] = a /\ s[2] = b
      /\ t[1] = a /\ t[2] = b
  OBVIOUS
<1> HIDE DEF s, t
<1>2. \A i \in 1..2 : s[i] = t[i]
  BY <1>1
<1>3. s = t
  BY <1>1, <1>2, SeqEqual
<1> QED BY <1>3 DEF s, t

LEMMA Tuple21 ==
  ASSUME NEW S, NEW a \in S, NEW b \in S, NEW c \in S
  PROVE  <<a, b>> \o <<c>> = <<a, b, c>>
<1> DEFINE s == <<a, b>> \o <<c>>
           t == <<a, b, c>>
<1>1. /\ s \in Seq(S) /\ t \in Seq(S) /\ Len(s) = 3 /\ Len(t) = 3
      /\ s[1] = a /\ s[2] = b /\ s[3] = c
      /\ t[1] = a /\ t[2] = b /\ t[3] = c
  OBVIOUS
<1> HIDE DEF s, t
<1>2. \A i \in 1..3 : s[i] = t[i]
  BY <1>1
<1>3. s = t
  BY <1>1, <1>2, SeqEqual
<1> QED BY <1>3 DEF s, t

LEMMA Tuple12 ==
  ASSUME NEW S, NEW a \in S, NEW b \in S, NEW c \in S
  PROVE  <<a>> \o <<b, c>> = <<a, b, c>>
<1> DEFINE s == <<a>> \o <<b, c>>
           t == <<a, b, c>>
<1>1. /\ s \in Seq(S) /\ t \in Seq(S) /\ Len(s) = 3 /\ Len(t) = 3
      /\ s[1] = a /\ s[2] = b /\ s[3] = c
      /\ t[1] = a /\ t[2] = b /\ t[3] = c
  OBVIOUS
<1> HIDE DEF s, t
<1>2. \A i \in 1..3 : s[i] = t[i]
  BY <1>1
<1>3. s = t
  BY <1>1, <1>2, SeqEqual
<1> QED BY <1>3 DEF s, t

LEMMA Tuple31 ==
  ASSUME NEW S, NEW a \in S, NEW b \in S, NEW c \in S, NEW d \in S
  PROVE  <<a, b, c>> \o <<d>> = <<a, b, c, d>>
<1> DEFINE s == <<a, b, c>> \o <<d>>
           t == <<a, b, c, d>>
<1>1. /\ s \in Seq(S) /\ t \in Seq(S) /\ Len(s) = 4 /\ Len(t) = 4
      /\ s[1] = a /\ s[2] = b /\ s[3] = c /\ s[4] = d
      /\ t[1] = a /\ t[2] = b /\ t[3] = c /\ t[4] = d
  OBVIOUS
<1> HIDE DEF s, t
<1>2. \A i \in 1..4 : s[i] = t[i]
  BY <1>1
<1>3. s = t
  BY <1>1, <1>2, SeqEqual
<1> QED BY <1>3 DEF s, t

(* The handler that a packet causes. *)
Handles(todo, p) ==
  /\ todo \in Seq(Ops) /\ todo # <<>> /\ Shape(todo)
  /\ Head(todo).op # "accept"
  /\ IF p.type = "CONNECT" THEN Head(todo) = SetId(p.client) ELSE NoSetId(todo)
  /\ \A i \in 1..Len(todo) :
       todo[i].op = "ack" /\ todo[i].type = "SUBACK" => p.type = "SUBSCRIBE"

LEMMA HandlesElements ==
  ASSUME NEW p, NEW todo \in Seq(Ops), Len(todo) >= 1, todo[Len(todo)].op = "read",
         \A i \in 1..Len(todo) :
           /\ i # Len(todo) => todo[i].op \notin {"read", "accept"}
           /\ todo[i].op = "setid" => i = 1
           /\ todo[i].op = "ack" /\ todo[i].type = "SUBACK" => p.type = "SUBSCRIBE",
         IF p.type = "CONNECT" THEN todo[1] = SetId(p.client) ELSE todo[1].op # "setid"
  PROVE  Handles(todo, p)
<1> DEFINE n == Len(todo)
<1>0. n \in Nat
  OBVIOUS
<1>1. todo # <<>> /\ Head(todo) = todo[1]
  OBVIOUS
<1> HIDE DEF n
<1>2. Shape(todo)
  <2> SUFFICES ASSUME NEW i \in 1..n
               PROVE  /\ todo[i].op = "read" => \A j \in 1..n : j > i => todo[j].op = "accept"
                      /\ todo[i].op = "accept" => i = n
    BY DEF Shape, n
  <2>1. CASE i = n
    BY <1>0, <2>1 DEF n
  <2>2. CASE i # n
    BY <1>0, <2>2 DEF n
  <2> QED BY <2>1, <2>2
<1>3. todo[1].op # "accept"
  <2>1. CASE n = 1
    BY <1>0, <2>1 DEF n
  <2>2. CASE n # 1
    <3>1. 1 \in 1..n
      BY <1>0 DEF n
    <3> QED BY <2>2, <3>1 DEF n
  <2> QED BY <2>1, <2>2
<1>4. p.type # "CONNECT" => NoSetId(todo)
  BY DEF NoSetId, n
<1> QED BY <1>1, <1>2, <1>3, <1>4 DEF Handles

(* The operations of message_process and the read() after them. *)
LEMMA PacketTodo ==
  ASSUME NEW p \in Packet, NEW m \in Contents
  PROVE  LET todo == message_process(p, m) \o <<Op("read")>> IN
         /\ p.type = "CONNECT" =>
              todo = <<SetId(p.client), ToClient("CONNACK", 0), Op("read")>>
         /\ p.type = "SUBSCRIBE" =>
              todo = <<Subscribe(p.topic), ToClient("SUBACK", 0), Op("read")>>
         /\ p.type = "PUBREC" => todo = <<ToClient("PUBREL", p.id), Op("read")>>
         /\ p.type = "PUBREL" =>
              todo = <<ToClient("PUBCOMP", p.id), ToDDS(m), ToAll(m), Op("read")>>
         /\ p.type = "PUBLISH" /\ p.qos = 0 => todo = <<ToAll(p.msg), ToDDS(p.msg), Op("read")>>
         /\ p.type = "PUBLISH" /\ p.qos = 1 =>
              todo = <<ToClient("PUBACK", p.id), ToAll(p.msg), ToDDS(p.msg), Op("read")>>
         /\ p.type = "PUBLISH" /\ p.qos = 2 => todo = <<ToClient("PUBREC", p.id), Op("read")>>
         /\ p.type \notin {"CONNECT", "SUBSCRIBE", "PUBREC", "PUBREL", "PUBLISH"} =>
              todo = <<Op("read")>>
<1>1. Op("read") \in Ops /\ \A x \in Contents : ToAll(x) \in Ops /\ ToDDS(x) \in Ops
  BY DEF Op, ToAll, ToDDS, Ops
<1>2. /\ \A type \in {"PUBACK", "PUBREC", "PUBREL", "PUBCOMP"}, i \in PacketIds :
           ToClient(type, i) \in Ops
      /\ ToClient("CONNACK", 0) \in Ops /\ ToClient("SUBACK", 0) \in Ops
      /\ \A c \in Clients : SetId(c) \in Ops
      /\ \A n \in Topics : Subscribe(n) \in Ops
  BY DEF ToClient, SetId, Subscribe, Ops
<1> DEFINE todo == message_process(p, m) \o <<Op("read")>>
<1>3. ASSUME p.type = "CONNECT"
      PROVE  todo = <<SetId(p.client), ToClient("CONNACK", 0), Op("read")>>
  <2>1. SetId(p.client) \in Ops
    BY <1>2, <1>3, PacketKinds
  <2>2. message_process(p, m) = <<SetId(p.client), ToClient("CONNACK", 0)>>
    BY <1>3 DEF message_process, ConnectOps
  <2> QED BY <1>1, <1>2, <2>1, <2>2, Tuple21
<1>4. ASSUME p.type = "SUBSCRIBE"
      PROVE  todo = <<Subscribe(p.topic), ToClient("SUBACK", 0), Op("read")>>
  <2>1. Subscribe(p.topic) \in Ops
    BY <1>2, <1>4, PacketKinds
  <2>2. message_process(p, m) = <<Subscribe(p.topic), ToClient("SUBACK", 0)>>
    BY <1>4 DEF message_process, SubscribeOps
  <2> QED BY <1>1, <1>2, <2>1, <2>2, Tuple21
<1>5. ASSUME p.type = "PUBREC" PROVE todo = <<ToClient("PUBREL", p.id), Op("read")>>
  <2>1. ToClient("PUBREL", p.id) \in Ops
    BY <1>2, <1>5, PacketKinds
  <2>2. message_process(p, m) = <<ToClient("PUBREL", p.id)>>
    BY <1>5 DEF message_process, PubrecOps
  <2> QED BY <1>1, <2>1, <2>2, Tuple11
<1>6. ASSUME p.type = "PUBREL"
      PROVE  todo = <<ToClient("PUBCOMP", p.id), ToDDS(m), ToAll(m), Op("read")>>
  <2>1. ToClient("PUBCOMP", p.id) \in Ops
    BY <1>2, <1>6, PacketKinds
  <2>2. message_process(p, m) = <<ToClient("PUBCOMP", p.id), ToDDS(m), ToAll(m)>>
    BY <1>6 DEF message_process, PubrelOps
  <2> QED BY <1>1, <2>1, <2>2, Tuple31
<1>7. ASSUME p.type = "PUBLISH"
      PROVE  /\ p.qos = 0 => todo = <<ToAll(p.msg), ToDDS(p.msg), Op("read")>>
             /\ p.qos = 1 =>
                  todo = <<ToClient("PUBACK", p.id), ToAll(p.msg), ToDDS(p.msg), Op("read")>>
             /\ p.qos = 2 => todo = <<ToClient("PUBREC", p.id), Op("read")>>
  <2> DEFINE ack1 == ToClient("PUBACK", p.id)
             ack2 == ToClient("PUBREC", p.id)
             all == ToAll(p.msg)
             dds == ToDDS(p.msg)
  <2>1. ack1 \in Ops /\ ack2 \in Ops /\ all \in Ops /\ dds \in Ops
    BY <1>1, <1>2, <1>7, PacketKinds DEF Contents
  <2>2. message_process(p, m) = PublishOps(p)
    BY <1>7 DEF message_process
  <2>3. /\ p.qos = 1 => PublishOps(p) = <<ack1>> \o <<all, dds>>
        /\ p.qos = 2 => PublishOps(p) = <<ack2>> \o <<>>
        /\ p.qos = 0 => PublishOps(p) = <<>> \o <<all, dds>>
    <3>1. p.qos = 1 => PublishOps(p) = <<ack1>> \o <<all, dds>>
      BY DEF PublishOps
    <3>2. p.qos = 2 => PublishOps(p) = <<ack2>> \o <<>>
      BY DEF PublishOps
    <3>3. p.qos = 0 => PublishOps(p) = <<>> \o <<all, dds>>
      BY DEF PublishOps
    <3> QED BY <3>1, <3>2, <3>3
  <2> HIDE DEF ack1, ack2, all, dds
  <2>4. p.qos = 1 => todo = <<ack1, all, dds, Op("read")>>
    <3>1. <<ack1>> \o <<all, dds>> = <<ack1, all, dds>>
      BY <2>1, Tuple12
    <3>2. <<ack1, all, dds>> \o <<Op("read")>> = <<ack1, all, dds, Op("read")>>
      BY <1>1, <2>1, Tuple31
    <3> QED BY <2>2, <2>3, <3>1, <3>2, Zenon
  <2>5. p.qos = 2 => todo = <<ack2, Op("read")>>
    <3>1. <<ack2>> \in Seq(Ops)
      BY <2>1
    <3>2. <<ack2>> \o <<>> = <<ack2>>
      BY <3>1, ConcatEmptySeq
    <3>3. <<ack2>> \o <<Op("read")>> = <<ack2, Op("read")>>
      BY <1>1, <2>1, Tuple11
    <3> QED BY <2>2, <2>3, <3>2, <3>3, Zenon
  <2>6. p.qos = 0 => todo = <<all, dds, Op("read")>>
    <3>1. <<all, dds>> \in Seq(Ops)
      BY <2>1
    <3>2. <<>> \o <<all, dds>> = <<all, dds>>
      BY <3>1, ConcatEmptySeq
    <3>3. <<all, dds>> \o <<Op("read")>> = <<all, dds, Op("read")>>
      BY <1>1, <2>1, Tuple21
    <3> QED BY <2>2, <2>3, <3>2, <3>3, Zenon
  <2> QED BY <2>4, <2>5, <2>6 DEF ack1, ack2, all, dds
<1>8. ASSUME p.type \notin {"CONNECT", "SUBSCRIBE", "PUBREC", "PUBREL", "PUBLISH"}
      PROVE  todo = <<Op("read")>>
  <2>1. message_process(p, m) = <<>>
    BY <1>8 DEF message_process, PubackOps, PubcompOps
  <2>2. <<Op("read")>> \in Seq(Ops)
    BY <1>1
  <2> QED BY <2>1, <2>2, ConcatEmptySeq
<1> HIDE DEF todo
<1>9. /\ p.type = "CONNECT" =>
           todo = <<SetId(p.client), ToClient("CONNACK", 0), Op("read")>>
      /\ p.type = "SUBSCRIBE" =>
           todo = <<Subscribe(p.topic), ToClient("SUBACK", 0), Op("read")>>
      /\ p.type = "PUBREC" => todo = <<ToClient("PUBREL", p.id), Op("read")>>
      /\ p.type = "PUBREL" =>
           todo = <<ToClient("PUBCOMP", p.id), ToDDS(m), ToAll(m), Op("read")>>
      /\ p.type = "PUBLISH" /\ p.qos = 0 => todo = <<ToAll(p.msg), ToDDS(p.msg), Op("read")>>
      /\ p.type = "PUBLISH" /\ p.qos = 1 =>
           todo = <<ToClient("PUBACK", p.id), ToAll(p.msg), ToDDS(p.msg), Op("read")>>
      /\ p.type = "PUBLISH" /\ p.qos = 2 => todo = <<ToClient("PUBREC", p.id), Op("read")>>
      /\ p.type \notin {"CONNECT", "SUBSCRIBE", "PUBREC", "PUBREL", "PUBLISH"} =>
           todo = <<Op("read")>>
  BY <1>3, <1>4, <1>5, <1>6, <1>7, <1>8, Zenon
<1> QED BY <1>9, Zenon DEF todo

LEMMA PacketOps ==
  ASSUME NEW p \in Packet, NEW m \in Contents
  PROVE  Handles(message_process(p, m) \o <<Op("read")>>, p)
<1> DEFINE todo == message_process(p, m) \o <<Op("read")>>
<1>1. todo \in Seq(Ops)
  BY MessageProcessType
<1>2. Op("read").op = "read" /\ \A x : ToAll(x).op = "publish" /\ ToDDS(x).op = "dds"
  BY DEF Op, ToAll, ToDDS
<1>3. \A type, x : ToClient(type, x).op = "ack" /\ ToClient(type, x).type = type
  BY DEF ToClient
<1>4. \A x : SetId(x).op = "setid" /\ Subscribe(x).op = "subscribe"
  BY DEF SetId, Subscribe
<1> SUFFICES Handles(todo, p)
  OBVIOUS
<1>5. CASE p.type = "CONNECT"
  <2>1. todo = <<SetId(p.client), ToClient("CONNACK", 0), Op("read")>>
    BY <1>5, PacketTodo
  <2> HIDE DEF todo
  <2>2. Len(todo) = 3
    BY <2>1
  <2>3. todo[1].op = "setid" /\ todo[1] = SetId(p.client)
    BY <1>2, <1>3, <1>4, <2>1
  <2>4. todo[2].op = "ack" /\ todo[2].type = "CONNACK"
    BY <1>2, <1>3, <1>4, <2>1
  <2>5. todo[3].op = "read"
    BY <1>2, <1>3, <1>4, <2>1
  <2>6. \A i \in 1..3 : i = 1 \/ i = 2 \/ i = 3
    OBVIOUS
  <2>7. \A i \in 1..Len(todo) :
          /\ i # Len(todo) => todo[i].op \notin {"read", "accept"}
          /\ todo[i].op = "setid" => i = 1
          /\ todo[i].op = "ack" /\ todo[i].type = "SUBACK" => p.type = "SUBSCRIBE"
    BY <2>2, <1>5, <2>3, <2>4, <2>5, <2>6
  <2>8. Len(todo) >= 1 /\ todo[Len(todo)].op = "read"
    BY <2>2, <2>5
  <2> QED BY <1>1, <1>5, <2>3, <2>7, <2>8, HandlesElements
<1>6. CASE p.type = "SUBSCRIBE"
  <2>1. todo = <<Subscribe(p.topic), ToClient("SUBACK", 0), Op("read")>>
    BY <1>6, PacketTodo
  <2> HIDE DEF todo
  <2>2. Len(todo) = 3
    BY <2>1
  <2>3. todo[1].op = "subscribe"
    BY <1>2, <1>3, <1>4, <2>1
  <2>4. todo[2].op = "ack" /\ todo[2].type = "SUBACK"
    BY <1>2, <1>3, <1>4, <2>1
  <2>5. todo[3].op = "read"
    BY <1>2, <1>3, <1>4, <2>1
  <2>6. \A i \in 1..3 : i = 1 \/ i = 2 \/ i = 3
    OBVIOUS
  <2>7. \A i \in 1..Len(todo) :
          /\ i # Len(todo) => todo[i].op \notin {"read", "accept"}
          /\ todo[i].op = "setid" => i = 1
          /\ todo[i].op = "ack" /\ todo[i].type = "SUBACK" => p.type = "SUBSCRIBE"
    BY <2>2, <1>6, <2>3, <2>4, <2>5, <2>6
  <2>8. Len(todo) >= 1 /\ todo[Len(todo)].op = "read"
    BY <2>2, <2>5
  <2> QED BY <1>1, <1>6, <2>3, <2>7, <2>8, HandlesElements
<1>7. CASE p.type = "PUBREC"
  <2>1. todo = <<ToClient("PUBREL", p.id), Op("read")>>
    BY <1>7, PacketTodo
  <2> HIDE DEF todo
  <2>2. Len(todo) = 2
    BY <2>1
  <2>3. todo[1].op = "ack" /\ todo[1].type = "PUBREL"
    BY <1>2, <1>3, <1>4, <2>1
  <2>4. todo[2].op = "read"
    BY <1>2, <1>3, <1>4, <2>1
  <2>5. \A i \in 1..2 : i = 1 \/ i = 2
    OBVIOUS
  <2>6. \A i \in 1..Len(todo) :
          /\ i # Len(todo) => todo[i].op \notin {"read", "accept"}
          /\ todo[i].op = "setid" => i = 1
          /\ todo[i].op = "ack" /\ todo[i].type = "SUBACK" => p.type = "SUBSCRIBE"
    BY <2>2, <1>7, <2>3, <2>4, <2>5
  <2>7. Len(todo) >= 1 /\ todo[Len(todo)].op = "read"
    BY <2>2, <2>4
  <2> QED BY <1>1, <1>7, <2>3, <2>6, <2>7, HandlesElements
<1>8. CASE p.type = "PUBREL"
  <2>1. todo = <<ToClient("PUBCOMP", p.id), ToDDS(m), ToAll(m), Op("read")>>
    BY <1>8, PacketTodo
  <2> HIDE DEF todo
  <2>2. Len(todo) = 4
    BY <2>1
  <2>3. todo[1].op = "ack" /\ todo[1].type = "PUBCOMP"
    BY <1>2, <1>3, <1>4, <2>1
  <2>4. todo[2].op = "dds"
    BY <1>2, <1>3, <1>4, <2>1
  <2>5. todo[3].op = "publish"
    BY <1>2, <1>3, <1>4, <2>1
  <2>6. todo[4].op = "read"
    BY <1>2, <1>3, <1>4, <2>1
  <2>7. \A i \in 1..4 : i = 1 \/ i = 2 \/ i = 3 \/ i = 4
    OBVIOUS
  <2>8. \A i \in 1..Len(todo) :
          /\ i # Len(todo) => todo[i].op \notin {"read", "accept"}
          /\ todo[i].op = "setid" => i = 1
          /\ todo[i].op = "ack" /\ todo[i].type = "SUBACK" => p.type = "SUBSCRIBE"
    BY <2>2, <1>8, <2>3, <2>4, <2>5, <2>6, <2>7
  <2>9. Len(todo) >= 1 /\ todo[Len(todo)].op = "read"
    BY <2>2, <2>6
  <2> QED BY <1>1, <1>8, <2>3, <2>8, <2>9, HandlesElements
<1>9. CASE p.type = "PUBLISH" /\ p.qos = 0
  <2>1. todo = <<ToAll(p.msg), ToDDS(p.msg), Op("read")>>
    BY <1>9, PacketTodo
  <2> HIDE DEF todo
  <2>2. Len(todo) = 3
    BY <2>1
  <2>3. todo[1].op = "publish"
    BY <1>2, <1>3, <1>4, <2>1
  <2>4. todo[2].op = "dds"
    BY <1>2, <1>3, <1>4, <2>1
  <2>5. todo[3].op = "read"
    BY <1>2, <1>3, <1>4, <2>1
  <2>6. \A i \in 1..3 : i = 1 \/ i = 2 \/ i = 3
    OBVIOUS
  <2>7. \A i \in 1..Len(todo) :
          /\ i # Len(todo) => todo[i].op \notin {"read", "accept"}
          /\ todo[i].op = "setid" => i = 1
          /\ todo[i].op = "ack" /\ todo[i].type = "SUBACK" => p.type = "SUBSCRIBE"
    BY <2>2, <1>9, <2>3, <2>4, <2>5, <2>6
  <2>8. Len(todo) >= 1 /\ todo[Len(todo)].op = "read"
    BY <2>2, <2>5
  <2> QED BY <1>1, <1>9, <2>3, <2>7, <2>8, HandlesElements
<1>10. CASE p.type = "PUBLISH" /\ p.qos = 1
  <2>1. todo = <<ToClient("PUBACK", p.id), ToAll(p.msg), ToDDS(p.msg), Op("read")>>
    BY <1>10, PacketTodo
  <2> HIDE DEF todo
  <2>2. Len(todo) = 4
    BY <2>1
  <2>3. todo[1].op = "ack" /\ todo[1].type = "PUBACK"
    BY <1>2, <1>3, <1>4, <2>1
  <2>4. todo[2].op = "publish"
    BY <1>2, <1>3, <1>4, <2>1
  <2>5. todo[3].op = "dds"
    BY <1>2, <1>3, <1>4, <2>1
  <2>6. todo[4].op = "read"
    BY <1>2, <1>3, <1>4, <2>1
  <2>7. \A i \in 1..4 : i = 1 \/ i = 2 \/ i = 3 \/ i = 4
    OBVIOUS
  <2>8. \A i \in 1..Len(todo) :
          /\ i # Len(todo) => todo[i].op \notin {"read", "accept"}
          /\ todo[i].op = "setid" => i = 1
          /\ todo[i].op = "ack" /\ todo[i].type = "SUBACK" => p.type = "SUBSCRIBE"
    BY <2>2, <1>10, <2>3, <2>4, <2>5, <2>6, <2>7
  <2>9. Len(todo) >= 1 /\ todo[Len(todo)].op = "read"
    BY <2>2, <2>6
  <2> QED BY <1>1, <1>10, <2>3, <2>8, <2>9, HandlesElements
<1>11. CASE p.type = "PUBLISH" /\ p.qos = 2
  <2>1. todo = <<ToClient("PUBREC", p.id), Op("read")>>
    BY <1>11, PacketTodo
  <2> HIDE DEF todo
  <2>2. Len(todo) = 2
    BY <2>1
  <2>3. todo[1].op = "ack" /\ todo[1].type = "PUBREC"
    BY <1>2, <1>3, <1>4, <2>1
  <2>4. todo[2].op = "read"
    BY <1>2, <1>3, <1>4, <2>1
  <2>5. \A i \in 1..2 : i = 1 \/ i = 2
    OBVIOUS
  <2>6. \A i \in 1..Len(todo) :
          /\ i # Len(todo) => todo[i].op \notin {"read", "accept"}
          /\ todo[i].op = "setid" => i = 1
          /\ todo[i].op = "ack" /\ todo[i].type = "SUBACK" => p.type = "SUBSCRIBE"
    BY <2>2, <1>11, <2>3, <2>4, <2>5
  <2>7. Len(todo) >= 1 /\ todo[Len(todo)].op = "read"
    BY <2>2, <2>4
  <2> QED BY <1>1, <1>11, <2>3, <2>6, <2>7, HandlesElements
<1>12. CASE p.type \notin {"CONNECT", "SUBSCRIBE", "PUBREC", "PUBREL", "PUBLISH"}
  <2>1. todo = <<Op("read")>>
    BY <1>12, PacketTodo
  <2> HIDE DEF todo
  <2>2. Len(todo) = 1
    BY <2>1
  <2>3. todo[1].op = "read"
    BY <1>2, <1>3, <1>4, <2>1
  <2>4. \A i \in 1..1 : i = 1
    OBVIOUS
  <2>5. \A i \in 1..Len(todo) :
          /\ i # Len(todo) => todo[i].op \notin {"read", "accept"}
          /\ todo[i].op = "setid" => i = 1
          /\ todo[i].op = "ack" /\ todo[i].type = "SUBACK" => p.type = "SUBSCRIBE"
    BY <2>2, <1>12, <2>3, <2>4
  <2>6. Len(todo) >= 1 /\ todo[Len(todo)].op = "read"
    BY <2>2, <2>3
  <2> QED BY <1>1, <1>12, <2>3, <2>5, <2>6, HandlesElements
<1>13. p.type = "PUBLISH" => p.qos \in 0..2
  BY PacketKinds
<1> QED BY <1>5, <1>6, <1>7, <1>8, <1>9, <1>10, <1>11, <1>12, <1>13

-----------------------------------------------------------------------------
(* One handler at a time *)

(* The packet that the next receive of session s handles, and the message   *)
(* that message_process finds for it in MQTT_publish_map.                   *)
Arriving(s) == Script[s][next[s]]
Found(s) == IF Arriving(s).type = "PUBREL" THEN publish_map[s][Arriving(s).id] ELSE NoMsg
Content(s) == IF Found(s) = NoMsg THEN Garbage ELSE Found(s)
Handling(s) == message_process(Arriving(s), Content(s)) \o <<Op("read")>>

LEMMA ReceiveFacts ==
  ASSUME TypeInv, NEW t \in IoThreads, NEW s \in Sessions, Receive(t, s)
  PROVE  /\ Arriving(s) \in Packet /\ Content(s) \in Contents
         /\ Handles(Handling(s), Arriving(s))
         /\ next[s] \in 1..Len(Script[s]) /\ next' \in [Sessions -> Nat \ {0}]
         /\ next'[s] > next[s] /\ \A u \in Sessions \ {s} : next'[u] = next[u]
         /\ io[t].todo = <<>> /\ io' = [io EXCEPT ![t] = [s |-> s, todo |-> Handling(s)]]
         /\ stage[s] = "reading" /\ stage' = [stage EXCEPT ![s] = "busy"]
         /\ rcvd' = [rcvd EXCEPT ![s] = Append(@, Arriving(s))]
         /\ publish_map' = [publish_map EXCEPT ![s] = StoredMessages(@, Arriving(s))]
         /\ UNCHANGED <<env, up, clients, sid, sub_requested, wire, topic_list, q, dq,
                        accepting, wt, lst, retained, matched, ddsOut>>
<1>1. /\ io' = [io EXCEPT ![t] = [s |-> s, todo |-> Handling(s)]]
      /\ rcvd' = [rcvd EXCEPT ![s] = Append(@, Arriving(s))]
      /\ publish_map' = [publish_map EXCEPT ![s] = StoredMessages(@, Arriving(s))]
  BY Zenon DEF Receive, Handling, Content, Found, Arriving
<1>2. /\ io[t].todo = <<>> /\ stage[s] = "reading" /\ stage' = [stage EXCEPT ![s] = "busy"]
      /\ \E k \in 1..MaxChunk :
           next[s] + k - 1 <= Len(Script[s]) /\ next' = [next EXCEPT ![s] = @ + k]
      /\ UNCHANGED <<env, up, clients, sid, sub_requested, wire, topic_list, queueVars,
                     accepting, wt, ddsVars>>
  BY Zenon DEF Receive, Idle
<1>3. UNCHANGED <<env, up, clients, sid, sub_requested, wire, topic_list, q, dq,
                  accepting, wt, lst, retained, matched, ddsOut>>
  BY <1>2 DEF queueVars, ddsVars
<1>4. /\ env \in Environments /\ next \in [Sessions -> Nat \ {0}]
      /\ publish_map \in [Sessions -> [PacketIds -> Msgs \cup {NoMsg}]]
  BY DEF TypeInv, TypeOK
<1>5. Script[s] \in Seq(Packet) /\ MaxChunk \in Nat
  BY <1>4, EnvironmentsAssumption DEF Script, MaxChunk
<1>6. PICK k \in 1..MaxChunk :
        next[s] + k - 1 <= Len(Script[s]) /\ next' = [next EXCEPT ![s] = @ + k]
  BY <1>2
<1>7. Len(Script[s]) \in Nat /\ k \in Nat /\ k >= 1 /\ next[s] \in Nat /\ next[s] >= 1
  BY <1>4, <1>5
<1>8. /\ next[s] \in 1..Len(Script[s]) /\ next'[s] = next[s] + k /\ next'[s] > next[s]
      /\ next' \in [Sessions -> Nat \ {0}] /\ \A u \in Sessions \ {s} : next'[u] = next[u]
  BY <1>4, <1>6, <1>7
<1>9. Arriving(s) \in Packet
  BY <1>5, <1>8, ElementOfSeq DEF Arriving
<1>10. Content(s) \in Contents
  <2>1. Arriving(s).type = "PUBREL" => Arriving(s).id \in PacketIds
    BY <1>9, PacketKinds
  <2>2. Found(s) \in Msgs \cup {NoMsg}
    BY <1>4, <2>1 DEF Found
  <2> QED BY <2>2 DEF Content, Contents
<1>11. Handles(Handling(s), Arriving(s))
  BY <1>9, <1>10, PacketOps DEF Handling
<1> QED BY <1>1, <1>2, <1>3, <1>8, <1>9, <1>10, <1>11

(* Thread t works for session s; async_accept is not work for the session   *)
(* whose acceptance it follows.                                             *)
Serving(t, s) ==
  io[t].todo # <<>> /\ io[t].s = s /\ Head(io[t].todo).op # "accept"

(* A session has one outstanding receive, or one handler.                   *)
ServeInv ==
  /\ \A t \in IoThreads : Shape(io[t].todo)
  /\ \A t \in IoThreads, s \in Sessions : Serving(t, s) => stage[s] \in {"open", "busy"}
  /\ \A t, u \in IoThreads, s \in Sessions : Serving(t, s) /\ Serving(u, s) => t = u

(* A step of thread t that leaves it with less work for the same session.   *)
LEMMA ServeLess ==
  ASSUME ServeInv, NEW t \in IoThreads, UNCHANGED stage,
         \A u \in IoThreads \ {t} : io'[u] = io[u],
         io'[t].s = io[t].s, Shape(io'[t].todo),
         io'[t].todo # <<>> /\ Head(io'[t].todo).op # "accept"
           => io[t].todo # <<>> /\ Head(io[t].todo).op # "accept"
  PROVE  ServeInv'
<1>1. \A u \in IoThreads, s \in Sessions : Serving(u, s)' => Serving(u, s)
  BY DEF Serving
<1> QED BY <1>1 DEF ServeInv

(* A thread that has nothing to do starts work for a session that nobody    *)
(* serves.                                                                  *)
LEMMA ServeStart ==
  ASSUME ServeInv, NEW t \in IoThreads, NEW s \in Sessions,
         stage \in [Sessions -> {"none", "open", "reading", "busy", "dead"}],
         stage[s] \notin {"open", "busy"},
         NEW k \in {"open", "busy"}, stage' = [stage EXCEPT ![s] = k],
         \A u \in IoThreads \ {t} : io'[u] = io[u],
         io'[t].s = s, Shape(io'[t].todo)
  PROVE  ServeInv'
<1>1. \A u \in IoThreads : ~Serving(u, s)
  BY DEF ServeInv
<1>2. \A u \in IoThreads, x \in Sessions : Serving(u, x)' => (u = t /\ x = s) \/ (u # t /\ x # s /\ Serving(u, x))
  BY <1>1 DEF Serving
<1>3. \A u \in IoThreads, x \in Sessions : Serving(u, x)' => stage'[x] \in {"open", "busy"}
  BY <1>2 DEF ServeInv
<1>4. \A u, v \in IoThreads, x \in Sessions : Serving(u, x)' /\ Serving(v, x)' => u = v
  BY <1>2 DEF ServeInv
<1>5. \A u \in IoThreads : Shape(io'[u].todo)
  BY DEF ServeInv
<1> QED BY <1>3, <1>4, <1>5 DEF ServeInv

(* What the operations other than PubrelFault leave to do. *)
LEMMA DoneFacts ==
  ASSUME TypeInv, ServeInv, NEW t \in IoThreads, io[t].todo # <<>>, Done(t)
  PROVE  /\ io' = [io EXCEPT ![t].todo = Tail(@)]
         /\ io'[t].s = io[t].s /\ io'[t].todo = Tail(io[t].todo)
         /\ \A u \in IoThreads \ {t} : io'[u] = io[u]
         /\ io[t].todo \in Seq(Ops) /\ Head(io[t].todo) \in Ops
         /\ Elements(Tail(io[t].todo)) \subseteq Elements(io[t].todo)
         /\ Shape(Tail(io[t].todo)) /\ NoSetId(Tail(io[t].todo))
         /\ Head(io[t].todo).op = "read" /\ Tail(io[t].todo) # <<>>
              => Head(Tail(io[t].todo)).op = "accept"
         /\ Head(io[t].todo).op = "accept" => Tail(io[t].todo) = <<>>
<1>1. io \in [IoThreads -> Handler] /\ io[t] \in Handler /\ io[t].todo \in Seq(Ops)
  BY DEF TypeInv, TypeOK, Handler
<1>2. io' = [io EXCEPT ![t].todo = Tail(@)]
  BY DEF Done
<1>3. /\ io'[t].s = io[t].s /\ io'[t].todo = Tail(io[t].todo)
      /\ \A u \in IoThreads \ {t} : io'[u] = io[u]
  BY <1>1, <1>2 DEF Handler
<1>4. Head(io[t].todo) \in Ops /\ Elements(Tail(io[t].todo)) \subseteq Elements(io[t].todo)
  BY <1>1, TailFacts
<1>5. Shape(io[t].todo)
  BY DEF ServeInv
<1> QED BY <1>1, <1>2, <1>3, <1>4, <1>5, ShapeTail

LEMMA ServeIo ==
  ASSUME TypeInv, ServeInv, NEW t \in IoThreads, IoStep(t)
  PROVE  ServeInv'
<1> USE DEF sessionVars, queueVars, ioVars, ddsVars
<1>1. /\ io \in [IoThreads -> Handler] /\ io[t] \in Handler
      /\ stage \in [Sessions -> {"none", "open", "reading", "busy", "dead"}]
      /\ io[t].todo # <<>> => io[t].s \in Sessions
  BY DEF TypeInv, TypeOK, HandlerInv
<1>2. ASSUME NEW s \in Sessions, Accept(t, s) PROVE ServeInv'
  <2> DEFINE ops == <<Op("insert"), Op("read"), Op("accept")>>
  <2>1. /\ Len(ops) = 3 /\ ops[1].op = "insert" /\ ops[2].op = "read" /\ ops[3].op = "accept"
    BY DEF Op
  <2>2. io'[t].s = s /\ io'[t].todo = ops /\ \A u \in IoThreads \ {t} : io'[u] = io[u]
    BY <1>1, <1>2 DEF Accept
  <2>3. stage[s] = "none" /\ stage' = [stage EXCEPT ![s] = "open"]
    BY <1>2 DEF Accept
  <2> HIDE DEF ops
  <2>4. \A i \in 1..3 : i = 1 \/ i = 2 \/ i = 3
    OBVIOUS
  <2>5. Shape(ops)
    BY <2>1, <2>4 DEF Shape
  <2> QED BY <1>1, <2>2, <2>3, <2>5, ServeStart
<1>3. ASSUME NEW s \in Sessions, Receive(t, s) PROVE ServeInv'
  <2>1. /\ io' = [io EXCEPT ![t] = [s |-> s, todo |-> Handling(s)]] /\ Shape(Handling(s))
        /\ stage[s] = "reading" /\ stage' = [stage EXCEPT ![s] = "busy"]
    BY <1>3, ReceiveFacts DEF Handles
  <2>2. io'[t].s = s /\ io'[t].todo = Handling(s) /\ \A u \in IoThreads \ {t} : io'[u] = io[u]
    BY <1>1, <2>1
  <2> QED BY <1>1, <2>1, <2>2, ServeStart
<1>4. CASE \/ Insert(t) \/ Reaccept(t) \/ Identify(t) \/ AddToTopic(t)
           \/ EnqueueMQTT(t) \/ EnqueueDDS(t)
  <2>1. io[t].todo # <<>> /\ Done(t) /\ UNCHANGED stage
    BY <1>4 DEF NextOp, Insert, Reaccept, Identify, AddToTopic, EnqueueMQTT, EnqueueDDS
  <2>2. /\ io'[t].s = io[t].s /\ io'[t].todo = Tail(io[t].todo)
        /\ \A u \in IoThreads \ {t} : io'[u] = io[u]
        /\ Shape(Tail(io[t].todo))
        /\ Head(io[t].todo).op = "accept" => Tail(io[t].todo) = <<>>
    BY <2>1, DoneFacts
  <2> QED BY <2>1, <2>2, ServeLess
<1>5. CASE Read(t)
  <2> DEFINE s == io[t].s
  <2>1. /\ io[t].todo # <<>> /\ Done(t) /\ Head(io[t].todo).op = "read"
        /\ stage' = [stage EXCEPT ![s] = "reading"]
    BY <1>5 DEF Read, NextOp
  <2>2. /\ io'[t].s = io[t].s /\ io'[t].todo = Tail(io[t].todo)
        /\ \A u \in IoThreads \ {t} : io'[u] = io[u]
        /\ Shape(Tail(io[t].todo))
        /\ Tail(io[t].todo) # <<>> => Head(Tail(io[t].todo)).op = "accept"
    BY <2>1, DoneFacts
  <2>3. s \in Sessions /\ Serving(t, s)
    BY <1>1, <2>1 DEF Serving
  <2> HIDE DEF s
  <2>4. \A u \in IoThreads, x \in Sessions : Serving(u, x)' => u # t /\ Serving(u, x)
    BY <2>2 DEF Serving
  <2>5. \A u \in IoThreads, x \in Sessions : Serving(u, x)' => x # s
    BY <2>3, <2>4 DEF ServeInv
  <2>6. \A u \in IoThreads, x \in Sessions : Serving(u, x)' => stage'[x] \in {"open", "busy"}
    BY <1>1, <2>1, <2>4, <2>5 DEF ServeInv
  <2>7. \A u \in IoThreads : Shape(io'[u].todo)
    BY <2>2 DEF ServeInv
  <2> QED BY <2>4, <2>6, <2>7 DEF ServeInv
<1>6. CASE PubrelFault(t)
  <2>1. /\ io[t].todo # <<>> /\ Head(io[t].todo).op = "dds" /\ UNCHANGED stage
        /\ UNCHANGED io \/ io' = [io EXCEPT ![t].todo = <<Op("read")>>]
    BY <1>6 DEF PubrelFault, NextOp
  <2>2. Len(<<Op("read")>>) = 1 /\ <<Op("read")>>[1] = Op("read") /\ \A i \in 1..1 : i = 1
    OBVIOUS
  <2>3. Shape(<<Op("read")>>)
    BY <2>2 DEF Shape, Op
  <2>4. CASE UNCHANGED io
    BY <2>1, <2>4 DEF ServeInv, Serving
  <2>5. CASE io' = [io EXCEPT ![t].todo = <<Op("read")>>]
    <3>1. /\ io'[t].s = io[t].s /\ io'[t].todo = <<Op("read")>>
          /\ \A u \in IoThreads \ {t} : io'[u] = io[u]
      BY <1>1, <2>5 DEF Handler
    <3> QED BY <2>1, <2>3, <3>1, ServeLess
  <2> QED BY <2>1, <2>4, <2>5
<1> QED BY <1>2, <1>3, <1>4, <1>5, <1>6 DEF IoStep

(* No other thread touches the handlers. *)
LEMMA ServeOthers ==
  ASSUME TypeInv, ServeInv, UNCHANGED io,
         UNCHANGED stage \/ \E s \in Sessions : ReadError(s)
  PROVE  ServeInv'
<1>1. \A t \in IoThreads, s \in Sessions : Serving(t, s)' <=> Serving(t, s)
  BY DEF Serving
<1>2. CASE UNCHANGED stage
  BY <1>1, <1>2 DEF ServeInv
<1>3. ASSUME NEW s \in Sessions, ReadError(s) PROVE ServeInv'
  <2>1. stage[s] = "reading" /\ stage' = [stage EXCEPT ![s] = "dead"]
    BY <1>3 DEF ReadError
  <2>2. stage \in [Sessions -> {"none", "open", "reading", "busy", "dead"}]
    BY DEF TypeInv, TypeOK
  <2>3. \A t \in IoThreads : ~Serving(t, s)
    BY <2>1 DEF ServeInv
  <2>4. \A t \in IoThreads, x \in Sessions : Serving(t, x)' => stage'[x] \in {"open", "busy"}
    BY <1>1, <2>1, <2>2, <2>3 DEF ServeInv
  <2> QED BY <1>1, <2>4 DEF ServeInv
<1> QED BY <1>2, <1>3

LEMMA ServeInit == Init => ServeInv
BY DEF Init, ServeInv, Serving, Shape

(* What the steps of the other threads leave alone. *)
LEMMA OthersFrame ==
  ASSUME [Next]_vars, ~\E t \in IoThreads : IoStep(t)
  PROVE  /\ UNCHANGED <<env, io, clients, sid, publish_map, next, rcvd, topic_list, accepting>>
         /\ UNCHANGED stage \/ \E s \in Sessions : ReadError(s)
<1> USE DEF sessionVars, queueVars, ioVars, ddsVars
<1>1. ASSUME NEW w \in Writers, WriterStep(w)
      PROVE  UNCHANGED <<env, io, stage, clients, sid, publish_map, next, rcvd, topic_list, accepting>>
  BY <1>1 DEF WriterStep, Dequeue, FindTopic, Lookup, WriterRace, Decide, SendRefused, Send
<1>2. ASSUME ListenerStep \/ Match \/ PublishDDS \/ MainReturns \/ UNCHANGED vars
      PROVE  UNCHANGED <<env, io, stage, clients, sid, publish_map, next, rcvd, topic_list, accepting>>
  BY <1>2 DEF vars, MainReturns, ListenerStep, TakeSample, TakeFails, ListenerFind,
              ListenerEnqueue, ListenerRace, ListenerEnd, CountSample, Match, PublishDDS
<1>3. ASSUME NEW s \in Sessions, ReadError(s)
      PROVE  UNCHANGED <<env, io, clients, sid, publish_map, next, rcvd, topic_list, accepting>>
  BY <1>3 DEF ReadError
<1> QED BY <1>1, <1>2, <1>3 DEF Next

LEMMA ServeNext ==
  ASSUME TypeInv, ServeInv, [Next]_vars
  PROVE  ServeInv'
BY ServeIo, ServeOthers, OthersFrame

-----------------------------------------------------------------------------
(* A session gets its id once *)

(* Thread t is about to call set_id for session s. *)
Identifying(t, s) ==
  io[t].todo # <<>> /\ io[t].s = s /\ Head(io[t].todo).op = "setid"

(* The first packet of a session is its CONNECT; once it is handled the     *)
(* session has its client's id.                                             *)
IdInv ==
  /\ \A s \in Sessions : next[s] = 1 => sid[s] = NoClient
  /\ \A s \in Sessions :
       next[s] > 1 => sid[s] \in Clients \/ \E t \in IoThreads : Identifying(t, s)
  /\ \A t \in IoThreads, s \in Sessions : Identifying(t, s) => sid[s] = NoClient /\ next[s] > 1

(* No id is ever replaced by another. *)
IdsKept == \A s \in Sessions : sid[s] \in Clients => sid'[s] = sid[s]

LEMMA NoSetIdHead ==
  ASSUME NEW S, NEW todo \in Seq(S), todo # <<>>, NoSetId(todo)
  PROVE  Head(todo).op # "setid"
<1>1. Head(todo) = todo[1] /\ 1 \in 1..Len(todo)
  OBVIOUS
<1> QED BY <1>1 DEF NoSetId

LEMMA IdSame ==
  ASSUME IdInv, UNCHANGED <<sid, next>>,
         \A t \in IoThreads, s \in Sessions : Identifying(t, s)' <=> Identifying(t, s)
  PROVE  IdInv' /\ IdsKept
BY DEF IdInv, IdsKept

LEMMA IdIo ==
  ASSUME ConnectFirst, TypeInv, ServeInv, IdInv, NEW t \in IoThreads, IoStep(t)
  PROVE  IdInv' /\ IdsKept
<1> USE DEF sessionVars, queueVars, ioVars, ddsVars
<1>1. /\ io \in [IoThreads -> Handler] /\ io[t] \in Handler /\ io[t].todo \in Seq(Ops)
      /\ sid \in [Sessions -> Ids] /\ next \in [Sessions -> Nat \ {0}]
      /\ io[t].todo # <<>> => io[t].s \in Sessions
      /\ env \in Environments
  BY DEF TypeInv, TypeOK, HandlerInv, Handler
<1>2. \A u \in IoThreads, s \in Sessions : Identifying(u, s) => Serving(u, s)
  BY DEF Identifying, Serving
<1>3. ASSUME NEW s \in Sessions, Accept(t, s) PROVE IdInv' /\ IdsKept
  <2>1. /\ io[t].todo = <<>> /\ io'[t].todo = <<Op("insert"), Op("read"), Op("accept")>>
        /\ \A u \in IoThreads \ {t} : io'[u] = io[u]
        /\ UNCHANGED <<sid, next>>
    BY <1>1, <1>3 DEF Accept, Idle
  <2>2. Head(io'[t].todo).op = "insert"
    BY <2>1 DEF Op
  <2>3. \A u \in IoThreads, x \in Sessions : Identifying(u, x)' <=> Identifying(u, x)
    BY <2>1, <2>2 DEF Identifying
  <2> QED BY <2>1, <2>3, IdSame
<1>4. ASSUME NEW s \in Sessions, Receive(t, s) PROVE IdInv' /\ IdsKept
  <2>1. /\ io[t].todo = <<>> /\ io' = [io EXCEPT ![t] = [s |-> s, todo |-> Handling(s)]]
        /\ Handles(Handling(s), Arriving(s))
        /\ next[s] \in 1..Len(Script[s]) /\ next' \in [Sessions -> Nat \ {0}]
        /\ next'[s] > next[s] /\ \A u \in Sessions \ {s} : next'[u] = next[u]
        /\ stage[s] = "reading" /\ UNCHANGED sid
    BY <1>4, ReceiveFacts
  <2>2. io'[t].s = s /\ io'[t].todo = Handling(s) /\ \A u \in IoThreads \ {t} : io'[u] = io[u]
    BY <1>1, <2>1
  <2>3. Arriving(s).type = "CONNECT" <=> next[s] = 1
    BY <1>1, <2>1 DEF ConnectFirst, Arriving, Script
  <2>4. \A u \in IoThreads : ~Identifying(u, s)
    BY <1>2, <2>1 DEF ServeInv
  <2>5. ASSUME NEW u \in IoThreads \ {t}, NEW x \in Sessions
        PROVE  Identifying(u, x)' <=> Identifying(u, x)
    BY <2>2 DEF Identifying
  <2>6. next'[s] > 1 /\ next'[s] # 1
    BY <1>1, <2>1
  <2>7. CASE next[s] = 1
    <3>1. sid[s] = NoClient
      BY <2>7 DEF IdInv
    <3>2. Handling(s) # <<>> /\ Head(Handling(s)).op = "setid"
      BY <2>1, <2>3, <2>7 DEF Handles, SetId
    <3>3. Identifying(t, s)'
      BY <2>2, <3>2 DEF Identifying
    <3>4. \A x \in Sessions : Identifying(t, x)' => x = s
      BY <2>2 DEF Identifying
    <3>5. \A x \in Sessions \ {s} : ~Identifying(t, x)
      BY <2>1 DEF Identifying
    <3> QED BY <2>1, <2>4, <2>5, <2>6, <3>1, <3>3, <3>4, <3>5 DEF IdInv, IdsKept
  <2>8. CASE next[s] # 1
    <3>1. next[s] > 1
      BY <1>1, <2>8
    <3>2. sid[s] \in Clients
      BY <2>4, <3>1 DEF IdInv
    <3>3. Handling(s) \in Seq(Ops) /\ Handling(s) # <<>> /\ NoSetId(Handling(s))
      BY <2>1, <2>3, <2>8 DEF Handles
    <3>4. \A x \in Sessions : ~Identifying(t, x)' /\ ~Identifying(t, x)
      BY <2>1, <2>2, <3>3, NoSetIdHead DEF Identifying
    <3> QED BY <2>1, <2>5, <2>6, <3>2, <3>4 DEF IdInv, IdsKept
  <2> QED BY <2>7, <2>8
<1>5. ASSUME io[t].todo # <<>>, Done(t)
      PROVE  /\ \A x \in Sessions : ~Identifying(t, x)'
             /\ \A u \in IoThreads \ {t}, x \in Sessions : Identifying(u, x)' <=> Identifying(u, x)
  <2>1. /\ io'[t].todo = Tail(io[t].todo) /\ \A u \in IoThreads \ {t} : io'[u] = io[u]
        /\ NoSetId(Tail(io[t].todo))
    BY <1>5, DoneFacts
  <2>2. Tail(io[t].todo) \in Seq(Ops)
    BY <1>1, <1>5, TailFacts
  <2>3. io'[t].todo # <<>> => Head(io'[t].todo).op # "setid"
    BY <2>1, <2>2, NoSetIdHead
  <2> QED BY <2>1, <2>3 DEF Identifying
<1>6. CASE Identify(t)
  <2> DEFINE s == io[t].s
  <2>1. /\ io[t].todo # <<>> /\ Head(io[t].todo).op = "setid" /\ Done(t)
        /\ sid' = [sid EXCEPT ![s] = Head(io[t].todo).id] /\ UNCHANGED next
    BY <1>6 DEF Identify, NextOp
  <2>2. Head(io[t].todo).id \in Clients
    BY <1>1, <2>1, TailFacts, OpKinds
  <2>3. s \in Sessions /\ Identifying(t, s)
    BY <1>1, <2>1 DEF Identifying
  <2>4. sid[s] = NoClient /\ next[s] > 1 /\ sid'[s] \in Clients
    BY <1>1, <2>1, <2>2, <2>3 DEF IdInv
  <2> HIDE DEF s
  <2>5. \A u \in IoThreads \ {t} : ~Identifying(u, s)
    BY <1>2, <2>3 DEF ServeInv
  <2>6. \A x \in Sessions \ {s} : sid'[x] = sid[x] /\ ~Identifying(t, x)
    BY <1>1, <2>1 DEF Identifying, s
  <2>7. NoClient \notin Clients
    BY KindsAssumption
  <2>8. next[s] # 1
    BY <1>1, <2>3, <2>4
  <2> QED BY <1>5, <2>1, <2>3, <2>4, <2>5, <2>6, <2>7, <2>8 DEF IdInv, IdsKept
<1>7. CASE \/ Insert(t) \/ Read(t) \/ Reaccept(t) \/ AddToTopic(t)
           \/ EnqueueMQTT(t) \/ EnqueueDDS(t)
  <2>1. io[t].todo # <<>> /\ Done(t) /\ UNCHANGED <<sid, next>> /\ Head(io[t].todo).op # "setid"
    BY <1>7 DEF NextOp, Insert, Read, Reaccept, AddToTopic, EnqueueMQTT, EnqueueDDS
  <2>2. \A x \in Sessions : ~Identifying(t, x)
    BY <2>1 DEF Identifying
  <2> QED BY <1>5, <2>1, <2>2, IdSame
<1>8. CASE PubrelFault(t)
  <2>1. /\ io[t].todo # <<>> /\ Head(io[t].todo).op = "dds" /\ UNCHANGED <<sid, next>>
        /\ UNCHANGED io \/ io' = [io EXCEPT ![t].todo = <<Op("read")>>]
    BY <1>8 DEF PubrelFault, NextOp
  <2>2. Head(<<Op("read")>>).op = "read"
    BY DEF Op
  <2>3. io'[t].todo = io[t].todo \/ io'[t].todo = <<Op("read")>>
    BY <1>1, <2>1 DEF Handler
  <2>4. \A u \in IoThreads \ {t} : io'[u] = io[u]
    BY <1>1, <2>1
  <2>5. Head(io'[t].todo).op # "setid"
    BY <2>1, <2>2, <2>3
  <2>6. \A u \in IoThreads, x \in Sessions : Identifying(u, x)' <=> Identifying(u, x)
    BY <2>1, <2>4, <2>5 DEF Identifying
  <2> QED BY <2>1, <2>6, IdSame
<1> QED BY <1>3, <1>4, <1>6, <1>7, <1>8 DEF IoStep

LEMMA IdNext ==
  ASSUME ConnectFirst, TypeInv, ServeInv, IdInv, [Next]_vars
  PROVE  IdInv' /\ IdsKept
<1>1. CASE \E t \in IoThreads : IoStep(t)
  BY <1>1, IdIo
<1>2. CASE ~\E t \in IoThreads : IoStep(t)
  <2>1. UNCHANGED <<io, sid, next>>
    BY <1>2, OthersFrame
  <2>2. \A t \in IoThreads, s \in Sessions : Identifying(t, s)' <=> Identifying(t, s)
    BY <2>1 DEF Identifying
  <2> QED BY <2>1, <2>2, IdSame
<1> QED BY <1>1, <1>2

LEMMA IdInit == Init => IdInv
BY DEF Init, IdInv, Identifying

-----------------------------------------------------------------------------
(* Who receives a PUBLISH *)

(* A session of client c has sent SUBSCRIBE. *)
Entitled(c) == c \in Clients /\ \E u \in Sessions : sid[u] = c /\ Asked(u)

IsSuback(frame) == frame.type = "SUBACK"

(* A SUBACK in a handler, in the queues and in the hands of a writer is for *)
(* a client that subscribed; a writer about to write it holds a session of  *)
(* that client, and one about to write a PUBLISH has tested sub_requested.  *)
HandlerSub ==
  \A t \in IoThreads : \A o \in Elements(io[t].todo) :
    o.op = "ack" /\ o.type = "SUBACK" => Entitled(sid[io[t].s])
QueueSub == \A p \in Producers : \A k \in Elements(q[p]) : IsSuback(k.frame) => Entitled(k.to)
Directed(state) ==
  state.pc # "idle" /\ IsSuback(state.task.frame) =>
    /\ Entitled(state.task.to) /\ state.pc # "find" /\ state.targets = <<state.task.to>>
    /\ state.pc \in {"decide", "write"} => sid[state.client] = state.task.to
Tested(state, marks) ==
  state.pc = "write" /\ state.task.frame.type = "PUBLISH" => marks[state.client] = TRUE
WriterSub == \A w \in Writers : Directed(wt[w]) /\ Tested(wt[w], sub_requested)
MarkSub == \A s \in Sessions : sub_requested[s] = TRUE => Entitled(sid[s])
WireSub == \A s \in Sessions : Published(s) => sub_requested[s] = TRUE
SubInv == HandlerSub /\ QueueSub /\ WriterSub /\ MarkSub /\ WireSub

(* Packets are only added to the history of a session. *)
LEMMA RcvdGrows ==
  ASSUME TypeInv, [Next]_vars
  PROVE  \A s \in Sessions : Asked(s) => Asked(s)'
<1> USE DEF sessionVars, queueVars, ioVars, ddsVars
<1>1. ASSUME UNCHANGED rcvd PROVE \A s \in Sessions : Asked(s) => Asked(s)'
  BY <1>1 DEF Asked
<1>2. ASSUME NEW t \in IoThreads, NEW s \in Sessions, Receive(t, s), NEW u \in Sessions, Asked(u)
      PROVE  Asked(u)'
  <2>1. /\ rcvd \in [Sessions -> Seq(Packet)] /\ Arriving(s) \in Packet
        /\ rcvd' = [rcvd EXCEPT ![s] = Append(@, Arriving(s))]
    BY <1>2, ReceiveFacts DEF TypeInv, TypeOK
  <2>2. CASE u # s
    BY <1>2, <2>1, <2>2 DEF Asked
  <2>3. CASE u = s
    <3> DEFINE old == rcvd[s]
               new == Append(old, Arriving(s))
    <3>1. Len(new) = Len(old) + 1 /\ Len(old) \in Nat /\ \A i \in 1..Len(old) : new[i] = old[i]
      BY <2>1
    <3>2. rcvd'[s] = new
      BY <2>1
    <3> HIDE DEF new
    <3>3. PICK i \in 1..Len(old) : old[i].type = "SUBSCRIBE"
      BY <1>2, <2>3 DEF Asked
    <3>4. i \in 1..Len(new) /\ new[i].type = "SUBSCRIBE"
      BY <3>1, <3>3
    <3> QED BY <2>3, <3>2, <3>4 DEF Asked
  <2> QED BY <2>2, <2>3
<1>3. ASSUME NEW t \in IoThreads, IoStep(t), ~\E s \in Sessions : Receive(t, s)
      PROVE  UNCHANGED rcvd
  BY <1>3 DEF IoStep, Accept, Insert, Read, Reaccept, Identify, AddToTopic, EnqueueMQTT,
              EnqueueDDS, PubrelFault
<1> QED BY <1>1, <1>2, <1>3, OthersFrame

LEMMA EntitledStays ==
  ASSUME TypeInv, IdsKept, [Next]_vars, NEW c, Entitled(c)
  PROVE  Entitled(c)'
<1>1. PICK u \in Sessions : sid[u] = c /\ Asked(u)
  BY DEF Entitled
<1>2. c \in Clients /\ sid'[u] = c
  BY <1>1 DEF Entitled, IdsKept
<1>3. Asked(u)'
  BY <1>1, RcvdGrows
<1> QED BY <1>2, <1>3 DEF Entitled

(* Steps that leave the writers alone, and the sessions but for their ids.  *)
LEMMA SubFrame ==
  ASSUME TypeInv, SubInv, IdsKept, [Next]_vars, UNCHANGED <<wt, sub_requested, wire>>
  PROVE  WriterSub' /\ MarkSub' /\ WireSub'
<1>1. \A c : Entitled(c) => c \in Clients /\ Entitled(c)'
  BY EntitledStays DEF Entitled
<1>2. MarkSub'
  <2> SUFFICES ASSUME NEW s \in Sessions, sub_requested[s] = TRUE PROVE Entitled(sid[s])'
    BY DEF MarkSub
  <2>1. Entitled(sid[s])
    BY DEF SubInv, MarkSub
  <2>2. sid'[s] = sid[s]
    BY <1>1, <2>1 DEF IdsKept
  <2>3. Entitled(sid[s]) => \E u \in Sessions : sid'[u] = sid[s] /\ Asked(u)'
    BY <1>1, <2>1 DEF Entitled
  <2> QED BY <1>1, <2>1, <2>2, <2>3 DEF Entitled
<1>3. WireSub'
  BY DEF SubInv, WireSub, Published
<1>4. ASSUME NEW w \in Writers PROVE Directed(wt[w])' /\ Tested(wt[w], sub_requested)'
  <2>1. Directed(wt[w]) /\ Tested(wt[w], sub_requested)
    BY DEF SubInv, WriterSub
  <2>2. Tested(wt[w], sub_requested)'
    BY <2>1 DEF Tested
  <2>3. wt[w].pc \in {"decide", "write"} => wt[w].client \in Sessions
    BY DEF TypeInv, WriterInv
  <2> SUFFICES ASSUME wt[w].pc # "idle", IsSuback(wt[w].task.frame)
               PROVE  /\ Entitled(wt[w].task.to)' /\ wt[w].pc # "find"
                      /\ wt[w].targets = <<wt[w].task.to>>
                      /\ wt[w].pc \in {"decide", "write"} => sid'[wt[w].client] = wt[w].task.to
    BY <2>2 DEF Directed, IsSuback
  <2>4. Entitled(wt[w].task.to)
    BY <2>1 DEF Directed
  <2>5. Entitled(wt[w].task.to)'
    BY <2>4, EntitledStays DEF Entitled
  <2> QED BY <1>1, <2>1, <2>3, <2>4, <2>5 DEF Directed, IdsKept
<1> QED BY <1>2, <1>3, <1>4 DEF WriterSub

(* A handler with less work than before, or with new work. *)
LEMMA HandlerSubUpdate ==
  ASSUME TypeInv, SubInv, IdsKept, [Next]_vars, NEW t \in IoThreads,
         \A u \in IoThreads \ {t} : io'[u] = io[u],
         \A o \in Elements(io'[t].todo) :
           o.op = "ack" /\ o.type = "SUBACK" => Entitled(sid[io[t].s])'
  PROVE  HandlerSub'
<1> SUFFICES ASSUME NEW u \in IoThreads, u # t, NEW o \in Elements(io[u].todo),
                    o.op = "ack" /\ o.type = "SUBACK"
             PROVE  Entitled(sid[io[u].s])'
  BY DEF HandlerSub
<1>1. Entitled(sid[io[u].s])
  BY DEF SubInv, HandlerSub
<1>2. io[u].s \in Sessions
  <2>1. io[u].todo # <<>>
    BY DEF Elements
  <2> QED BY <2>1 DEF TypeInv, HandlerInv
<1>3. sid'[io[u].s] = sid[io[u].s] /\ sid[io[u].s] \in Clients
  BY <1>1, <1>2 DEF IdsKept, Entitled
<1>4. \E v \in Sessions : sid'[v] = sid[io[u].s] /\ Asked(v)'
  BY <1>1, EntitledStays DEF Entitled
<1>5. io'[u] = io[u]
  OBVIOUS
<1> QED BY <1>3, <1>4, <1>5 DEF Entitled

(* The same handler goes on with the rest of its work. *)
LEMMA HandlerSubLess ==
  ASSUME TypeInv, SubInv, IdsKept, [Next]_vars, NEW t \in IoThreads,
         io[t].s \in Sessions, io'[t].s = io[t].s,
         \A u \in IoThreads \ {t} : io'[u] = io[u],
         Elements(io'[t].todo) \subseteq Elements(io[t].todo)
  PROVE  HandlerSub'
<1> SUFFICES ASSUME NEW o \in Elements(io'[t].todo), o.op = "ack" /\ o.type = "SUBACK"
             PROVE  Entitled(sid[io[t].s])'
  BY HandlerSubUpdate
<1>1. Entitled(sid[io[t].s])
  BY DEF SubInv, HandlerSub
<1>2. sid'[io[t].s] = sid[io[t].s] /\ sid[io[t].s] \in Clients
  BY <1>1 DEF IdsKept, Entitled
<1>3. \E v \in Sessions : sid'[v] = sid[io[t].s] /\ Asked(v)'
  BY <1>1, EntitledStays DEF Entitled
<1> QED BY <1>2, <1>3 DEF Entitled

LEMMA QueueSubSame ==
  ASSUME TypeInv, SubInv, IdsKept, [Next]_vars, UNCHANGED q
  PROVE  QueueSub'
<1> SUFFICES ASSUME NEW p \in Producers, NEW k \in Elements(q[p]), IsSuback(k.frame)
             PROVE  Entitled(k.to)'
  BY DEF QueueSub, IsSuback
<1>1. Entitled(k.to)
  BY DEF SubInv, QueueSub
<1> QED BY <1>1, EntitledStays

LEMMA QueueSubEnqueue ==
  ASSUME TypeInv, SubInv, IdsKept, [Next]_vars,
         NEW p \in Producers, NEW x \in Task, q' = Enqueue(q, p, x),
         IsSuback(x.frame) => Entitled(x.to)
  PROVE  QueueSub'
<1>1. q \in [Producers -> Seq(Task)]
  BY DEF TypeInv, TypeOK
<1> SUFFICES ASSUME NEW r \in Producers, NEW k \in Elements(q'[r]), IsSuback(k.frame)
             PROVE  Entitled(k.to)'
  BY DEF QueueSub, IsSuback
<1>2. q'[p] = Append(q[p], x) /\ \A u \in Producers \ {p} : q'[u] = q[u]
  BY <1>1 DEF Enqueue
<1>3. k \in Elements(q[r]) \/ k = x
  <2>1. Elements(Append(q[p], x)) \subseteq Elements(q[p]) \cup {x}
    BY <1>1, AppendElements
  <2> QED BY <1>2, <2>1
<1>4. Entitled(k.to)
  BY <1>3 DEF SubInv, QueueSub
<1> QED BY <1>4, EntitledStays

LEMMA SubIo ==
  ASSUME ConnectFirst, TypeInv, ServeInv, IdInv, SubInv, IdsKept, [Next]_vars,
         NEW t \in IoThreads, IoStep(t)
  PROVE  SubInv'
<1> USE DEF sessionVars, queueVars, ioVars, ddsVars
<1>1. /\ io \in [IoThreads -> Handler] /\ io[t] \in Handler /\ io[t].todo \in Seq(Ops)
      /\ io[t].todo # <<>> => io[t].s \in Sessions
      /\ rcvd \in [Sessions -> Seq(Packet)] /\ sid \in [Sessions -> Ids]
      /\ next \in [Sessions -> Nat \ {0}] /\ env \in Environments
  BY DEF TypeInv, TypeOK, HandlerInv, Handler
<1>2. UNCHANGED <<wt, sub_requested, wire>>
  <2>1. ASSUME NEW s \in Sessions, Receive(t, s) PROVE UNCHANGED <<wt, sub_requested, wire>>
    BY <2>1, ReceiveFacts
  <2> QED BY <2>1 DEF IoStep, Accept, Insert, Read, Reaccept, Identify, AddToTopic, EnqueueMQTT,
                      EnqueueDDS, PubrelFault
<1>3. WriterSub' /\ MarkSub' /\ WireSub'
  BY <1>2, SubFrame
<1>4. ASSUME NEW s \in Sessions, Accept(t, s) PROVE HandlerSub' /\ QueueSub'
  <2> DEFINE ops == <<Op("insert"), Op("read"), Op("accept")>>
  <2>1. Len(ops) = 3 /\ ops[1].op = "insert" /\ ops[2].op = "read" /\ ops[3].op = "accept"
    BY DEF Op
  <2>2. io'[t].todo = ops /\ UNCHANGED q /\ \A u \in IoThreads \ {t} : io'[u] = io[u]
    BY <1>1, <1>4 DEF Accept
  <2> HIDE DEF ops
  <2>3. \A i \in 1..3 : i = 1 \/ i = 2 \/ i = 3
    OBVIOUS
  <2>4. \A o \in Elements(ops) : o.op # "ack"
    BY <2>1, <2>3 DEF Elements
  <2> QED BY <2>2, <2>4, HandlerSubUpdate, QueueSubSame
<1>5. ASSUME NEW s \in Sessions, Receive(t, s) PROVE HandlerSub' /\ QueueSub'
  <2> DEFINE p == Arriving(s)
  <2>1. /\ io' = [io EXCEPT ![t] = [s |-> s, todo |-> Handling(s)]]
        /\ Handles(Handling(s), p) /\ p \in Packet
        /\ next[s] \in 1..Len(Script[s])
        /\ stage[s] = "reading" /\ UNCHANGED <<sid, q>>
        /\ rcvd' = [rcvd EXCEPT ![s] = Append(@, p)]
    BY <1>5, ReceiveFacts
  <2>2. io'[t].s = s /\ io'[t].todo = Handling(s) /\ \A u \in IoThreads \ {t} : io'[u] = io[u]
    BY <1>1, <2>1
  <2>3. p.type = "CONNECT" <=> next[s] = 1
    BY <1>1, <2>1 DEF ConnectFirst, Arriving, Script
  <2>4. \A u \in IoThreads : ~Identifying(u, s)
    BY <2>1 DEF ServeInv, Identifying, Serving
  <2> HIDE DEF p
  <2>5. ASSUME p.type = "SUBSCRIBE" PROVE Entitled(sid[s])'
    <3>1. next[s] > 1
      BY <1>1, <2>3, <2>5
    <3>2. sid[s] \in Clients
      BY <2>4, <3>1 DEF IdInv
    <3> DEFINE new == Append(rcvd[s], p)
    <3>3. Len(new) \in 1..Len(new) /\ new[Len(new)] = p
      BY <1>1, <2>1
    <3>4. rcvd'[s] = new
      BY <1>1, <2>1
    <3> HIDE DEF new
    <3>5. Asked(s)'
      BY <2>5, <3>3, <3>4 DEF Asked
    <3> QED BY <2>1, <3>2, <3>5 DEF Entitled
  <2>6. \A o \in Elements(Handling(s)) : o.op = "ack" /\ o.type = "SUBACK" => p.type = "SUBSCRIBE"
    BY <2>1 DEF Handles, Elements
  <2>7. \A o \in Elements(io'[t].todo) :
          o.op = "ack" /\ o.type = "SUBACK" => Entitled(sid[io[t].s])'
    BY <2>2, <2>5, <2>6 DEF Entitled
  <2> QED BY <2>1, <2>2, <2>7, HandlerSubUpdate, QueueSubSame
<1>6. ASSUME io[t].todo # <<>>, Done(t) PROVE HandlerSub'
  BY <1>1, <1>6, DoneFacts, HandlerSubLess
<1>7. CASE Insert(t) \/ Read(t) \/ Reaccept(t) \/ Identify(t) \/ AddToTopic(t) \/ EnqueueDDS(t)
  <2>1. io[t].todo # <<>> /\ Done(t) /\ UNCHANGED q
    BY <1>7 DEF NextOp, Insert, Read, Reaccept, Identify, AddToTopic, EnqueueDDS
  <2> QED BY <1>3, <1>6, <2>1, QueueSubSame DEF SubInv
<1>8. CASE EnqueueMQTT(t)
  <2> DEFINE h == Head(io[t].todo)
             x == IF h.op = "ack" THEN AckTask(sid[io[t].s], h.type, h.arg)
                  ELSE PublishTask(Broadcast, h.msg)
  <2>1. io[t].todo # <<>> /\ Done(t) /\ h.op \in {"ack", "publish"} /\ q' = Enqueue(q, t, x)
    BY <1>8 DEF NextOp, EnqueueMQTT
  <2>2. h \in Ops /\ h \in Elements(io[t].todo) /\ io[t].s \in Sessions /\ sid[io[t].s] \in Ids
    BY <1>1, <2>1, TailFacts
  <2> HIDE DEF h
  <2>3. x \in Task /\ (IsSuback(x.frame) => Entitled(x.to))
    <3>1. CASE h.op = "ack"
      <4>1. x = [to |-> sid[io[t].s], frame |-> [type |-> h.type, arg |-> h.arg]]
        BY <3>1 DEF AckTask
      <4>2. [type |-> h.type, arg |-> h.arg] \in Frame
        BY <2>2, <3>1, OpKinds
      <4>3. x \in Task
        BY <2>2, <4>1, <4>2 DEF Task
      <4>4. h.type = "SUBACK" => Entitled(sid[io[t].s])
        BY <2>2, <3>1 DEF SubInv, HandlerSub
      <4> QED BY <4>1, <4>3, <4>4 DEF IsSuback
    <3>2. CASE h.op = "publish"
      <4>1. x = [to |-> Broadcast, frame |-> [type |-> "PUBLISH", arg |-> h.msg]]
        BY <3>2 DEF PublishTask
      <4>2. h.msg \in Contents
        BY <2>2, <3>2, OpKinds
      <4> QED BY <4>1, <4>2 DEF Task, Frame, IsSuback
    <3> QED BY <2>1, <3>1, <3>2
  <2> HIDE DEF x
  <2>4. t \in Producers
    BY DEF Producers
  <2>5. QueueSub'
    BY <2>1, <2>3, <2>4, QueueSubEnqueue
  <2> QED BY <1>3, <1>6, <2>1, <2>5 DEF SubInv
<1>9. CASE PubrelFault(t)
  <2>1. /\ io[t].todo # <<>> /\ UNCHANGED q
        /\ UNCHANGED io \/ io' = [io EXCEPT ![t].todo = <<Op("read")>>]
    BY <1>9 DEF PubrelFault, NextOp
  <2>2. <<Op("read")>>[1].op = "read" /\ Len(<<Op("read")>>) = 1 /\ \A i \in 1..1 : i = 1
    BY DEF Op
  <2>3. \A o \in Elements(<<Op("read")>>) : o.op # "ack"
    BY <2>2 DEF Elements
  <2>4. CASE UNCHANGED io
    BY <1>1, <1>3, <2>1, <2>4, HandlerSubLess, QueueSubSame DEF SubInv
  <2>5. CASE io' = [io EXCEPT ![t].todo = <<Op("read")>>]
    <3>1. io'[t].todo = <<Op("read")>> /\ \A u \in IoThreads \ {t} : io'[u] = io[u]
      BY <1>1, <2>5 DEF Handler
    <3>2. HandlerSub'
      BY <2>3, <3>1, HandlerSubUpdate
    <3> QED BY <1>3, <2>1, <3>2, QueueSubSame DEF SubInv
  <2> QED BY <2>1, <2>4, <2>5
<1> QED BY <1>3, <1>4, <1>5, <1>7, <1>8, <1>9 DEF IoStep, SubInv

(* A writer takes a step that changes its own state only, or sets           *)
(* sub_requested of the session it works for.                               *)
LEMMA WriterSubUpdate ==
  ASSUME TypeInv, SubInv, NEW w \in Writers, NEW new,
         wt' = [wt EXCEPT ![w] = new], UNCHANGED <<sid, rcvd>>,
         \A s \in Sessions : sub_requested[s] = TRUE => sub_requested'[s] = TRUE,
         Directed(new), Tested(new, sub_requested')
  PROVE  WriterSub'
<1> SUFFICES ASSUME NEW v \in Writers PROVE Directed(wt'[v]) /\ Tested(wt[v], sub_requested)'
  <2>1. \A c : Entitled(c)' <=> Entitled(c)
    BY DEF Entitled, Asked
  <2>2. \A v \in Writers : Directed(wt[v])' <=> Directed(wt'[v])
    BY <2>1 DEF Directed, IsSuback, Entitled, Asked
  <2> QED BY <2>2 DEF WriterSub
<1>1. wt \in [Writers -> WriterState]
  BY DEF TypeInv, TypeOK
<1>2. CASE v = w
  BY <1>1, <1>2 DEF Tested
<1>3. CASE v # w
  <2>1. wt'[v] = wt[v]
    BY <1>1, <1>3
  <2>2. Directed(wt[v]) /\ Tested(wt[v], sub_requested)
    BY DEF SubInv, WriterSub
  <2>3. wt[v].pc = "write" => wt[v].client \in Sessions
    BY DEF TypeInv, WriterInv
  <2> QED BY <2>1, <2>2, <2>3 DEF Tested
<1> QED BY <1>2, <1>3

LEMMA WriterSubAdvance ==
  ASSUME TypeInv, SubInv, NEW w \in Writers, Advance(w), UNCHANGED <<sid, rcvd>>,
         wt[w].pc \in {"lookup", "decide", "write"},
         \A s \in Sessions : sub_requested[s] = TRUE => sub_requested'[s] = TRUE
  PROVE  WriterSub'
<1>1. /\ wt \in [Writers -> WriterState] /\ wt[w] \in WriterState
      /\ Directed(wt[w])
  BY DEF TypeInv, TypeOK, SubInv, WriterSub
<1> DEFINE pc2 == IF Len(wt[w].targets) > 1 THEN "lookup" ELSE "idle"
           new == [wt[w] EXCEPT !.targets = Tail(@), !.pc = pc2]
<1>2. wt' = [wt EXCEPT ![w] = new]
  BY <1>1 DEF Advance, WriterState
<1>3. new.pc = pc2 /\ new.task = wt[w].task
  BY <1>1 DEF WriterState
<1> HIDE DEF new
<1>4. Tested(new, sub_requested')
  BY <1>3 DEF Tested
<1>5. ASSUME IsSuback(wt[w].task.frame) PROVE new.pc = "idle"
  <2>1. wt[w].targets = <<wt[w].task.to>>
    BY <1>1, <1>5 DEF Directed
  <2>2. Len(wt[w].targets) = 1
    BY <2>1
  <2> QED BY <1>3, <2>2
<1>6. Directed(new)
  BY <1>3, <1>5 DEF Directed
<1> QED BY <1>2, <1>4, <1>6, WriterSubUpdate

LEMMA SubWriter ==
  ASSUME TypeInv, SubInv, IdsKept, [Next]_vars, NEW w \in Writers, WriterStep(w)
  PROVE  SubInv'
<1> USE DEF sessionVars, queueVars, ioVars, ddsVars
<1>1. /\ wt \in [Writers -> WriterState] /\ wt[w] \in WriterState
      /\ clients \subseteq Sessions /\ q \in [Producers -> Seq(Task)]
      /\ sub_requested \in [Sessions -> BOOLEAN]
      /\ wire \in [Sessions -> Seq(Frame \cup {TornFrame})]
      /\ wt[w].pc # "idle" => wt[w].task \in Task
      /\ wt[w].pc \in {"decide", "write"} => wt[w].client \in Sessions
      /\ w \in Producers
  BY DEF TypeInv, TypeOK, WriterInv, Producers
<1>2. Directed(wt[w]) /\ Tested(wt[w], sub_requested)
  BY DEF SubInv, WriterSub
<1>3. UNCHANGED <<io, sid, rcvd>>
  BY DEF WriterStep, Dequeue, FindTopic, Lookup, WriterRace, Decide, SendRefused, Send
<1>4. HandlerSub'
  <2>1. \A c : Entitled(c)' <=> Entitled(c)
    BY <1>3 DEF Entitled, Asked
  <2>2. HandlerSub' <=> HandlerSub
    BY <1>3, <2>1 DEF HandlerSub, Entitled, Asked
  <2> QED BY <2>2 DEF SubInv
<1>5. ASSUME UNCHANGED sub_requested PROVE MarkSub'
  BY <1>3, <1>5 DEF SubInv, MarkSub, Entitled, Asked
<1>6. ASSUME UNCHANGED <<sub_requested, wire>> PROVE MarkSub' /\ WireSub'
  BY <1>5, <1>6 DEF SubInv, WireSub, Published
<1>7. ASSUME UNCHANGED sub_requested
      PROVE  \A s \in Sessions : sub_requested[s] = TRUE => sub_requested'[s] = TRUE
  BY <1>7
<1>8. CASE Dequeue(w)
  <2>1. PICK p \in {p \in Producers : Nonempty(q, p)} :
          /\ q' = Dequeued(q, p)
          /\ wt' = [wt EXCEPT ![w] =
               IF Head(q[p]).to = Broadcast
               THEN [pc |-> "find", task |-> Head(q[p]), targets |-> <<>>, client |-> 0]
               ELSE [pc |-> "lookup", task |-> Head(q[p]), targets |-> <<Head(q[p]).to>>,
                     client |-> 0]]
    BY <1>8 DEF Dequeue
  <2> DEFINE task == Head(q[p])
             new == IF task.to = Broadcast
                    THEN [pc |-> "find", task |-> task, targets |-> <<>>, client |-> 0]
                    ELSE [pc |-> "lookup", task |-> task, targets |-> <<task.to>>, client |-> 0]
  <2>2. q[p] \in Seq(Task) /\ q[p] # <<>>
    BY <1>1, <2>1 DEF Nonempty
  <2>3. task \in Elements(q[p]) /\ Elements(Tail(q[p])) \subseteq Elements(q[p])
    BY <2>2, TailFacts
  <2>4. wt' = [wt EXCEPT ![w] = new]
    BY <2>1
  <2>5. IsSuback(task.frame) => Entitled(task.to)
    BY <2>3 DEF SubInv, QueueSub
  <2> HIDE DEF task
  <2>6. Broadcast \notin Clients
    BY KindsAssumption DEF Ids
  <2>7. /\ new.task = task /\ new.pc \in {"find", "lookup"}
        /\ task.to # Broadcast => new.pc = "lookup" /\ new.targets = <<task.to>>
    OBVIOUS
  <2> HIDE DEF new
  <2>8. Directed(new)
    BY <2>5, <2>6, <2>7 DEF Directed, Entitled
  <2>9. Tested(new, sub_requested')
    BY <2>7 DEF Tested
  <2>10. UNCHANGED <<sub_requested, wire>>
    BY <1>8 DEF Dequeue
  <2>11. WriterSub'
    BY <1>3, <1>7, <2>4, <2>8, <2>9, <2>10, WriterSubUpdate
  <2>12. \A r \in Producers : Elements(q'[r]) \subseteq Elements(q[r])
    BY <1>1, <2>1, <2>3 DEF Dequeued
  <2>13. QueueSub'
    BY <1>3, <2>12 DEF SubInv, QueueSub, IsSuback, Entitled, Asked
  <2> QED BY <1>4, <1>6, <2>10, <2>11, <2>13 DEF SubInv
<1>9. CASE FindTopic(w)
  <2> DEFINE found == find_topic(Gps)
             new == [wt[w] EXCEPT !.targets = found,
                                  !.pc = IF found = <<>> THEN "idle" ELSE "lookup"]
  <2>1. wt' = [wt EXCEPT ![w] = new] /\ UNCHANGED <<q, sub_requested, wire>> /\ wt[w].pc = "find"
    BY <1>1, <1>9 DEF FindTopic, WriterState, At
  <2> HIDE DEF found
  <2>2. new.task = wt[w].task /\ new.pc \in {"idle", "lookup"}
    BY <1>1 DEF WriterState
  <2> HIDE DEF new
  <2>3. Directed(new)
    BY <1>2, <2>1, <2>2 DEF Directed
  <2>4. Tested(new, sub_requested')
    BY <2>2 DEF Tested
  <2>5. WriterSub'
    BY <1>3, <1>7, <2>1, <2>3, <2>4, WriterSubUpdate
  <2> QED BY <1>4, <1>6, <2>1, <2>5, QueueSubSame DEF SubInv
<1>10. CASE Lookup(w)
  <2> DEFINE id == TargetId(Head(wt[w].targets))
             new == [wt[w] EXCEPT !.client = get_client(id), !.pc = "decide"]
  <2>1. wt[w].pc = "lookup" /\ UNCHANGED <<q, sub_requested, wire>>
    BY <1>10 DEF Lookup, At
  <2>2. WriterSub'
    <3>1. CASE Matching(id) = {}
      <4>1. Advance(w)
        BY <1>10, <3>1 DEF Lookup
      <4> QED BY <1>3, <1>7, <2>1, <4>1, WriterSubAdvance
    <3>2. CASE Matching(id) # {}
      <4>1. wt' = [wt EXCEPT ![w] = new]
        BY <1>1, <1>10, <3>2 DEF Lookup, WriterState
      <4>2. new.task = wt[w].task /\ new.pc = "decide" /\ new.targets = wt[w].targets
            /\ new.client = get_client(id)
        BY <1>1 DEF WriterState
      <4>3. Tested(new, sub_requested')
        BY <4>2 DEF Tested
      <4>4. sid[get_client(id)] = id
        <5> HIDE DEF id
        <5>1. get_client(id) \in Matching(id)
          BY <1>1, <3>2, GetClientMatches
        <5> QED BY <5>1 DEF Matching
      <4>5. ASSUME IsSuback(wt[w].task.frame) PROVE id = wt[w].task.to
        <5>1. wt[w].targets = <<wt[w].task.to>> /\ wt[w].task.to \in Clients
          BY <1>2, <2>1, <4>5 DEF Directed, Entitled
        <5>2. Head(wt[w].targets) = wt[w].task.to
          BY <5>1
        <5>3. wt[w].task.to \notin Sessions
          BY <5>1, KindsAssumption DEF Ids
        <5> QED BY <5>2, <5>3 DEF TargetId
      <4> HIDE DEF new, id
      <4>6. Directed(new)
        BY <1>2, <2>1, <4>2, <4>4, <4>5 DEF Directed
      <4> QED BY <1>3, <1>7, <2>1, <4>1, <4>3, <4>6, WriterSubUpdate
    <3> QED BY <3>1, <3>2
  <2> QED BY <1>4, <1>6, <2>1, <2>2, QueueSubSame DEF SubInv
<1>11. CASE WriterRace(w)
  <2>1. UNCHANGED <<wt, q, sub_requested, wire>>
    BY <1>11 DEF WriterRace
  <2> QED BY <1>4, <2>1, SubFrame, QueueSubSame DEF SubInv
<1>12. CASE Decide(w)
  <2> DEFINE c == wt[w].client
             f == wt[w].task.frame
  <2>1. /\ wt[w].pc = "decide" /\ UNCHANGED wire
        /\ sub_requested' = IF f.type = "SUBACK" THEN [sub_requested EXCEPT ![c] = TRUE]
                            ELSE sub_requested
    BY <1>12 DEF Decide, At
  <2>2. IF ~sub_requested[c] /\ f.type = "PUBLISH"
        THEN Store(w) /\ Advance(w) ELSE UNCHANGED q /\ WriterGoto(w, "write")
    BY <1>12 DEF Decide
  <2>3. c \in Sessions /\ wt[w].task \in Task /\ sub_requested[c] \in BOOLEAN
    BY <1>1, <2>1
  <2> HIDE DEF c, f
  <2>4. \A s \in Sessions : sub_requested[s] = TRUE => sub_requested'[s] = TRUE
    BY <1>1, <2>1, <2>3
  <2>5. \A s \in Sessions : sub_requested'[s] = TRUE =>
          sub_requested[s] = TRUE \/ (s = c /\ f.type = "SUBACK")
    BY <1>1, <2>1, <2>3
  <2>6. f.type = "SUBACK" => Entitled(sid[c])
    BY <1>2, <2>1 DEF Directed, IsSuback, f, c
  <2>7. MarkSub'
    BY <1>3, <2>5, <2>6 DEF SubInv, MarkSub, Entitled, Asked
  <2>8. WireSub'
    BY <2>1, <2>4 DEF SubInv, WireSub, Published
  <2>9. CASE sub_requested[c] = FALSE /\ f.type = "PUBLISH"
    <3>1. Store(w) /\ Advance(w)
      BY <2>2, <2>9
    <3>2. q' = Enqueue(q, w, wt[w].task) /\ ~IsSuback(wt[w].task.frame)
      BY <2>9, <3>1 DEF Store, IsSuback, f
    <3>3. QueueSub'
      BY <1>1, <2>3, <3>2, QueueSubEnqueue
    <3>4. WriterSub'
      BY <1>3, <2>1, <2>4, <3>1, WriterSubAdvance
    <3> QED BY <1>4, <2>7, <2>8, <3>3, <3>4 DEF SubInv
  <2>10. CASE ~(sub_requested[c] = FALSE /\ f.type = "PUBLISH")
    <3>1. UNCHANGED q /\ WriterGoto(w, "write")
      BY <2>2, <2>3, <2>10
    <3> DEFINE new == [wt[w] EXCEPT !.pc = "write"]
    <3>2. wt' = [wt EXCEPT ![w] = new]
      BY <1>1, <3>1 DEF WriterGoto, WriterState
    <3>3. new.targets = wt[w].targets /\ new.client = c /\ new.task = wt[w].task /\ new.pc = "write"
      BY <1>1 DEF WriterState, c
    <3> HIDE DEF new
    <3>4. Directed(new)
      BY <1>2, <2>1, <3>3 DEF Directed, c
    <3>5. f.type = "PUBLISH" => sub_requested'[c] = TRUE
      BY <2>3, <2>4, <2>10
    <3>6. Tested(new, sub_requested')
      BY <3>3, <3>5 DEF Tested, f
    <3>7. WriterSub'
      BY <1>3, <2>4, <3>2, <3>4, <3>6, WriterSubUpdate
    <3> QED BY <1>4, <2>7, <2>8, <3>1, <3>7, QueueSubSame DEF SubInv
  <2> QED BY <2>9, <2>10
<1>13. CASE SendRefused(w)
  <2>1. /\ wt[w].pc = "write" /\ Store(w) /\ Advance(w) /\ TooLong(wt[w].task.frame)
        /\ UNCHANGED <<sub_requested, wire>>
    BY <1>13 DEF SendRefused, At
  <2>2. q' = Enqueue(q, w, wt[w].task) /\ ~IsSuback(wt[w].task.frame)
    BY <2>1 DEF Store, TooLong, IsSuback
  <2>3. QueueSub'
    BY <1>1, <2>1, <2>2, QueueSubEnqueue
  <2>4. WriterSub'
    BY <1>3, <1>7, <2>1, WriterSubAdvance
  <2> QED BY <1>4, <1>6, <2>1, <2>3, <2>4 DEF SubInv
<1>14. CASE Send(w)
  <2> DEFINE c == wt[w].client
             f == wt[w].task.frame
  <2>1. wt[w].pc = "write" /\ Advance(w) /\ UNCHANGED <<q, sub_requested>>
    BY <1>14 DEF Send, At
  <2>2. \/ UNCHANGED wire
        \/ \E g \in {f, TornFrame} : wire' = [wire EXCEPT ![c] = Append(@, g)]
    BY <1>14 DEF Send
  <2>3. c \in Sessions /\ f \in Frame
    BY <1>1, <2>1 DEF Task
  <2>4. f.type = "PUBLISH" => sub_requested[c] = TRUE
    BY <1>2, <2>1 DEF Tested
  <2> HIDE DEF c, f
  <2>5. ASSUME NEW s \in Sessions, Published(s)' PROVE sub_requested[s] = TRUE
    <3>1. CASE wire'[s] = wire[s]
      BY <2>5, <3>1 DEF SubInv, WireSub, Published
    <3>2. CASE wire'[s] # wire[s]
      <4>1. PICK g \in {f, TornFrame} : wire' = [wire EXCEPT ![c] = Append(@, g)]
        BY <2>2, <3>2
      <4>2. s = c /\ wire'[s] = Append(wire[s], g) /\ wire[s] \in Seq(Frame \cup {TornFrame})
        BY <1>1, <2>3, <3>2, <4>1
      <4> DEFINE old == wire[s]
                 now == Append(old, g)
      <4>3. /\ Len(now) = Len(old) + 1 /\ now[Len(old) + 1] = g /\ Len(old) \in Nat
            /\ \A i \in 1..Len(old) : now[i] = old[i]
        BY <2>3, <4>2
      <4>4. wire'[s] = now
        BY <4>2
      <4> HIDE DEF now, old
      <4>5. PICK i \in 1..Len(now) : now[i].type = "PUBLISH"
        BY <2>5, <4>4 DEF Published
      <4>6. CASE i \in 1..Len(old)
        <5>1. Published(s)
          BY <4>3, <4>5, <4>6 DEF Published, old
        <5> QED BY <5>1 DEF SubInv, WireSub
      <4>7. CASE i = Len(old) + 1
        <5>1. g.type = "PUBLISH"
          BY <4>3, <4>5, <4>7
        <5>2. g = f
          BY <5>1 DEF TornFrame
        <5> QED BY <2>4, <4>2, <5>1, <5>2
      <4>8. i \in 1..Len(old) \/ i = Len(old) + 1
        BY <4>3, <4>5
      <4> QED BY <4>6, <4>7, <4>8
    <3> QED BY <3>1, <3>2
  <2>6. WireSub'
    BY <2>1, <2>5 DEF WireSub
  <2>7. WriterSub'
    BY <1>3, <1>7, <2>1, WriterSubAdvance
  <2> QED BY <1>4, <1>5, <2>1, <2>6, <2>7, QueueSubSame DEF SubInv
<1> QED BY <1>8, <1>9, <1>10, <1>11, <1>12, <1>13, <1>14 DEF WriterStep

(* What the listener puts into the MQTT queue. *)
LEMMA ListenerTask ==
  ASSUME TypeInv, ListenerEnqueue
  PROVE  LET x == PublishTask(sid[Head(lst.targets)], Sample) IN
         x \in Task /\ x.frame.type = "PUBLISH"
<1>1. /\ lst.targets # <<>> /\ lst.pc = "each"
      /\ lst \in ListenerState /\ sid \in [Sessions -> Ids] /\ env \in Environments
      /\ lst.taken >= 1 /\ lst.taken <= Len(SampleSeq)
  BY DEF ListenerEnqueue, ListenerAt, TypeInv, TypeOK, ListenerInv
<1>2. Head(lst.targets) \in Sessions /\ lst.taken \in Nat
  BY <1>1, TailFacts DEF ListenerState
<1>3. SampleSeq \in Seq(Msgs)
  BY <1>1, EnvironmentsAssumption DEF SampleSeq
<1>4. Sample \in Contents
  <2>1. lst.taken \in 1..Len(SampleSeq)
    BY <1>1, <1>2, <1>3
  <2> QED BY <1>3, <2>1, ElementOfSeq DEF Sample, Contents
<1>5. sid[Head(lst.targets)] \in Ids
  BY <1>1, <1>2
<1> QED BY <1>4, <1>5 DEF PublishTask, Task, Frame

LEMMA SubDDS ==
  ASSUME TypeInv, SubInv, IdsKept, [Next]_vars,
         ListenerStep \/ Match \/ PublishDDS \/ MainReturns \/ UNCHANGED vars
         \/ \E s \in Sessions : ReadError(s)
  PROVE  SubInv'
<1> USE DEF sessionVars, queueVars, ioVars, ddsVars
<1>1. UNCHANGED <<io, sid, rcvd, wt, sub_requested, wire>>
  BY DEF vars, MainReturns, ListenerStep, TakeSample, TakeFails, ListenerFind,
         ListenerEnqueue, ListenerRace, ListenerEnd, CountSample, Match, PublishDDS, ReadError
<1>2. WriterSub' /\ MarkSub' /\ WireSub'
  BY <1>1, SubFrame
<1>3. HandlerSub'
  BY <1>1 DEF SubInv, HandlerSub, Entitled, Asked
<1>4. CASE ListenerEnqueue
  <2> DEFINE x == PublishTask(sid[Head(lst.targets)], Sample)
  <2>1. q' = Enqueue(q, Listener, x)
    BY <1>4 DEF ListenerEnqueue
  <2>2. x \in Task /\ ~IsSuback(x.frame)
    BY <1>4, ListenerTask DEF IsSuback
  <2> HIDE DEF x
  <2>3. QueueSub'
    BY <2>1, <2>2, QueueSubEnqueue DEF Producers
  <2> QED BY <1>2, <1>3, <2>3 DEF SubInv
<1>5. CASE ~ListenerEnqueue
  <2>1. UNCHANGED q
    BY <1>5 DEF vars, MainReturns, ListenerStep, TakeSample, TakeFails, ListenerFind,
                ListenerRace, ListenerEnd, CountSample, Match, PublishDDS, ReadError
  <2> QED BY <1>2, <1>3, <2>1, QueueSubSame DEF SubInv
<1> QED BY <1>4, <1>5

LEMMA SubInit == Init => SubInv
<1> SUFFICES ASSUME Init PROVE SubInv
  OBVIOUS
<1>1. Elements(<<>>) = {}
  BY DEF Elements
<1>2. HandlerSub /\ QueueSub
  BY <1>1 DEF Init, HandlerSub, QueueSub
<1>3. WriterSub
  BY DEF Init, WriterSub, Directed, Tested
<1>4. MarkSub /\ WireSub
  BY DEF Init, MarkSub, WireSub, Published
<1> QED BY <1>2, <1>3, <1>4 DEF SubInv

(* The sessions of the broker, as far as a subscription concerns them. *)
SessionInv == TypeInv /\ ServeInv /\ IdInv /\ SubInv

LEMMA SessionInvariant == ASSUME ConnectFirst PROVE Spec => []SessionInv
<1>1. Init => SessionInv
  BY TypeInvInit, ServeInit, IdInit, SubInit DEF SessionInv
<1>2. SessionInv /\ [Next]_vars => SessionInv'
  <2> SUFFICES ASSUME SessionInv, [Next]_vars PROVE SessionInv'
    OBVIOUS
  <2>1. TypeInv /\ ServeInv /\ IdInv /\ SubInv
    BY DEF SessionInv
  <2>2. TypeInv'
    BY <2>1, TypeInvInductive
  <2>3. ServeInv'
    BY <2>1, ServeNext
  <2>4. IdInv' /\ IdsKept
    BY <2>1, IdNext
  <2>5. SubInv'
    BY <2>1, <2>4, SubIo, SubWriter, SubDDS DEF Next
  <2> QED BY <2>2, <2>3, <2>4, <2>5 DEF SessionInv
<1> QED BY <1>1, <1>2, PTL DEF Spec

(* Whatever the queues reorder, however many writers and io threads run,    *)
(* and whichever connections break: a PUBLISH is written only to a session  *)
(* whose SUBACK a writer has taken (BrokerMQTTPublisher.h:64-88), and only  *)
(* to clients that asked for it.  Peers send CONNECT first, as MQTT says: a *)
(* SUBSCRIBE before it would put a SUBACK for the empty id into the queue.  *)
THEOREM SubscribersOnly == ASSUME ConnectFirst PROVE Spec => []OnlySubscribers
<1>1. SessionInv => OnlySubscribers
  <2> SUFFICES ASSUME SessionInv, NEW s \in Sessions
               PROVE  /\ Published(s) => sub_requested[s]
                      /\ sub_requested[s] => \E u \in Sessions : sid[u] = sid[s] /\ Asked(u)
    BY DEF OnlySubscribers
  <2>1. sub_requested[s] \in BOOLEAN
    BY DEF SessionInv, TypeInv, TypeOK
  <2>2. Published(s) => sub_requested[s] = TRUE
    BY DEF SessionInv, SubInv, WireSub
  <2>3. sub_requested[s] = TRUE => Entitled(sid[s])
    BY DEF SessionInv, SubInv, MarkSub
  <2> QED BY <2>1, <2>2, <2>3 DEF Entitled
<1> QED BY <1>1, SessionInvariant, PTL

-----------------------------------------------------------------------------
(* SUBACK before PUBLISH *)

WritesSuback(state, s) == state.pc = "write" /\ state.client = s /\ IsSuback(state.task.frame)

(* Only the writers that main started work; one about to write a PUBLISH    *)
(* has tested sub_requested; a session with sub_requested has its SUBACK on *)
(* the wire, or a writer is about to write it, or the connection is lost.   *)
RunInv == \A w \in Writers : wt[w].pc # "idle" => w \in Running
TestedInv == \A w \in Writers : Tested(wt[w], sub_requested)
SubackOut ==
  DeferredWrites = FALSE =>
    \A s \in Sessions : sub_requested[s] = TRUE /\ stage[s] # "dead" =>
      Subscribed(s) \/ \E w \in Writers : WritesSuback(wt[w], s)
FirstInv == RunInv /\ TestedInv /\ SubackOut /\ SubackBeforePublish

SubackFirstOn(frames) ==
  \A i \in 1..Len(frames) :
    frames[i].type = "PUBLISH" => \E j \in 1..(i - 1) : frames[j].type = "SUBACK"

(* One more frame on the wire keeps the order, if it is not the first       *)
(* PUBLISH before any SUBACK.                                               *)
LEMMA WireAppend ==
  ASSUME NEW S, NEW old \in Seq(S), NEW g \in S,
         SubackFirstOn(old),
         g.type = "PUBLISH" => \E j \in 1..Len(old) : old[j].type = "SUBACK"
  PROVE  SubackFirstOn(Append(old, g))
<1> DEFINE now == Append(old, g)
           n == Len(old)
<1>1. Len(now) = n + 1 /\ n \in Nat /\ now[n + 1] = g /\ \A i \in 1..n : now[i] = old[i]
  OBVIOUS
<1> HIDE DEF now, n
<1>2. \A i \in 1..Len(now) : i \in 1..n \/ i = n + 1
  BY <1>1
<1>3. \A i \in 1..n : 1..(i - 1) \subseteq 1..n /\ i \in 1..Len(now)
  BY <1>1
<1>4. SubackFirstOn(now)
  <2> SUFFICES ASSUME NEW i \in 1..Len(now), now[i].type = "PUBLISH"
               PROVE  \E j \in 1..(i - 1) : now[j].type = "SUBACK"
    BY DEF SubackFirstOn
  <2>1. CASE i \in 1..n
    <3>1. PICK j \in 1..(i - 1) : old[j].type = "SUBACK"
      BY <1>1, <2>1 DEF SubackFirstOn, n
    <3> QED BY <1>1, <1>3, <2>1, <3>1
  <2>2. CASE i = n + 1
    <3>1. PICK j \in 1..n : old[j].type = "SUBACK"
      BY <1>1, <2>2 DEF n
    <3>2. 1..(i - 1) = 1..n
      BY <1>1, <2>2
    <3> QED BY <1>1, <3>1, <3>2
  <2> QED BY <1>2, <2>1, <2>2
<1> QED BY <1>4 DEF now

LEMMA AppendSuback ==
  ASSUME NEW S, NEW old \in Seq(S), NEW g \in S,
         (\E j \in 1..Len(old) : old[j].type = "SUBACK") \/ g.type = "SUBACK"
  PROVE  \E j \in 1..Len(Append(old, g)) : Append(old, g)[j].type = "SUBACK"
<1> DEFINE now == Append(old, g)
           n == Len(old)
<1>1. Len(now) = n + 1 /\ n \in Nat /\ now[n + 1] = g /\ \A i \in 1..n : now[i] = old[i]
  OBVIOUS
<1> HIDE DEF now, n
<1>2. n + 1 \in 1..Len(now) /\ 1..n \subseteq 1..Len(now)
  BY <1>1
<1>3. \E j \in 1..Len(now) : now[j].type = "SUBACK"
  BY <1>1, <1>2 DEF n
<1> QED BY <1>3 DEF now

(* A step of writer w that neither writes nor was about to write a SUBACK.  *)
LEMMA FirstUpdate ==
  ASSUME TypeInv, FirstInv, NEW w \in Writers, NEW new, wt' = [wt EXCEPT ![w] = new],
         new.pc # "idle" => w \in Running, Tested(new, sub_requested'),
         \A s \in Sessions : sub_requested[s] = TRUE => sub_requested'[s] = TRUE,
         \A s \in Sessions : sub_requested'[s] = TRUE =>
           sub_requested[s] = TRUE \/ WritesSuback(new, s),
         wt[w].pc # "write" \/ ~IsSuback(wt[w].task.frame),
         UNCHANGED <<env, stage, wire>>
  PROVE  FirstInv'
<1>1. wt \in [Writers -> WriterState]
  BY DEF TypeInv, TypeOK
<1>2. wt'[w] = new /\ \A v \in Writers \ {w} : wt'[v] = wt[v]
  BY <1>1
<1>3. RunInv'
  BY <1>2 DEF FirstInv, RunInv, Running
<1>4. ASSUME NEW v \in Writers PROVE Tested(wt'[v], sub_requested')
  <2>1. CASE v = w
    BY <1>2, <2>1
  <2>2. CASE v # w
    <3>1. Tested(wt[v], sub_requested) /\ (wt[v].pc = "write" => wt[v].client \in Sessions)
      BY DEF FirstInv, TestedInv, TypeInv, WriterInv
    <3> QED BY <1>2, <2>2, <3>1 DEF Tested
  <2> QED BY <2>1, <2>2
<1>5. SubackOut'
  <2> SUFFICES ASSUME DeferredWrites = FALSE, NEW s \in Sessions,
                      sub_requested'[s] = TRUE, stage[s] # "dead"
               PROVE  Subscribed(s) \/ \E v \in Writers : WritesSuback(wt'[v], s)
    BY DEF SubackOut, DeferredWrites, Subscribed
  <2>1. CASE WritesSuback(new, s)
    BY <1>2, <2>1
  <2>2. CASE sub_requested[s] = TRUE
    <3>1. Subscribed(s) \/ \E v \in Writers : WritesSuback(wt[v], s)
      BY <2>2 DEF FirstInv, SubackOut
    <3>2. \A v \in Writers : WritesSuback(wt[v], s) => v # w
      BY DEF WritesSuback
    <3> QED BY <1>2, <3>1, <3>2
  <2> QED BY <2>1, <2>2
<1>6. SubackBeforePublish'
  BY DEF FirstInv, SubackBeforePublish, DeferredWrites, Running
<1> QED BY <1>3, <1>4, <1>5, <1>6 DEF FirstInv, TestedInv

LEMMA FirstAdvance ==
  ASSUME TypeInv, FirstInv, NEW w \in Writers, Advance(w), wt[w].pc # "idle",
         wt[w].pc # "write" \/ ~IsSuback(wt[w].task.frame),
         UNCHANGED <<env, stage, sub_requested, wire>>
  PROVE  FirstInv'
<1>1. wt \in [Writers -> WriterState] /\ wt[w] \in WriterState /\ w \in Running
  BY DEF TypeInv, TypeOK, FirstInv, RunInv
<1> DEFINE pc2 == IF Len(wt[w].targets) > 1 THEN "lookup" ELSE "idle"
           new == [wt[w] EXCEPT !.targets = Tail(@), !.pc = pc2]
<1>2. wt' = [wt EXCEPT ![w] = new]
  BY <1>1 DEF Advance, WriterState
<1>3. new.pc = pc2
  BY <1>1 DEF WriterState
<1> HIDE DEF new
<1>4. Tested(new, sub_requested')
  BY <1>3 DEF Tested
<1> QED BY <1>1, <1>2, <1>4, FirstUpdate

(* The steps of the other threads. *)
LEMMA FirstFrame ==
  ASSUME TypeInv, FirstInv, UNCHANGED <<env, wt, sub_requested, wire>>,
         \A s \in Sessions : stage[s] = "dead" => stage'[s] = "dead"
  PROVE  FirstInv'
<1>1. RunInv' /\ TestedInv'
  BY DEF FirstInv, RunInv, TestedInv, Tested, Running
<1>2. SubackOut'
  BY DEF FirstInv, SubackOut, WritesSuback, IsSuback, DeferredWrites, Subscribed
<1>3. SubackBeforePublish'
  BY DEF FirstInv, SubackBeforePublish, DeferredWrites, Running
<1> QED BY <1>1, <1>2, <1>3 DEF FirstInv

(* A lost connection stays lost. *)
LEMMA DeadStays ==
  ASSUME TypeInv, ServeInv, [Next]_vars, NEW s \in Sessions, stage[s] = "dead"
  PROVE  stage'[s] = "dead"
<1> USE DEF sessionVars, queueVars, ioVars, ddsVars
<1>1. /\ stage \in [Sessions -> {"none", "open", "reading", "busy", "dead"}]
      /\ \A t \in IoThreads : io[t].todo # <<>> => io[t].s \in Sessions
  BY DEF TypeInv, TypeOK, HandlerInv
<1>2. ASSUME NEW t \in IoThreads, IoStep(t) PROVE stage'[s] = "dead"
  <2>1. ASSUME NEW u \in Sessions, Accept(t, u) PROVE stage'[s] = "dead"
    BY <1>1, <2>1 DEF Accept
  <2>2. ASSUME NEW u \in Sessions, Receive(t, u) PROVE stage'[s] = "dead"
    BY <1>1, <2>2, ReceiveFacts
  <2>3. CASE Read(t)
    <3>1. io[t].todo # <<>> /\ Head(io[t].todo).op = "read" /\ stage' = [stage EXCEPT ![io[t].s] = "reading"]
      BY <2>3 DEF Read, NextOp
    <3>2. stage[io[t].s] \in {"open", "busy"}
      BY <1>1, <3>1 DEF ServeInv, Serving
    <3> QED BY <1>1, <3>1, <3>2
  <2>4. CASE \/ Insert(t) \/ Reaccept(t) \/ Identify(t) \/ AddToTopic(t) \/ EnqueueMQTT(t)
             \/ EnqueueDDS(t) \/ PubrelFault(t)
    BY <2>4 DEF Insert, Reaccept, Identify, AddToTopic, EnqueueMQTT, EnqueueDDS, PubrelFault
  <2> QED BY <1>2, <2>1, <2>2, <2>3, <2>4 DEF IoStep
<1>3. CASE ~\E t \in IoThreads : IoStep(t)
  BY <1>1, <1>3, OthersFrame DEF ReadError
<1> QED BY <1>2, <1>3

LEMMA FirstWriter ==
  ASSUME TypeInv, FirstInv, NEW w \in Writers, WriterStep(w)
  PROVE  FirstInv'
<1> USE DEF sessionVars, queueVars, ioVars, ddsVars
<1>1. /\ wt \in [Writers -> WriterState] /\ wt[w] \in WriterState
      /\ sub_requested \in [Sessions -> BOOLEAN]
      /\ wire \in [Sessions -> Seq(Frame \cup {TornFrame})]
      /\ wt[w].pc # "idle" => wt[w].task \in Task /\ w \in Running
      /\ wt[w].pc \in {"decide", "write"} => wt[w].client \in Sessions
  BY DEF TypeInv, TypeOK, WriterInv, FirstInv, RunInv
<1>2. UNCHANGED <<env, stage>>
  BY DEF WriterStep, Dequeue, FindTopic, Lookup, WriterRace, Decide, SendRefused, Send
<1>3. ASSUME NEW new, wt' = [wt EXCEPT ![w] = new], new.pc # "write", w \in Running,
             wt[w].pc # "write", UNCHANGED <<sub_requested, wire>>
      PROVE  FirstInv'
  BY <1>2, <1>3, FirstUpdate DEF Tested
<1>4. CASE Dequeue(w)
  <2>1. PICK p \in {p \in Producers : Nonempty(q, p)} :
          wt' = [wt EXCEPT ![w] =
            IF Head(q[p]).to = Broadcast
            THEN [pc |-> "find", task |-> Head(q[p]), targets |-> <<>>, client |-> 0]
            ELSE [pc |-> "lookup", task |-> Head(q[p]), targets |-> <<Head(q[p]).to>>,
                  client |-> 0]]
    BY <1>4 DEF Dequeue
  <2> DEFINE task == Head(q[p])
             new == IF task.to = Broadcast
                    THEN [pc |-> "find", task |-> task, targets |-> <<>>, client |-> 0]
                    ELSE [pc |-> "lookup", task |-> task, targets |-> <<task.to>>, client |-> 0]
  <2>2. wt' = [wt EXCEPT ![w] = new]
    BY <2>1
  <2>3. w \in Running /\ wt[w].pc = "idle" /\ UNCHANGED <<sub_requested, wire>>
    BY <1>4 DEF Dequeue, At
  <2>4. new.pc \in {"find", "lookup"}
    OBVIOUS
  <2> HIDE DEF new
  <2> QED BY <1>3, <2>2, <2>3, <2>4
<1>5. CASE FindTopic(w)
  <2> DEFINE found == find_topic(Gps)
             new == [wt[w] EXCEPT !.targets = found,
                                  !.pc = IF found = <<>> THEN "idle" ELSE "lookup"]
  <2>1. /\ wt' = [wt EXCEPT ![w] = new] /\ wt[w].pc = "find" /\ w \in Running
        /\ UNCHANGED <<sub_requested, wire>>
    BY <1>1, <1>5 DEF FindTopic, WriterState, At
  <2>2. new.pc \in {"idle", "lookup"}
    BY <1>1 DEF WriterState
  <2> HIDE DEF new
  <2> QED BY <1>3, <2>1, <2>2
<1>6. CASE Lookup(w)
  <2> DEFINE id == TargetId(Head(wt[w].targets))
             new == [wt[w] EXCEPT !.client = get_client(id), !.pc = "decide"]
  <2>1. wt[w].pc = "lookup" /\ w \in Running /\ UNCHANGED <<sub_requested, wire>>
    BY <1>1, <1>6 DEF Lookup, At
  <2>2. CASE Matching(id) = {}
    <3>1. Advance(w)
      BY <1>6, <2>2 DEF Lookup
    <3> QED BY <1>2, <2>1, <3>1, FirstAdvance
  <2>3. CASE Matching(id) # {}
    <3>1. wt' = [wt EXCEPT ![w] = new]
      BY <1>1, <1>6, <2>3 DEF Lookup, WriterState
    <3>2. new.pc = "decide"
      BY <1>1 DEF WriterState
    <3> HIDE DEF new
    <3> QED BY <1>3, <2>1, <3>1, <3>2
  <2> QED BY <2>2, <2>3
<1>7. CASE WriterRace(w)
  <2>1. UNCHANGED <<wt, sub_requested, wire>>
    BY <1>7 DEF WriterRace
  <2> QED BY <1>2, <2>1, FirstFrame
<1>8. CASE Decide(w)
  <2> DEFINE c == wt[w].client
             f == wt[w].task.frame
  <2>1. /\ wt[w].pc = "decide" /\ UNCHANGED wire
        /\ sub_requested' = IF f.type = "SUBACK" THEN [sub_requested EXCEPT ![c] = TRUE]
                            ELSE sub_requested
    BY <1>8 DEF Decide, At
  <2>2. IF ~sub_requested[c] /\ f.type = "PUBLISH"
        THEN Store(w) /\ Advance(w) ELSE UNCHANGED q /\ WriterGoto(w, "write")
    BY <1>8 DEF Decide
  <2>3. c \in Sessions /\ sub_requested[c] \in BOOLEAN
    BY <1>1, <2>1
  <2> HIDE DEF c, f
  <2>4. \A s \in Sessions : sub_requested[s] = TRUE => sub_requested'[s] = TRUE
    BY <1>1, <2>1, <2>3
  <2>5. CASE sub_requested[c] = FALSE /\ f.type = "PUBLISH"
    <3>1. Advance(w) /\ UNCHANGED sub_requested
      BY <2>1, <2>2, <2>5
    <3> QED BY <1>2, <2>1, <3>1, FirstAdvance
  <2>6. CASE ~(sub_requested[c] = FALSE /\ f.type = "PUBLISH")
    <3>1. WriterGoto(w, "write")
      BY <2>2, <2>3, <2>6
    <3> DEFINE new == [wt[w] EXCEPT !.pc = "write"]
    <3>2. wt' = [wt EXCEPT ![w] = new]
      BY <1>1, <3>1 DEF WriterGoto, WriterState
    <3>3. new.client = c /\ new.task = wt[w].task /\ new.pc = "write"
      BY <1>1 DEF WriterState, c
    <3> HIDE DEF new
    <3>4. f.type = "PUBLISH" => sub_requested'[c] = TRUE
      BY <2>3, <2>4, <2>6
    <3>5. Tested(new, sub_requested')
      BY <3>3, <3>4 DEF Tested, f
    <3>6. \A s \in Sessions : sub_requested'[s] = TRUE =>
            sub_requested[s] = TRUE \/ WritesSuback(new, s)
      BY <1>1, <2>1, <2>3, <3>3 DEF WritesSuback, IsSuback, f
    <3> QED BY <1>1, <1>2, <2>1, <2>4, <3>2, <3>5, <3>6, FirstUpdate
  <2> QED BY <2>5, <2>6
<1>9. CASE SendRefused(w)
  <2>1. /\ wt[w].pc = "write" /\ Advance(w) /\ TooLong(wt[w].task.frame)
        /\ UNCHANGED <<sub_requested, wire>>
    BY <1>9 DEF SendRefused, At
  <2>2. ~IsSuback(wt[w].task.frame)
    BY <2>1 DEF TooLong, IsSuback
  <2> QED BY <1>2, <2>1, <2>2, FirstAdvance
<1>10. CASE Send(w)
  <2> DEFINE c == wt[w].client
             f == wt[w].task.frame
             pc2 == IF Len(wt[w].targets) > 1 THEN "lookup" ELSE "idle"
             new == [wt[w] EXCEPT !.targets = Tail(@), !.pc = pc2]
  <2>1. wt[w].pc = "write" /\ Advance(w) /\ UNCHANGED sub_requested
    BY <1>10 DEF Send, At
  <2>2. /\ stage[c] = "dead" => UNCHANGED wire
        /\ stage[c] # "dead" =>
             \E g \in {f} \cup (IF DeferredWrites THEN {TornFrame} ELSE {}) :
               wire' = [wire EXCEPT ![c] = Append(@, g)]
    BY <1>10 DEF Send
  <2>3. c \in Sessions /\ f \in Frame /\ w \in Running
    BY <1>1, <2>1 DEF Task
  <2>4. wt'[w] = new /\ \A v \in Writers \ {w} : wt'[v] = wt[v]
    BY <1>1, <2>1 DEF Advance, WriterState
  <2>5. new.pc = pc2
    BY <1>1 DEF WriterState
  <2>6. f.type = "PUBLISH" => sub_requested[c] = TRUE
    BY <2>1 DEF FirstInv, TestedInv, Tested
  <2> HIDE DEF c, f, new
  <2>7. RunInv' /\ TestedInv'
    <3>1. RunInv'
      BY <1>2, <2>3, <2>4 DEF FirstInv, RunInv, Running
    <3>2. TestedInv'
      BY <2>1, <2>4, <2>5 DEF FirstInv, TestedInv, Tested
    <3> QED BY <3>1, <3>2
  <2>8. ASSUME DeferredWrites = FALSE, stage[c] # "dead"
        PROVE  wire'[c] = Append(wire[c], f) /\ \A s \in Sessions \ {c} : wire'[s] = wire[s]
    <3>1. wire' = [wire EXCEPT ![c] = Append(@, f)]
      BY <2>2, <2>8
    <3> QED BY <1>1, <2>3, <3>1
  <2>9. wire[c] \in Seq(Frame \cup {TornFrame})
    BY <1>1, <2>3
  <2>10. SubackOut'
    <3> SUFFICES ASSUME DeferredWrites = FALSE, NEW s \in Sessions,
                        sub_requested[s] = TRUE, stage[s] # "dead"
                 PROVE  Subscribed(s)' \/ \E v \in Writers : WritesSuback(wt'[v], s)
      <4>1. SubackOut' <=> (DeferredWrites = FALSE =>
               \A s \in Sessions : sub_requested[s] = TRUE /\ stage[s] # "dead" =>
                 Subscribed(s)' \/ \E v \in Writers : WritesSuback(wt'[v], s))
        BY <1>2, <2>1 DEF SubackOut, DeferredWrites, WritesSuback, IsSuback
      <4> QED BY <4>1
    <3>1. Subscribed(s) \/ \E v \in Writers : WritesSuback(wt[v], s)
      BY DEF FirstInv, SubackOut
    <3>2. ASSUME Subscribed(s) \/ (s = c /\ f.type = "SUBACK") PROVE Subscribed(s)'
      <4>1. CASE wire'[s] = wire[s] /\ Subscribed(s)
        BY <4>1 DEF Subscribed
      <4>2. CASE s = c
        <5>1. wire'[c] = Append(wire[c], f)
          BY <2>8, <4>2
        <5>2. (\E j \in 1..Len(wire[c]) : wire[c][j].type = "SUBACK") \/ f.type = "SUBACK"
          BY <3>2, <4>2 DEF Subscribed
        <5>3. \E j \in 1..Len(Append(wire[c], f)) : Append(wire[c], f)[j].type = "SUBACK"
          BY <2>3, <2>9, <5>2, AppendSuback
        <5> QED BY <4>2, <5>1, <5>3, Zenon DEF Subscribed
      <4>3. CASE s # c
        <5>1. wire'[s] = wire[s]
          BY <2>2, <2>8, <4>3
        <5> QED BY <3>2, <4>3, <5>1 DEF Subscribed
      <4> QED BY <4>2, <4>3
    <3>3. ASSUME NEW v \in Writers, WritesSuback(wt[v], s), v = w PROVE s = c /\ f.type = "SUBACK"
      BY <3>3 DEF WritesSuback, IsSuback, c, f
    <3> QED BY <2>4, <3>1, <3>2, <3>3
  <2>11. SubackBeforePublish'
    <3>1. UNCHANGED <<Running, DeferredWrites>>
      BY <1>2 DEF Running, DeferredWrites
    <3>2. SubackBeforePublish' <=> (Cardinality(Running) = 1 /\ ~DeferredWrites =>
            \A s \in Sessions : SubackFirstOn(wire'[s]))
      BY <3>1 DEF SubackBeforePublish, SubackFirstOn
    <3> SUFFICES ASSUME Cardinality(Running) = 1, ~DeferredWrites, NEW s \in Sessions
                 PROVE  SubackFirstOn(wire'[s])
      BY <3>2
    <3>3. DeferredWrites = FALSE
      <4>1. DeferredWrites \in BOOLEAN
        BY EnvironmentsAssumption DEF TypeInv, TypeOK, DeferredWrites
      <4> QED BY <4>1
    <3>4. SubackFirstOn(wire[s])
      BY DEF FirstInv, SubackBeforePublish, SubackFirstOn
    <3>5. CASE stage[c] = "dead" \/ s # c
      BY <2>2, <2>8, <3>3, <3>4, <3>5
    <3>6. CASE stage[c] # "dead" /\ s = c
      <4>1. wire'[c] = Append(wire[c], f)
        BY <2>8, <3>3, <3>6
      <4>2. ASSUME f.type = "PUBLISH" PROVE \E j \in 1..Len(wire[c]) : wire[c][j].type = "SUBACK"
        <5>1. Running = {w}
          <6>1. IsFiniteSet(Running)
            <7>1. Running \subseteq Writers
              BY EnvironmentsAssumption DEF Running, TypeInv, TypeOK
            <7> QED BY <7>1, FinitenessAssumption, FS_Subset
          <6>2. PICK x : Running = {x}
            BY <6>1, FS_Singleton
          <6> QED BY <2>3, <6>2
        <5>2. \A v \in Writers : WritesSuback(wt[v], c) => v = w
          BY <5>1 DEF FirstInv, RunInv, WritesSuback
        <5>3. ~WritesSuback(wt[w], c)
          BY <4>2 DEF WritesSuback, IsSuback, f
        <5>4. Subscribed(c)
          BY <2>3, <2>6, <3>3, <3>6, <4>2, <5>2, <5>3 DEF FirstInv, SubackOut
        <5> QED BY <5>4 DEF Subscribed
      <4>3. SubackFirstOn(wire[c])
        BY <3>4, <3>6
      <4>4. SubackFirstOn(Append(wire[c], f))
        BY <2>3, <2>9, <4>2, <4>3, WireAppend
      <4> QED BY <3>6, <4>1, <4>4
    <3> QED BY <3>5, <3>6
  <2> QED BY <2>7, <2>10, <2>11 DEF FirstInv
<1> QED BY <1>4, <1>5, <1>6, <1>7, <1>8, <1>9, <1>10 DEF WriterStep

LEMMA FirstNext ==
  ASSUME TypeInv, ServeInv, FirstInv, [Next]_vars
  PROVE  FirstInv'
<1> USE DEF sessionVars, queueVars, ioVars, ddsVars
<1>1. CASE \E w \in Writers : WriterStep(w)
  BY <1>1, FirstWriter
<1>2. CASE ~\E w \in Writers : WriterStep(w)
  <2>1. ASSUME NEW t \in IoThreads, NEW s \in Sessions, Receive(t, s)
        PROVE  UNCHANGED <<env, wt, sub_requested, wire>>
    BY <2>1, ReceiveFacts
  <2>2. ASSUME NEW t \in IoThreads, IoStep(t) PROVE UNCHANGED <<env, wt, sub_requested, wire>>
    BY <2>1, <2>2 DEF IoStep, Accept, Insert, Read, Reaccept, Identify, AddToTopic, EnqueueMQTT,
                      EnqueueDDS, PubrelFault
  <2>3. UNCHANGED <<env, wt, sub_requested, wire>>
    BY <1>2, <2>2 DEF Next, vars, MainReturns, ListenerStep, TakeSample, TakeFails, ListenerFind,
         ListenerEnqueue, ListenerRace, ListenerEnd, CountSample, Match, PublishDDS, ReadError
  <2> QED BY <2>3, DeadStays, FirstFrame
<1> QED BY <1>1, <1>2

LEMMA FirstInit == Init => FirstInv
<1> SUFFICES ASSUME Init PROVE FirstInv
  OBVIOUS
<1>1. RunInv /\ TestedInv
  BY DEF Init, RunInv, TestedInv, Tested
<1>2. SubackOut
  BY DEF Init, SubackOut
<1>3. SubackBeforePublish
  BY DEF Init, SubackBeforePublish
<1> QED BY <1>1, <1>2, <1>3 DEF FirstInv

(* With one endpoint writer and writes that complete at once, no client is  *)
(* sent a PUBLISH before its SUBACK, whatever the peers send and however    *)
(* many io threads fill the queue: set_sub_requested and send of            *)
(* BrokerMQTTPublisher.h:67-89 are then one step as far as other tasks are  *)
(* concerned.                                                               *)
THEOREM SubackFirst == Spec => []SubackBeforePublish
<1> DEFINE Inv == TypeInv /\ ServeInv /\ FirstInv
<1>1. Init => Inv
  BY TypeInvInit, ServeInit, FirstInit
<1>2. Inv /\ [Next]_vars => Inv'
  BY TypeInvInductive, ServeNext, FirstNext
<1>3. Inv => SubackBeforePublish
  BY DEF FirstInv
<1> QED BY <1>1, <1>2, <1>3, PTL DEF Spec

=============================================================================
