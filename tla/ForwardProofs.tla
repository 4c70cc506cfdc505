---------------------------- MODULE ForwardProofs -----------------------------
(* Proof that a message reaches DDS once for every packet that makes the    *)
(* broker forward it.                                                       *)
EXTENDS SessionProofs, CountingProofs

-----------------------------------------------------------------------------
(* The history of a session *)

DirectIn(seq, m) ==
  {i \in 1..Len(seq) : seq[i].type = "PUBLISH" /\ seq[i].qos # 2 /\ seq[i].msg = m}

(* The PUBLISH at j is the last packet about id before position n. *)
LastAbout(seq, id, m, j, n) ==
  /\ QoS2(seq[j]) /\ seq[j].id = id /\ seq[j].msg = m
  /\ \A k \in (j + 1)..(n - 1) : ~About(seq[k], id)
StoredIn(seq, id, m) == \E j \in 1..Len(seq) : LastAbout(seq, id, m, j, Len(seq) + 1)
ReleasesIn(seq, m) ==
  {i \in 1..Len(seq) :
     /\ seq[i].type = "PUBREL"
     /\ \E j \in 1..(i - 1) : LastAbout(seq, seq[i].id, m, j, i)}
AcceptedIn(seq, m) == DirectIn(seq, m) \cup ReleasesIn(seq, m)

LEMMA AcceptedHistory == \A s \in Sessions : \A m : Accepted(s, m) = AcceptedIn(rcvd[s], m)
BY DEF Accepted, Direct, Releases, AcceptedIn, DirectIn, ReleasesIn, LastAbout

LEMMA AcceptedFinite ==
  ASSUME NEW seq \in Seq(Packet), NEW m
  PROVE  IsFiniteSet(AcceptedIn(seq, m)) /\ Len(seq) + 1 \notin AcceptedIn(seq, m)
<1>1. IsFiniteSet(1..Len(seq)) /\ Len(seq) \in Nat
  BY FS_Interval
<1>2. AcceptedIn(seq, m) \subseteq 1..Len(seq)
  BY DEF AcceptedIn, DirectIn, ReleasesIn
<1> QED BY <1>1, <1>2, FS_Subset

(* The positions before the last look the same after an Append. *)
LEMMA LastAboutAppend ==
  ASSUME NEW seq \in Seq(Packet), NEW p \in Packet, NEW id, NEW m,
         NEW n \in 1..(Len(seq) + 1), NEW j \in 1..(n - 1)
  PROVE  LastAbout(Append(seq, p), id, m, j, n) <=> LastAbout(seq, id, m, j, n)
<1> DEFINE more == Append(seq, p)
           l == Len(seq)
<1>1. l \in Nat /\ \A i \in 1..l : more[i] = seq[i]
  OBVIOUS
<1>2. n \in 1..(l + 1)
  OBVIOUS
<1> HIDE DEF more, l
<1>3. j \in 1..l /\ \A k \in (j + 1)..(n - 1) : k \in 1..l
  BY <1>1, <1>2
<1>4. more[j] = seq[j] /\ \A k \in (j + 1)..(n - 1) : more[k] = seq[k]
  BY <1>1, <1>3
<1>5. LastAbout(more, id, m, j, n) <=> LastAbout(seq, id, m, j, n)
  BY <1>4 DEF LastAbout
<1> QED BY <1>5 DEF more

(* What a packet adds to the history: it forwards m. *)
Forwards(seq, p, m) ==
  \/ p.type = "PUBLISH" /\ p.qos # 2 /\ p.msg = m
  \/ p.type = "PUBREL" /\ StoredIn(seq, p.id, m)

LEMMA AcceptedAppend ==
  ASSUME NEW seq \in Seq(Packet), NEW p \in Packet, NEW m
  PROVE  /\ Forwards(seq, p, m) =>
              AcceptedIn(Append(seq, p), m) = AcceptedIn(seq, m) \cup {Len(seq) + 1}
         /\ ~Forwards(seq, p, m) => AcceptedIn(Append(seq, p), m) = AcceptedIn(seq, m)
<1> DEFINE more == Append(seq, p)
           n == Len(seq)
<1>1. Len(more) = n + 1 /\ n \in Nat /\ more[n + 1] = p /\ \A i \in 1..n : more[i] = seq[i]
  OBVIOUS
<1>2. \A i \in 1..(n + 1) : \A j \in 1..(i - 1) :
        LastAbout(more, more[i].id, m, j, i) <=> LastAbout(seq, more[i].id, m, j, i)
  BY LastAboutAppend
<1>3. StoredIn(seq, p.id, m) <=> \E j \in 1..n : LastAbout(seq, p.id, m, j, n + 1)
  BY DEF StoredIn
<1>4. /\ DirectIn(seq, m) = {i \in 1..n : seq[i].type = "PUBLISH" /\ seq[i].qos # 2 /\ seq[i].msg = m}
      /\ ReleasesIn(seq, m) = {i \in 1..n : seq[i].type = "PUBREL"
                                 /\ \E j \in 1..(i - 1) : LastAbout(seq, seq[i].id, m, j, i)}
  BY DEF DirectIn, ReleasesIn
<1> HIDE DEF more, n
<1>5. \A i : i \in 1..Len(more) <=> i \in 1..n \/ i = n + 1
  BY <1>1
<1>6. n + 1 \notin 1..n /\ (n + 1) - 1 = n
  BY <1>1
<1>7. \A i \in 1..n : i \in AcceptedIn(more, m) <=> i \in AcceptedIn(seq, m)
  <2> SUFFICES ASSUME NEW i \in 1..n
               PROVE  /\ i \in DirectIn(more, m) <=> i \in DirectIn(seq, m)
                      /\ i \in ReleasesIn(more, m) <=> i \in ReleasesIn(seq, m)
    BY DEF AcceptedIn
  <2>1. i \in 1..Len(more) /\ more[i] = seq[i] /\ i \in 1..(n + 1)
    BY <1>1, <1>5
  <2>2. i \in DirectIn(more, m) <=> i \in DirectIn(seq, m)
    BY <1>4, <2>1 DEF DirectIn
  <2>3. i \in ReleasesIn(more, m) <=> i \in ReleasesIn(seq, m)
    BY <1>2, <1>4, <2>1 DEF ReleasesIn
  <2> QED BY <2>2, <2>3
<1>8. n + 1 \in AcceptedIn(more, m) <=> Forwards(seq, p, m)
  <2>1. n + 1 \in 1..Len(more) /\ n + 1 \in 1..(n + 1)
    BY <1>1, <1>5
  <2>2. n + 1 \in DirectIn(more, m) <=> p.type = "PUBLISH" /\ p.qos # 2 /\ p.msg = m
    BY <1>1, <2>1 DEF DirectIn
  <2>3. n + 1 \in ReleasesIn(more, m) <=>
          p.type = "PUBREL" /\ \E j \in 1..n : LastAbout(more, p.id, m, j, n + 1)
    BY <1>1, <1>6, <2>1 DEF ReleasesIn
  <2>4. \A j \in 1..n : LastAbout(more, p.id, m, j, n + 1) <=> LastAbout(seq, p.id, m, j, n + 1)
    BY <1>1, <1>2, <1>6, <2>1
  <2> QED BY <1>3, <2>2, <2>3, <2>4 DEF AcceptedIn, Forwards
<1>9. AcceptedIn(more, m) \subseteq 1..Len(more) /\ AcceptedIn(seq, m) \subseteq 1..n
  BY <1>4 DEF AcceptedIn, DirectIn, ReleasesIn
<1>10. Forwards(seq, p, m) => AcceptedIn(more, m) = AcceptedIn(seq, m) \cup {n + 1}
  BY <1>5, <1>7, <1>8, <1>9
<1>11. ~Forwards(seq, p, m) => AcceptedIn(more, m) = AcceptedIn(seq, m)
  BY <1>5, <1>7, <1>8, <1>9
<1> QED BY <1>10, <1>11 DEF more, n

LEMMA StoredAppend ==
  ASSUME NEW seq \in Seq(Packet), NEW p \in Packet, NEW id, NEW m
  PROVE  /\ About(p, id) => (StoredIn(Append(seq, p), id, m) <=> QoS2(p) /\ p.msg = m)
         /\ ~About(p, id) => (StoredIn(Append(seq, p), id, m) <=> StoredIn(seq, id, m))
<1> DEFINE more == Append(seq, p)
           n == Len(seq)
<1>1. Len(more) = n + 1 /\ n \in Nat /\ more[n + 1] = p /\ \A i \in 1..n : more[i] = seq[i]
  OBVIOUS
<1>2. StoredIn(seq, id, m) <=> \E j \in 1..n : LastAbout(seq, id, m, j, n + 1)
  BY DEF StoredIn
<1>3. \A j \in 1..((n + 1) - 1) : LastAbout(more, id, m, j, n + 1) <=> LastAbout(seq, id, m, j, n + 1)
  BY LastAboutAppend
<1> HIDE DEF more, n
<1>4. StoredIn(more, id, m) <=> \E j \in 1..(n + 1) : LastAbout(more, id, m, j, (n + 1) + 1)
  BY <1>1 DEF StoredIn
<1>5. \A j \in 1..(n + 1) : j \in 1..n \/ j = n + 1
  BY <1>1
<1>6. LastAbout(more, id, m, n + 1, (n + 1) + 1) <=> About(p, id) /\ QoS2(p) /\ p.msg = m
  <2>1. \A k \in ((n + 1) + 1)..(((n + 1) + 1) - 1) : FALSE
    BY <1>1
  <2> QED BY <1>1, <2>1 DEF LastAbout, About
<1>7. \A j \in 1..n : LastAbout(more, id, m, j, (n + 1) + 1) <=>
                        ~About(p, id) /\ LastAbout(more, id, m, j, n + 1)
  <2> SUFFICES ASSUME NEW j \in 1..n
               PROVE  LastAbout(more, id, m, j, (n + 1) + 1) <=>
                        ~About(p, id) /\ LastAbout(more, id, m, j, n + 1)
    OBVIOUS
  <2>1. \A k : k \in (j + 1)..(((n + 1) + 1) - 1) <=> k \in (j + 1)..((n + 1) - 1) \/ k = n + 1
    BY <1>1
  <2> QED BY <1>1, <2>1 DEF LastAbout
<1>8. n + 1 \in 1..(n + 1) /\ 1..n \subseteq 1..(n + 1) /\ (n + 1) - 1 = n
  BY <1>1
<1>9. StoredIn(more, id, m) <=>
        \/ About(p, id) /\ QoS2(p) /\ p.msg = m
        \/ ~About(p, id) /\ \E j \in 1..n : LastAbout(seq, id, m, j, n + 1)
  BY <1>3, <1>4, <1>5, <1>6, <1>7, <1>8
<1> QED BY <1>2, <1>9 DEF more

-----------------------------------------------------------------------------
(* MQTT_publish_map holds what the history says *)

MapInv ==
  \A s \in Sessions, id \in PacketIds, m \in Msgs :
    publish_map[s][id] = m <=> StoredIn(rcvd[s], id, m)

LEMMA MapReceive ==
  ASSUME TypeInv, MapInv, NEW t \in IoThreads, NEW s \in Sessions, Receive(t, s)
  PROVE  MapInv'
<1> DEFINE p == Arriving(s)
<1>1. /\ p \in Packet
      /\ rcvd \in [Sessions -> Seq(Packet)]
      /\ publish_map \in [Sessions -> [PacketIds -> Msgs \cup {NoMsg}]]
      /\ rcvd' = [rcvd EXCEPT ![s] = Append(@, p)]
      /\ publish_map' = [publish_map EXCEPT ![s] = StoredMessages(@, p)]
  BY ReceiveFacts DEF TypeInv, TypeOK
<1> HIDE DEF p
<1> SUFFICES ASSUME NEW u \in Sessions, NEW id \in PacketIds, NEW m \in Msgs
             PROVE  publish_map'[u][id] = m <=> StoredIn(rcvd'[u], id, m)
  BY DEF MapInv
<1>2. publish_map[u][id] = m <=> StoredIn(rcvd[u], id, m)
  BY DEF MapInv
<1>3. CASE u # s
  BY <1>1, <1>2, <1>3
<1>4. CASE u = s
  <2> DEFINE map == publish_map[s]
  <2>1. map \in [PacketIds -> Msgs \cup {NoMsg}] /\ publish_map'[s] = StoredMessages(map, p)
    BY <1>1
  <2>2. rcvd'[s] = Append(rcvd[s], p) /\ rcvd[s] \in Seq(Packet)
    BY <1>1
  <2>3. map[id] = m <=> StoredIn(rcvd[s], id, m)
    BY <1>2, <1>4
  <2> HIDE DEF map
  <2>4. NoMsg # m
    BY KindsAssumption DEF Contents
  <2>5. CASE QoS2(p)
    <3>1. p.id \in PacketIds /\ StoredMessages(map, p) = [map EXCEPT ![p.id] = p.msg]
      BY <1>1, <2>5, PacketKinds DEF StoredMessages, QoS2
    <3>2. CASE p.id = id
      <4>1. StoredMessages(map, p)[id] = p.msg
        BY <2>1, <3>1, <3>2
      <4>2. About(p, id)
        BY <2>5, <3>2 DEF About
      <4> QED BY <1>1, <1>4, <2>1, <2>2, <2>5, <4>1, <4>2, StoredAppend
    <3>3. CASE p.id # id
      <4>1. StoredMessages(map, p)[id] = map[id]
        BY <2>1, <3>1, <3>3
      <4>2. ~About(p, id)
        BY <3>3 DEF About
      <4> QED BY <1>1, <1>4, <2>1, <2>2, <2>3, <4>1, <4>2, StoredAppend
    <3> QED BY <3>2, <3>3
  <2>6. CASE p.type = "PUBREL"
    <3>1. p.id \in PacketIds /\ StoredMessages(map, p) = [map EXCEPT ![p.id] = NoMsg] /\ ~QoS2(p)
      BY <1>1, <2>6, PacketKinds DEF StoredMessages, QoS2
    <3>2. CASE p.id = id
      <4>1. StoredMessages(map, p)[id] = NoMsg
        BY <2>1, <3>1, <3>2
      <4>2. About(p, id)
        BY <2>6, <3>2 DEF About
      <4> QED BY <1>1, <1>4, <2>1, <2>2, <2>4, <3>1, <4>1, <4>2, StoredAppend
    <3>3. CASE p.id # id
      <4>1. StoredMessages(map, p)[id] = map[id]
        BY <2>1, <3>1, <3>3
      <4>2. ~About(p, id)
        BY <3>3 DEF About
      <4> QED BY <1>1, <1>4, <2>1, <2>2, <2>3, <4>1, <4>2, StoredAppend
    <3> QED BY <3>2, <3>3
  <2>7. CASE ~QoS2(p) /\ p.type # "PUBREL"
    <3>1. StoredMessages(map, p) = map /\ ~About(p, id)
      BY <2>7 DEF StoredMessages, QoS2, About
    <3> QED BY <1>1, <1>4, <2>1, <2>2, <2>3, <3>1, StoredAppend
  <2> QED BY <2>5, <2>6, <2>7
<1> QED BY <1>3, <1>4

-----------------------------------------------------------------------------
(* A handler forwards one message at most *)

OneDDS(todo) ==
  \A i, j \in 1..Len(todo) : todo[i].op = "dds" /\ todo[j].op = "dds" => i = j

LEMMA OneDDSTail ==
  ASSUME NEW S, NEW todo \in Seq(S), todo # <<>>, OneDDS(todo)
  PROVE  OneDDS(Tail(todo))
<1> DEFINE rest == Tail(todo)
<1>1. /\ Len(todo) \in Nat /\ Len(rest) = Len(todo) - 1
      /\ \A i \in 1..Len(rest) : rest[i] = todo[i + 1]
  OBVIOUS
<1> HIDE DEF rest
<1>2. \A i \in 1..Len(rest) : i + 1 \in 1..Len(todo)
  BY <1>1
<1>3. OneDDS(rest)
  <2> SUFFICES ASSUME NEW i \in 1..Len(rest), NEW j \in 1..Len(rest),
                      rest[i].op = "dds" /\ rest[j].op = "dds"
               PROVE  i = j
    BY DEF OneDDS
  <2>1. i + 1 = j + 1
    BY <1>1, <1>2 DEF OneDDS
  <2> QED BY <2>1
<1> QED BY <1>3 DEF rest

(* The only operation of a handler that may forward is the k-th. *)
LEMMA ForwardAt ==
  ASSUME NEW todo \in Seq(Ops), NEW k \in 1..Len(todo), NEW m,
         \A i \in 1..Len(todo) : todo[i].op = "dds" => i = k
  PROVE  /\ OneDDS(todo)
         /\ Count(todo, ToDDS(m)) = IF todo[k] = ToDDS(m) THEN 1 ELSE 0
<1>1. OneDDS(todo)
  BY DEF OneDDS
<1>2. ToDDS(m).op = "dds"
  BY DEF ToDDS
<1>3. CASE todo[k] = ToDDS(m)
  <2>1. Positions(todo, ToDDS(m)) = {k}
    BY <1>2, <1>3 DEF Positions
  <2> QED BY <1>1, <1>3, <2>1, FS_Singleton DEF Count
<1>4. CASE todo[k] # ToDDS(m)
  <2>1. Positions(todo, ToDDS(m)) = {}
    BY <1>2, <1>4 DEF Positions
  <2> QED BY <1>1, <1>4, <2>1, FS_EmptySet DEF Count
<1> QED BY <1>3, <1>4

LEMMA ForwardNowhere ==
  ASSUME NEW todo \in Seq(Ops), NEW m, \A i \in 1..Len(todo) : todo[i].op # "dds"
  PROVE  OneDDS(todo) /\ Count(todo, ToDDS(m)) = 0
<1>1. OneDDS(todo)
  BY DEF OneDDS
<1>2. ToDDS(m).op = "dds"
  BY DEF ToDDS
<1>3. Positions(todo, ToDDS(m)) = {}
  BY <1>2 DEF Positions
<1> QED BY <1>1, <1>3, FS_EmptySet DEF Count

LEMMA PacketForwards ==
  ASSUME NEW p \in Packet, NEW c \in Contents, NEW m
  PROVE  LET todo == message_process(p, c) \o <<Op("read")>> IN
         /\ OneDDS(todo)
         /\ Count(todo, ToDDS(m)) =
              IF (p.type = "PUBREL" /\ c = m) \/ (p.type = "PUBLISH" /\ p.qos # 2 /\ p.msg = m)
              THEN 1 ELSE 0
<1> DEFINE todo == message_process(p, c) \o <<Op("read")>>
<1>1. todo \in Seq(Ops)
  BY MessageProcessType
<1>2. \A type, x : ToClient(type, x).op = "ack" /\ ToAll(x).op = "publish" /\ ToDDS(x).op = "dds"
  BY DEF ToClient, ToAll, ToDDS
<1>3. \A x : SetId(x).op = "setid" /\ Subscribe(x).op = "subscribe" /\ Op("read").op = "read"
  BY DEF SetId, Subscribe, Op
<1>4. \A x : ToDDS(x) = ToDDS(m) <=> x = m
  BY DEF ToDDS
<1>5. \A i \in 1..4 : i = 1 \/ i = 2 \/ i = 3 \/ i = 4
  OBVIOUS
<1>6. \A i \in 1..3 : i = 1 \/ i = 2 \/ i = 3
  OBVIOUS
<1>7. \A i \in 1..2 : i = 1 \/ i = 2
  OBVIOUS
<1>8. CASE p.type = "PUBREL"
  <2>1. todo = <<ToClient("PUBCOMP", p.id), ToDDS(c), ToAll(c), Op("read")>>
    BY <1>8, PacketTodo
  <2> HIDE DEF todo
  <2>2. Len(todo) = 4 /\ todo[2] = ToDDS(c)
    BY <2>1
  <2>3. todo[1].op # "dds" /\ todo[3].op # "dds" /\ todo[4].op # "dds"
    BY <1>2, <1>3, <2>1
  <2>4. \A i \in 1..Len(todo) : todo[i].op = "dds" => i = 2
    BY <1>5, <2>2, <2>3
  <2>5. 2 \in 1..Len(todo)
    BY <2>2
  <2>6. OneDDS(todo) /\ Count(todo, ToDDS(m)) = IF todo[2] = ToDDS(m) THEN 1 ELSE 0
    BY <1>1, <2>4, <2>5, ForwardAt
  <2> QED BY <1>4, <1>8, <2>2, <2>6 DEF todo
<1>9. CASE p.type = "PUBLISH" /\ p.qos = 0
  <2>1. todo = <<ToAll(p.msg), ToDDS(p.msg), Op("read")>>
    BY <1>9, PacketTodo
  <2> HIDE DEF todo
  <2>2. Len(todo) = 3 /\ todo[2] = ToDDS(p.msg)
    BY <2>1
  <2>3. todo[1].op # "dds" /\ todo[3].op # "dds"
    BY <1>2, <1>3, <2>1
  <2>4. \A i \in 1..Len(todo) : todo[i].op = "dds" => i = 2
    BY <1>6, <2>2, <2>3
  <2>5. 2 \in 1..Len(todo)
    BY <2>2
  <2>6. OneDDS(todo) /\ Count(todo, ToDDS(m)) = IF todo[2] = ToDDS(m) THEN 1 ELSE 0
    BY <1>1, <2>4, <2>5, ForwardAt
  <2> QED BY <1>4, <1>9, <2>2, <2>6 DEF todo
<1>10. CASE p.type = "PUBLISH" /\ p.qos = 1
  <2>1. todo = <<ToClient("PUBACK", p.id), ToAll(p.msg), ToDDS(p.msg), Op("read")>>
    BY <1>10, PacketTodo
  <2> HIDE DEF todo
  <2>2. Len(todo) = 4 /\ todo[3] = ToDDS(p.msg)
    BY <2>1
  <2>3. todo[1].op # "dds" /\ todo[2].op # "dds" /\ todo[4].op # "dds"
    BY <1>2, <1>3, <2>1
  <2>4. \A i \in 1..Len(todo) : todo[i].op = "dds" => i = 3
    BY <1>5, <2>2, <2>3
  <2>5. 3 \in 1..Len(todo)
    BY <2>2
  <2>6. OneDDS(todo) /\ Count(todo, ToDDS(m)) = IF todo[3] = ToDDS(m) THEN 1 ELSE 0
    BY <1>1, <2>4, <2>5, ForwardAt
  <2> QED BY <1>4, <1>10, <2>2, <2>6 DEF todo
<1>11. ASSUME p.type # "PUBREL", ~(p.type = "PUBLISH" /\ p.qos # 2)
       PROVE  \A i \in 1..Len(todo) : todo[i].op # "dds"
  <2>1. CASE p.type = "CONNECT"
    <3>1. todo = <<SetId(p.client), ToClient("CONNACK", 0), Op("read")>>
      BY <2>1, PacketTodo
    <3> HIDE DEF todo
    <3>2. Len(todo) = 3 /\ todo[1].op # "dds" /\ todo[2].op # "dds" /\ todo[3].op # "dds"
      BY <1>2, <1>3, <3>1
    <3> QED BY <1>6, <3>2
  <2>2. CASE p.type = "SUBSCRIBE"
    <3>1. todo = <<Subscribe(p.topic), ToClient("SUBACK", 0), Op("read")>>
      BY <2>2, PacketTodo
    <3> HIDE DEF todo
    <3>2. Len(todo) = 3 /\ todo[1].op # "dds" /\ todo[2].op # "dds" /\ todo[3].op # "dds"
      BY <1>2, <1>3, <3>1
    <3> QED BY <1>6, <3>2
  <2>3. CASE p.type = "PUBREC"
    <3>1. todo = <<ToClient("PUBREL", p.id), Op("read")>>
      BY <2>3, PacketTodo
    <3> HIDE DEF todo
    <3>2. Len(todo) = 2 /\ todo[1].op # "dds" /\ todo[2].op # "dds"
      BY <1>2, <1>3, <3>1
    <3> QED BY <1>7, <3>2
  <2>4. CASE p.type = "PUBLISH" /\ p.qos = 2
    <3>1. todo = <<ToClient("PUBREC", p.id), Op("read")>>
      BY <2>4, PacketTodo
    <3> HIDE DEF todo
    <3>2. Len(todo) = 2 /\ todo[1].op # "dds" /\ todo[2].op # "dds"
      BY <1>2, <1>3, <3>1
    <3> QED BY <1>7, <3>2
  <2>5. CASE p.type \notin {"CONNECT", "SUBSCRIBE", "PUBREC", "PUBREL", "PUBLISH"}
    <3>1. todo = <<Op("read")>>
      BY <2>5, PacketTodo
    <3> HIDE DEF todo
    <3>2. Len(todo) = 1 /\ todo[1].op # "dds"
      BY <1>3, <3>1
    <3> QED BY <3>2
  <2> QED BY <1>11, <2>1, <2>2, <2>3, <2>4, <2>5
<1>12. CASE p.type # "PUBREL" /\ ~(p.type = "PUBLISH" /\ p.qos # 2)
  <2> HIDE DEF todo
  <2>1. OneDDS(todo) /\ Count(todo, ToDDS(m)) = 0
    BY <1>1, <1>11, <1>12, ForwardNowhere
  <2> QED BY <1>12, <2>1 DEF todo
<1>13. p.type = "PUBLISH" => p.qos \in 0..2
  BY PacketKinds
<1> QED BY <1>8, <1>9, <1>10, <1>12, <1>13

-----------------------------------------------------------------------------
(* What is forwarded *)

(* For message m: the packets that forward it, and where it waits. *)
Accepting(m) == [s \in Sessions |-> Accepted(s, m)]
Handled(m) == [t \in IoThreads |-> Positions(io[t].todo, ToDDS(m))]
Queued(m) == [p \in DDSProducers |-> Positions(dq[p], m)]

Balance(m) == Total(Accepting(m)) = Count(ddsOut, m) + (Total(Handled(m)) + Total(Queued(m)))
Counted == Msgs \ Elements(SampleSeq)

ForwardInv ==
  /\ MapInv
  /\ \A t \in IoThreads : OneDDS(io[t].todo)
  /\ \A m \in Counted : up = TRUE \/ m \notin Malformed => Balance(m)

LEMMA TotalsNat ==
  ASSUME TypeInv, NEW m
  PROVE  /\ Total(Accepting(m)) \in Nat /\ Total(Handled(m)) \in Nat
         /\ Total(Queued(m)) \in Nat /\ Count(ddsOut, m) \in Nat
<1>1. /\ rcvd \in [Sessions -> Seq(Packet)] /\ dq \in [DDSProducers -> Seq(Contents)]
      /\ ddsOut \in Seq(Contents) /\ \A t \in IoThreads : io[t].todo \in Seq(Ops)
  BY DEF TypeInv, TypeOK, Handler
<1>2. \A s \in Sessions : IsFiniteSet(Accepting(m)[s])
  BY <1>1, AcceptedHistory, AcceptedFinite DEF Accepting
<1>3. \A t \in IoThreads : IsFiniteSet(Handled(m)[t])
  BY <1>1, PositionsFinite DEF Handled
<1>4. \A p \in DDSProducers : IsFiniteSet(Queued(m)[p])
  BY <1>1, PositionsFinite DEF Queued
<1>5. IsFiniteSet(DDSProducers)
  BY FinitenessAssumption, FS_AddElement DEF DDSProducers
<1>6. DOMAIN Accepting(m) = Sessions /\ DOMAIN Handled(m) = IoThreads /\ DOMAIN Queued(m) = DDSProducers
  BY DEF Accepting, Handled, Queued
<1>7. Total(Accepting(m)) \in Nat /\ Total(Handled(m)) \in Nat /\ Total(Queued(m)) \in Nat
  BY <1>2, <1>3, <1>4, <1>5, <1>6, FinitenessAssumption, PairsFinite
<1> QED BY <1>1, <1>7, PositionsFinite

(* A step of thread t changes what is forwarded by what it does to t's      *)
(* handler, ...                                                             *)
LEMMA HandledStep ==
  ASSUME TypeInv, TypeInv', NEW t \in IoThreads, NEW m,
         \A u \in IoThreads \ {t} : io'[u] = io[u]
  PROVE  /\ Total(Handled(m))' \in Nat
         /\ Total(Handled(m))' + Count(io[t].todo, ToDDS(m))
              = Total(Handled(m)) + Count(io'[t].todo, ToDDS(m))
<1> DEFINE f == [u \in IoThreads |-> Positions(io[u].todo, ToDDS(m))]
           g == [u \in IoThreads |-> Positions(io'[u].todo, ToDDS(m))]
<1>1. \A u \in IoThreads : io[u].todo \in Seq(Ops) /\ io'[u].todo \in Seq(Ops)
  BY DEF TypeInv, TypeOK, Handler
<1>2. \A u \in IoThreads : IsFiniteSet(f[u]) /\ IsFiniteSet(g[u])
  BY <1>1, PositionsFinite
<1>3. \A u \in IoThreads \ {t} : g[u] = f[u]
  OBVIOUS
<1>4. /\ Cardinality(f[t]) = Count(io[t].todo, ToDDS(m))
      /\ Cardinality(g[t]) = Count(io'[t].todo, ToDDS(m))
      /\ DOMAIN f = IoThreads /\ DOMAIN g = IoThreads
  BY DEF Count
<1>5. Handled(m) = f /\ Handled(m)' = g
  BY DEF Handled, ToDDS
<1> HIDE DEF f, g
<1>6. Total(g) \in Nat /\ Total(g) + Cardinality(f[t]) = Total(f) + Cardinality(g[t])
  BY <1>2, <1>3, <1>4, FinitenessAssumption, TotalUpdate
<1>7. Total(Handled(m))' = Total(g)
  BY <1>5
<1> QED BY <1>4, <1>5, <1>6, <1>7

(* ... to one producer's part of the DDS queue, ...                         *)
LEMMA QueuedStep ==
  ASSUME TypeInv, TypeInv', NEW p \in DDSProducers, NEW m,
         \A r \in DDSProducers \ {p} : dq'[r] = dq[r]
  PROVE  /\ Total(Queued(m))' \in Nat
         /\ Total(Queued(m))' + Count(dq[p], m) = Total(Queued(m)) + Count(dq'[p], m)
<1> DEFINE f == [r \in DDSProducers |-> Positions(dq[r], m)]
           g == [r \in DDSProducers |-> Positions(dq'[r], m)]
<1>1. \A r \in DDSProducers : dq[r] \in Seq(Contents) /\ dq'[r] \in Seq(Contents)
  BY DEF TypeInv, TypeOK
<1>2. \A r \in DDSProducers : IsFiniteSet(f[r]) /\ IsFiniteSet(g[r])
  BY <1>1, PositionsFinite
<1>3. \A r \in DDSProducers \ {p} : g[r] = f[r]
  OBVIOUS
<1>4. /\ Cardinality(f[p]) = Count(dq[p], m) /\ Cardinality(g[p]) = Count(dq'[p], m)
      /\ DOMAIN f = DDSProducers /\ DOMAIN g = DDSProducers
  BY DEF Count
<1>5. Queued(m) = f /\ Queued(m)' = g
  BY DEF Queued
<1>6. IsFiniteSet(DDSProducers)
  BY FinitenessAssumption, FS_AddElement DEF DDSProducers
<1> HIDE DEF f, g
<1>7. Total(g) \in Nat /\ Total(g) + Cardinality(f[p]) = Total(f) + Cardinality(g[p])
  BY <1>2, <1>3, <1>4, <1>6, TotalUpdate
<1>8. Total(Queued(m))' = Total(g)
  BY <1>5
<1> QED BY <1>4, <1>5, <1>7, <1>8

(* ... and to one session's history.                                        *)
LEMMA AcceptingStep ==
  ASSUME TypeInv, TypeInv', NEW s \in Sessions, NEW p \in Packet, NEW m,
         rcvd' = [rcvd EXCEPT ![s] = Append(@, p)]
  PROVE  Total(Accepting(m))' =
           Total(Accepting(m)) + (IF Forwards(rcvd[s], p, m) THEN 1 ELSE 0)
<1> DEFINE f == [u \in Sessions |-> AcceptedIn(rcvd[u], m)]
           g == [u \in Sessions |-> AcceptedIn(rcvd'[u], m)]
<1>1. rcvd \in [Sessions -> Seq(Packet)] /\ rcvd' \in [Sessions -> Seq(Packet)]
  BY DEF TypeInv, TypeOK
<1>2. rcvd'[s] = Append(rcvd[s], p) /\ \A u \in Sessions \ {s} : rcvd'[u] = rcvd[u]
  BY <1>1
<1>3. \A u \in Sessions : IsFiniteSet(f[u]) /\ IsFiniteSet(g[u])
  BY <1>1, AcceptedFinite
<1>4. /\ \A u \in Sessions \ {s} : g[u] = f[u]
      /\ f[s] = AcceptedIn(rcvd[s], m) /\ g[s] = AcceptedIn(Append(rcvd[s], p), m)
      /\ DOMAIN f = Sessions /\ DOMAIN g = Sessions
  BY <1>2
<1>5. Accepting(m) = f /\ Accepting(m)' = g
  <2>1. \A u \in Sessions : Accepted(u, m)' = AcceptedIn(rcvd'[u], m)
    BY AcceptedHistory DEF AcceptedIn, DirectIn, ReleasesIn, LastAbout, QoS2, About,
       Accepted, Direct, Releases
  <2> QED BY <2>1, AcceptedHistory DEF Accepting
<1>6. Len(rcvd[s]) + 1 \notin f[s]
  BY <1>1, <1>4, AcceptedFinite
<1>7. /\ Forwards(rcvd[s], p, m) => g[s] = f[s] \cup {Len(rcvd[s]) + 1}
      /\ ~Forwards(rcvd[s], p, m) => g[s] = f[s]
  BY <1>1, <1>4, AcceptedAppend
<1> HIDE DEF f, g
<1>8. /\ Total(f) \in Nat /\ Total(g) \in Nat
      /\ Total(g) + Cardinality(f[s]) = Total(f) + Cardinality(g[s])
  BY <1>3, <1>4, FinitenessAssumption, TotalUpdate
<1>9. Cardinality(f[s]) \in Nat
  BY <1>3, FS_CardinalityType
<1>10. Forwards(rcvd[s], p, m) => Cardinality(g[s]) = Cardinality(f[s]) + 1
  BY <1>3, <1>6, <1>7, FS_AddElement
<1>11. Total(g) = Total(f) + (IF Forwards(rcvd[s], p, m) THEN 1 ELSE 0)
  BY <1>7, <1>8, <1>9, <1>10
<1>12. Total(Accepting(m))' = Total(g)
  BY <1>5
<1> QED BY <1>5, <1>11, <1>12

(* A step that leaves a part alone leaves its total alone. *)
LEMMA ForwardSame ==
  ASSUME NEW m
  PROVE  /\ rcvd' = rcvd => Total(Accepting(m))' = Total(Accepting(m))
         /\ io' = io => Total(Handled(m))' = Total(Handled(m))
         /\ dq' = dq => Total(Queued(m))' = Total(Queued(m))
         /\ ddsOut' = ddsOut => Count(ddsOut, m)' = Count(ddsOut, m)
<1>1. rcvd' = rcvd => Accepting(m)' = Accepting(m)
  BY DEF Accepting, Accepted, Direct, Releases, QoS2, About
<1>2. io' = io => Handled(m)' = Handled(m)
  BY DEF Handled, Positions, ToDDS
<1>3. dq' = dq => Queued(m)' = Queued(m)
  BY DEF Queued, Positions
<1>4. \A a, b : a = b => Total(a) = Total(b)
  OBVIOUS
<1>5. ddsOut' = ddsOut => Count(ddsOut, m)' = Count(ddsOut, m)
  BY DEF Count, Positions
<1> QED BY <1>1, <1>2, <1>3, <1>4, <1>5 DEF Total

(* Accepting a packet: its handler forwards what the history now counts. *)
LEMMA ReceiveForwards ==
  ASSUME TypeInv, MapInv, NEW t \in IoThreads, NEW s \in Sessions, Receive(t, s), NEW m \in Msgs
  PROVE  /\ OneDDS(Handling(s))
         /\ Count(Handling(s), ToDDS(m)) = IF Forwards(rcvd[s], Arriving(s), m) THEN 1 ELSE 0
<1> DEFINE p == Arriving(s)
           c == Content(s)
<1>1. p \in Packet /\ c \in Contents
  BY ReceiveFacts
<1>2. p.type = "PUBREL" => (c = m <=> StoredIn(rcvd[s], p.id, m))
  <2> SUFFICES ASSUME p.type = "PUBREL" PROVE c = m <=> publish_map[s][p.id] = m
    BY <1>1, PacketKinds DEF MapInv
  <2>1. NoMsg # m /\ Garbage # m
    BY KindsAssumption DEF Contents
  <2> QED BY <2>1 DEF Content, Found
<1>3. Handling(s) = message_process(p, c) \o <<Op("read")>>
  BY DEF Handling
<1> HIDE DEF p, c
<1>4. /\ OneDDS(Handling(s))
      /\ Count(Handling(s), ToDDS(m)) =
           IF (p.type = "PUBREL" /\ c = m) \/ (p.type = "PUBLISH" /\ p.qos # 2 /\ p.msg = m)
           THEN 1 ELSE 0
  BY <1>1, <1>3, PacketForwards
<1>5. (p.type = "PUBREL" /\ c = m) \/ (p.type = "PUBLISH" /\ p.qos # 2 /\ p.msg = m)
        <=> Forwards(rcvd[s], p, m)
  BY <1>2 DEF Forwards
<1> QED BY <1>4, <1>5 DEF p

LEMMA ForwardIo ==
  ASSUME TypeInv, TypeInv', ServeInv, ForwardInv, NEW t \in IoThreads, IoStep(t)
  PROVE  ForwardInv'
<1> USE DEF sessionVars, queueVars, ioVars, ddsVars
<1>1. /\ up = TRUE /\ env' = env /\ ddsOut' = ddsOut
      /\ io \in [IoThreads -> Handler] /\ dq \in [DDSProducers -> Seq(Contents)]
      /\ \A u \in IoThreads : io[u].todo \in Seq(Ops) /\ io'[u].todo \in Seq(Ops)
  <2>1. up /\ env' = env /\ ddsOut' = ddsOut
    BY DEF IoStep, Accept, Receive, Insert, Read, Reaccept, Identify, AddToTopic,
       EnqueueMQTT, EnqueueDDS, PubrelFault, Idle, NextOp
  <2> QED BY <2>1 DEF TypeInv, TypeOK, Handler
<1>2. Counted' = Counted
  BY <1>1 DEF Counted, SampleSeq, Elements
<1>3. \A m \in Counted : Balance(m)
  BY <1>1 DEF ForwardInv
<1>4. MapInv /\ \A u \in IoThreads : OneDDS(io[u].todo)
  BY DEF ForwardInv
<1>5. ASSUME rcvd' = rcvd, publish_map' = publish_map
      PROVE  MapInv'
  BY <1>4, <1>5 DEF MapInv, StoredIn, LastAbout, QoS2, About
<1>6. \A m : /\ Total(Accepting(m)) \in Nat /\ Total(Handled(m)) \in Nat
             /\ Total(Queued(m)) \in Nat /\ Count(ddsOut, m) \in Nat
  BY TotalsNat
<1>7. ASSUME NEW m \in Counted, Total(Handled(m))' \in Nat,
             Total(Accepting(m))' = (Total(Accepting(m)) + Total(Handled(m))') - Total(Handled(m)),
             Total(Queued(m))' = Total(Queued(m))
      PROVE  Balance(m)'
  <2>1. Balance(m) /\ Count(ddsOut, m)' = Count(ddsOut, m)
    BY <1>1, <1>3, ForwardSame
  <2> QED BY <1>6, <1>7, <2>1 DEF Balance
<1>8. ASSUME MapInv', \A u \in IoThreads : OneDDS(io'[u].todo), \A m \in Counted : Balance(m)'
      PROVE  ForwardInv'
  BY <1>2, <1>8 DEF ForwardInv
<1>9. \A m : ToDDS(m).op = "dds" /\ ToDDS(m).msg = m
  BY DEF ToDDS
<1>10. ASSUME NEW s \in Sessions, Accept(t, s) PROVE ForwardInv'
  <2> DEFINE todo == <<Op("insert"), Op("read"), Op("accept")>>
  <2>1. /\ io' = [io EXCEPT ![t] = [s |-> s, todo |-> todo]] /\ io[t].todo = <<>>
        /\ rcvd' = rcvd /\ publish_map' = publish_map /\ dq' = dq
    BY <1>10 DEF Accept, Idle
  <2>2. Len(todo) = 3 /\ todo[1].op # "dds" /\ todo[2].op # "dds" /\ todo[3].op # "dds"
    BY DEF Op
  <2> HIDE DEF todo
  <2>3. io'[t].todo = todo /\ \A u \in IoThreads \ {t} : io'[u] = io[u]
    BY <1>1, <2>1
  <2>4. \A i \in 1..Len(todo) : todo[i].op # "dds"
    <3>1. \A i \in 1..3 : i = 1 \/ i = 2 \/ i = 3
      OBVIOUS
    <3> QED BY <2>2, <3>1
  <2>5. todo \in Seq(Ops)
    BY <1>1, <2>3
  <2>6. \A m : OneDDS(todo) /\ Count(todo, ToDDS(m)) = 0
    BY <2>4, <2>5, ForwardNowhere
  <2>7. \A u \in IoThreads : OneDDS(io'[u].todo)
    BY <1>4, <2>3, <2>6
  <2>8. ASSUME NEW m \in Counted PROVE Balance(m)'
    <3>1. Total(Handled(m))' \in Nat /\ Total(Handled(m))' + 0 = Total(Handled(m)) + 0
      BY <2>1, <2>3, <2>6, HandledStep, CountEmpty
    <3>2. Total(Accepting(m))' = Total(Accepting(m)) /\ Total(Queued(m))' = Total(Queued(m))
      BY <2>1, ForwardSame
    <3>3. Total(Accepting(m))' = (Total(Accepting(m)) + Total(Handled(m))') - Total(Handled(m))
      BY <1>6, <3>1, <3>2
    <3> QED BY <1>7, <3>1, <3>2, <3>3
  <2> QED BY <1>5, <1>8, <2>1, <2>7, <2>8
<1>11. ASSUME NEW s \in Sessions, Receive(t, s) PROVE ForwardInv'
  <2>1. /\ io[t].todo = <<>> /\ io' = [io EXCEPT ![t] = [s |-> s, todo |-> Handling(s)]]
        /\ rcvd' = [rcvd EXCEPT ![s] = Append(@, Arriving(s))] /\ Arriving(s) \in Packet
        /\ dq' = dq
    BY <1>11, ReceiveFacts
  <2>2. io'[t].todo = Handling(s) /\ \A u \in IoThreads \ {t} : io'[u] = io[u]
    BY <1>1, <2>1
  <2>3. \A m \in Msgs :
          /\ OneDDS(Handling(s))
          /\ Count(Handling(s), ToDDS(m)) = IF Forwards(rcvd[s], Arriving(s), m) THEN 1 ELSE 0
    BY <1>4, <1>11, ReceiveForwards
  <2>4. OneDDS(Handling(s))
    <3>1. Arriving(s) \in Packet /\ Content(s) \in Contents
      BY <1>11, ReceiveFacts
    <3> QED BY <3>1, PacketForwards DEF Handling
  <2>5. \A u \in IoThreads : OneDDS(io'[u].todo)
    BY <1>4, <2>2, <2>4
  <2>6. ASSUME NEW m \in Counted PROVE Balance(m)'
    <3> DEFINE one == IF Forwards(rcvd[s], Arriving(s), m) THEN 1 ELSE 0
    <3>1. m \in Msgs
      BY DEF Counted
    <3>2. Total(Handled(m))' \in Nat /\ Total(Handled(m))' + 0 = Total(Handled(m)) + one
      BY <2>1, <2>2, <2>3, <3>1, HandledStep, CountEmpty
    <3>3. Total(Accepting(m))' = Total(Accepting(m)) + one
      BY <2>1, AcceptingStep
    <3>4. one \in Nat
      OBVIOUS
    <3> HIDE DEF one
    <3>5. Total(Accepting(m))' = (Total(Accepting(m)) + Total(Handled(m))') - Total(Handled(m))
      BY <1>6, <3>2, <3>3, <3>4
    <3>6. Total(Queued(m))' = Total(Queued(m))
      BY <2>1, ForwardSame
    <3> QED BY <1>7, <3>2, <3>5, <3>6
  <2> QED BY <1>4, <1>8, <1>11, <2>5, <2>6, MapReceive
<1>12. ASSUME io[t].todo # <<>>, Done(t)
       PROVE  /\ \A u \in IoThreads : OneDDS(io'[u].todo)
              /\ \A m : /\ Total(Handled(m))' \in Nat
                        /\ Total(Handled(m)) = Total(Handled(m))'
                                 + (IF ToDDS(m) = Head(io[t].todo) THEN 1 ELSE 0)
  <2>1. /\ io'[t].todo = Tail(io[t].todo) /\ io[t].todo \in Seq(Ops)
        /\ \A u \in IoThreads \ {t} : io'[u] = io[u]
    BY <1>12, DoneFacts
  <2>2. \A u \in IoThreads : OneDDS(io'[u].todo)
    BY <1>4, <1>12, <2>1, OneDDSTail
  <2>3. ASSUME NEW m
        PROVE  /\ Total(Handled(m))' \in Nat
               /\ Total(Handled(m)) = Total(Handled(m))'
                      + (IF ToDDS(m) = Head(io[t].todo) THEN 1 ELSE 0)
    <3>1. /\ Total(Handled(m))' \in Nat
          /\ Total(Handled(m))' + Count(io[t].todo, ToDDS(m))
               = Total(Handled(m)) + Count(Tail(io[t].todo), ToDDS(m))
      BY <2>1, HandledStep
    <3>2. Count(io[t].todo, ToDDS(m)) = Count(Tail(io[t].todo), ToDDS(m))
                                          + (IF ToDDS(m) = Head(io[t].todo) THEN 1 ELSE 0)
      BY <1>12, <2>1, CountTail
    <3>3. Count(Tail(io[t].todo), ToDDS(m)) \in Nat
      BY <1>1, <2>1, PositionsFinite
    <3> QED BY <1>6, <3>1, <3>2, <3>3
  <2> QED BY <2>2, <2>3
<1>13. ASSUME io[t].todo # <<>>, Head(io[t].todo).op # "dds", Done(t),
              rcvd' = rcvd, publish_map' = publish_map, dq' = dq
       PROVE  ForwardInv'
  <2>1. ASSUME NEW m \in Counted PROVE Balance(m)'
    <3>1. Total(Handled(m))' \in Nat /\ Total(Handled(m)) = Total(Handled(m))'
      <4>1. ToDDS(m) # Head(io[t].todo)
        BY <1>9, <1>13
      <4> QED BY <1>12, <1>13, <4>1
    <3>2. Total(Accepting(m))' = Total(Accepting(m)) /\ Total(Queued(m))' = Total(Queued(m))
      BY <1>13, ForwardSame
    <3> QED BY <1>6, <1>7, <3>1, <3>2
  <2> QED BY <1>5, <1>8, <1>12, <1>13, <2>1
<1>14. CASE Insert(t)
  BY <1>13, <1>14 DEF Insert, NextOp
<1>15. CASE Read(t)
  BY <1>13, <1>15 DEF Read, NextOp
<1>16. CASE Reaccept(t)
  BY <1>13, <1>16 DEF Reaccept, NextOp
<1>17. CASE Identify(t)
  BY <1>13, <1>17 DEF Identify, NextOp
<1>18. CASE AddToTopic(t)
  BY <1>13, <1>18 DEF AddToTopic, NextOp
<1>19. CASE EnqueueMQTT(t)
  BY <1>13, <1>19 DEF EnqueueMQTT, NextOp
<1>20. CASE EnqueueDDS(t)
  <2> DEFINE h == Head(io[t].todo)
  <2>1. /\ io[t].todo # <<>> /\ h.op = "dds" /\ Done(t)
        /\ rcvd' = rcvd /\ publish_map' = publish_map
        /\ dq' = [dq EXCEPT ![t] = Append(@, h.msg)]
    BY <1>20 DEF EnqueueDDS, NextOp, Enqueue
  <2>2. h \in Ops
    BY <2>1, DoneFacts
  <2>3. h.msg \in Contents
    BY <2>1, <2>2, OpKinds
  <2>4. \A m : ToDDS(m) = h <=> m = h.msg
    BY <2>1, <2>2 DEF Ops, ToDDS
  <2>5. t \in DDSProducers
    BY DEF DDSProducers
  <2> HIDE DEF h
  <2>6. dq'[t] = Append(dq[t], h.msg) /\ \A r \in DDSProducers \ {t} : dq'[r] = dq[r]
    BY <1>1, <2>1, <2>5
  <2>7. ASSUME NEW m \in Counted PROVE Balance(m)'
    <3> DEFINE one == IF m = h.msg THEN 1 ELSE 0
    <3>1. Total(Handled(m))' \in Nat /\ Total(Handled(m)) = Total(Handled(m))' + one
      BY <1>12, <2>1, <2>4 DEF h
    <3>2. /\ Total(Queued(m))' \in Nat
          /\ Total(Queued(m))' + Count(dq[t], m) = Total(Queued(m)) + Count(dq'[t], m)
      BY <2>5, <2>6, QueuedStep
    <3>3. Count(dq'[t], m) = Count(dq[t], m) + one /\ Count(dq[t], m) \in Nat
      BY <1>1, <2>3, <2>5, <2>6, CountAppend, PositionsFinite
    <3>4. one \in Nat
      OBVIOUS
    <3> HIDE DEF one
    <3>5. Total(Queued(m))' = Total(Queued(m)) + one
      BY <1>6, <3>2, <3>3, <3>4
    <3>6. /\ Total(Accepting(m))' = Total(Accepting(m)) /\ Count(ddsOut, m)' = Count(ddsOut, m)
          /\ Balance(m)
      BY <1>1, <1>3, <2>1, ForwardSame
    <3> QED BY <1>6, <3>1, <3>2, <3>4, <3>5, <3>6 DEF Balance
  <2> QED BY <1>5, <1>8, <1>12, <2>1, <2>7
<1>21. CASE PubrelFault(t)
  <2>1. /\ io[t].todo # <<>> /\ Head(io[t].todo).op = "dds" /\ Head(io[t].todo).msg = Garbage
        /\ rcvd' = rcvd /\ publish_map' = publish_map /\ dq' = dq
        /\ io' = io \/ io' = [io EXCEPT ![t].todo = <<Op("read")>>]
    BY <1>21 DEF PubrelFault, NextOp
  <2>2. CASE io' = io
    <3>1. ASSUME NEW m \in Counted PROVE Balance(m)'
      <4>1. Total(Accepting(m))' = Total(Accepting(m)) /\ Total(Queued(m))' = Total(Queued(m))
              /\ Total(Handled(m))' = Total(Handled(m))
        BY <2>1, <2>2, ForwardSame
      <4> QED BY <1>6, <1>7, <4>1
    <3> QED BY <1>4, <1>5, <1>8, <2>1, <2>2, <3>1
  <2>3. CASE io' = [io EXCEPT ![t].todo = <<Op("read")>>]
    <3> DEFINE old == io[t].todo
               new == <<Op("read")>>
    <3>1. io'[t].todo = new /\ \A u \in IoThreads \ {t} : io'[u] = io[u]
      BY <1>1, <2>3 DEF Handler
    <3>2. Len(new) = 1 /\ new[1].op # "dds"
      BY DEF Op
    <3>3. old \in Seq(Ops) /\ old # <<>> /\ OneDDS(old)
      BY <1>1, <1>4, <2>1
    <3>4. 1 \in 1..Len(old) /\ old[1] = Head(io[t].todo)
      BY <3>3
    <3> HIDE DEF new, old
    <3>5. new \in Seq(Ops)
      BY <1>1, <3>1
    <3>6. \A m : OneDDS(new) /\ Count(new, ToDDS(m)) = 0
      BY <3>2, <3>5, ForwardNowhere
    <3>7. \A i \in 1..Len(old) : old[i].op = "dds" => i = 1
      BY <2>1, <3>3, <3>4 DEF OneDDS
    <3>8. \A m \in Msgs : Count(old, ToDDS(m)) = 0
      <4>1. \A m \in Msgs : old[1] # ToDDS(m)
        BY <1>9, <2>1, <3>4, KindsAssumption
      <4> QED BY <3>3, <3>4, <3>7, <4>1, ForwardAt
    <3>9. \A u \in IoThreads : OneDDS(io'[u].todo)
      BY <1>4, <3>1, <3>6
    <3>10. ASSUME NEW m \in Counted PROVE Balance(m)'
      <4>1. m \in Msgs
        BY DEF Counted
      <4>2. Total(Handled(m))' \in Nat /\ Total(Handled(m))' + 0 = Total(Handled(m)) + 0
        BY <3>1, <3>6, <3>8, <4>1, HandledStep DEF old
      <4>3. Total(Accepting(m))' = Total(Accepting(m)) /\ Total(Queued(m))' = Total(Queued(m))
        BY <2>1, ForwardSame
      <4> QED BY <1>6, <1>7, <4>2, <4>3
    <3> QED BY <1>5, <1>8, <2>1, <3>9, <3>10
  <2> QED BY <2>1, <2>2, <2>3
<1> QED BY <1>10, <1>11, <1>14, <1>15, <1>16, <1>17, <1>18, <1>19, <1>20, <1>21 DEF IoStep

(* The handlers and the histories stay: what is left to show is the sum of  *)
(* the DDS queue and of what is written.                                    *)
LEMMA ForwardFrame ==
  ASSUME TypeInv, ForwardInv, UNCHANGED <<env, io, rcvd, publish_map>>,
         \A m \in Counted : up' = TRUE \/ m \notin Malformed =>
            /\ up = TRUE \/ m \notin Malformed
            /\ Count(ddsOut, m)' \in Nat /\ Total(Queued(m))' \in Nat
            /\ Count(ddsOut, m)' + Total(Queued(m))' = Count(ddsOut, m) + Total(Queued(m))
  PROVE  ForwardInv'
<1>1. Counted' = Counted
  BY DEF Counted, SampleSeq, Elements
<1>2. MapInv'
  BY DEF ForwardInv, MapInv, StoredIn, LastAbout, QoS2, About
<1>3. \A t \in IoThreads : OneDDS(io'[t].todo)
  BY DEF ForwardInv
<1>4. ASSUME NEW m \in Counted, up' = TRUE \/ m \notin Malformed PROVE Balance(m)'
  <2>1. Balance(m)
    BY <1>4 DEF ForwardInv
  <2>2. /\ Total(Accepting(m)) \in Nat /\ Total(Handled(m)) \in Nat
        /\ Total(Queued(m)) \in Nat /\ Count(ddsOut, m) \in Nat
    BY TotalsNat
  <2>3. Total(Accepting(m))' = Total(Accepting(m)) /\ Total(Handled(m))' = Total(Handled(m))
    BY ForwardSame
  <2>4. /\ Count(ddsOut, m)' \in Nat /\ Total(Queued(m))' \in Nat
        /\ Count(ddsOut, m)' + Total(Queued(m))' = Count(ddsOut, m) + Total(Queued(m))
    BY <1>4
  <2> QED BY <2>1, <2>2, <2>3, <2>4 DEF Balance
<1> QED BY <1>1, <1>2, <1>3, <1>4 DEF ForwardInv

LEMMA ForwardPublish ==
  ASSUME TypeInv, TypeInv', ForwardInv, PublishDDS
  PROVE  ForwardInv'
<1> USE DEF sessionVars, queueVars, ioVars, ddsVars
<1>1. PICK p \in DDSProducers :
        /\ dq[p] # <<>> /\ dq' = [dq EXCEPT ![p] = Tail(@)]
        /\ IF Head(dq[p]) \in Malformed \cup {Garbage}
           THEN Crash /\ UNCHANGED ddsOut
           ELSE ddsOut' = Append(ddsOut, Head(dq[p])) /\ UNCHANGED up
  BY DEF PublishDDS, Nonempty, Dequeued
<1>2. up = TRUE /\ UNCHANGED <<env, io, rcvd, publish_map>>
  BY DEF PublishDDS, TypeInv, TypeOK
<1>3. dq \in [DDSProducers -> Seq(Contents)] /\ ddsOut \in Seq(Contents) /\ Head(dq[p]) \in Contents
  BY <1>1 DEF TypeInv, TypeOK
<1>4. dq'[p] = Tail(dq[p]) /\ \A r \in DDSProducers \ {p} : dq'[r] = dq[r]
  BY <1>1, <1>3
<1> SUFFICES ASSUME NEW m \in Counted, up' = TRUE \/ m \notin Malformed
             PROVE  /\ Count(ddsOut, m)' \in Nat /\ Total(Queued(m))' \in Nat
                    /\ Count(ddsOut, m)' + Total(Queued(m))' = Count(ddsOut, m) + Total(Queued(m))
  BY <1>2, ForwardFrame
<1> DEFINE one == IF m = Head(dq[p]) THEN 1 ELSE 0
<1>5. /\ Total(Queued(m))' \in Nat
      /\ Total(Queued(m))' + Count(dq[p], m) = Total(Queued(m)) + Count(dq'[p], m)
  BY <1>4, QueuedStep
<1>6. Count(dq[p], m) = Count(dq'[p], m) + one /\ Count(dq'[p], m) \in Nat
  <2>1. Tail(dq[p]) \in Seq(Contents)
    BY <1>1, <1>3
  <2> QED BY <1>1, <1>3, <1>4, <2>1, CountTail, PositionsFinite
<1>7. Total(Queued(m)) \in Nat /\ Count(ddsOut, m) \in Nat
  BY TotalsNat
<1>8. one \in Nat
  OBVIOUS
<1>9. Count(ddsOut, m)' = Count(ddsOut, m) + one
  <2>1. CASE Head(dq[p]) \in Malformed \cup {Garbage}
    <3>1. m # Head(dq[p])
      BY <1>1, <2>1, KindsAssumption DEF Crash, Counted
    <3>2. Count(ddsOut, m)' = Count(ddsOut, m)
      BY <1>1, <2>1, ForwardSame
    <3> QED BY <1>7, <3>1, <3>2
  <2>2. CASE Head(dq[p]) \notin Malformed \cup {Garbage}
    <3>1. ddsOut' = Append(ddsOut, Head(dq[p]))
      BY <1>1, <2>2
    <3>2. Count(Append(ddsOut, Head(dq[p])), m) = Count(ddsOut, m) + one
      BY <1>3, CountAppend
    <3>3. Count(ddsOut, m)' = Count(ddsOut', m)
      BY DEF Count, Positions
    <3> QED BY <3>1, <3>2, <3>3
  <2> QED BY <2>1, <2>2
<1> HIDE DEF one
<1> QED BY <1>5, <1>6, <1>7, <1>8, <1>9

LEMMA ForwardSample ==
  ASSUME TypeInv, TypeInv', ForwardInv, TakeSample
  PROVE  ForwardInv'
<1> USE DEF sessionVars, queueVars, ioVars, ddsVars
<1> DEFINE k == lst.taken + 1
           x == SampleSeq[k]
<1>1. /\ UNCHANGED <<env, up, io, rcvd, publish_map, ddsOut>>
      /\ dq' = [dq EXCEPT ![Listener] = Append(@, x)] /\ lst.taken < Len(SampleSeq)
  BY DEF TakeSample, Enqueue
<1>2. /\ dq \in [DDSProducers -> Seq(Contents)] /\ lst.taken \in Nat /\ SampleSeq \in Seq(Msgs)
  BY EnvironmentsAssumption DEF TypeInv, TypeOK, ListenerState, SampleSeq
<1>3. k \in 1..Len(SampleSeq)
  BY <1>1, <1>2
<1>4. x \in Contents /\ x \in Elements(SampleSeq) /\ Listener \in DDSProducers
  BY <1>2, <1>3 DEF Contents, Elements, DDSProducers
<1> HIDE DEF x, k
<1>5. dq'[Listener] = Append(dq[Listener], x) /\ \A r \in DDSProducers \ {Listener} : dq'[r] = dq[r]
  BY <1>1, <1>2, <1>4
<1> SUFFICES ASSUME NEW m \in Counted
             PROVE  /\ Count(ddsOut, m)' \in Nat /\ Total(Queued(m))' \in Nat
                    /\ Count(ddsOut, m)' + Total(Queued(m))' = Count(ddsOut, m) + Total(Queued(m))
  BY <1>1, ForwardFrame
<1>6. /\ Total(Queued(m))' \in Nat
      /\ Total(Queued(m))' + Count(dq[Listener], m) = Total(Queued(m)) + Count(dq'[Listener], m)
  BY <1>4, <1>5, QueuedStep
<1>7. m # x
  BY <1>4 DEF Counted
<1>8. Count(dq'[Listener], m) = Count(dq[Listener], m) /\ Count(dq[Listener], m) \in Nat
  BY <1>2, <1>4, <1>5, <1>7, CountAppend, PositionsFinite
<1>9. Total(Queued(m)) \in Nat /\ Count(ddsOut, m) \in Nat /\ Count(ddsOut, m)' = Count(ddsOut, m)
  BY <1>1, TotalsNat, ForwardSame
<1> QED BY <1>6, <1>8, <1>9

LEMMA ForwardNext ==
  ASSUME TypeInv, TypeInv', ServeInv, ForwardInv, [Next]_vars
  PROVE  ForwardInv'
<1> USE DEF sessionVars, queueVars, ioVars, ddsVars
<1>1. ASSUME UNCHANGED <<env, io, rcvd, publish_map, dq, ddsOut>>, up = TRUE \/ up' = up
      PROVE  ForwardInv'
  <2>1. \A m : /\ Total(Queued(m)) \in Nat /\ Count(ddsOut, m) \in Nat
               /\ Total(Queued(m))' = Total(Queued(m)) /\ Count(ddsOut, m)' = Count(ddsOut, m)
    BY <1>1, TotalsNat, ForwardSame
  <2> QED BY <1>1, <2>1, ForwardFrame
<1>2. CASE \E t \in IoThreads : IoStep(t)
  BY <1>2, ForwardIo
<1>3. ASSUME NEW s \in Sessions, ReadError(s) PROVE ForwardInv'
  BY <1>1, <1>3 DEF ReadError
<1>4. ASSUME NEW w \in Writers, WriterStep(w) PROVE ForwardInv'
  <2>1. UNCHANGED <<env, io, rcvd, publish_map, dq, ddsOut>> /\ (up \/ up' = up)
    BY <1>4 DEF WriterStep, Dequeue, FindTopic, Lookup, WriterRace, Decide, SendRefused, Send, At
  <2> QED BY <1>1, <2>1 DEF TypeInv, TypeOK
<1>5. CASE ListenerStep
  <2>1. CASE TakeSample
    BY <2>1, ForwardSample
  <2>2. ASSUME ~TakeSample
        PROVE  UNCHANGED <<env, io, rcvd, publish_map, dq, ddsOut>> /\ (up \/ up' = up)
    BY <1>5, <2>2 DEF ListenerStep, TakeFails, ListenerFind, ListenerEnqueue, ListenerRace,
       ListenerEnd, CountSample, ListenerAt
  <2> QED BY <1>1, <2>1, <2>2 DEF TypeInv, TypeOK
<1>6. CASE Match
  BY <1>1, <1>6 DEF Match
<1>7. CASE PublishDDS
  BY <1>7, ForwardPublish
<1>8. CASE MainReturns
  BY <1>1, <1>8 DEF MainReturns, TypeInv, TypeOK
<1>9. CASE UNCHANGED vars
  BY <1>1, <1>9 DEF vars
<1> QED BY <1>2, <1>3, <1>4, <1>5, <1>6, <1>7, <1>8, <1>9 DEF Next

LEMMA ForwardInit == Init => ForwardInv
<1> SUFFICES ASSUME Init PROVE ForwardInv
  OBVIOUS
<1>1. /\ \A s \in Sessions : rcvd[s] = <<>>
      /\ \A t \in IoThreads : io[t].todo = <<>>
      /\ \A p \in DDSProducers : dq[p] = <<>>
      /\ ddsOut = <<>>
      /\ \A s \in Sessions, id \in PacketIds : publish_map[s][id] = NoMsg
  BY DEF Init
<1>2. MapInv
  <2>1. \A id, m : ~StoredIn(<<>>, id, m)
    BY DEF StoredIn
  <2>2. NoMsg \notin Msgs
    BY KindsAssumption DEF Contents
  <2> QED BY <1>1, <2>1, <2>2 DEF MapInv
<1>3. \A t \in IoThreads : OneDDS(io[t].todo)
  <2>1. OneDDS(<<>>)
    BY DEF OneDDS
  <2> QED BY <1>1, <2>1
<1>4. ASSUME NEW m PROVE Balance(m)
  <2>1. \A s \in Sessions : Accepted(s, m) = {}
    <3>1. AcceptedIn(<<>>, m) = {}
      BY DEF AcceptedIn, DirectIn, ReleasesIn
    <3> QED BY <1>1, <3>1, AcceptedHistory
  <2>2. Total(Accepting(m)) = 0
    BY <2>1, TotalEmpty DEF Accepting
  <2>3. Total(Handled(m)) = 0
    BY <1>1, TotalEmpty, CountEmpty DEF Handled
  <2>4. Total(Queued(m)) = 0
    BY <1>1, TotalEmpty, CountEmpty DEF Queued
  <2>5. Count(ddsOut, m) = 0
    BY <1>1, CountEmpty
  <2> QED BY <2>2, <2>3, <2>4, <2>5 DEF Balance
<1> QED BY <1>2, <1>3, <1>4 DEF ForwardInv

(* A message is written to DDS, or waits for it in a handler or in          *)
(* DDS_message_queue, exactly as often as packets asked the broker to       *)
(* forward it: once for each PUBLISH of QoS 0 or 1, once for each PUBREL    *)
(* that completes a QoS 2 exchange (MQTTSession.cpp:400-430, 471-579,       *)
(* BrokerPublisher.cpp:75-101).  No number of sessions, io threads or       *)
(* repeated packets and no fault of a handler changes that; a malformed     *)
(* message is only lost with the process.                                   *)
THEOREM ForwardedExactlyOnce == Spec => []ForwardedOnce
<1> DEFINE Inv == TypeInv /\ ServeInv /\ ForwardInv
<1>1. Init => Inv
  BY TypeInvInit, ServeInit, ForwardInit
<1>2. Inv /\ [Next]_vars => Inv'
  <2> SUFFICES ASSUME TypeInv, ServeInv, ForwardInv, [Next]_vars PROVE Inv'
    OBVIOUS
  <2>1. TypeInv'
    BY TypeInvInductive
  <2>2. ServeInv'
    BY ServeNext
  <2>3. ForwardInv'
    BY <2>1, ForwardNext
  <2> QED BY <2>1, <2>2, <2>3
<1>3. Inv => ForwardedOnce
  <2> SUFFICES ASSUME Inv, NEW m \in Msgs \ Elements(SampleSeq), up \/ m \notin Malformed
               PROVE  Total([s \in Sessions |-> Accepted(s, m)]) = Count(ddsOut, m) + ToDDSPending(m)
    BY DEF ForwardedOnce
  <2>1. up = TRUE \/ m \notin Malformed
    BY DEF TypeInv, TypeOK
  <2>2. Balance(m)
    BY <2>1 DEF ForwardInv, Counted
  <2> QED BY <2>2 DEF Balance, Accepting, Handled, Queued, ToDDSPending
<1> QED BY <1>1, <1>2, <1>3, PTL DEF Spec

=============================================================================
