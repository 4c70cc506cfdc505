------------------------------ MODULE MCBroker -------------------------------
(* Instances of Broker for TLC: what the peers send, what DDS delivers and  *)
(* who waits for whom.  Threads, client ids and messages are model values.  *)
EXTENDS Broker, TLC

CONSTANTS a, b, m1, m2

Con(c) == [type |-> "CONNECT", client |-> c]
Sub == [type |-> "SUBSCRIBE", topic |-> Gps]
Pub(qos, id, m) == [type |-> "PUBLISH", qos |-> qos, id |-> id, msg |-> m]
Ack(type, id) == [type |-> type, id |-> id]

Peers(script, losable, chunk) ==
  [script |-> script, losable |-> losable, maxChunk |-> chunk,
   samples |-> <<>>, writers |-> Writers, deferred |-> FALSE]

NobodyWaits == [x \in Sessions \cup {Listener} |-> {}]

(* io threads run the same code, and so do writers. *)
Symmetry == Permutations(IoThreads) \cup Permutations(Writers)

(* A QoS 2 publisher that repeats its PUBLISH and its PUBREL. *)
RepeatScript == <<<<Con(a), Pub(2, 1, m1), Pub(2, 1, m1), Ack("PUBREL", 1),
                    Ack("PUBREL", 1)>>, <<>>>>

(* Two clients use the same packet identifier for different messages. *)
SameIdScript == <<<<Con(a), Pub(2, 1, m1), Ack("PUBREL", 1)>>,
                  <<Con(b), Pub(2, 1, m2), Ack("PUBREL", 1)>>>>

(* A client publishes while another one subscribes. *)
SubscribeScript == <<<<Con(a), Sub>>, <<Con(b), Pub(1, 1, m1)>>>>

(* The same, with two messages in a row and the subscriber's QoS 2 answers. *)
OrderScript == <<<<Con(a), Sub, Ack("PUBREC", 1), Ack("PUBCOMP", 1)>>,
                 <<Con(b), Pub(0, 1, m1), Pub(1, 1, m2), [type |-> "OTHER"]>>>>

(* The publisher connects, and samples arrive, once session 1 is subscribed. *)
SubscriberFirst == [x \in Sessions \cup {Listener} |-> IF x = 1 THEN {} ELSE {1}]

(* A client reconnects and releases over the new connection. *)
ReconnectScript == <<<<Con(a), Pub(2, 1, m1)>>, <<Con(a), Ack("PUBREL", 1)>>>>

(* The ways in which QoS 2 exchanges overlap: TCP may join the repeated     *)
(* packets, and the client that reconnects may lose its first connection.   *)
QoS2Peers == {Peers(RepeatScript, {}, 2), Peers(SameIdScript, {}, 1),
              Peers(ReconnectScript, {1}, 1)}

(* Two samples for two subscribers, and one writer.  The second sample is   *)
(* neither a GPS document nor short enough to be sent.                      *)
TwoSubscribersScript == <<<<Con(a), Sub>>, <<Con(b), Sub>>>>
SamplesPeers == {[Peers(TwoSubscribersScript, {}, 1) EXCEPT !.samples = <<m1, m2>>, !.writers = {w}] :
                 w \in Writers}

(* A publisher, and a subscriber whose connection may break. *)
SubscribePeers == SamplesPeers \cup
  {[Peers(SubscribeScript, {1}, 1) EXCEPT !.deferred = TRUE]}
OrderPeers == {Peers(OrderScript, {}, 1)}

(* Two subscribers and a publisher. *)
PublishToTwoScript == <<<<Con(a), Sub>>, <<Con(b), Sub, Pub(0, 1, m1)>>>>

PublishToTwoPeers == {Peers(PublishToTwoScript, {}, 1)}

ASSUME PeersConnectFirst == ConnectFirst

=============================================================================
