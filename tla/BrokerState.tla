----------------------------- MODULE BrokerState -----------------------------
(***************************************************************************)
(* What the threads of the broker process share: the set of MQTT sessions,  *)
(* the topic list, the two moodycamel queues, and the peers at the other    *)
(* end of the sockets.  MQTTSession, BrokerMQTTPublisher and DDSBridge      *)
(* extend this module with the steps of their threads; Broker composes      *)
(* them.                                                                    *)
(***************************************************************************)
EXTENDS Integers, FiniteSets, QueueOps

CONSTANTS
  Sessions,       \* MQTTSession objects; the number is the object's address
  IoThreads,      \* threads in io_service.run()
  Writers,        \* BrokerMQTTPublisher::broker_endpoint_writer
  Listener,       \* the OpenDDS thread that calls on_data_available
  Clients,        \* client ids
  NoClient,       \* the empty id of a session that has not seen CONNECT
  Broadcast,      \* the client id "-99"
  Topics, Gps,    \* topic names; the one the broker distributes
  PacketIds,      \* MQTT packet identifiers
  Msgs,           \* application messages, MQTT payloads and DDS samples
  NoMsg,          \* no entry in MQTT_publish_map
  Garbage,        \* contents read through a dangling pointer or iterator
  Malformed,      \* messages whose payload is not a Vehicle_GPS document
  Oversize,       \* messages whose PUBLISH packet exceeds 1024 bytes
  Environments,   \* the ways the peers may behave, see Script below
  StartsAfter,    \* StartsAfter[x]: sessions SUBACKed before x starts
  MaxRetained,    \* max_retain_queue_message_count
  MaxWire         \* bound: frames written to one socket

Producers == IoThreads \cup Writers \cup {Listener}
DDSProducers == IoThreads \cup {Listener}
Ids == Clients \cup {NoClient}
Contents == Msgs \cup {Garbage}

(* A frame is what a writer thread sends to a peer: its packet type, and    *)
(* the packet identifier or the message that tells it apart.                *)
Frame == [type : {"CONNACK", "SUBACK"}, arg : {0}]
           \cup [type : {"PUBACK", "PUBREC", "PUBREL", "PUBCOMP"}, arg : PacketIds]
           \cup [type : {"PUBLISH"}, arg : Contents]
TornFrame == [type |-> "TORN", arg |-> Garbage]

(* What a peer sends. *)
Packet == [type : {"CONNECT"}, client : Clients]
            \cup [type : {"SUBSCRIBE"}, topic : Topics]
            \cup [type : {"PUBLISH"}, qos : 0..2, id : PacketIds, msg : Msgs]
            \cup [type : {"PUBACK", "PUBREC", "PUBREL", "PUBCOMP"}, id : PacketIds]
            \cup [type : {"OTHER"}]

(* MQTT_task: an encoded packet and the id of the client it is for. *)
Task == [to : Ids \cup {Broadcast}, frame : Frame]
PublishTask(to, m) == [to |-> to, frame |-> [type |-> "PUBLISH", arg |-> m]]
AckTask(to, type, id) == [to |-> to, frame |-> [type |-> type, arg |-> id]]

ASSUME KindsAssumption ==
  /\ Sessions \subseteq Nat
  /\ Sessions \cap (Ids \cup {Broadcast}) = {}
  /\ Broadcast \notin Ids /\ NoClient \notin Clients
  /\ NoMsg \notin Contents /\ Garbage \notin Msgs /\ Gps \in Topics
  /\ Listener \notin IoThreads \cup Writers /\ IoThreads \cap Writers = {}
ASSUME EnvironmentsAssumption ==
  \A e \in Environments :
    /\ e.script \in [Sessions -> Seq(Packet)]
    /\ e.losable \subseteq Sessions
    /\ e.maxChunk \in Nat
    /\ e.samples \in Seq(Msgs)
    /\ e.writers \subseteq Writers
    /\ e.deferred \in BOOLEAN
ASSUME ScriptAssumption ==
  StartsAfter \in [Sessions \cup {Listener} -> SUBSET Sessions]
ASSUME BoundsAssumption ==
  MaxRetained \in Nat /\ MaxWire \in Nat
ASSUME FinitenessAssumption ==
  IsFiniteSet(Sessions) /\ IsFiniteSet(IoThreads) /\ IsFiniteSet(Writers)

VARIABLES
  env,            \* the environment this behaviour runs in
  up,             \* FALSE once the process has exited or crashed
  \* MQTTSession objects and the peers of their sockets
  stage,          \* "none", "open", "reading", "busy", or "dead" socket
  clients,        \* mqtt_clients: the sessions kept alive by shared_ptr
  sid,            \* sid[s]: connected_client.get_id()
  sub_requested,  \* sub_requested[s]: SUBACK handed to the socket
  publish_map,    \* publish_map[s]: MQTT_publish_map
  next,           \* next[s]: position in Script[s] of the next packet
  rcvd,           \* rcvd[s]: history, the packets message_process handled
  wire,           \* wire[s]: history, the frames written to the peer
  \* BROKER_CONFIGURATION
  topic_list,     \* topic_list[n]: mqtt_client_sessions, raw pointers
  \* the queues: FIFO per producer thread only
  q,              \* MQTT_broker_task_queue
  dq,             \* DDS_message_queue
  \* threads
  io,             \* io[t]: what io thread t still has to do, and for whom
  accepting,      \* an async_accept is outstanding
  wt,             \* wt[w]: endpoint writer w
  lst,            \* the listener thread
  retained,       \* retained_message_count
  matched,        \* Broker_Publisher has seen a matching DDS reader
  ddsOut          \* history, the messages written to DDS

sessionVars == <<stage, clients, sid, sub_requested, publish_map, next, rcvd, wire>>
queueVars == <<q, dq>>
ioVars == <<io, accepting>>
ddsVars == <<lst, retained, matched, ddsOut>>
vars == <<env, up, sessionVars, topic_list, queueVars, ioVars, wt, ddsVars>>

Script == env.script      \* Script[s]: the packets the peer of s sends, in order
Losable == env.losable    \* sessions whose connection may break
MaxChunk == env.maxChunk  \* bound: packets that TCP delivers in one receive
SampleSeq == env.samples  \* the samples the DDS reader receives, in order
Running == env.writers    \* the endpoint writers that main starts (argv[6])
DeferredWrites == env.deferred   \* async_write may outlive the buffer it was given

-----------------------------------------------------------------------------

(* BROKER_CONFIGURATION::find_topic(name).mqtt_client_sessions *)
find_topic(name) == topic_list[name]

(* BROKER_CONFIGURATION::add_mqtt_client_to_topic: push_back, no test for a *)
(* session that is already there.                                           *)
add_mqtt_client_to_topic(name, s) == [topic_list EXCEPT ![name] = Append(@, s)]

(* BrokerMQTTPublisher::get_client walks a std::set of pointers: of the     *)
(* sessions with that id it finds the one at the lowest address.            *)
MatchingSubscribed(id) == {s \in clients : sid[s] = id /\ sub_requested[s]}
Matching(id) == {s \in clients : sid[s] = id}
get_client(id) == CHOOSE s \in Matching(id) : \A u \in Matching(id) : s <= u

(* An io thread is in, or about to enter, a write of shared state that      *)
(* other threads read without a lock.  A read meanwhile sees the old or the *)
(* new value, or takes the process down.                                    *)
Racing(ops) == \E t \in IoThreads : io[t].todo # <<>> /\ Head(io[t].todo).op \in ops

Crash == up' = FALSE

(* The peers of x's environment start once these sessions are subscribed. *)
Subscribed(s) == \E i \in 1..Len(wire[s]) : wire[s][i].type = "SUBACK"
Started(x) == \A s \in StartsAfter[x] : Subscribed(s)

Init ==
  /\ env \in Environments
  /\ up = TRUE
  /\ stage = [s \in Sessions |-> "none"]
  /\ clients = {}
  /\ sid = [s \in Sessions |-> NoClient]
  /\ sub_requested = [s \in Sessions |-> FALSE]
  /\ publish_map = [s \in Sessions |-> [i \in PacketIds |-> NoMsg]]
  /\ next = [s \in Sessions |-> 1]
  /\ rcvd = [s \in Sessions |-> <<>>]
  /\ wire = [s \in Sessions |-> <<>>]
  /\ topic_list = [n \in Topics |-> <<>>]
  /\ q = [p \in Producers |-> <<>>]
  /\ dq = [p \in DDSProducers |-> <<>>]
  /\ io = [t \in IoThreads |-> [s |-> 0, todo |-> <<>>]]
  /\ accepting = TRUE
  /\ wt = [w \in Writers |-> [pc |-> "idle", task |-> <<>>, targets |-> <<>>, client |-> 0]]
  /\ lst = [pc |-> "idle", targets |-> <<>>, taken |-> 0]
  /\ retained = 0
  /\ matched = FALSE
  /\ ddsOut = <<>>

=============================================================================
