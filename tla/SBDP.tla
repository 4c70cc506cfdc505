-------------------------------- MODULE SBDP ---------------------------------
(***************************************************************************)
(* Broker discovery: SBDPBuiltinEndpointDataWriter announces the broker on  *)
(* a multicast group every two seconds, SBDPBuiltinEndpointDataReader adds  *)
(* the brokers it hears of to alt_broker_list.  Datagrams are lost,         *)
(* repeated and reordered; processes end and are started again              *)
(* (BrokerParticipant.tla).                                                 *)
(***************************************************************************)
EXTENDS Integers, Sequences, FiniteSets

CONSTANTS
  Brokers,        \* broker processes
  Main,           \* those started with broker_trigger # 0; the others are alternative
  Announcements,  \* bound: Announcements[b] instead of the 50 of message_count_ < 50
  MaxFaults       \* bound: datagrams lost or repeated, calls that fail or time out,
                  \* threads that wake up without a notification

ASSUME MainAssumption == Main \subseteq Brokers
ASSUME BoundsAssumption ==
  Announcements \in [Brokers -> Nat \ {0}] /\ MaxFaults \in Nat

-----------------------------------------------------------------------------
(* BrokerConfigurationSet.h.  BROKER_CONFIG is also an empty macro, so that *)
(* BROKER_ID alone names this constant in every process.                    *)
BROKER_ID == "RSU_NY_UNIT_001"
BROKER_ALT_ID == "RSU_NY_UNIT_002"
BROKER_PORT == 32888

(* The port that main() listens on, by the broker's id. *)
serverPort(id) == IF id = BROKER_ID THEN 32888 ELSE 32889

(* AltDiscoveredBrokerData(): the default port, whatever the role.  The     *)
(* address, the protocol and the other client numbers are constants too and *)
(* left out.                                                                *)
DefaultData == [broker_id |-> BROKER_ID, connected |-> 0, locators |-> <<BROKER_PORT>>]

OwnData(b) == IF b \in Main THEN DefaultData ELSE [DefaultData EXCEPT !.broker_id = BROKER_ALT_ID]

(* The text of a number, and std::stoi. *)
Text(n) == [digits |-> n]
stoi(text) == text.digits

(* to_json: numbers become text, and only the first locator is written. *)
to_json(d) ==
  [BrokerID |-> d.broker_id, ConnectedClientNum |-> Text(d.connected),
   Locators |-> Text(d.locators[1])]

(* What handle_receive_from reads. *)
from_json(pt) ==
  [broker_id |-> pt.BrokerID, connected |-> stoi(pt.ConnectedClientNum),
   locators |-> <<stoi(pt.Locators)>>]

Nothing == to_json(DefaultData)

-----------------------------------------------------------------------------
VARIABLES
  up,               \* processes that run
  client_no,        \* client_no[b]: clients that have connected
  lock,             \* lock[b]: reader_number, writer_number of SBDP_THREAD::mutex
  w,                \* w[b]: where the writer's callbacks are
  message_count_, message_,
  r,                \* r[b]: where the reader's callback is
  recieved_broker,  \* recieved_broker[b]: the local variable of the callback
  local_storage, alt_broker_list,
  first,            \* history: first[b]: the first announcement received of every id but BROKER_ID
  net,              \* datagrams under way: [to, from, no, body]
  faults            \* faults so far

writerVars == <<w, message_count_, message_>>
readerVars == <<r, recieved_broker, local_storage, alt_broker_list, first>>
sbdpVars == <<up, client_no, lock, writerVars, readerVars, net, faults>>

SBDPInit ==
  /\ up = {}
  /\ client_no = [b \in Brokers |-> 0]
  /\ lock = [b \in Brokers |-> "free"]
  /\ w = [b \in Brokers |-> "new"]
  /\ message_count_ = [b \in Brokers |-> 0]
  /\ message_ = [b \in Brokers |-> Nothing]
  /\ r = [b \in Brokers |-> "armed"]
  /\ recieved_broker = [b \in Brokers |-> DefaultData]
  /\ local_storage = [b \in Brokers |-> <<>>]
  /\ alt_broker_list = [b \in Brokers |-> <<>>]
  /\ first = [b \in Brokers |-> <<>>]
  /\ net = {} /\ faults = 0

AFault == faults < MaxFaults /\ faults' = faults + 1

(* main: the reader joins the group and waits, before the writer exists. *)
Boot(b) ==
  /\ b \notin up
  /\ up' = up \cup {b}
  /\ UNCHANGED <<client_no, lock, writerVars, readerVars, net, faults>>

(* The process ends, with all that it knew. *)
End(b) ==
  /\ b \in up
  /\ up' = up \ {b}
  /\ client_no' = [client_no EXCEPT ![b] = 0]
  /\ lock' = [lock EXCEPT ![b] = "free"]
  /\ w' = [w EXCEPT ![b] = "new"]
  /\ message_count_' = [message_count_ EXCEPT ![b] = 0]
  /\ message_' = [message_ EXCEPT ![b] = Nothing]
  /\ r' = [r EXCEPT ![b] = "armed"]
  /\ recieved_broker' = [recieved_broker EXCEPT ![b] = DefaultData]
  /\ local_storage' = [local_storage EXCEPT ![b] = <<>>]
  /\ alt_broker_list' = [alt_broker_list EXCEPT ![b] = <<>>]
  /\ first' = [first EXCEPT ![b] = <<>>]
  /\ net' = {m \in net : m.to # b}
  /\ UNCHANGED faults

(* A session increments client_no, under the copy of the lock that belongs  *)
(* to MQTTSession.cpp.                                                      *)
increase_count(b) ==
  /\ b \in up
  /\ client_no' = [client_no EXCEPT ![b] = @ + 1]
  /\ UNCHANGED <<up, lock, writerVars, readerVars, net, faults>>

-----------------------------------------------------------------------------
(* SBDPBuiltinEndpointDataWriter *)

Announcement(b) == to_json([OwnData(b) EXCEPT !.connected = client_no[b]])

(* The constructor: the first announcement. *)
Construct(b) ==
  /\ b \in up /\ w[b] = "new"
  /\ message_count_' = [message_count_ EXCEPT ![b] = 1]
  /\ message_' = [message_ EXCEPT ![b] = Announcement(b)]
  /\ w' = [w EXCEPT ![b] = "sending"]
  /\ UNCHANGED <<up, client_no, lock, readerVars, net, faults>>

(* Mutant: one announcement fewer. *)
AgainTooFew(b) == message_count_[b] < Announcements[b] - 1

(* Mutant: one announcement more. *)
AgainTooMany(b) == message_count_[b] <= Announcements[b]

Again(b) == message_count_[b] < Announcements[b]

(* The datagram leaves, to every member of the group and to the sender.     *)
(* handle_send_to then starts the timer, until the last announcement.       *)
handle_send_to(b) ==
  /\ b \in up /\ w[b] = "sending"
  /\ net' = net \cup {[to |-> x, from |-> b, no |-> message_count_[b], body |-> message_[b]] : x \in up}
  /\ w' = [w EXCEPT ![b] = IF Again(b) THEN "timer" ELSE "done"]
  /\ UNCHANGED <<up, client_no, lock, message_count_, message_, readerVars, faults>>

(* An error: no timer, and no announcement ever again. *)
SendFails(b) ==
  /\ b \in up /\ w[b] = "sending" /\ AFault
  /\ w' = [w EXCEPT ![b] = "failed"]
  /\ UNCHANGED <<up, client_no, lock, message_count_, message_, readerVars, net>>

(* handle_timeout: message_count_++ and the call of task_mutex_rlock, which *)
(* counts the thread in pending_readers.                                    *)
handle_timeout(b) ==
  /\ b \in up /\ w[b] = "timer"
  /\ message_count_' = [message_count_ EXCEPT ![b] = @ + 1]
  /\ w' = [w EXCEPT ![b] = "rlock"]
  /\ UNCHANGED <<up, client_no, lock, message_, readerVars, net, faults>>

-----------------------------------------------------------------------------
(* The copy of SBDP_THREAD::mutex in BrokerParticipant.cpp.  The writer's   *)
(* thread takes it for reading, the reader's thread for writing, and nobody *)
(* else: what TaskLock does step by step for any threads comes down to the  *)
(* following.  A thread tests under lock_mutex, which it keeps until it is  *)
(* in the wait set ("rwait", "wwait").  unlock passes lock_mutex when it is *)
(* called ("runlock", "wunlock"), and resets and notifies without it: a     *)
(* thread that has tested by then and is not yet in the wait set misses the *)
(* notification.                                                            *)

MutexFree(b) == w[b] # "rwait" /\ r[b] # "wwait"

(* pending_writers > 0: wlock has been called and not been granted. *)
WriterPending(b) == r[b] \in {"wlock", "wwait", "wblocked"}

(* The loop of task_mutex_rlock: wait, or have the lock. *)
task_mutex_rlock(b) ==
  /\ b \in up /\ w[b] = "rlock" /\ MutexFree(b)
  /\ IF WriterPending(b) \/ lock[b] = "write"
     THEN w' = [w EXCEPT ![b] = "rwait"] /\ UNCHANGED lock
     ELSE w' = [w EXCEPT ![b] = "rlocked"] /\ lock' = [lock EXCEPT ![b] = "read"]
  /\ UNCHANGED <<up, client_no, message_count_, message_, readerVars, net, faults>>

(* The loop of task_mutex_wlock. *)
task_mutex_wlock(b) ==
  /\ b \in up /\ r[b] = "wlock" /\ MutexFree(b)
  /\ IF lock[b] # "free"
     THEN r' = [r EXCEPT ![b] = "wwait"] /\ UNCHANGED lock
     ELSE r' = [r EXCEPT ![b] = "wlocked"] /\ lock' = [lock EXCEPT ![b] = "write"]
  /\ UNCHANGED <<up, client_no, writerVars, recieved_broker, local_storage, alt_broker_list,
                 first, net, faults>>

(* reader_proceed.wait and writer_proceed.wait: the thread joins the wait   *)
(* set and lets lock_mutex go.                                              *)
ReaderWaits(b) ==
  /\ b \in up /\ w[b] = "rwait"
  /\ w' = [w EXCEPT ![b] = "rblocked"]
  /\ UNCHANGED <<up, client_no, lock, message_count_, message_, readerVars, net, faults>>

WriterWaits(b) ==
  /\ b \in up /\ r[b] = "wwait"
  /\ r' = [r EXCEPT ![b] = "wblocked"]
  /\ UNCHANGED <<up, client_no, lock, writerVars, recieved_broker, local_storage,
                 alt_broker_list, first, net, faults>>

(* A condition variable may wake a thread that nobody notified. *)
SpuriousWakeup(b) ==
  /\ b \in up /\ AFault
  /\ \/ w[b] = "rblocked" /\ w' = [w EXCEPT ![b] = "rlock"] /\ UNCHANGED r
     \/ r[b] = "wblocked" /\ r' = [r EXCEPT ![b] = "wlock"] /\ UNCHANGED w
  /\ UNCHANGED <<up, client_no, lock, message_count_, message_, recieved_broker,
                 local_storage, alt_broker_list, first, net>>

(* Mutant: the notification of the readers is forgotten. *)
NotifyNobody(b) == w[b]

(* notify_all of reader_proceed and of writer_proceed: where the other      *)
(* thread is afterwards.  unlock notifies the waiting one, as the other is  *)
(* counted in pending_writers or pending_readers before it tests.           *)
NotifyReader(b) == IF w[b] = "rblocked" THEN "rlock" ELSE w[b]
NotifyWriter(b) == IF r[b] = "wblocked" THEN "wlock" ELSE r[b]

(* The new announcement, and the call of task_mutex_unlock. *)
Announce(b) ==
  /\ b \in up /\ w[b] = "rlocked" /\ MutexFree(b)
  /\ message_' = [message_ EXCEPT ![b] = Announcement(b)]
  /\ w' = [w EXCEPT ![b] = "runlock"]
  /\ UNCHANGED <<up, client_no, lock, message_count_, readerVars, net, faults>>

(* The rest of task_mutex_unlock, and async_send_to. *)
async_send_to(b) ==
  /\ b \in up /\ w[b] = "runlock"
  /\ lock' = [lock EXCEPT ![b] = "free"]
  /\ w' = [w EXCEPT ![b] = "sending"]
  /\ r' = [r EXCEPT ![b] = NotifyWriter(b)]
  /\ UNCHANGED <<up, client_no, message_count_, message_, recieved_broker, local_storage,
                 alt_broker_list, first, net, faults>>

-----------------------------------------------------------------------------
(* SBDPBuiltinEndpointDataReader *)

(* Mutant: the search never finds. *)
FindNothing(list, id) == FALSE

find_broker(list, id) == \E i \in DOMAIN list : list[i].broker_id = id

(* The history of what was heard of an id keeps the first. *)
Remember(f, id, d) == [x \in DOMAIN f \cup {id} |-> IF x \in DOMAIN f THEN f[x] ELSE d]

(* handle_receive_from.  read_io runs once the writer is constructed.  An   *)
(* id that is BROKER_ID, or known, is ignored; another broker is stored.    *)
(* The network may deliver the datagram again.                              *)
handle_receive_from(b, m) ==
  /\ b \in up /\ w[b] # "new" /\ r[b] = "armed" /\ m \in net /\ m.to = b
  /\ \/ net' = net \ {m} /\ UNCHANGED faults
     \/ net' = net /\ AFault
  /\ first' = IF m.body.BrokerID = BROKER_ID THEN first
              ELSE [first EXCEPT ![b] = Remember(@, m.body.BrokerID, from_json(m.body))]
  /\ LET broker_id == m.body.BrokerID IN
     IF broker_id # BROKER_ID /\ ~find_broker(local_storage[b], broker_id)
     THEN /\ recieved_broker' = [recieved_broker EXCEPT ![b] = from_json(m.body)]
          /\ local_storage' = [local_storage EXCEPT ![b] = Append(@, from_json(m.body))]
          /\ r' = [r EXCEPT ![b] = "wlock"]
     ELSE UNCHANGED <<recieved_broker, local_storage, r>>
  /\ UNCHANGED <<up, client_no, lock, writerVars, alt_broker_list>>

(* AlternativeServerInfo::add_broker, and the call of task_mutex_unlock. *)
add_broker(b) ==
  /\ b \in up /\ r[b] = "wlocked" /\ MutexFree(b)
  /\ alt_broker_list' = [alt_broker_list EXCEPT ![b] = Append(@, recieved_broker[b])]
  /\ r' = [r EXCEPT ![b] = "wunlock"]
  /\ UNCHANGED <<up, client_no, lock, writerVars, recieved_broker, local_storage, first, net, faults>>

(* The rest of task_mutex_unlock; the reader waits for the next datagram. *)
async_receive_from(b) ==
  /\ b \in up /\ r[b] = "wunlock"
  /\ lock' = [lock EXCEPT ![b] = "free"]
  /\ r' = [r EXCEPT ![b] = "armed"]
  /\ w' = [w EXCEPT ![b] = NotifyReader(b)]
  /\ UNCHANGED <<up, client_no, message_count_, message_, recieved_broker, local_storage,
                 alt_broker_list, first, net, faults>>

(* An error: the reader never waits again. *)
ReceiveFails(b) ==
  /\ b \in up /\ w[b] # "new" /\ r[b] = "armed" /\ AFault
  /\ r' = [r EXCEPT ![b] = "failed"]
  /\ UNCHANGED <<up, client_no, lock, writerVars, recieved_broker, local_storage,
                 alt_broker_list, first, net>>

(* The network loses a datagram. *)
Lose(m) ==
  /\ AFault
  /\ net' = net \ {m}
  /\ UNCHANGED <<up, client_no, lock, writerVars, readerVars>>

-----------------------------------------------------------------------------
WriterStep(b) ==
  \/ handle_send_to(b) \/ handle_timeout(b) \/ task_mutex_rlock(b) \/ ReaderWaits(b)
  \/ Announce(b) \/ async_send_to(b)
StoreStep(b) ==
  task_mutex_wlock(b) \/ WriterWaits(b) \/ add_broker(b) \/ async_receive_from(b)
ReaderStep(b) == (\E m \in net : handle_receive_from(b, m)) \/ StoreStep(b)
SBDPFault(b) == SendFails(b) \/ ReceiveFails(b)

SBDPStep ==
  \/ \E b \in Brokers : WriterStep(b) \/ ReaderStep(b) \/ SBDPFault(b) \/ SpuriousWakeup(b)
  \/ \E m \in net : Lose(m)

-----------------------------------------------------------------------------
Data == [broker_id : {BROKER_ID, BROKER_ALT_ID}, connected : Nat, locators : {DefaultData.locators}]

(* Where the writer is in rlock and unlock, and anywhere; and the reader. *)
Announcing == {"rlock", "rwait", "rblocked", "rlocked", "runlock"}
WriterPlaces == {"new", "sending", "timer", "done", "failed"} \cup Announcing
Storing == {"wlock", "wwait", "wblocked", "wlocked"}
ReaderPlaces == {"armed", "wunlock", "failed"} \cup Storing

(* The types.  A process makes at most Announcements announcements (the 50  *)
(* of handle_send_to).                                                      *)
SBDPTypeOK ==
  /\ up \subseteq Brokers
  /\ client_no \in [Brokers -> Nat]
  /\ lock \in [Brokers -> {"free", "read", "write"}]
  /\ w \in [Brokers -> WriterPlaces]
  /\ \A b \in Brokers : message_count_[b] \in 0..Announcements[b]
  /\ \A b \in Brokers : from_json(message_[b]) \in Data
  /\ r \in [Brokers -> ReaderPlaces]
  /\ recieved_broker \in [Brokers -> Data]
  /\ \A b \in Brokers : local_storage[b] \in Seq(Data) /\ alt_broker_list[b] \in Seq(Data)
  /\ \A m \in net : m.to \in Brokers /\ m.no \in 1..Announcements[m.from] /\ from_json(m.body) \in Data
  /\ faults \in 0..MaxFaults

(* Whatever the network loses, repeats or reorders, and whichever process   *)
(* starts again, the list that the sessions would use holds exactly the     *)
(* first announcement of every id that was heard and is not BROKER_ID, each *)
(* once, and local_storage is the same but for an addition under way.  So   *)
(* the client count in it is that of the first announcement for ever: the   *)
(* reader never updates an entry (handle_receive_from, temp_output == -1).  *)
ListIsFirstHeard ==
  \A b \in Brokers :
    LET Listed(s) == {s[i] : i \in DOMAIN s}
        Heard == {first[b][id] : id \in DOMAIN first[b]}
        pending == r[b] \in Storing IN
      /\ Listed(local_storage[b]) = Heard
      /\ Len(local_storage[b]) = Cardinality(Heard)
      /\ alt_broker_list[b] = SubSeq(local_storage[b], 1, Len(local_storage[b]) - (IF pending THEN 1 ELSE 0))

(* A port in the list is the one that the broker of that id listens on, as  *)
(* BrokerConfigurationSet.h says: "Ori_broker 32888, alt_broker 32889".     *)
PortIsServed ==
  \A b \in Brokers : \A i \in DOMAIN alt_broker_list[b] :
    alt_broker_list[b][i].locators[1] = serverPort(alt_broker_list[b][i].broker_id)

(* A thread that is in the wait set of its condition variable while the     *)
(* other one does not have the lock, nor is about to get it: it has missed  *)
(* the notification.                                                        *)
WriterStuck(b) == w[b] = "rblocked" /\ r[b] \in {"armed", "failed", "wblocked"}
ReaderStuck(b) == r[b] = "wblocked" /\ lock[b] = "free"

Knows(b, id) == find_broker(alt_broker_list[b], id)
Reads(b) == b \in up /\ r[b] # "failed" /\ ~ReaderStuck(b)
Announces(b) == b \in up /\ w[b] # "failed" /\ ~WriterStuck(b)

(* The announcements that b will still make. *)
Left(b) ==
  Announcements[b] - message_count_[b] + (IF w[b] \in {"sending"} \cup Announcing THEN 1 ELSE 0)

=============================================================================
