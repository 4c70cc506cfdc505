----------------------- MODULE BrokerParticipantProofs ------------------------
(* Proofs about main() and the discovery, for any brokers, bounds and       *)
(* scenarios: the types, that alt_broker_list is what was heard first, and  *)
(* when the lock of the discovery can hang.                                 *)
EXTENDS BrokerParticipant, FiniteSetTheorems, TLAPS

(* The datagrams: what to_json makes of Data. *)
Body == [BrokerID : {BROKER_ID, BROKER_ALT_ID}, ConnectedClientNum : [digits : Nat],
         Locators : [digits : {BROKER_PORT}]]

(* The types as functions, and what the writer's state says of its count of *)
(* announcements: the timer runs only while there is another one to make.   *)
SBDPTypeInv ==
  /\ up \subseteq Brokers
  /\ client_no \in [Brokers -> Nat]
  /\ lock \in [Brokers -> {"free", "read", "write"}]
  /\ w \in [Brokers -> WriterPlaces]
  /\ message_count_ \in [Brokers -> Nat]
  /\ message_ \in [Brokers -> Body]
  /\ r \in [Brokers -> ReaderPlaces]
  /\ recieved_broker \in [Brokers -> Data]
  /\ local_storage \in [Brokers -> Seq(Data)]
  /\ alt_broker_list \in [Brokers -> Seq(Data)]
  /\ \A m \in net : m.to \in Brokers /\ m.from \in Brokers /\ m.no \in Nat /\ m.body \in Body
  /\ faults \in Nat

CountInv ==
  /\ \A b \in Brokers : message_count_[b] <= Announcements[b]
  /\ \A b \in Brokers : w[b] = "timer" => message_count_[b] < Announcements[b]
  /\ \A b \in Brokers : w[b] \in {"sending"} \cup Announcing => message_count_[b] >= 1
  /\ \A m \in net : m.no \in 1..Announcements[m.from]
  /\ faults <= MaxFaults

MainInv ==
  /\ scenario \in Scenarios
  /\ main \in [Brokers -> MainPlaces]
  /\ total_count \in [Brokers -> Nat]
  /\ current_count \in [Brokers -> Nat]
  /\ changed \in [Brokers -> BOOLEAN]
  /\ \A b \in Brokers : total_count[b] <= scenario.publishers
  /\ \A b \in Brokers : current_count[b] <= total_count[b]

ClientInv == \A b \in Brokers : client_no[b] <= scenario.clients

ParticipantInv == SBDPTypeInv /\ CountInv /\ MainInv /\ ClientInv

-----------------------------------------------------------------------------
(* What to_json writes, handle_receive_from reads: the conversions lose     *)
(* nothing of Data, whose list of locators has one element.                 *)
LEMMA JsonInverse ==
  /\ \A d \in Data : to_json(d) \in Body /\ from_json(to_json(d)) = d
  /\ \A pt \in Body : from_json(pt) \in Data /\ from_json(pt).broker_id = pt.BrokerID
BY DEF Data, Body, to_json, from_json, Text, stoi, DefaultData, BROKER_PORT

LEMMA DefaultDataType == DefaultData \in Data /\ Nothing \in Body
<1>1. DefaultData \in Data
  BY DEF DefaultData, Data
<1> QED BY <1>1, JsonInverse DEF Nothing

LEMMA AnnouncementType ==
  ASSUME SBDPTypeInv, NEW b \in Brokers
  PROVE  Announcement(b) \in Body
<1>1. [OwnData(b) EXCEPT !.connected = client_no[b]] \in Data
  BY DEF OwnData, DefaultData, Data, SBDPTypeInv
<1> QED BY <1>1, JsonInverse DEF Announcement

LEMMA ParticipantInit == Init => ParticipantInv
<1> SUFFICES ASSUME Init PROVE ParticipantInv
  OBVIOUS
<1>1. SBDPTypeInv
  BY DefaultDataType DEF Init, SBDPInit, SBDPTypeInv, WriterPlaces, ReaderPlaces
<1>2. CountInv
  BY BoundsAssumption DEF Init, SBDPInit, CountInv, Announcing
<1>3. MainInv /\ ClientInv
  BY ScenariosAssumption DEF Init, SBDPInit, MainInv, MainPlaces, ClientInv
<1> QED BY <1>1, <1>2, <1>3 DEF ParticipantInv

LEMMA SBDPStepType ==
  ASSUME SBDPTypeInv, CountInv, SBDPStep
  PROVE  SBDPTypeInv' /\ CountInv'
<1> USE BoundsAssumption DEF SBDPTypeInv, CountInv, writerVars, readerVars, AFault,
                             WriterPlaces, ReaderPlaces, Announcing, Storing
<1>2. ASSUME NEW b \in Brokers, handle_send_to(b) PROVE SBDPTypeInv' /\ CountInv'
  <2>1. \A m \in net' : m \in net \/ (m.to \in up /\ m.from = b /\ m.no = message_count_[b] /\ m.body = message_[b])
    BY <1>2 DEF handle_send_to
  <2>2. \A m \in net' : m.to \in Brokers /\ m.from \in Brokers /\ m.no \in Nat /\ m.body \in Body
    BY <2>1
  <2>3. \A m \in net' : m.no \in 1..Announcements[m.from]
    BY <1>2, <2>1 DEF handle_send_to
  <2> QED BY <1>2, <2>2, <2>3 DEF handle_send_to, Again
<1>3. ASSUME NEW b \in Brokers, handle_timeout(b) PROVE SBDPTypeInv' /\ CountInv'
  BY <1>3 DEF handle_timeout
<1>4. ASSUME NEW b \in Brokers, Announce(b) PROVE SBDPTypeInv' /\ CountInv'
  BY <1>4, AnnouncementType DEF Announce
<1>5. ASSUME NEW b \in Brokers, NEW m \in net, handle_receive_from(b, m)
      PROVE  SBDPTypeInv' /\ CountInv'
  <2>1. from_json(m.body) \in Data
    BY JsonInverse
  <2>2. net' \subseteq net /\ (faults' = faults \/ (faults < MaxFaults /\ faults' = faults + 1))
    BY <1>5 DEF handle_receive_from
  <2>3. /\ recieved_broker' \in [Brokers -> Data]
        /\ local_storage' \in [Brokers -> Seq(Data)]
        /\ r' \in [Brokers -> ReaderPlaces]
    <3>1. CASE UNCHANGED <<recieved_broker, local_storage, r>>
      BY <3>1
    <3>2. CASE /\ recieved_broker' = [recieved_broker EXCEPT ![b] = from_json(m.body)]
               /\ local_storage' = [local_storage EXCEPT ![b] = Append(@, from_json(m.body))]
               /\ r' = [r EXCEPT ![b] = "wlock"]
      BY <2>1, <3>2
    <3> QED BY <1>5, <3>1, <3>2 DEF handle_receive_from
  <2> QED BY <1>5, <2>2, <2>3 DEF handle_receive_from
<1>6. ASSUME NEW b \in Brokers, add_broker(b) PROVE SBDPTypeInv' /\ CountInv'
  BY <1>6 DEF add_broker
<1>7. ASSUME NEW b \in Brokers, async_receive_from(b) PROVE SBDPTypeInv' /\ CountInv'
  BY <1>7 DEF async_receive_from, NotifyReader
<1>8. ASSUME NEW b \in Brokers, SendFails(b) PROVE SBDPTypeInv' /\ CountInv'
  BY <1>8 DEF SendFails
<1>9. ASSUME NEW b \in Brokers, ReceiveFails(b) PROVE SBDPTypeInv' /\ CountInv'
  BY <1>9 DEF ReceiveFails
<1>10. ASSUME NEW m \in net, Lose(m) PROVE SBDPTypeInv' /\ CountInv'
  <2>1. /\ net' \subseteq net /\ faults < MaxFaults /\ faults' = faults + 1
        /\ UNCHANGED <<up, client_no, lock, w, message_count_, message_, r, recieved_broker,
                       local_storage, alt_broker_list>>
    BY <1>10 DEF Lose
  <2>2. SBDPTypeInv'
    BY <2>1
  <2>3. CountInv'
    BY <2>1
  <2> QED BY <2>2, <2>3
<1>11. ASSUME NEW b \in Brokers, task_mutex_rlock(b) PROVE SBDPTypeInv' /\ CountInv'
  <2>1. /\ UNCHANGED <<up, client_no, message_count_, message_, r, recieved_broker, local_storage,
                       alt_broker_list, net, faults>>
        /\ w[b] = "rlock" /\ lock' \in [Brokers -> {"free", "read", "write"}]
        /\ \E p \in {"rwait", "rlocked"} : w' = [w EXCEPT ![b] = p]
    BY <1>11 DEF task_mutex_rlock
  <2>2. SBDPTypeInv'
    BY <2>1
  <2>3. CountInv'
    BY <2>1
  <2> QED BY <2>2, <2>3
<1>12. ASSUME NEW b \in Brokers, task_mutex_wlock(b) PROVE SBDPTypeInv' /\ CountInv'
  BY <1>12 DEF task_mutex_wlock
<1>13. ASSUME NEW b \in Brokers, ReaderWaits(b) \/ WriterWaits(b) PROVE SBDPTypeInv' /\ CountInv'
  BY <1>13 DEF ReaderWaits, WriterWaits
<1>14. ASSUME NEW b \in Brokers, async_send_to(b) PROVE SBDPTypeInv' /\ CountInv'
  BY <1>14 DEF async_send_to, NotifyWriter
<1>15. ASSUME NEW b \in Brokers, SpuriousWakeup(b) PROVE SBDPTypeInv' /\ CountInv'
  <2>1. /\ faults < MaxFaults /\ faults' = faults + 1
        /\ UNCHANGED <<up, client_no, lock, message_count_, message_, recieved_broker,
                       local_storage, alt_broker_list, net>>
    BY <1>15 DEF SpuriousWakeup
  <2>2. CASE w[b] = "rblocked" /\ w' = [w EXCEPT ![b] = "rlock"] /\ UNCHANGED r
    <3>1. SBDPTypeInv'
      BY <2>1, <2>2
    <3>2. CountInv'
      BY <2>1, <2>2
    <3> QED BY <3>1, <3>2
  <2>3. CASE r[b] = "wblocked" /\ r' = [r EXCEPT ![b] = "wlock"] /\ UNCHANGED w
    BY <2>1, <2>3
  <2> QED BY <1>15, <2>2, <2>3 DEF SpuriousWakeup
<1> QED BY <1>2, <1>3, <1>4, <1>5, <1>6, <1>7, <1>8, <1>9, <1>10, <1>11, <1>12, <1>13, <1>14,
           <1>15
        DEF SBDPStep, WriterStep, ReaderStep, StoreStep, SBDPFault

LEMMA MainStepType ==
  ASSUME ParticipantInv, NEW b \in Brokers,
         Start(b) \/ MainStep(b) \/ CreateFails(b) \/ StatusFails(b) \/ WaitFails(b)
           \/ Match(b) \/ Unmatch(b) \/ Connect(b)
  PROVE  ParticipantInv'
<1>1. /\ SBDPTypeInv /\ CountInv /\ MainInv /\ ClientInv
      /\ scenario.publishers \in Nat /\ scenario.clients \in Nat
  BY ScenariosAssumption DEF ParticipantInv, MainInv
<1>2. SBDPTypeInv' /\ CountInv'
  <2> USE <1>1, BoundsAssumption
          DEF SBDPTypeInv, CountInv, writerVars, readerVars, sbdpVars, AFault,
              WriterPlaces, ReaderPlaces, Announcing
  <2>1. CASE Start(b)
    BY <2>1 DEF Start, Boot
  <2>2. CASE StartSBDP(b)
    BY <2>2, AnnouncementType DEF StartSBDP, Construct
  <2>3. CASE CreateEntities(b) \/ CheckStatus(b) \/ WaitReturns(b)
    BY <2>3 DEF CreateEntities, WaitReturns, CheckStatus
  <2>4. CASE Terminate(b)
    <3>1. SBDPTypeInv'
      <4>1. "new" \in WriterPlaces /\ "armed" \in ReaderPlaces
        BY DEF WriterPlaces, ReaderPlaces
      <4> HIDE DEF WriterPlaces, ReaderPlaces, Announcing
      <4>2. End(b)
        BY <2>4 DEF Terminate
      <4>3. /\ up' \subseteq Brokers /\ net' \subseteq net /\ UNCHANGED faults
            /\ client_no' \in [Brokers -> Nat]
            /\ lock' \in [Brokers -> {"free", "read", "write"}]
            /\ w' \in [Brokers -> WriterPlaces]
            /\ r' \in [Brokers -> ReaderPlaces]
        BY <4>1, <4>2 DEF End
      <4>4. /\ message_count_' \in [Brokers -> Nat]
            /\ message_' \in [Brokers -> Body]
            /\ recieved_broker' \in [Brokers -> Data]
            /\ local_storage' \in [Brokers -> Seq(Data)]
            /\ alt_broker_list' \in [Brokers -> Seq(Data)]
        BY <4>2, DefaultDataType DEF End
      <4> QED BY <4>3, <4>4
    <3>2. CountInv'
      BY <2>4 DEF Terminate, End
    <3> QED BY <3>1, <3>2
  <2>5. CASE CreateFails(b)
    BY <2>5 DEF CreateFails
  <2>6. CASE StatusFails(b) \/ WaitFails(b)
    <3> HIDE DEF WriterPlaces, ReaderPlaces, Announcing
    <3>1. CASE StatusFails(b)
      BY <3>1 DEF StatusFails
    <3>2. CASE WaitFails(b)
      BY <3>2 DEF WaitFails
    <3> QED BY <2>6, <3>1, <3>2
  <2>7. CASE Match(b) \/ Unmatch(b)
    BY <2>7 DEF Match, Unmatch
  <2>8. CASE Connect(b)
    BY <2>8 DEF Connect, increase_count
  <2> QED BY <2>1, <2>2, <2>3, <2>4, <2>5, <2>6, <2>7, <2>8 DEF MainStep
<1>3. MainInv'
  <2> USE <1>1 DEF MainInv, MainTo, matchVars, MainPlaces
  <2>1. CASE Start(b) \/ StartSBDP(b)
    BY <2>1 DEF Start, StartSBDP
  <2>2. CASE CreateEntities(b) \/ CheckStatus(b) \/ WaitReturns(b)
    BY <2>2 DEF CreateEntities, WaitReturns, CheckStatus
  <2>3. CASE Terminate(b)
    BY <2>3 DEF Terminate
  <2>4. CASE CreateFails(b) \/ StatusFails(b) \/ WaitFails(b)
    BY <2>4 DEF CreateFails, StatusFails, WaitFails
  <2>5. CASE Match(b)
    BY <2>5 DEF Match
  <2>6. CASE Unmatch(b)
    BY <2>6 DEF Unmatch
  <2>7. CASE Connect(b)
    BY <2>7 DEF Connect, lifeVars
  <2> QED BY <2>1, <2>2, <2>3, <2>4, <2>5, <2>6, <2>7 DEF MainStep
<1>4. ClientInv'
  <2>1. CASE Connect(b)
    BY <1>1, <2>1 DEF Connect, increase_count, ClientInv, SBDPTypeInv
  <2>2. CASE Terminate(b)
    BY <1>1, <2>2 DEF Terminate, End, ClientInv, SBDPTypeInv
  <2>3. CASE UNCHANGED <<scenario, client_no>>
    BY <1>1, <2>3 DEF ClientInv
  <2> QED BY <2>1, <2>2, <2>3
          DEF MainStep, Start, Boot, StartSBDP, Construct, CreateEntities, CheckStatus, WaitReturns,
              CreateFails, StatusFails, WaitFails, Match, Unmatch, sbdpVars
<1> QED BY <1>2, <1>3, <1>4 DEF ParticipantInv

LEMMA ClientsKept == SBDPStep => UNCHANGED client_no
<1> SUFFICES ASSUME SBDPStep PROVE client_no' = client_no
  OBVIOUS
<1>1. ASSUME NEW b \in Brokers, WriterStep(b) PROVE client_no' = client_no
  BY <1>1 DEF WriterStep, handle_send_to, handle_timeout, task_mutex_rlock, ReaderWaits, Announce,
              async_send_to
<1>2. ASSUME NEW b \in Brokers, ReaderStep(b) PROVE client_no' = client_no
  BY <1>2 DEF ReaderStep, StoreStep, handle_receive_from, task_mutex_wlock, WriterWaits, add_broker,
              async_receive_from
<1>3. ASSUME NEW b \in Brokers, SBDPFault(b) \/ SpuriousWakeup(b) PROVE client_no' = client_no
  BY <1>3 DEF SBDPFault, SendFails, ReceiveFails, SpuriousWakeup
<1>4. ASSUME NEW m \in net, Lose(m) PROVE client_no' = client_no
  BY <1>4 DEF Lose
<1> QED BY <1>1, <1>2, <1>3, <1>4 DEF SBDPStep

LEMMA ParticipantNext == ParticipantInv /\ [Next]_vars => ParticipantInv'
<1> SUFFICES ASSUME ParticipantInv, [Next]_vars PROVE ParticipantInv'
  OBVIOUS
<1>1. CASE UNCHANGED vars \/ Idle
  BY <1>1 DEF Idle, vars, lifeVars, sbdpVars, writerVars, readerVars, ParticipantInv,
              SBDPTypeInv, CountInv, MainInv, ClientInv
<1>2. CASE SBDPStep /\ UNCHANGED <<scenario, lifeVars>>
  BY <1>2, SBDPStepType, ClientsKept DEF lifeVars, ParticipantInv, MainInv, ClientInv
<1>3. ASSUME NEW b \in Brokers,
             Start(b) \/ MainStep(b) \/ CreateFails(b) \/ StatusFails(b) \/ WaitFails(b)
               \/ Match(b) \/ Unmatch(b) \/ Connect(b)
      PROVE  ParticipantInv'
  BY <1>3, MainStepType
<1> QED BY <1>1, <1>2, <1>3 DEF Next

(* Every variable of main() and of the discovery keeps its type; above all  *)
(* no process announces itself more often than handle_send_to allows        *)
(* (message_count_ < 50), however its timers, errors and restarts fall.     *)
THEOREM ParticipantTypeCorrect == Spec => []TypeOK
<1>1. ParticipantInv => TypeOK
  BY BoundsAssumption, ScenariosAssumption, JsonInverse
     DEF ParticipantInv, SBDPTypeInv, CountInv, MainInv, ClientInv, TypeOK, SBDPTypeOK
<1> QED BY <1>1, ParticipantInit, ParticipantNext, PTL DEF Spec

-----------------------------------------------------------------------------
(* The lists.  The inductive invariant says, of every broker, that          *)
(* local_storage has one entry for each id in first, which is that id's     *)
(* first announcement, and that the sessions' list is the same but for the  *)
(* entry recieved_broker until the write lock is granted and it is added.   *)

HeardOf(b) == {first[b][id] : id \in DOMAIN first[b]}

Stored(b) ==
  LET s == local_storage[b] IN
    /\ \A i \in DOMAIN s : s[i].broker_id \in DOMAIN first[b] /\ first[b][s[i].broker_id] = s[i]
    /\ \A id \in DOMAIN first[b] : first[b][id].broker_id = id /\ \E i \in DOMAIN s : s[i].broker_id = id
    /\ IsFiniteSet(HeardOf(b))
    /\ Len(s) = Cardinality(HeardOf(b))

Shared(b) ==
  IF r[b] \in Storing
  THEN local_storage[b] = Append(alt_broker_list[b], recieved_broker[b])
  ELSE local_storage[b] = alt_broker_list[b]

ListInv ==
  /\ DOMAIN first = Brokers
  /\ \A b \in Brokers : Stored(b) /\ Shared(b)

(* What an Append leaves when its last element is cut off again. *)
LEMMA AppendSubSeq ==
  ASSUME NEW S, NEW s \in Seq(S), NEW e \in S
  PROVE  SubSeq(Append(s, e), 1, Len(Append(s, e)) - 1) = s
OBVIOUS

LEMMA WholeSubSeq ==
  ASSUME NEW S, NEW s \in Seq(S)
  PROVE  SubSeq(s, 1, Len(s)) = s
OBVIOUS

LEMMA ListInvImplies == SBDPTypeInv /\ ListInv => ListIsFirstHeard
<1> SUFFICES ASSUME SBDPTypeInv, ListInv, NEW b \in Brokers
             PROVE  /\ {local_storage[b][i] : i \in DOMAIN local_storage[b]} = HeardOf(b)
                    /\ Len(local_storage[b]) = Cardinality(HeardOf(b))
                    /\ alt_broker_list[b] = SubSeq(local_storage[b], 1,
                          Len(local_storage[b]) - (IF r[b] \in Storing THEN 1 ELSE 0))
  BY DEF ListIsFirstHeard, HeardOf
<1>1. {local_storage[b][i] : i \in DOMAIN local_storage[b]} = HeardOf(b)
  <2>1. Stored(b)
    BY DEF ListInv
  <2>2. \A i \in DOMAIN local_storage[b] : local_storage[b][i] \in HeardOf(b)
    BY <2>1 DEF Stored, HeardOf
  <2>3. ASSUME NEW id \in DOMAIN first[b]
        PROVE  \E i \in DOMAIN local_storage[b] : first[b][id] = local_storage[b][i]
    BY <2>1 DEF Stored
  <2> QED BY <2>2, <2>3 DEF HeardOf
<1>2. Len(local_storage[b]) = Cardinality(HeardOf(b))
  BY DEF ListInv, Stored
<1>3. local_storage[b] \in Seq(Data) /\ alt_broker_list[b] \in Seq(Data) /\ recieved_broker[b] \in Data
  BY DEF SBDPTypeInv
<1>4. CASE r[b] \in Storing
  <2>1. local_storage[b] = Append(alt_broker_list[b], recieved_broker[b])
    BY <1>4 DEF ListInv, Shared
  <2> QED BY <1>1, <1>2, <1>3, <1>4, <2>1, AppendSubSeq
<1>5. CASE r[b] \notin Storing
  <2>1. local_storage[b] = alt_broker_list[b]
    BY <1>5 DEF ListInv, Shared
  <2>2. Len(local_storage[b]) - 0 = Len(local_storage[b])
    BY <1>3
  <2> QED BY <1>1, <1>2, <1>3, <1>5, <2>1, <2>2, WholeSubSeq
<1> QED BY <1>4, <1>5

LEMMA ListInit == Init => ListInv
<1> SUFFICES ASSUME Init, NEW b \in Brokers PROVE Stored(b) /\ Shared(b)
  BY DEF ListInv, Init, SBDPInit
<1>1. first[b] = <<>> /\ local_storage[b] = <<>> /\ alt_broker_list[b] = <<>> /\ r[b] = "armed"
  BY DEF Init, SBDPInit
<1>2. HeardOf(b) = {}
  BY <1>1 DEF HeardOf
<1> QED BY <1>1, <1>2, FS_EmptySet DEF Stored, Shared, Storing

(* A broker whose reader does nothing keeps its lists. *)
LEMMA ListsUnchanged ==
  ASSUME NEW b, Stored(b), Shared(b),
         r'[b] \in Storing <=> r[b] \in Storing,
         recieved_broker'[b] = recieved_broker[b], local_storage'[b] = local_storage[b],
         alt_broker_list'[b] = alt_broker_list[b], first'[b] = first[b]
  PROVE  Stored(b)' /\ Shared(b)'
<1>1. HeardOf(b)' = HeardOf(b)
  BY DEF HeardOf
<1> QED BY <1>1 DEF Stored, Shared

(* handle_receive_from keeps the invariant: a new id is appended to         *)
(* local_storage and to first alike.                                        *)
LEMMA ReceiveLists ==
  ASSUME SBDPTypeInv, ListInv, NEW b \in Brokers, NEW m \in net, handle_receive_from(b, m)
  PROVE  Stored(b)' /\ Shared(b)'
<1> DEFINE id == m.body.BrokerID
           d == from_json(m.body)
<1>1. d \in Data /\ d.broker_id = id
  BY JsonInverse DEF SBDPTypeInv
<1>2. r[b] = "armed" /\ alt_broker_list' = alt_broker_list
  BY DEF handle_receive_from
<1>3. Stored(b) /\ local_storage[b] = alt_broker_list[b] /\ local_storage[b] \in Seq(Data)
  BY <1>2 DEF ListInv, Shared, SBDPTypeInv, Storing
<1>4. CASE id = BROKER_ID
  BY <1>2, <1>3, <1>4, ListsUnchanged DEF handle_receive_from, ListInv
<1>5. CASE id # BROKER_ID
  <2>1. first'[b] = Remember(first[b], id, d)
    BY <1>5 DEF handle_receive_from, ListInv
  <2>2. /\ DOMAIN first'[b] = DOMAIN first[b] \cup {id}
        /\ \A x \in DOMAIN first[b] : first'[b][x] = first[b][x]
        /\ id \notin DOMAIN first[b] => first'[b][id] = d
    BY <2>1 DEF Remember
  <2>3. CASE find_broker(local_storage[b], id)
    <3>1. UNCHANGED <<recieved_broker, local_storage, r>>
      BY <1>5, <2>3 DEF handle_receive_from
    <3>2. id \in DOMAIN first[b]
      BY <1>3, <2>3 DEF Stored, find_broker
    <3>3. HeardOf(b)' = HeardOf(b)
      BY <2>2, <3>2 DEF HeardOf
    <3>4. Stored(b)'
      BY <1>3, <2>2, <3>1, <3>2, <3>3 DEF Stored
    <3> QED BY <1>2, <1>3, <3>1, <3>4 DEF Shared, Storing
  <2>4. CASE ~find_broker(local_storage[b], id)
    <3>1. /\ recieved_broker'[b] = d
          /\ local_storage'[b] = Append(local_storage[b], d)
          /\ r'[b] = "wlock"
      BY <1>5, <2>4 DEF handle_receive_from, SBDPTypeInv
    <3>2. id \notin DOMAIN first[b]
      BY <1>3, <2>4 DEF Stored, find_broker
    <3>3. HeardOf(b)' = HeardOf(b) \cup {d}
      BY <2>2, <3>2 DEF HeardOf
    <3>4. d \notin HeardOf(b)
      BY <1>1, <1>3, <3>2 DEF Stored, HeardOf
    <3>5. IsFiniteSet(HeardOf(b)') /\ Cardinality(HeardOf(b)') = Cardinality(HeardOf(b)) + 1
      BY <1>3, <3>3, <3>4, FS_AddElement DEF Stored
    <3>6. /\ Len(local_storage'[b]) = Len(local_storage[b]) + 1
          /\ DOMAIN local_storage'[b] = DOMAIN local_storage[b] \cup {Len(local_storage[b]) + 1}
          /\ \A i \in DOMAIN local_storage[b] : local_storage'[b][i] = local_storage[b][i]
          /\ local_storage'[b][Len(local_storage[b]) + 1] = d
      BY <1>1, <1>3, <3>1
    <3>7. Stored(b)'
      <4>1. ASSUME NEW i \in DOMAIN local_storage'[b]
            PROVE  /\ local_storage'[b][i].broker_id \in DOMAIN first'[b]
                   /\ first'[b][local_storage'[b][i].broker_id] = local_storage'[b][i]
        <5>1. CASE i \in DOMAIN local_storage[b]
          <6>1. /\ local_storage[b][i].broker_id \in DOMAIN first[b]
                /\ first[b][local_storage[b][i].broker_id] = local_storage[b][i]
            BY <1>3, <5>1 DEF Stored
          <6> QED BY <2>2, <3>6, <5>1, <6>1
        <5>2. CASE i = Len(local_storage[b]) + 1
          BY <1>1, <2>2, <3>2, <3>6, <5>2
        <5> QED BY <3>6, <5>1, <5>2
      <4>2. ASSUME NEW x \in DOMAIN first'[b]
            PROVE  /\ first'[b][x].broker_id = x
                   /\ \E i \in DOMAIN local_storage'[b] : local_storage'[b][i].broker_id = x
        <5>1. CASE x \in DOMAIN first[b]
          BY <1>3, <2>2, <3>6, <5>1 DEF Stored
        <5>2. CASE x = id
          BY <1>1, <2>2, <3>2, <3>6, <5>2
        <5> QED BY <2>2, <5>1, <5>2
      <4>3. Len(local_storage'[b]) = Cardinality(HeardOf(b)')
        BY <1>3, <3>5, <3>6 DEF Stored
      <4> QED BY <3>5, <4>1, <4>2, <4>3 DEF Stored
    <3> QED BY <1>2, <1>3, <3>1, <3>7 DEF Shared, Storing
  <2> QED BY <2>3, <2>4
<1> QED BY <1>4, <1>5

LEMMA ListSBDPStep ==
  ASSUME SBDPTypeInv, ListInv, SBDPStep
  PROVE  ListInv'
<1> USE DEF SBDPTypeInv, writerVars, readerVars
<1>1. ASSUME UNCHANGED readerVars PROVE ListInv'
  BY <1>1, ListsUnchanged DEF ListInv
<1>2. ASSUME NEW b \in Brokers,
             handle_send_to(b) \/ handle_timeout(b) \/ task_mutex_rlock(b)
               \/ ReaderWaits(b) \/ Announce(b) \/ SendFails(b)
      PROVE  ListInv'
  BY <1>1, <1>2 DEF handle_send_to, handle_timeout, task_mutex_rlock,
                    ReaderWaits, Announce, SendFails
<1>3. ASSUME NEW m \in net, Lose(m) PROVE ListInv'
  BY <1>1, <1>3 DEF Lose
<1>4. ASSUME NEW b \in Brokers, NEW m \in net, handle_receive_from(b, m) PROVE ListInv'
  <2>1. ASSUME NEW x \in Brokers, x # b
        PROVE  /\ r'[x] = r[x] /\ recieved_broker'[x] = recieved_broker[x]
               /\ local_storage'[x] = local_storage[x] /\ alt_broker_list'[x] = alt_broker_list[x]
               /\ first'[x] = first[x]
    BY <1>4, <2>1 DEF handle_receive_from
  <2>2. ASSUME NEW x \in Brokers, x # b PROVE Stored(x)' /\ Shared(x)'
    BY <2>1, <2>2, ListsUnchanged DEF ListInv
  <2>3. DOMAIN first' = Brokers
    BY <1>4 DEF handle_receive_from, ListInv
  <2> QED BY <1>4, <2>2, <2>3, ReceiveLists DEF ListInv
<1>5. ASSUME NEW b \in Brokers, add_broker(b) PROVE ListInv'
  <2>1. ASSUME NEW x \in Brokers, x # b PROVE Stored(x)' /\ Shared(x)'
    BY <1>5, <2>1, ListsUnchanged DEF add_broker, ListInv
  <2>2. Stored(b)'
    <3>1. HeardOf(b)' = HeardOf(b)
      BY <1>5 DEF add_broker, HeardOf
    <3> QED BY <1>5, <3>1 DEF add_broker, ListInv, Stored
  <2>3. Shared(b)'
    BY <1>5 DEF add_broker, ListInv, Shared, Storing
  <2>4. DOMAIN first' = Brokers
    BY <1>5 DEF add_broker, ListInv
  <2> QED BY <2>1, <2>2, <2>3, <2>4 DEF ListInv
<1>6. ASSUME NEW b \in Brokers,
             task_mutex_wlock(b) \/ WriterWaits(b) \/ async_receive_from(b) \/ ReceiveFails(b)
               \/ async_send_to(b) \/ SpuriousWakeup(b)
      PROVE  ListInv'
  <2>1. /\ \A x \in Brokers : r'[x] \in Storing <=> r[x] \in Storing
        /\ UNCHANGED <<recieved_broker, local_storage, alt_broker_list, first>>
    <3> USE DEF Storing, ReaderPlaces
    <3>1. CASE task_mutex_wlock(b)
      BY <3>1 DEF task_mutex_wlock
    <3>2. CASE WriterWaits(b) \/ async_receive_from(b) \/ ReceiveFails(b)
      BY <3>2 DEF WriterWaits, async_receive_from, ReceiveFails
    <3>3. CASE async_send_to(b)
      BY <3>3 DEF async_send_to, NotifyWriter
    <3>4. CASE SpuriousWakeup(b)
      BY <3>4 DEF SpuriousWakeup
    <3> QED BY <1>6, <3>1, <3>2, <3>3, <3>4
  <2> QED BY <2>1, ListsUnchanged DEF ListInv
<1> QED BY <1>2, <1>3, <1>4, <1>5, <1>6 DEF SBDPStep, WriterStep, ReaderStep, StoreStep, SBDPFault

LEMMA ListNext == ParticipantInv /\ ListInv /\ [Next]_vars => ListInv'
<1> SUFFICES ASSUME ParticipantInv, ListInv, [Next]_vars PROVE ListInv'
  OBVIOUS
<1>1. SBDPTypeInv
  BY DEF ParticipantInv
<1>2. ASSUME UNCHANGED readerVars PROVE ListInv'
  BY <1>2, ListsUnchanged DEF ListInv, readerVars
<1>3. CASE UNCHANGED vars \/ Idle
  BY <1>2, <1>3 DEF Idle, vars, sbdpVars
<1>4. CASE SBDPStep
  BY <1>1, <1>4, ListSBDPStep
<1>5. ASSUME NEW b \in Brokers,
             Start(b) \/ StartSBDP(b) \/ CreateEntities(b) \/ CheckStatus(b) \/ WaitReturns(b)
               \/ CreateFails(b) \/ StatusFails(b) \/ WaitFails(b) \/ Match(b) \/ Unmatch(b)
               \/ Connect(b)
      PROVE  ListInv'
  BY <1>2, <1>5 DEF Start, Boot, StartSBDP, Construct, CreateEntities, WaitReturns, CheckStatus,
                    CreateFails, StatusFails, WaitFails, Match, Unmatch, Connect,
                    increase_count, sbdpVars
<1>6. ASSUME NEW b \in Brokers, Terminate(b) PROVE ListInv'
  <2>1. ASSUME NEW x \in Brokers, x # b PROVE Stored(x)' /\ Shared(x)'
    <3>1. /\ r'[x] = r[x] /\ recieved_broker'[x] = recieved_broker[x]
          /\ local_storage'[x] = local_storage[x] /\ alt_broker_list'[x] = alt_broker_list[x]
      BY <1>1, <1>6, <2>1 DEF Terminate, End, SBDPTypeInv
    <3>2. first'[x] = first[x]
      BY <1>6, <2>1 DEF Terminate, End, ListInv
    <3> QED BY <3>1, <3>2, ListsUnchanged DEF ListInv
  <2>2. /\ first'[b] = <<>> /\ local_storage'[b] = <<>> /\ alt_broker_list'[b] = <<>>
        /\ r'[b] = "armed"
    BY <1>1, <1>6 DEF Terminate, End, SBDPTypeInv, ListInv
  <2>3. HeardOf(b)' = {}
    BY <2>2 DEF HeardOf
  <2>4. DOMAIN first' = Brokers
    BY <1>6 DEF Terminate, End, ListInv
  <2>5. Stored(b)' /\ Shared(b)'
    BY <2>2, <2>3, FS_EmptySet DEF Stored, Shared, Storing
  <2> QED BY <2>1, <2>4, <2>5 DEF ListInv
<1> QED BY <1>3, <1>4, <1>5, <1>6 DEF Next, MainStep

(* Whatever the network loses, repeats or reorders and whenever processes   *)
(* end and start again, the list of brokers is the first announcement of    *)
(* every id heard, each once (handle_receive_from and add_broker of         *)
(* SBDPBuiltinEndpointDataReader.h): for any number of brokers,             *)
(* announcements and faults.                                                *)
THEOREM FirstHeardStays == Spec => []ListIsFirstHeard
<1>1. ParticipantInv => SBDPTypeInv
  BY DEF ParticipantInv
<1> QED BY <1>1, ListInit, ListNext, ListInvImplies, ParticipantInit, ParticipantNext, PTL DEF Spec

-----------------------------------------------------------------------------
(* The lock of the discovery.  The inductive invariant says which thread    *)
(* has it, and that the reader's thread does not go to wait while the       *)
(* writer's waits.                                                          *)
LockOf(b) ==
  /\ lock[b] = "read" <=> w[b] \in {"rlocked", "runlock"}
  /\ lock[b] = "write" <=> r[b] \in {"wlocked", "wunlock"}
  /\ r[b] = "wwait" => w[b] \notin {"rwait", "rblocked"}

LockInv == \A b \in Brokers : LockOf(b)

(* What a step of b's threads does to the lock. *)
LockStep(b) ==
  /\ LockOf(b)'
  /\ WriterStuck(b)' => WriterStuck(b) \/ w[b] = "rwait"
  /\ ReaderStuck(b)' => ReaderStuck(b) \/ r[b] = "wwait"

(* A step that leaves b's threads and its lock alone. *)
LEMMA LockUnchanged ==
  ASSUME NEW b, LockOf(b), w'[b] = w[b], r'[b] = r[b], lock'[b] = lock[b]
  PROVE  LockStep(b)
BY DEF LockStep, LockOf, WriterStuck, ReaderStuck

LEMMA LockThreads ==
  ASSUME SBDPTypeInv, LockInv, NEW b \in Brokers,
         WriterStep(b) \/ ReaderStep(b) \/ SBDPFault(b) \/ SpuriousWakeup(b)
  PROVE  \A x \in Brokers : LockStep(x)
<1>1. /\ w \in [Brokers -> WriterPlaces] /\ r \in [Brokers -> ReaderPlaces]
      /\ lock \in [Brokers -> {"free", "read", "write"}]
  BY DEF SBDPTypeInv
<1>2. ASSUME NEW x \in Brokers, x # b PROVE LockStep(x)
  <2>1. w'[x] = w[x] /\ r'[x] = r[x] /\ lock'[x] = lock[x]
    <3>1. CASE WriterStep(b)
      BY <1>1, <1>2, <3>1
         DEF WriterStep, handle_send_to, handle_timeout, task_mutex_rlock, ReaderWaits, Announce,
             async_send_to, readerVars
    <3>2. CASE StoreStep(b)
      BY <1>1, <1>2, <3>2
         DEF StoreStep, task_mutex_wlock, WriterWaits, add_broker, async_receive_from, writerVars
    <3>3. CASE \E m \in net : handle_receive_from(b, m)
      BY <1>1, <1>2, <3>3 DEF handle_receive_from, writerVars
    <3>4. CASE SBDPFault(b) \/ SpuriousWakeup(b)
      BY <1>1, <1>2, <3>4
         DEF SBDPFault, SendFails, ReceiveFails, SpuriousWakeup, writerVars, readerVars
    <3> QED BY <3>1, <3>2, <3>3, <3>4 DEF ReaderStep
  <2> QED BY <2>1, LockUnchanged DEF LockInv
<1>3. LockStep(b)
  <2>1. /\ LockOf(b) /\ w[b] \in WriterPlaces /\ r[b] \in ReaderPlaces
        /\ lock[b] \in {"free", "read", "write"}
    BY <1>1 DEF LockInv
  <2> USE <1>1, <2>1 DEF LockStep, LockOf, WriterStuck, ReaderStuck, WriterPlaces, ReaderPlaces,
                         Announcing, Storing
  <2>2. CASE handle_send_to(b) \/ handle_timeout(b) \/ ReaderWaits(b) \/ Announce(b) \/ SendFails(b)
    BY <2>2 DEF handle_send_to, handle_timeout, ReaderWaits, Announce, SendFails, readerVars
  <2>3. CASE task_mutex_rlock(b)
    BY <2>3 DEF task_mutex_rlock, MutexFree, WriterPending, readerVars
  <2>4. CASE async_send_to(b)
    BY <2>4 DEF async_send_to, NotifyWriter
  <2>5. CASE task_mutex_wlock(b)
    BY <2>5 DEF task_mutex_wlock, MutexFree, writerVars
  <2>6. CASE WriterWaits(b) \/ add_broker(b) \/ ReceiveFails(b)
    BY <2>6 DEF WriterWaits, add_broker, ReceiveFails, writerVars
  <2>7. CASE async_receive_from(b)
    BY <2>7 DEF async_receive_from, NotifyReader
  <2>8. CASE \E m \in net : handle_receive_from(b, m)
    <3>1. lock' = lock /\ w' = w /\ r[b] = "armed" /\ r'[b] \in {"armed", "wlock"}
      BY <2>8 DEF handle_receive_from, writerVars
    <3> QED BY <3>1
  <2>9. CASE SpuriousWakeup(b)
    BY <2>9 DEF SpuriousWakeup
  <2> QED BY <2>2, <2>3, <2>4, <2>5, <2>6, <2>7, <2>8, <2>9
          DEF WriterStep, ReaderStep, StoreStep, SBDPFault
<1> QED BY <1>2, <1>3

LEMMA LockNext == ParticipantInv /\ LockInv /\ [Next]_vars => \A x \in Brokers : LockStep(x)
<1> SUFFICES ASSUME ParticipantInv, LockInv, [Next]_vars PROVE \A x \in Brokers : LockStep(x)
  OBVIOUS
<1>1. SBDPTypeInv
  BY DEF ParticipantInv
<1>2. ASSUME UNCHANGED <<w, r, lock>> PROVE \A x \in Brokers : LockStep(x)
  BY <1>2, LockUnchanged DEF LockInv
<1>3. CASE UNCHANGED vars \/ Idle
  BY <1>2, <1>3 DEF Idle, vars, sbdpVars, writerVars, readerVars
<1>4. CASE SBDPStep
  <2>1. CASE \E m \in net : Lose(m)
    BY <1>2, <2>1 DEF Lose, writerVars, readerVars
  <2> QED BY <1>1, <1>4, <2>1, LockThreads DEF SBDPStep
<1>5. ASSUME NEW b \in Brokers,
             Start(b) \/ CreateEntities(b) \/ CheckStatus(b) \/ WaitReturns(b) \/ CreateFails(b)
               \/ StatusFails(b) \/ WaitFails(b) \/ Match(b) \/ Unmatch(b) \/ Connect(b)
      PROVE  \A x \in Brokers : LockStep(x)
  BY <1>2, <1>5 DEF Start, Boot, CreateEntities, WaitReturns, CheckStatus, CreateFails, StatusFails,
                    WaitFails, Match, Unmatch, Connect, increase_count, sbdpVars, writerVars,
                    readerVars
<1>6. ASSUME NEW b \in Brokers, StartSBDP(b) \/ Terminate(b), NEW x \in Brokers PROVE LockStep(x)
  <2>1. CASE x # b
    <3>1. w'[x] = w[x] /\ r'[x] = r[x] /\ lock'[x] = lock[x]
      BY <1>1, <1>6, <2>1 DEF StartSBDP, Construct, Terminate, End, SBDPTypeInv, readerVars
    <3> QED BY <3>1, LockUnchanged DEF LockInv
  <2>2. CASE x = b /\ Terminate(b)
    <3>1. w'[b] = "new" /\ r'[b] = "armed" /\ lock'[b] = "free"
      BY <1>1, <2>2 DEF Terminate, End, SBDPTypeInv
    <3> QED BY <2>2, <3>1 DEF LockStep, LockOf, WriterStuck, ReaderStuck
  <2>3. CASE x = b /\ StartSBDP(b)
    <3>1. /\ w[b] = "new" /\ w'[b] = "sending" /\ r'[b] = r[b] /\ lock'[b] = lock[b]
      BY <1>1, <2>3 DEF StartSBDP, Construct, SBDPTypeInv, readerVars
    <3> QED BY <2>3, <3>1 DEF LockInv, LockStep, LockOf, WriterStuck, ReaderStuck
  <2> QED BY <1>6, <2>1, <2>2, <2>3
<1> QED BY <1>3, <1>4, <1>5, <1>6 DEF Next, MainStep

(* In any instance, a thread of the discovery hangs in the lock only when   *)
(* it enters the wait set after the other one has notified it               *)
(* (SBDPThreadMutex.cpp:61-75).                                             *)
THEOREM MissedOnlyByLateWait == Spec => HangsOnlyByLateWait
<1>1. Init => LockInv
  BY DEF Init, SBDPInit, LockInv, LockOf
<1>2. ParticipantInv /\ LockInv /\ [Next]_vars => LockInv'
  BY LockNext DEF LockInv, LockStep
<1>3. ParticipantInv /\ LockInv /\ [Next]_vars
        => [\A b \in Brokers :
              /\ WriterStuck(b)' => WriterStuck(b) \/ w[b] = "rwait"
              /\ ReaderStuck(b)' => ReaderStuck(b) \/ r[b] = "wwait"]_vars
  BY LockNext DEF LockStep
<1> QED BY <1>1, <1>2, <1>3, ParticipantInit, ParticipantNext, PTL DEF Spec, HangsOnlyByLateWait

=============================================================================
