----------------------------- MODULE DDSBridge -------------------------------
(***************************************************************************)
(* The DDS side: DataReaderListenerImpl::on_data_available                  *)
(* (src/DataReaderListenerImpl.cpp), which turns a sample into MQTT tasks,  *)
(* and Broker_Publisher::work (src/Broker/BrokerPublisher.cpp), which       *)
(* writes the DDS queue to the DDS data writer.                             *)
(***************************************************************************)
EXTENDS BrokerState

ListenerAt(pc) == up /\ lst.pc = pc
Sample == SampleSeq[lst.taken]

(* take_next_sample succeeds: the sample goes to the DDS queue. *)
TakeSample ==
  /\ ListenerAt("idle") /\ lst.taken < Len(SampleSeq) /\ Started(Listener)
  /\ lst' = [lst EXCEPT !.pc = "find", !.taken = @ + 1]
  /\ dq' = Enqueue(dq, Listener, SampleSeq[lst.taken + 1])
  /\ UNCHANGED <<env, up, sessionVars, topic_list, q, ioVars, wt, retained, matched, ddsOut>>

(* take_next_sample fails, the sample is lost; the callback is counted. *)
TakeFails ==
  /\ ListenerAt("idle") /\ lst.taken < Len(SampleSeq) /\ Started(Listener)
  /\ lst' = [lst EXCEPT !.pc = "count", !.taken = @ + 1]
  /\ UNCHANGED <<env, up, sessionVars, topic_list, queueVars, ioVars, wt, retained, matched,
                 ddsOut>>

(* find_topic("GPS") without the lock. *)
ListenerFind ==
  /\ ListenerAt("find")
  /\ lst' = [lst EXCEPT !.pc = "each", !.targets = find_topic(Gps)]
  /\ UNCHANGED <<env, up, sessionVars, topic_list, queueVars, ioVars, wt, retained, matched,
                 ddsOut>>

ListenerBroadcast ==
  /\ ListenerAt("each") /\ lst.targets # <<>>
  /\ q' = Enqueue(q, Listener, PublishTask(Broadcast, Sample))
  /\ lst' = [lst EXCEPT !.targets = Tail(@)]
  /\ UNCHANGED <<env, up, sessionVars, topic_list, dq, ioVars, wt, retained, matched, ddsOut>>

(* One MQTT task per subscribed session, for the id it has now. *)
ListenerEnqueue ==
  /\ ListenerAt("each") /\ lst.targets # <<>>
  /\ q' = Enqueue(q, Listener, PublishTask(sid[Head(lst.targets)], Sample))
  /\ lst' = [lst EXCEPT !.targets = Tail(@)]
  /\ UNCHANGED <<env, up, sessionVars, topic_list, dq, ioVars, wt, retained, matched, ddsOut>>

ListenerRace ==
  /\ \/ ListenerAt("find") /\ Racing({"subscribe"})
     \/ ListenerAt("each") /\ lst.targets # <<>> /\ Racing({"setid"})
  /\ Crash
  /\ UNCHANGED <<env, sessionVars, topic_list, queueVars, ioVars, wt, ddsVars>>

(* The process exits when the count has reached its maximum. *)
ListenerEnd ==
  /\ ListenerAt("each") /\ lst.targets = <<>>
  /\ IF retained >= MaxRetained
     THEN Crash /\ UNCHANGED lst
     ELSE lst' = [lst EXCEPT !.pc = "count"] /\ UNCHANGED up
  /\ UNCHANGED <<env, sessionVars, topic_list, queueVars, ioVars, wt, retained, matched, ddsOut>>

CountSampleDown ==
  /\ ListenerAt("count")
  /\ lst' = [lst EXCEPT !.pc = "idle"]
  /\ retained' = retained - 1
  /\ UNCHANGED <<env, up, sessionVars, topic_list, queueVars, ioVars, wt, matched, ddsOut>>

(* retained_message_count++. *)
CountSample ==
  /\ ListenerAt("count")
  /\ lst' = [lst EXCEPT !.pc = "idle"]
  /\ retained' = retained + 1
  /\ UNCHANGED <<env, up, sessionVars, topic_list, queueVars, ioVars, wt, matched, ddsOut>>

ListenerStep == \/ TakeSample \/ TakeFails \/ ListenerFind \/ ListenerEnqueue
                \/ ListenerRace \/ ListenerEnd \/ CountSample

-----------------------------------------------------------------------------
(* Broker_Publisher::work blocks until a DDS reader matches. *)
Match ==
  /\ up /\ ~matched
  /\ matched' = TRUE
  /\ UNCHANGED <<env, up, sessionVars, topic_list, queueVars, ioVars, wt, lst, retained, ddsOut>>

(* wait_dequeue, read_json and write.  A payload that does not parse, or    *)
(* lacks a field, throws out of the thread: the process terminates.         *)
PublishDDS ==
  /\ up /\ matched
  /\ \E p \in {p \in DDSProducers : Nonempty(dq, p)} :
       LET m == Head(dq[p])
       IN /\ dq' = Dequeued(dq, p)
          /\ IF m \in Malformed \cup {Garbage}
             THEN Crash /\ UNCHANGED ddsOut
             ELSE ddsOut' = Append(ddsOut, m) /\ UNCHANGED up
  /\ UNCHANGED <<env, sessionVars, topic_list, q, ioVars, wt, lst, retained, matched>>

=============================================================================
