-------------------------- MODULE BrokerParticipant --------------------------
(***************************************************************************)
(* main() of BrokerParticipant.cpp, in every broker process: it starts the  *)
(* discovery (SBDP.tla), creates the DDS entities and then waits for the    *)
(* DDS publishers of the received topic to complete.  Wherever main returns *)
(* its threads are joinable, so that their destructors end the process;     *)
(* somebody may start it again.                                             *)
(***************************************************************************)
EXTENDS SBDP

CONSTANT
  Scenarios         \* the processes, the clients that connect to each of them and the
                    \* DDS publishers there are: [brokers, clients, publishers]

ASSUME ScenariosAssumption ==
  \A s \in Scenarios : s.brokers \subseteq Brokers /\ s.clients \in Nat /\ s.publishers \in Nat

VARIABLES
  scenario,         \* one of Scenarios
  main,             \* main[b]: where main() is
  current_count, total_count,   \* the SubscriptionMatchedStatus of b's DataReader
  changed           \* changed[b]: the trigger value of its StatusCondition

lifeVars == <<main, current_count, total_count, changed>>
vars == <<scenario, lifeVars, sbdpVars>>

Init ==
  /\ scenario \in Scenarios
  /\ main = [b \in Brokers |-> "off"]
  /\ current_count = [b \in Brokers |-> 0]
  /\ total_count = [b \in Brokers |-> 0]
  /\ changed = [b \in Brokers |-> FALSE]
  /\ SBDPInit

matchVars == <<current_count, total_count, changed>>
MainTo(b, from, to) == main[b] = from /\ main' = [main EXCEPT ![b] = to]

(* The arguments and the port, the locks, the session acceptor and its      *)
(* threads, and the SBDP reader.                                            *)
Start(b) ==
  /\ b \in scenario.brokers /\ MainTo(b, "off", "writer")
  /\ Boot(b)
  /\ UNCHANGED <<scenario, matchVars>>

(* The SBDP writer, then the threads of both. *)
StartSBDP(b) ==
  /\ MainTo(b, "writer", "entities")
  /\ Construct(b)
  /\ UNCHANGED <<scenario, matchVars>>

(* Mutant: the loop ends only when more than one publisher has been there. *)
CompletedLate(b) == current_count[b] = 0 /\ total_count[b] > 1

Completed(b) == current_count[b] = 0 /\ total_count[b] > 0

(* A client connects to a session. *)
Connect(b) ==
  /\ client_no[b] < scenario.clients
  /\ increase_count(b)
  /\ UNCHANGED <<scenario, lifeVars>>

(* Participant, type, topics, subscriber, the publisher's thread and the    *)
(* DataReader, from which on publishers are matched.                        *)
CreateEntities(b) ==
  /\ MainTo(b, "entities", "loop")
  /\ UNCHANGED <<scenario, matchVars, sbdpVars>>

(* One of them is nil: ACE_ERROR_RETURN. *)
CreateFails(b) ==
  /\ MainTo(b, "entities", "failed") /\ AFault
  /\ UNCHANGED <<scenario, matchVars, up, client_no, lock, writerVars, readerVars, net>>

HasReader(b) == main[b] \in {"loop", "wait", "join"}

(* A remote DataWriter of the topic appears, or disappears. *)
Match(b) ==
  /\ HasReader(b) /\ total_count[b] < scenario.publishers
  /\ current_count' = [current_count EXCEPT ![b] = @ + 1]
  /\ total_count' = [total_count EXCEPT ![b] = @ + 1]
  /\ changed' = [changed EXCEPT ![b] = TRUE]
  /\ UNCHANGED <<scenario, main, sbdpVars>>

Unmatch(b) ==
  /\ HasReader(b) /\ current_count[b] > 0
  /\ current_count' = [current_count EXCEPT ![b] = @ - 1]
  /\ changed' = [changed EXCEPT ![b] = TRUE]
  /\ UNCHANGED <<scenario, main, total_count, sbdpVars>>

(* One turn of main's loop: get_subscription_matched_status, which resets   *)
(* the condition, and either all the publishers that there were have left,  *)
(* or main waits.                                                           *)
CheckStatus(b) ==
  /\ \/ Completed(b) /\ MainTo(b, "loop", "join")
     \/ ~Completed(b) /\ MainTo(b, "loop", "wait")
  /\ changed' = [changed EXCEPT ![b] = FALSE]
  /\ UNCHANGED <<scenario, current_count, total_count, sbdpVars>>

(* ws->wait returns RETCODE_OK. *)
WaitReturns(b) ==
  /\ changed[b] /\ MainTo(b, "wait", "loop")
  /\ UNCHANGED <<scenario, matchVars, sbdpVars>>

(* An error of get_subscription_matched_status: return 1. *)
StatusFails(b) ==
  /\ MainTo(b, "loop", "failed") /\ AFault
  /\ UNCHANGED <<scenario, matchVars, up, client_no, lock, writerVars, readerVars, net>>

(* RETCODE_TIMEOUT after 180 seconds without a change: return 1. *)
WaitFails(b) ==
  /\ ~changed[b] /\ MainTo(b, "wait", "return") /\ AFault
  /\ UNCHANGED <<scenario, matchVars, up, client_no, lock, writerVars, readerVars, net>>

(* The destructors of the threads end the process. *)
Terminate(b) ==
  /\ main[b] \in {"failed", "return"} /\ main' = [main EXCEPT ![b] = "off"]
  /\ End(b)
  /\ current_count' = [current_count EXCEPT ![b] = 0]
  /\ total_count' = [total_count EXCEPT ![b] = 0]
  /\ changed' = [changed EXCEPT ![b] = FALSE]
  /\ UNCHANGED scenario

MainStep(b) ==
  StartSBDP(b) \/ CreateEntities(b) \/ CheckStatus(b) \/ WaitReturns(b) \/ Terminate(b)

(* main joins the session threads, which never end: `work` keeps their      *)
(* io_service running.  Nothing is left but to serve, with a discovery that *)
(* is over or hangs.                                                        *)
Idle ==
  /\ \A b \in scenario.brokers :
       main[b] \in {"wait", "join"} /\ (w[b] \in {"done", "failed"} \/ WriterStuck(b))
  /\ UNCHANGED vars

Next ==
  \/ \E b \in Brokers : Start(b) \/ MainStep(b) \/ CreateFails(b) \/ StatusFails(b)
                        \/ WaitFails(b) \/ Match(b) \/ Unmatch(b) \/ Connect(b)
  \/ SBDPStep /\ UNCHANGED <<scenario, lifeVars>>
  \/ Idle

Spec == Init /\ [][Next]_vars

(* main and the io threads run, timers expire, and a datagram that is not   *)
(* lost arrives.  Nobody has to start a process, nor a publisher to come,   *)
(* and no thread in a wait set has to wake up by itself.                    *)
FairSpec ==
  /\ Spec
  /\ \A b \in Brokers :
       /\ WF_vars(MainStep(b))
       /\ WF_vars(WriterStep(b) /\ UNCHANGED <<scenario, lifeVars>>)
       /\ WF_vars(StoreStep(b) /\ UNCHANGED <<scenario, lifeVars>>)
       /\ WF_vars(/\ \E m \in net : handle_receive_from(b, m) /\ m \notin net'
                  /\ UNCHANGED <<scenario, lifeVars>>)

-----------------------------------------------------------------------------
MainPlaces == {"off", "writer", "entities", "loop", "wait", "join", "failed", "return"}

(* The types of main's state and of the discovery. *)
TypeOK ==
  /\ SBDPTypeOK
  /\ main \in [Brokers -> MainPlaces]
  /\ \A b \in Brokers :
       /\ client_no[b] \in 0..scenario.clients
       /\ total_count[b] \in 0..scenario.publishers
       /\ current_count[b] \in 0..total_count[b]
       /\ changed[b] \in BOOLEAN

(* An alternative broker is found by every broker that reads while the      *)
(* other has more announcements to make than faults will still happen,      *)
(* unless one of the two fails or ends, or misses the notification of the   *)
(* lock for good.  A broker that starts after the last announcement never   *)
(* learns of it (message_count_ < 50).                                      *)
Discovered ==
  \A b \in Brokers, x \in Brokers \ Main :
    (Reads(b) /\ Announces(x) /\ Left(x) > MaxFaults - faults)
      ~> (Knows(b, BROKER_ALT_ID) \/ ~Reads(b) \/ ~Announces(x))

(* A thread of the discovery hangs in the lock only by entering the wait    *)
(* set after the lock was released: whoever is in the wait set when the     *)
(* other one unlocks, or gives up, is woken (SBDPThreadMutex.cpp:61-75).    *)
HangsOnlyByLateWait ==
  [][\A b \in Brokers :
       /\ WriterStuck(b)' => WriterStuck(b) \/ w[b] = "rwait"
       /\ ReaderStuck(b)' => ReaderStuck(b) \/ r[b] = "wwait"]_vars

(* "Block until Publisher completes" (BrokerParticipant.cpp:287): main does *)
(* not return from its loop while a publisher is matched.                   *)
BlocksUntilPublisherCompletes ==
  \A b \in Brokers : main[b] = "return" => current_count[b] = 0

(* main notices that the last publisher has left, also when it leaves       *)
(* between get_subscription_matched_status and the wait.                    *)
CompletionNoticed ==
  \A b \in Brokers :
    (main[b] \in {"loop", "wait"} /\ current_count[b] = 0 /\ total_count[b] > 0)
      ~> (main[b] \in {"join", "failed", "return", "off"} \/ current_count[b] > 0)

=============================================================================
