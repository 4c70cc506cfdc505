------------------------ MODULE MCBrokerParticipant --------------------------
(* Two brokers; and the alternative one alone, which hears itself, gets a   *)
(* client and has DDS publishers come and leave.                            *)
EXTENDS BrokerParticipant

CONSTANTS main_b, alt

(* Only the alternative broker's announcements are kept by a reader. *)
MCAnnouncements == [b \in {main_b, alt} |-> IF b = alt THEN 2 ELSE 1]

MCScenarios ==
  {[brokers |-> {main_b, alt}, clients |-> 0, publishers |-> 0],
   [brokers |-> {alt}, clients |-> 1, publishers |-> 2]}
=============================================================================
