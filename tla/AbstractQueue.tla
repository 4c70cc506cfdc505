---------------------------- MODULE AbstractQueue ----------------------------
(* The queue that the broker relies on: every element is handed to one      *)
(* call, in the order in which it entered its stream; a running thread      *)
(* keeps to one stream.  The elements of one call enter together; a call    *)
(* may take several before it returns.                                      *)
EXTENDS Sequences, Naturals

CONSTANTS Threads, Streams, Items

VARIABLES
  q,     \* q[s]: the elements of stream s that nobody has taken
  hand,  \* hand[t]: what t has taken and its call has not returned yet
  got    \* got[t]: what the calls of t have returned

vars == <<q, hand, got>>

Init ==
  /\ q = [s \in Streams |-> <<>>]
  /\ hand = [t \in Threads |-> <<>>]
  /\ got = [t \in Threads |-> <<>>]

(* Some items enter some stream: they are then the last of the stream. *)
Put ==
  /\ \E s \in Streams :
       LET new == SubSeq(q'[s], Len(q[s]) + 1, Len(q'[s]))
       IN /\ new # <<>> /\ \A i \in DOMAIN new : new[i] \in Items
          /\ q' = [q EXCEPT ![s] = @ \o new]
  /\ UNCHANGED <<hand, got>>

Take(t) ==
  /\ \E s \in Streams : \E n \in 1..Len(q[s]) :
       /\ hand' = [hand EXCEPT ![t] = @ \o SubSeq(q[s], 1, n)]
       /\ q' = [q EXCEPT ![s] = SubSeq(@, n + 1, Len(@))]
  /\ UNCHANGED got

Return(t) ==
  /\ hand[t] # <<>>
  /\ got' = [got EXCEPT ![t] = @ \o hand[t]]
  /\ hand' = [hand EXCEPT ![t] = <<>>]
  /\ UNCHANGED q

Spec == Init /\ [][Put \/ \E t \in Threads : Take(t) \/ Return(t)]_vars

=============================================================================
