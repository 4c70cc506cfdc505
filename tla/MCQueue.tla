------------------------------- MODULE MCQueue -------------------------------
EXTENDS BlockingConcurrentQueue, TLC

CONSTANTS ta, tb, tc, td    \* threads

MCThreads == {ta, tb, tc, td}
MCHash == ta :> 1 @@ tb :> 1 @@ tc :> 2 @@ td :> 3      \* ta and tb collide

Plenty == [tables |-> MaxTables, producers |-> MaxProducers, indexes |-> MaxIndexes]
LoadWith(mem, order, ca, cb, cc, cd) ==
  [memory |-> mem, turns |-> order, calls |-> ta :> ca @@ tb :> cb @@ tc :> cc @@ td :> cd]
Load(order, ca, cb, cc, cd) == LoadWith(Plenty, order, ca, cb, cc, cd)
E == <<"enqueue">>
R == <<"enqueue_throws">>
Y == <<"try_enqueue">>
W == <<"wait_dequeue">>
T == <<"wait_dequeue_timed">>
D == <<"try_dequeue">>
X == <<"exit">>
BE == <<"enqueue_bulk">>
BR == <<"enqueue_bulk_throws">>
BZ == <<"try_enqueue_bulk">>
BW == <<"wait_dequeue_bulk">>
BT == <<"wait_dequeue_bulk_timed">>
BD == <<"try_dequeue_bulk">>
K == <<"token">>
KX == <<"drop_token">>
KE == <<"token_enqueue">>
KY == <<"token_try_enqueue">>
KBE == <<"token_enqueue_bulk">>
KBZ == <<"token_try_enqueue_bulk">>
KR == <<"token_enqueue_throws">>
N == <<>>

Times(n, call) == [i \in 1..n |-> Head(call)]

(* Consumers that sleep, time out or return at once. *)
Waits == {
  Load(N, E, W, T, N),
  Load(<<ta>>, E, W, T, D),
  Load(<<ta, td>>, E, T, T, E),
  Load(<<td, ta>>, E \o E, W \o W, W, E)}

(* Threads enqueue for the first time, together: the table is replaced.     *)
(* Threads of the old table enqueue again; threads end while others take    *)
(* over their producers and slots, and their ids come back.                 *)
Hashes == {
  Load(<<tc>>, E, E, E, N),
  Load(<<ta, tb, tc>>, E, E, E, E),
  Load(<<ta>>, E \o E \o X, E \o X, N, N),
  Load(<<ta, tb, ta, ta>>, E \o E \o X \o E, E \o E, N, N),
  Load(<<ta, ta>>, E \o X, E \o X, E, N),
  Load(<<ta, ta>>, E \o X \o E, E \o X, N, N)}

(* There is no memory for a larger table, or for a producer. *)
Starved == {
  LoadWith([Plenty EXCEPT !.tables = 1], <<tc>>, E \o X, E, E, N),
  LoadWith([Plenty EXCEPT !.producers = 1], <<tc>>, E, E, E, N)}

(* Blocks go round: the pool is in use; tc empties a block while ta and tb  *)
(* need one, or there is none.                                              *)
Blocked == {
  Load(<<ta, ta, ta, ta, tb, tb, tc, tc, tc>>, Times(5, E), Times(3, E), Times(4, W), N),
  Load(<<ta, ta, tb, tb, tc, tc>>, E \o E, E \o E, Times(3, W), W),
  Load(<<ta, ta, tb, tb, tc, tc, tc>>, Times(3, E), Times(4, E), Times(5, W), N),
  Load(<<ta, ta, ta, ta, tb, tb, tb, td>>, Times(5, E), E \o E \o Y \o Y, N, W \o W)}

(* The block index grows while two consumers look for their blocks; the     *)
(* indexes wrap around; an element's constructor throws.                    *)
Indexing == {
  Load(<<ta, ta, ta, ta>>, Times(5, E), W, W, N),
  LoadWith([Plenty EXCEPT !.indexes = 1], <<ta, ta, ta, ta, tb>>, Times(6, E), W \o W, N, N),
  Load(<<ta, ta, ta, ta, ta, ta, tb>>, Times(7, E), W \o W, N, N),
  Load([i \in 1..30 |-> IF i % 2 = 1 THEN ta ELSE tb], Times(17, E), Times(16, W), W, N),
  Load(<<ta, ta, tb, tb>>, E \o E \o R \o E, E \o E \o R, W \o W, N)}

(* Bulk operations: several sleepers, elements in several blocks and        *)
(* producers, consumers that claim what another has taken; a bulk enqueue   *)
(* that must take its blocks back.                                          *)
Bulks == {
  Load(N, BE, BW, T, N),
  Load(N, BE, W, BT, N),
  Load(<<ta, ta, td>>, E \o E, BW, W, E),
  Load(<<ta>>, BE \o E, BW, BD, N),
  Load(<<ta, ta, tb>>, E \o E \o BZ \o E, E, BW, N),
  Load(<<ta, ta>>, E \o E \o BR \o BE, BW, N, N)}

(* Producer tokens: the ring of blocks goes round, or grows, under two      *)
(* consumers, and with it the index; there is no block, or no index, for an *)
(* enqueue_bulk; a token is dropped and its producer taken over.            *)
Tokens == {
  Load(<<ta, ta, ta, ta, ta, tb, tb, ta, ta>>, K \o Times(7, KE), W \o W, W, N),
  Load(<<ta, ta, ta>>, K \o KE \o KE \o KBE, W, BW, N),
  Load(<<ta, ta, ta, tb, tb>>, K \o KBE \o KE \o KBE, Times(4, W), W, N),
  Load(<<ta, ta, ta, tb, tc, tc>>, K \o KE \o KR \o KBZ \o KY, W, E \o E \o E, N),
  Load(<<td, ta, ta, ta, ta>>, K \o KE \o KE \o KBE, W, N, E),
  LoadWith([Plenty EXCEPT !.indexes = 1], <<ta, ta, ta, ta>>, K \o KBE \o KE \o KBE \o KE, W, N, N),
  Load(<<ta, ta, ta>>, K \o KE \o KX, K \o KE, K \o KE, W)}

(* A try_enqueue_bulk gets one block of two, and may not allocate a larger  *)
(* index for the other; the producer goes on with that block.               *)
FailedBulk == {Load(<<ta, ta, ta, ta>>, K \o KE \o KE \o KBZ \o KE \o KE \o KE, W, N, N)}

MCWorkloads == Tokens \cup Bulks \cup Waits \cup Hashes \cup Starved \cup Blocked \cup Indexing
=============================================================================
