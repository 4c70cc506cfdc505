------------------------------ MODULE QueueOps -------------------------------
(* What moodycamel::BlockingConcurrentQueue promises, as the broker's model *)
(* uses it: one FIFO per thread that enqueues; a dequeue takes the first    *)
(* element of any of them.  These are the Put, Take and Return of           *)
(* AbstractQueue for calls of one element; BlockingConcurrentQueue shows    *)
(* that the library's algorithm implements AbstractQueue.                   *)
EXTENDS Sequences

Enqueue(queue, p, x) == [queue EXCEPT ![p] = Append(@, x)]
Nonempty(queue, p) == queue[p] # <<>>
Dequeued(queue, p) == [queue EXCEPT ![p] = Tail(@)]

=============================================================================
