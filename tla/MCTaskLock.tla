----------------------------- MODULE MCTaskLock -----------------------------
(* Instances of TaskLock for TLC: the threads are model values; writers are *)
(* interchangeable, and so are readers.                                     *)
EXTENDS TaskLock, TLC

Symmetry == Permutations(Writers) \cup Permutations(Readers)

=============================================================================
