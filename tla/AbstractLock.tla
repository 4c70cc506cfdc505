---------------------------- MODULE AbstractLock ----------------------------
(* What a caller of task_mutex_wlock, task_mutex_rlock and                  *)
(* task_mutex_unlock relies on: one writer alone, or readers together.      *)
CONSTANTS Writers, Readers

VARIABLES writing,   \* the writers that hold the lock
          reading    \* the readers that hold the lock

Init == writing = {} /\ reading = {}

GrantWrite(t) == writing = {} /\ reading = {} /\ writing' = {t} /\ UNCHANGED reading
GrantRead(t)  == writing = {} /\ t \notin reading /\ reading' = reading \cup {t}
                   /\ UNCHANGED writing
Release(t)    == /\ t \in writing \cup reading
                 /\ writing' = writing \ {t} /\ reading' = reading \ {t}

Next == \/ \E t \in Writers : GrantWrite(t)
        \/ \E t \in Readers : GrantRead(t)
        \/ \E t \in Writers \cup Readers : Release(t)

Spec == Init /\ [][Next]_<<writing, reading>>

=============================================================================
