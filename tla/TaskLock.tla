------------------------------ MODULE TaskLock ------------------------------
(***************************************************************************)
(* The reader/writer lock task_lock_t of src/DDSThread/DDSThread.h (and     *)
(* its copies SBDP/SBDPThreadMutex.cpp and BrokerThreadMutex.cpp), used by  *)
(* the CONNECT handler of Broker/MQTTSession.cpp to number the clients.     *)
(*                                                                         *)
(* `boost::mutex::scoped_lock(mutex.lock_mutex);` builds a temporary that   *)
(* dies at the semicolon: it waits until lock_mutex is free and holds       *)
(* nothing afterwards.  So the `pending_...++` of the lock operations and   *)
(* the whole body of unlock run outside the mutex; every access to shared   *)
(* state that can race is a step of its own.                                *)
(***************************************************************************)
EXTENDS Integers, FiniteSets

CONSTANTS Writers,   \* threads that call task_mutex_wlock
          Readers,   \* threads that call task_mutex_rlock
          MaxCalls,  \* bound: lock/unlock pairs per thread
          Free       \* lock_mutex has no owner

ASSUME ThreadsAssumption == Writers \cap Readers = {}
ASSUME FreeAssumption    == Free \notin Writers \cup Readers
ASSUME CallsAssumption   == MaxCalls \in Nat

Threads == Writers \cup Readers

VARIABLES
  lock_mutex,        \* owner of mutex.lock_mutex, or Free
  writer_number,     \* mutex.writer_number
  reader_number,     \* mutex.reader_number
  pending_writers,   \* mutex.pending_writers
  pending_readers,   \* mutex.pending_readers
  task_count,        \* mutex.task_count
  pc,                \* pc[t]: the next step of thread t
  tmp,               \* tmp[t]: the register of a non-atomic ++ or --
  calls,             \* calls[t]: lock/unlock pairs t has completed
  client_no,         \* BROKER_CONFIGURATION::client_no, what writers protect
  numbers            \* numbers[t]: the values t got from get_count()

lockVars == <<writer_number, reader_number, pending_writers, pending_readers,
              task_count>>
dataVars == <<client_no, numbers>>
vars == <<lock_mutex, lockVars, pc, tmp, calls, dataVars>>

(* Where a thread stands.  A blocked thread is in the wait set of its       *)
(* condition variable; a woken one has been notified and needs the mutex.   *)
WriterSteps == {"w_inc", "w_store", "w_lock", "w_check", "w_wait", "w_blocked",
                "w_woken", "w_dec", "w_grant", "w_count", "w_countstore", "w_number"}
ReaderSteps == {"r_inc", "r_store", "r_lock", "r_check", "r_checkw", "r_wait",
                "r_blocked", "r_woken", "r_dec", "r_grant", "r_section"}
UnlockSteps == {"u_enter", "u_writer", "u_resetw", "u_reader", "u_resetr",
                "u_select", "u_pending", "u_other", "u_pendingr", "u_tasks",
                "u_notifyw", "u_notifyr"}

Goto(t, from, to) == pc[t] = from /\ pc' = [pc EXCEPT ![t] = to]

Init ==
  /\ lock_mutex = Free
  /\ writer_number = 0 /\ reader_number = 0
  /\ pending_writers = 0 /\ pending_readers = 0 /\ task_count = 0
  /\ pc = [t \in Threads |-> "idle"]
  /\ tmp = [t \in Threads |-> 0]
  /\ calls = [t \in Threads |-> 0]
  /\ client_no = 0
  /\ numbers = [t \in Threads |-> {}]

-----------------------------------------------------------------------------
(* task_mutex_wlock *)

(* The scoped_lock temporary: a barrier that leaves the mutex free. *)
WEnter(t) ==
  /\ t \in Writers /\ calls[t] < MaxCalls
  /\ Goto(t, "idle", "w_inc")
  /\ lock_mutex = Free
  /\ UNCHANGED <<lock_mutex, lockVars, tmp, calls, dataVars>>

(* pending_writers++ without the mutex: a load, then a store. *)
WIncLoad(t) ==
  /\ Goto(t, "w_inc", "w_store")
  /\ tmp' = [tmp EXCEPT ![t] = pending_writers]
  /\ UNCHANGED <<lock_mutex, lockVars, calls, dataVars>>

WIncStore(t) ==
  /\ Goto(t, "w_store", "w_lock")
  /\ pending_writers' = tmp[t] + 1
  /\ UNCHANGED <<lock_mutex, writer_number, reader_number, pending_readers,
                 task_count, tmp, calls, dataVars>>

(* Lock_t wait_cond, and the same acquisition inside wait() once woken. *)
WLock(t) ==
  /\ \E from \in {"w_lock", "w_woken"} : Goto(t, from, "w_check")
  /\ lock_mutex = Free
  /\ lock_mutex' = t
  /\ UNCHANGED <<lockVars, tmp, calls, dataVars>>

WCheckWritersOnly(t) ==
  /\ Goto(t, "w_check", IF writer_number > 0 THEN "w_wait" ELSE "w_dec")
  /\ UNCHANGED <<lock_mutex, lockVars, tmp, calls, dataVars>>

(* The condition of the while loop. *)
WCheck(t) ==
  /\ Goto(t, "w_check", IF writer_number > 0 \/ reader_number # 0
                        THEN "w_wait" ELSE "w_dec")
  /\ UNCHANGED <<lock_mutex, lockVars, tmp, calls, dataVars>>

(* writer_proceed.wait: releases the mutex and joins the wait set. *)
WWait(t) ==
  /\ Goto(t, "w_wait", "w_blocked")
  /\ lock_mutex' = Free
  /\ UNCHANGED <<lockVars, tmp, calls, dataVars>>

(* task_count++, and the load of pending_writers--. *)
WDecLoad(t) ==
  /\ Goto(t, "w_dec", "w_grant")
  /\ task_count' = task_count + 1
  /\ tmp' = [tmp EXCEPT ![t] = pending_writers]
  /\ UNCHANGED <<lock_mutex, writer_number, reader_number, pending_writers,
                 pending_readers, calls, dataVars>>

(* The mutex is dropped before writer_number counts the new writer. *)
WGrantNotCounted(t) ==
  /\ Goto(t, "w_grant", "w_count")
  /\ pending_writers' = tmp[t] - 1
  /\ lock_mutex' = Free
  /\ UNCHANGED <<writer_number, reader_number, pending_readers, task_count, tmp,
                 calls, dataVars>>

(* The store of pending_writers--, writer_number++, and wait_cond's         *)
(* destructor, which releases the mutex.                                    *)
WGrant(t) ==
  /\ Goto(t, "w_grant", "w_count")
  /\ pending_writers' = tmp[t] - 1
  /\ writer_number' = writer_number + 1
  /\ lock_mutex' = Free
  /\ UNCHANGED <<reader_number, pending_readers, task_count, tmp, calls, dataVars>>

(* increase_count(): client_no++, a load and a store. *)
CountLoad(t) ==
  /\ Goto(t, "w_count", "w_countstore")
  /\ tmp' = [tmp EXCEPT ![t] = client_no]
  /\ UNCHANGED <<lock_mutex, lockVars, calls, dataVars>>

CountStore(t) ==
  /\ Goto(t, "w_countstore", "w_number")
  /\ client_no' = tmp[t] + 1
  /\ UNCHANGED <<lock_mutex, lockVars, tmp, calls, numbers>>

(* client_n = get_count(). *)
GetCount(t) ==
  /\ Goto(t, "w_number", "u_enter")
  /\ numbers' = [numbers EXCEPT ![t] = @ \cup {client_no}]
  /\ UNCHANGED <<lock_mutex, lockVars, tmp, calls, client_no>>

-----------------------------------------------------------------------------
(* task_mutex_rlock *)

REnter(t) ==
  /\ t \in Readers /\ calls[t] < MaxCalls
  /\ Goto(t, "idle", "r_inc")
  /\ lock_mutex = Free
  /\ UNCHANGED <<lock_mutex, lockVars, tmp, calls, dataVars>>

RIncLoad(t) ==
  /\ Goto(t, "r_inc", "r_store")
  /\ tmp' = [tmp EXCEPT ![t] = pending_readers]
  /\ UNCHANGED <<lock_mutex, lockVars, calls, dataVars>>

RIncStore(t) ==
  /\ Goto(t, "r_store", "r_lock")
  /\ pending_readers' = tmp[t] + 1
  /\ UNCHANGED <<lock_mutex, writer_number, reader_number, pending_writers,
                 task_count, tmp, calls, dataVars>>

RLock(t) ==
  /\ \E from \in {"r_lock", "r_woken"} : Goto(t, from, "r_check")
  /\ lock_mutex = Free
  /\ lock_mutex' = t
  /\ UNCHANGED <<lockVars, tmp, calls, dataVars>>

(* The two operands of the loop's condition, read one after the other:      *)
(* unlock changes them without the mutex.                                   *)
RCheckPending(t) ==
  /\ Goto(t, "r_check", IF pending_writers > 0 THEN "r_wait" ELSE "r_checkw")
  /\ UNCHANGED <<lock_mutex, lockVars, tmp, calls, dataVars>>

RCheckPendingOnly(t) ==
  /\ Goto(t, "r_checkw", "r_dec")
  /\ UNCHANGED <<lock_mutex, lockVars, tmp, calls, dataVars>>

RCheckWriter(t) ==
  /\ Goto(t, "r_checkw", IF writer_number # 0 THEN "r_wait" ELSE "r_dec")
  /\ UNCHANGED <<lock_mutex, lockVars, tmp, calls, dataVars>>

RWait(t) ==
  /\ Goto(t, "r_wait", "r_blocked")
  /\ lock_mutex' = Free
  /\ UNCHANGED <<lockVars, tmp, calls, dataVars>>

RDecLoad(t) ==
  /\ Goto(t, "r_dec", "r_grant")
  /\ task_count' = task_count - 1
  /\ tmp' = [tmp EXCEPT ![t] = pending_readers]
  /\ UNCHANGED <<lock_mutex, writer_number, reader_number, pending_writers,
                 pending_readers, calls, dataVars>>

RGrant(t) ==
  /\ Goto(t, "r_grant", "r_section")
  /\ pending_readers' = tmp[t] - 1
  /\ reader_number' = reader_number + 1
  /\ lock_mutex' = Free
  /\ UNCHANGED <<writer_number, pending_writers, task_count, tmp, calls, dataVars>>

(* The reader leaves the section it protects (SBDP's writer reads client_no *)
(* and encodes its announcement there) and calls unlock.                    *)
ReadSection(t) ==
  /\ Goto(t, "r_section", "u_enter")
  /\ UNCHANGED <<lock_mutex, lockVars, tmp, calls, dataVars>>

-----------------------------------------------------------------------------
(* task_mutex_unlock: no step of it holds the mutex. *)

UEnter(t) ==
  /\ Goto(t, "u_enter", "u_writer")
  /\ lock_mutex = Free
  /\ UNCHANGED <<lock_mutex, lockVars, tmp, calls, dataVars>>

UTestWriter(t) ==
  /\ Goto(t, "u_writer", IF writer_number > 0 THEN "u_resetw" ELSE "u_reader")
  /\ UNCHANGED <<lock_mutex, lockVars, tmp, calls, dataVars>>

UResetWriter(t) ==
  /\ Goto(t, "u_resetw", "u_select")
  /\ writer_number' = 0
  /\ UNCHANGED <<lock_mutex, reader_number, pending_writers, pending_readers,
                 task_count, tmp, calls, dataVars>>

UTestReader(t) ==
  /\ Goto(t, "u_reader", IF reader_number > 0 THEN "u_resetr" ELSE "u_select")
  /\ UNCHANGED <<lock_mutex, lockVars, tmp, calls, dataVars>>

(* The wrong count: the writers' instead of the readers'. *)
UResetWrongCount(t) ==
  /\ Goto(t, "u_resetr", "u_select")
  /\ writer_number' = writer_number - 1
  /\ UNCHANGED <<lock_mutex, reader_number, pending_writers, pending_readers,
                 task_count, tmp, calls, dataVars>>

UResetReader(t) ==
  /\ Goto(t, "u_resetr", "u_select")
  /\ reader_number' = 0
  /\ UNCHANGED <<lock_mutex, writer_number, pending_writers, pending_readers,
                 task_count, tmp, calls, dataVars>>

(* (reader_number == 0) && (pending_writers > 0): two unlocked reads. *)
USelect(t) ==
  /\ Goto(t, "u_select", IF reader_number = 0 THEN "u_pending" ELSE "u_other")
  /\ UNCHANGED <<lock_mutex, lockVars, tmp, calls, dataVars>>

UPending(t) ==
  /\ Goto(t, "u_pending", IF pending_writers > 0 THEN "u_notifyw" ELSE "u_other")
  /\ UNCHANGED <<lock_mutex, lockVars, tmp, calls, dataVars>>

Return(t) == calls' = [calls EXCEPT ![t] = @ + 1]

(* (reader_number > 0) || (pending_readers > 0) || (task_count > 0). *)
UOther(t) ==
  /\ Goto(t, "u_other", IF reader_number > 0 THEN "u_notifyr" ELSE "u_pendingr")
  /\ UNCHANGED <<lock_mutex, lockVars, tmp, calls, dataVars>>

UPendingReaders(t) ==
  /\ Goto(t, "u_pendingr", IF pending_readers > 0 THEN "u_notifyr" ELSE "u_tasks")
  /\ UNCHANGED <<lock_mutex, lockVars, tmp, calls, dataVars>>

UTaskCount(t) ==
  /\ IF task_count > 0 THEN Goto(t, "u_tasks", "u_notifyr") /\ UNCHANGED calls
                       ELSE Goto(t, "u_tasks", "idle") /\ Return(t)
  /\ UNCHANGED <<lock_mutex, lockVars, tmp, dataVars>>

(* notify_all moves every thread of the wait set to its woken step. *)
NotifyAll(t, blocked, woken) ==
  /\ pc' = [u \in Threads |-> IF u = t THEN "idle"
                              ELSE IF pc[u] = blocked THEN woken ELSE pc[u]]
  /\ Return(t)
  /\ UNCHANGED <<lock_mutex, lockVars, tmp, dataVars>>

UNotifyWriters(t) == pc[t] = "u_notifyw" /\ NotifyAll(t, "w_blocked", "w_woken")
UNotifyReaders(t) == pc[t] = "u_notifyr" /\ NotifyAll(t, "r_blocked", "r_woken")

(* boost::condition_variable may wake a waiter that nobody notified. *)
SpuriousWakeup(t) ==
  /\ \/ Goto(t, "w_blocked", "w_woken")
     \/ Goto(t, "r_blocked", "r_woken")
  /\ UNCHANGED <<lock_mutex, lockVars, tmp, calls, dataVars>>

-----------------------------------------------------------------------------
wlock(t) == \/ WEnter(t) \/ WIncLoad(t) \/ WIncStore(t) \/ WLock(t)
            \/ WCheck(t) \/ WWait(t) \/ WDecLoad(t) \/ WGrant(t)
rlock(t) == \/ REnter(t) \/ RIncLoad(t) \/ RIncStore(t) \/ RLock(t)
            \/ RCheckPending(t) \/ RCheckWriter(t) \/ RWait(t)
            \/ RDecLoad(t) \/ RGrant(t)
section(t) == CountLoad(t) \/ CountStore(t) \/ GetCount(t) \/ ReadSection(t)
unlock(t) == \/ UEnter(t) \/ UTestWriter(t) \/ UResetWriter(t) \/ UTestReader(t)
             \/ UResetReader(t) \/ USelect(t) \/ UPending(t) \/ UOther(t)
             \/ UPendingReaders(t) \/ UTaskCount(t) \/ UNotifyWriters(t) \/ UNotifyReaders(t)

Step(t) == wlock(t) \/ rlock(t) \/ section(t) \/ unlock(t)

Next == \E t \in Threads : Step(t) \/ SpuriousWakeup(t)

Spec == Init /\ [][Next]_vars

(* The operating system runs every thread that can run; nothing promises a  *)
(* spurious wakeup.                                                         *)
FairSpec == Spec /\ \A t \in Threads : WF_vars(Step(t))

-----------------------------------------------------------------------------
(* Properties *)

(* Every variable keeps its type; the pending counters may go negative.     *)
TypeOK ==
  /\ lock_mutex \in Threads \cup {Free}
  /\ writer_number \in Nat /\ reader_number \in Nat
  /\ pending_writers \in Int /\ pending_readers \in Int /\ task_count \in Int
  /\ pc \in [Threads -> {"idle"} \cup WriterSteps \cup ReaderSteps \cup UnlockSteps]
  /\ tmp \in [Threads -> Int]
  /\ calls \in [Threads -> Nat]
  /\ client_no \in Int
  /\ numbers \in [Threads -> SUBSET Int]

(* Between being granted the lock and resetting the count that grants it.   *)
HoldsW(t) == /\ t \in Writers
             /\ pc[t] \in {"w_count", "w_countstore", "w_number", "u_enter",
                           "u_writer", "u_resetw"}
HoldsR(t) == /\ t \in Readers
             /\ pc[t] \in {"r_section", "u_enter", "u_writer", "u_reader", "u_resetr"}

(* Two threads that called task_mutex_wlock never hold the lock together,   *)
(* although unlock resets writer_number without the mutex                   *)
(* (DDSThread.h:56-67, 96-110).                                             *)
WriterExclusion == \A t, u \in Writers : HoldsW(t) /\ HoldsW(u) => t = u

(* A writer never holds the lock beside a reader (DDSThread.h:60, 80).      *)
(* True for any writers and one reader, the way BrokerParticipant.cpp uses  *)
(* the lock; not for two readers.                                           *)
ReaderWriterExclusion ==
  \A t \in Writers, u \in Readers : ~(HoldsW(t) /\ HoldsR(u))

(* The numbers the CONNECT handlers of different threads take from          *)
(* get_count() differ (MQTTSession.cpp:141-144): no increment is lost.      *)
UniqueNumbers == \A t, u \in Threads : t # u => numbers[t] \cap numbers[u] = {}

ReleasedByHolder ==
  writer_number > 0 /\ writer_number' = 0 => \E t \in Writers : HoldsW(t) /\ ~HoldsW(t)'
CountedByHolder ==
  client_no' # client_no =>
    /\ client_no' = client_no + 1
    /\ \E t \in Writers : HoldsW(t) /\ HoldsW(t)'

(* writer_number is reset only by the writer that holds the lock, and       *)
(* client_no changes only by one and only while its writer holds the lock   *)
(* (DDSThread.h:98-100, BrokerClient.h:126).                                *)
OwnerStep == [][ReleasedByHolder /\ CountedByHolder]_vars

(* The lock implements the reader/writer lock its callers rely on: every    *)
(* step grants the lock to a thread that may have it, releases it, or       *)
(* changes nothing a caller can see (DDSThread.h:56-110).                   *)
Abstract == INSTANCE AbstractLock
              WITH writing <- {t \in Writers : HoldsW(t)}, reading <- {t \in Readers : HoldsR(t)}
ImplementsLock == Abstract!Spec

(* DDSThread.h:93 "If there are waiting threads, send them a signal to      *)
(* continue their works."  A waiting thread is eventually signalled.        *)
WaitersSignalled ==
  \A t \in Threads : (pc[t] \in {"w_blocked", "r_blocked"})
                        ~> (pc[t] \notin {"w_blocked", "r_blocked"})

=============================================================================
