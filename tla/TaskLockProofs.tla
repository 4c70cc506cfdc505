--------------------------- MODULE TaskLockProofs ---------------------------
(* Proofs about TaskLock, for any sets of threads and any number of calls. *)
EXTENDS TaskLock, TLAPS

(* The way the broker uses the lock: one copy has writers only, the other   *)
(* one writer and one reader.                                               *)
AtMostOneReader == \A r, s \in Readers : r = s

-----------------------------------------------------------------------------
(* Type correctness *)

LEMMA TypeInit == Init => TypeOK
BY DEF Init, TypeOK

LEMMA TypeNext == TypeOK /\ [Next]_vars => TypeOK'
<1> SUFFICES ASSUME TypeOK, [Next]_vars PROVE TypeOK'
  OBVIOUS
<1>1. CASE UNCHANGED vars
  BY <1>1 DEF TypeOK, vars, lockVars, dataVars
<1>2. ASSUME NEW t \in Threads, wlock(t) PROVE TypeOK'
  <2> USE DEF TypeOK, lockVars, dataVars, Goto, WriterSteps, ReaderSteps, UnlockSteps
  <2>1. CASE WEnter(t) BY <2>1 DEF WEnter
  <2>2. CASE WIncLoad(t) BY <2>2 DEF WIncLoad
  <2>3. CASE WIncStore(t) BY <2>3 DEF WIncStore
  <2>4. CASE WLock(t) BY <2>4 DEF WLock
  <2>5. CASE WCheck(t) BY <2>5 DEF WCheck
  <2>6. CASE WWait(t) BY <2>6 DEF WWait
  <2>7. CASE WDecLoad(t) BY <2>7 DEF WDecLoad
  <2>8. CASE WGrant(t) BY <2>8 DEF WGrant
  <2> QED BY <1>2, <2>1, <2>2, <2>3, <2>4, <2>5, <2>6, <2>7, <2>8 DEF wlock
<1>3. ASSUME NEW t \in Threads, rlock(t) PROVE TypeOK'
  <2> USE DEF TypeOK, lockVars, dataVars, Goto, WriterSteps, ReaderSteps, UnlockSteps
  <2>1. CASE REnter(t) BY <2>1 DEF REnter
  <2>2. CASE RIncLoad(t) BY <2>2 DEF RIncLoad
  <2>3. CASE RIncStore(t) BY <2>3 DEF RIncStore
  <2>4. CASE RLock(t) BY <2>4 DEF RLock
  <2>5. CASE RCheckPending(t) BY <2>5 DEF RCheckPending
  <2>6. CASE RCheckWriter(t) BY <2>6 DEF RCheckWriter
  <2>7. CASE RWait(t) BY <2>7 DEF RWait
  <2>8. CASE RDecLoad(t) BY <2>8 DEF RDecLoad
  <2>9. CASE RGrant(t) BY <2>9 DEF RGrant
  <2> QED BY <1>3, <2>1, <2>2, <2>3, <2>4, <2>5, <2>6, <2>7, <2>8, <2>9 DEF rlock
<1>4. ASSUME NEW t \in Threads, section(t) PROVE TypeOK'
  <2> USE DEF TypeOK, lockVars, dataVars, Goto, WriterSteps, ReaderSteps, UnlockSteps
  <2>1. CASE CountLoad(t) BY <2>1 DEF CountLoad
  <2>2. CASE CountStore(t) BY <2>2 DEF CountStore
  <2>3. CASE GetCount(t) BY <2>3 DEF GetCount
  <2>4. CASE ReadSection(t) BY <2>4 DEF ReadSection
  <2> QED BY <1>4, <2>1, <2>2, <2>3, <2>4 DEF section
<1>5. ASSUME NEW t \in Threads, unlock(t) PROVE TypeOK'
  <2> USE DEF TypeOK, lockVars, dataVars, Goto, WriterSteps, ReaderSteps, UnlockSteps
  <2>1. CASE UEnter(t) BY <2>1 DEF UEnter
  <2>2. CASE UTestWriter(t) BY <2>2 DEF UTestWriter
  <2>3. CASE UResetWriter(t) BY <2>3 DEF UResetWriter
  <2>4. CASE UTestReader(t) BY <2>4 DEF UTestReader
  <2>5. CASE UResetReader(t) BY <2>5 DEF UResetReader
  <2>6. CASE USelect(t) BY <2>6 DEF USelect
  <2>7. CASE UPending(t) BY <2>7 DEF UPending
  <2>8. CASE UOther(t) \/ UPendingReaders(t) \/ UTaskCount(t)
    BY <2>8 DEF UOther, UPendingReaders, UTaskCount, Return
  <2>9. CASE UNotifyWriters(t) BY <2>9 DEF UNotifyWriters, NotifyAll, Return
  <2>10. CASE UNotifyReaders(t) BY <2>10 DEF UNotifyReaders, NotifyAll, Return
  <2> QED BY <1>5, <2>1, <2>2, <2>3, <2>4, <2>5, <2>6, <2>7, <2>8, <2>9, <2>10 DEF unlock
<1>6. ASSUME NEW t \in Threads, SpuriousWakeup(t) PROVE TypeOK'
  BY <1>6 DEF SpuriousWakeup, TypeOK, lockVars, dataVars, Goto, WriterSteps, ReaderSteps
<1> QED BY <1>1, <1>2, <1>3, <1>4, <1>5, <1>6 DEF Next, Step

(* Every behaviour of the lock keeps the types of task_lock_t's fields and  *)
(* of the threads' registers (DDSThread.h:22-31).                           *)
THEOREM TypeCorrect == Spec => []TypeOK
BY TypeInit, TypeNext, PTL DEF Spec

-----------------------------------------------------------------------------
(* Mutual exclusion.  The inductive invariant says what the counts mean     *)
(* although unlock resets them without the mutex: only the holder unlocks,  *)
(* and nobody is granted the lock between the test in the while loop and    *)
(* the ++, because that stretch does hold the mutex.                        *)

Locked == {"w_check", "w_wait", "w_dec", "w_grant",
           "r_check", "r_checkw", "r_wait", "r_dec", "r_grant"}

(* The owner of lock_mutex is the thread between Lock_t and its release. *)
OwnerInv == \A t \in Threads : pc[t] \in Locked => lock_mutex = t

(* Only writers run wlock and reset writer_number, only readers the rest. *)
RoleInv ==
  \A t \in Threads :
    /\ pc[t] \in WriterSteps \cup {"u_resetw"} => t \in Writers
    /\ pc[t] \in ReaderSteps \cup {"u_reader", "u_resetr"} => t \in Readers

(* What the counts say while the lock is held, and while it is granted. *)
CountInv ==
  /\ \A t \in Writers : HoldsW(t) => writer_number = 1 /\ reader_number = 0
  /\ \A t \in Readers : HoldsR(t) => writer_number = 0 /\ reader_number = 1
  /\ \A t \in Threads : pc[t] \in {"w_dec", "w_grant"}
                           => writer_number = 0 /\ reader_number = 0
  /\ \A t \in Threads : pc[t] \in {"r_dec", "r_grant"} => writer_number = 0
  /\ (\A t \in Readers : ~HoldsR(t)) => reader_number = 0

LockInv == OwnerInv /\ RoleInv /\ CountInv /\ WriterExclusion

LEMMA LockInit == Init => LockInv
BY DEF Init, LockInv, OwnerInv, RoleInv, CountInv, WriterExclusion, Locked, HoldsW, HoldsR,
       Threads, WriterSteps, ReaderSteps

LEMMA LockNext ==
  ASSUME AtMostOneReader
  PROVE  TypeOK /\ LockInv /\ [Next]_vars => LockInv'
<1> SUFFICES ASSUME TypeOK, LockInv, [Next]_vars PROVE LockInv'
  OBVIOUS
<1>1. CASE UNCHANGED vars
  BY <1>1 DEF vars, lockVars, dataVars, TypeOK, LockInv, OwnerInv, RoleInv, CountInv,
              WriterExclusion, Locked, HoldsW, HoldsR, WriterSteps, ReaderSteps, AtMostOneReader
<1>2. ASSUME NEW t \in Threads, wlock(t) PROVE LockInv'
  <2> USE DEF Threads, lockVars, dataVars, Goto, TypeOK, LockInv, OwnerInv, RoleInv,
              CountInv, WriterExclusion, Locked, HoldsW, HoldsR, WriterSteps, ReaderSteps,
              AtMostOneReader
  <2>1. CASE WEnter(t)
    BY <2>1 DEF WEnter
  <2>2. CASE WIncLoad(t)
    BY <2>2 DEF WIncLoad
  <2>3. CASE WIncStore(t)
    BY <2>3 DEF WIncStore
  <2>4. CASE WLock(t)
    BY <2>4, FreeAssumption DEF WLock
  <2>5. CASE WCheck(t)
    BY <2>5 DEF WCheck
  <2>6. CASE WWait(t)
    BY <2>6 DEF WWait
  <2>7. CASE WDecLoad(t)
    BY <2>7 DEF WDecLoad
  <2>8. CASE WGrant(t)
    BY <2>8 DEF WGrant
  <2> QED BY <1>2, <2>1, <2>2, <2>3, <2>4, <2>5, <2>6, <2>7, <2>8 DEF wlock
<1>3. ASSUME NEW t \in Threads, rlock(t) PROVE LockInv'
  <2> USE DEF Threads, lockVars, dataVars, Goto, TypeOK, LockInv, OwnerInv, RoleInv,
              CountInv, WriterExclusion, Locked, HoldsW, HoldsR, WriterSteps, ReaderSteps,
              AtMostOneReader
  <2>1. CASE REnter(t)
    BY <2>1 DEF REnter
  <2>2. CASE RIncLoad(t)
    BY <2>2 DEF RIncLoad
  <2>3. CASE RIncStore(t)
    BY <2>3 DEF RIncStore
  <2>4. CASE RLock(t)
    BY <2>4, FreeAssumption DEF RLock
  <2>5. CASE RCheckPending(t)
    BY <2>5 DEF RCheckPending
  <2>6. CASE RCheckWriter(t)
    BY <2>6 DEF RCheckWriter
  <2>7. CASE RWait(t)
    BY <2>7 DEF RWait
  <2>8. CASE RDecLoad(t)
    BY <2>8 DEF RDecLoad
  <2>9. CASE RGrant(t)
    BY <2>9 DEF RGrant
  <2> QED BY <1>3, <2>1, <2>2, <2>3, <2>4, <2>5, <2>6, <2>7, <2>8, <2>9 DEF rlock
<1>4. ASSUME NEW t \in Threads, section(t) PROVE LockInv'
  <2> USE DEF Threads, lockVars, dataVars, Goto, TypeOK, LockInv, OwnerInv, RoleInv,
              CountInv, WriterExclusion, Locked, HoldsW, HoldsR, WriterSteps, ReaderSteps,
              AtMostOneReader
  <2>1. CASE CountLoad(t)
    BY <2>1 DEF CountLoad
  <2>2. CASE CountStore(t)
    BY <2>2 DEF CountStore
  <2>3. CASE GetCount(t)
    BY <2>3, ThreadsAssumption DEF GetCount
  <2>4. CASE ReadSection(t)
    BY <2>4, ThreadsAssumption DEF ReadSection
  <2> QED BY <1>4, <2>1, <2>2, <2>3, <2>4 DEF section
<1>5. ASSUME NEW t \in Threads, unlock(t) PROVE LockInv'
  <2> USE DEF Threads, lockVars, dataVars, Goto, TypeOK, LockInv, OwnerInv, RoleInv,
              CountInv, WriterExclusion, Locked, HoldsW, HoldsR, WriterSteps, ReaderSteps,
              AtMostOneReader
  <2>1. CASE UEnter(t)
    BY <2>1 DEF UEnter
  <2>2. CASE UTestWriter(t)
    BY <2>2 DEF UTestWriter
  <2>3. CASE UResetWriter(t)
    BY <2>3 DEF UResetWriter
  <2>4. CASE UTestReader(t)
    BY <2>4 DEF UTestReader
  <2>5. CASE UResetReader(t)
    BY <2>5 DEF UResetReader
  <2>6. CASE USelect(t)
    BY <2>6 DEF USelect
  <2>7. CASE UPending(t)
    BY <2>7 DEF UPending
  <2>8. CASE UOther(t)
    BY <2>8 DEF UOther
  <2>11. CASE UPendingReaders(t)
    BY <2>11 DEF UPendingReaders
  <2>12. CASE UTaskCount(t)
    BY <2>12 DEF UTaskCount, Return
  <2>9. CASE UNotifyWriters(t)
    BY <2>9 DEF UNotifyWriters, NotifyAll, Return
  <2>10. CASE UNotifyReaders(t)
    BY <2>10 DEF UNotifyReaders, NotifyAll, Return
  <2> QED BY <1>5, <2>1, <2>2, <2>3, <2>4, <2>5, <2>6, <2>7, <2>8, <2>9, <2>10, <2>11,
             <2>12 DEF unlock
<1>6. ASSUME NEW t \in Threads, SpuriousWakeup(t) PROVE LockInv'
  BY <1>6 DEF SpuriousWakeup, Threads, lockVars, dataVars, Goto, TypeOK, LockInv, OwnerInv,
              RoleInv, CountInv, WriterExclusion, Locked, HoldsW, HoldsR, WriterSteps,
              ReaderSteps, AtMostOneReader
<1> QED BY <1>1, <1>2, <1>3, <1>4, <1>5, <1>6 DEF Next, Step


(* The lock excludes: no two writers hold it together, and no writer beside *)
(* a reader, for any set of writers and at most one reader, although        *)
(* task_mutex_unlock runs without the mutex (DDSThread.h:56-110).           *)
THEOREM Exclusion ==
  ASSUME AtMostOneReader
  PROVE  Spec => [](WriterExclusion /\ ReaderWriterExclusion)
<1>1. LockInv => WriterExclusion /\ ReaderWriterExclusion
  BY DEF LockInv, CountInv, ReaderWriterExclusion
<1>2. TypeOK /\ LockInv /\ [Next]_vars => LockInv'
  BY LockNext
<1> QED BY <1>1, <1>2, LockInit, TypeCorrect, PTL DEF Spec

(* The reader's half alone: the thread that announces the broker never has  *)
(* the read lock (SBDPBuiltinEndpointDataWriter.h:32) while another thread  *)
(* has the write lock.                                                      *)
THEOREM ReadersExcluded ==
  ASSUME AtMostOneReader
  PROVE  Spec => []ReaderWriterExclusion
BY Exclusion, PTL

-----------------------------------------------------------------------------
(* The numbers given to clients.  A writer that has loaded client_no still  *)
(* sees its value, and one that has stored it owns a number nobody has.     *)

NumberInv ==
  /\ \A t \in Threads : \A n \in numbers[t] : n <= client_no
  /\ \A t \in Threads : pc[t] = "w_countstore" => tmp[t] = client_no
  /\ \A t \in Threads : pc[t] = "w_number" => \A u \in Threads : client_no \notin numbers[u]
  /\ UniqueNumbers

(* Only the section of the writer that holds the lock touches the numbers. *)
LEMMA NumberNext == TypeOK /\ LockInv /\ NumberInv /\ [Next]_vars => NumberInv'
<1> SUFFICES ASSUME TypeOK, LockInv, NumberInv, [Next]_vars PROVE NumberInv'
  OBVIOUS
<1> USE DEF TypeOK, NumberInv, UniqueNumbers, lockVars, dataVars, Goto
<1>1. CASE UNCHANGED vars
  BY <1>1 DEF vars
<1>2. ASSUME NEW t \in Threads, wlock(t) PROVE NumberInv'
  BY <1>2 DEF wlock, WEnter, WIncLoad, WIncStore, WLock, WCheck, WWait, WDecLoad, WGrant
<1>3. ASSUME NEW t \in Threads, rlock(t) PROVE NumberInv'
  BY <1>3 DEF rlock, REnter, RIncLoad, RIncStore, RLock, RCheckPending, RCheckWriter, RWait,
              RDecLoad, RGrant
<1>4. ASSUME NEW t \in Threads, section(t) PROVE NumberInv'
  <2>1. CASE CountLoad(t)
    BY <2>1 DEF CountLoad
  <2>2. CASE CountStore(t)
    <3>1. t \in Writers /\ pc[t] = "w_countstore" /\ tmp[t] = client_no /\ client_no' = client_no + 1
      BY <2>2 DEF CountStore, LockInv, RoleInv, WriterSteps
    <3>2. \A u \in Threads \ {t} : pc[u] \notin {"w_countstore", "w_number"}
      BY <3>1 DEF LockInv, WriterExclusion, HoldsW, RoleInv, WriterSteps
    <3> QED BY <2>2, <3>1, <3>2 DEF CountStore
  <2>3. CASE GetCount(t)
    <3>1. t \in Writers /\ pc[t] = "w_number"
      BY <2>3 DEF GetCount, LockInv, RoleInv, WriterSteps
    <3>2. \A u \in Threads \ {t} : pc[u] \notin {"w_countstore", "w_number"}
      BY <3>1 DEF LockInv, WriterExclusion, HoldsW, RoleInv, WriterSteps
    <3> QED BY <2>3, <3>1, <3>2 DEF GetCount
  <2>4. CASE ReadSection(t)
    BY <2>4 DEF ReadSection
  <2> QED BY <1>4, <2>1, <2>2, <2>3, <2>4 DEF section
<1>5. ASSUME NEW t \in Threads, unlock(t) PROVE NumberInv'
  BY <1>5 DEF unlock, UEnter, UTestWriter, UResetWriter, UTestReader, UResetReader, USelect,
              UPending, UOther, UPendingReaders, UTaskCount, UNotifyWriters, UNotifyReaders,
              NotifyAll, Return
<1>6. ASSUME NEW t \in Threads, SpuriousWakeup(t) PROVE NumberInv'
  BY <1>6 DEF SpuriousWakeup
<1> QED BY <1>1, <1>2, <1>3, <1>4, <1>5, <1>6 DEF Next, Step

(* Two CONNECT handlers never give their clients the same number, whatever  *)
(* the number of io threads (MQTTSession.cpp:141-144).                      *)
THEOREM NumbersUnique ==
  ASSUME AtMostOneReader
  PROVE  Spec => []UniqueNumbers
<1>1. Init => NumberInv
  BY DEF Init, NumberInv, UniqueNumbers
<1>2. NumberInv => UniqueNumbers
  BY DEF NumberInv
<1>3. TypeOK /\ LockInv /\ [Next]_vars => LockInv'
  BY LockNext
<1> QED BY <1>1, <1>2, <1>3, NumberNext, LockInit, TypeCorrect, PTL DEF Spec

-----------------------------------------------------------------------------
(* The counts the holder owns. *)

LEMMA OwnerNext ==
  TypeOK /\ LockInv /\ NumberInv /\ [Next]_vars => [ReleasedByHolder /\ CountedByHolder]_vars
<1> SUFFICES ASSUME TypeOK, LockInv, NumberInv, NEW t \in Threads, Step(t) \/ SpuriousWakeup(t)
             PROVE  ReleasedByHolder /\ CountedByHolder
  BY DEF Next
<1> USE DEF ReleasedByHolder, CountedByHolder, lockVars, dataVars
<1>1. CASE UResetWriter(t)
  <2>1. t \in Writers /\ HoldsW(t)
    BY <1>1 DEF UResetWriter, Goto, LockInv, RoleInv, HoldsW
  <2>2. ~HoldsW(t)'
    BY <1>1 DEF UResetWriter, Goto, TypeOK, HoldsW
  <2>3. client_no' = client_no
    BY <1>1 DEF UResetWriter
  <2> QED BY <2>1, <2>2, <2>3
<1>2. CASE CountStore(t)
  <2>1. t \in Writers /\ HoldsW(t) /\ client_no' = client_no + 1
    BY <1>2 DEF CountStore, Goto, LockInv, RoleInv, WriterSteps, HoldsW, NumberInv
  <2>2. HoldsW(t)'
    BY <1>2, <2>1 DEF CountStore, Goto, TypeOK, HoldsW
  <2>3. writer_number' = writer_number
    BY <1>2 DEF CountStore
  <2> QED BY <2>1, <2>2, <2>3 DEF TypeOK
<1>3. CASE WGrant(t)
  BY <1>3 DEF WGrant, TypeOK
<1>4. CASE wlock(t) /\ ~WGrant(t)
  BY <1>4 DEF wlock, WEnter, WIncLoad, WIncStore, WLock, WCheck, WWait, WDecLoad, WGrant, TypeOK
<1>5. CASE rlock(t)
  BY <1>5 DEF rlock, REnter, RIncLoad, RIncStore, RLock, RCheckPending, RCheckWriter, RWait,
              RDecLoad, RGrant, TypeOK
<1>6. CASE CountLoad(t) \/ GetCount(t) \/ ReadSection(t) \/ SpuriousWakeup(t)
  BY <1>6 DEF CountLoad, GetCount, ReadSection, SpuriousWakeup, TypeOK
<1>7. CASE unlock(t) /\ ~UResetWriter(t)
  BY <1>7 DEF unlock, UEnter, UTestWriter, UTestReader, UResetReader, USelect, UPending,
              UOther, UPendingReaders, UTaskCount, UNotifyWriters, UNotifyReaders, NotifyAll,
              Return, TypeOK
<1> QED BY <1>1, <1>2, <1>3, <1>4, <1>5, <1>6, <1>7 DEF Step, section

(* Only the holder of the lock gives it back, and no increment of client_no *)
(* is lost, although neither unlock nor the counter is protected by the     *)
(* mutex itself (DDSThread.h:96-110, MQTTSession.cpp:141-144).              *)
THEOREM HolderOwns ==
  ASSUME AtMostOneReader
  PROVE  Spec => OwnerStep
<1>1. Init => NumberInv
  BY DEF Init, NumberInv, UniqueNumbers
<1>2. TypeOK /\ LockInv /\ [Next]_vars => LockInv'
  BY LockNext
<1> QED BY <1>1, <1>2, NumberNext, OwnerNext, LockInit, TypeCorrect, PTL DEF Spec, OwnerStep

-----------------------------------------------------------------------------
(* Refinement of AbstractLock *)

HoldingW == {t \in Writers : HoldsW(t)}
HoldingR == {t \in Readers : HoldsR(t)}

(* A step that changes no thread's holding is a stutter of the abstract     *)
(* lock.                                                                    *)
LEMMA Invisible ==
  ASSUME \A u \in Writers : HoldsW(u)' = HoldsW(u), \A u \in Readers : HoldsR(u)' = HoldsR(u)
  PROVE  UNCHANGED <<HoldingW, HoldingR>>
BY DEF HoldingW, HoldingR, HoldsW, HoldsR

LEMMA RefineNext ==
  ASSUME AtMostOneReader, TypeOK, LockInv, [Next]_vars
  PROVE  [Abstract!Next]_<<HoldingW, HoldingR>>
<1> USE ThreadsAssumption DEF lockVars, dataVars, Goto, TypeOK, Threads
<1>1. CASE UNCHANGED vars
  BY <1>1 DEF vars, HoldingW, HoldingR, HoldsW, HoldsR
<1>2. SUFFICES ASSUME NEW t \in Threads, Step(t) \/ SpuriousWakeup(t)
               PROVE  [Abstract!Next]_<<HoldingW, HoldingR>>
  BY <1>1 DEF Next
<1>3. CASE WGrant(t)
  <2>1. t \in Writers
    BY <1>3 DEF WGrant, LockInv, RoleInv, WriterSteps
  <2>2. HoldingW = {} /\ HoldingR = {}
    BY <1>3 DEF WGrant, LockInv, CountInv, HoldingW, HoldingR
  <2>3. HoldingW' = {t} /\ HoldingR' = {}
    BY <1>3, <2>1, <2>2 DEF WGrant, HoldingW, HoldingR, HoldsW, HoldsR
  <2> QED BY <2>1, <2>2, <2>3 DEF Abstract!Next, Abstract!GrantWrite, HoldingW, HoldingR
<1>4. CASE RGrant(t)
  <2>1. t \in Readers
    BY <1>4 DEF RGrant, LockInv, RoleInv, ReaderSteps
  <2>2. HoldingW = {} /\ t \notin HoldingR
    BY <1>4 DEF RGrant, LockInv, CountInv, HoldingW, HoldingR, HoldsR
  <2>3. HoldingW' = {} /\ HoldingR' = HoldingR \cup {t}
    BY <1>4, <2>1, <2>2 DEF RGrant, HoldingW, HoldingR, HoldsW, HoldsR
  <2> QED BY <2>1, <2>2, <2>3 DEF Abstract!Next, Abstract!GrantRead, HoldingW, HoldingR
<1>5. CASE UResetWriter(t)
  <2>1. t \in HoldingW
    BY <1>5 DEF UResetWriter, LockInv, RoleInv, HoldingW, HoldsW
  <2>2. HoldingW' = HoldingW \ {t} /\ HoldingR' = HoldingR \ {t}
    BY <1>5, <2>1 DEF UResetWriter, HoldingW, HoldingR, HoldsW, HoldsR
  <2> QED BY <2>1, <2>2 DEF Abstract!Next, Abstract!Release, HoldingW, HoldingR
<1>6. CASE UResetReader(t)
  <2>1. t \in HoldingR
    BY <1>6 DEF UResetReader, LockInv, RoleInv, HoldingR, HoldsR
  <2>2. HoldingW' = HoldingW \ {t} /\ HoldingR' = HoldingR \ {t}
    BY <1>6, <2>1 DEF UResetReader, HoldingW, HoldingR, HoldsW, HoldsR
  <2> QED BY <2>1, <2>2 DEF Abstract!Next, Abstract!Release, HoldingW, HoldingR
<1>7. CASE UTestReader(t)
  BY <1>7, Invisible DEF UTestReader, LockInv, RoleInv, CountInv, HoldsW, HoldsR, HoldingW,
                         HoldingR
<1>8. CASE UTestWriter(t)
  BY <1>8, Invisible DEF UTestWriter, LockInv, RoleInv, CountInv, HoldsW, HoldsR, HoldingW,
                         HoldingR
<1>9. CASE wlock(t) /\ ~WGrant(t)
  BY <1>9, Invisible DEF wlock, WEnter, WIncLoad, WIncStore, WLock, WCheck, WWait, WDecLoad,
                         HoldsW, HoldsR,
     HoldingW, HoldingR
<1>10. CASE rlock(t) /\ ~RGrant(t)
  BY <1>10, Invisible DEF rlock, REnter, RIncLoad, RIncStore, RLock, RCheckPending,
                          RCheckWriter, RWait,
     RDecLoad, HoldsW, HoldsR, HoldingW, HoldingR
<1>11. CASE section(t)
  BY <1>11, Invisible DEF section, CountLoad, CountStore, GetCount, ReadSection, LockInv,
                          RoleInv,
     WriterSteps, ReaderSteps, HoldsW, HoldsR, HoldingW, HoldingR
<1>12. CASE UEnter(t) \/ USelect(t) \/ UPending(t) \/ UOther(t) \/ UPendingReaders(t) \/ UTaskCount(t)
  BY <1>12, Invisible DEF UEnter, USelect, UPending, UOther, UPendingReaders, UTaskCount,
                          Return, HoldsW, HoldsR, HoldingW, HoldingR
<1>13. CASE UNotifyWriters(t) \/ UNotifyReaders(t)
  BY <1>13, Invisible DEF UNotifyWriters, UNotifyReaders, NotifyAll, HoldsW, HoldsR,
                          HoldingW, HoldingR
<1>14. CASE SpuriousWakeup(t)
  BY <1>14, Invisible DEF SpuriousWakeup, HoldsW, HoldsR, HoldingW, HoldingR
<1> QED BY <1>2, <1>3, <1>4, <1>5, <1>6, <1>7, <1>8, <1>9, <1>10, <1>11, <1>12, <1>13, <1>14
        DEF Step, unlock

(* task_lock_t implements the lock its callers rely on (DDSThread.h:44-110). *)
THEOREM Refinement ==
  ASSUME AtMostOneReader
  PROVE  Spec => ImplementsLock
<1>1. Init => Abstract!Init
  BY DEF Init, Abstract!Init, HoldsW, HoldsR, Threads
<1>2. TypeOK /\ LockInv /\ [Next]_vars => LockInv'
  BY LockNext
<1>3. TypeOK /\ LockInv /\ [Next]_vars => [Abstract!Next]_<<HoldingW, HoldingR>>
  BY RefineNext
<1> QED BY <1>1, <1>2, <1>3, LockInit, TypeCorrect, PTL
        DEF Spec, ImplementsLock, Abstract!Spec, HoldingW, HoldingR

=============================================================================
