------------------------ MODULE LightweightSemaphore -------------------------
(* src/moodycamel/lightweightsemaphore.h.  m_count is the number of permits, *)
(* less the threads that sleep or are about to sleep on the semaphore       *)
(* m_sema of the operating system.  A dequeue of one element takes one      *)
(* permit (wait), a bulk dequeue as many as it wants and there are          *)
(* (waitMany), at least one unless it times out.                            *)
EXTENDS QueueState

semUnchanged == <<blockVars, prodVars, hashVars, history>>

(* The dequeue has n permits: try_dequeue or try_dequeue_bulk follows. *)
Acquired(t, n) ==
  IF Bulk(t) THEN Go(t, "b_scan", [NoLocals EXCEPT !.permits = n]) ELSE Go(t, "scan", NoLocals)

(* The first permit; a bulk dequeue then calls tryWaitMany(max - 1). *)
First(t) ==
  IF Size(t) > 1 THEN Go(t, "s_more", [NoLocals EXCEPT !.permits = 1]) ELSE Acquired(t, 1)

(* tryWait and tryWaitMany, which every dequeue calls first: load m_count. *)
TryWaitLoad(t) ==
  /\ Calling(t, Dequeues) \/ At(t, "s_more")
  /\ Go(t, "s_try", [Loc(t) EXCEPT !.old = m_count])
  /\ UNCHANGED <<semVars, semUnchanged>>

(* Their compare-exchange.  Without a permit try_dequeue returns and the    *)
(* others wait.                                                             *)
TryWaitCAS(t) ==
  /\ At(t, "s_try")
  /\ LET l == Loc(t)
         n == Least(l.old, Size(t) - l.permits)
     IN \/ /\ l.old <= 0
           /\ IF l.permits > 0 THEN Acquired(t, l.permits)
              ELSE IF Call(t) \in TryDequeues THEN Return(t)
              ELSE Go(t, "s_spin", [NoLocals EXCEPT !.spin = MaxSpins])
           /\ UNCHANGED m_count
        \/ /\ l.old > 0 /\ m_count = l.old
           /\ m_count' = m_count - n
           /\ Acquired(t, l.permits + n)
        \/ /\ l.old > 0 /\ m_count # l.old
           /\ Go(t, "s_try", [l EXCEPT !.old = m_count])
           /\ UNCHANGED m_count
  /\ UNCHANGED <<m_sema, semUnchanged>>

(* waitWithPartialSpinning and waitManyWithPartialSpinning: one turn of the *)
(* spin loop, up to its compare-exchange.                                   *)
SpinLoad(t) ==
  /\ At(t, "s_spin")
  /\ Go(t, IF Loc(t).spin = 0 THEN "s_sub" ELSE IF m_count > 0 THEN "s_spincas" ELSE "s_spin",
        IF Loc(t).spin = 0 THEN NoLocals
        ELSE [Loc(t) EXCEPT !.spin = @ - 1, !.old = m_count])
  /\ UNCHANGED <<semVars, semUnchanged>>

(* Mutant: a store instead of the compare-exchange. *)
SpinStore(t) ==
  /\ At(t, "s_spincas")
  /\ LET n == Least(Loc(t).old, Size(t)) IN m_count' = Loc(t).old - n /\ Acquired(t, n)
  /\ UNCHANGED <<m_sema, semUnchanged>>

SpinCAS(t) ==
  /\ At(t, "s_spincas")
  /\ LET n == Least(Loc(t).old, Size(t)) IN
     IF m_count = Loc(t).old
     THEN m_count' = m_count - n /\ Acquired(t, n)
     ELSE Go(t, "s_spin", [Loc(t) EXCEPT !.old = 0]) /\ UNCHANGED m_count
  /\ UNCHANGED <<m_sema, semUnchanged>>

(* m_count.fetch_sub: a permit, or a place among the sleepers. *)
FetchSub(t) ==
  /\ At(t, "s_sub")
  /\ m_count' = m_count - 1
  /\ IF m_count > 0 THEN First(t) ELSE Go(t, "s_sleep", NoLocals)
  /\ UNCHANGED <<m_sema, semUnchanged>>

(* m_sema.wait() and timed_wait(). *)
Sleep(t) ==
  /\ At(t, "s_sleep") /\ m_sema > 0
  /\ m_sema' = m_sema - 1
  /\ First(t)
  /\ UNCHANGED <<m_count, semUnchanged>>

Timeout(t) ==
  /\ At(t, "s_sleep") /\ Call(t) \in TimedDequeues
  /\ Go(t, "s_adjust", NoLocals)
  /\ UNCHANGED <<semVars, semUnchanged>>

(* After a timeout: take back the decrement, unless a signal has already    *)
(* counted on this sleeper; then the permit must be taken.                  *)
AdjustLoad(t) ==
  /\ At(t, "s_adjust")
  /\ Go(t, IF m_count >= 0 THEN "s_trysema" ELSE "s_restore", [NoLocals EXCEPT !.old = m_count])
  /\ UNCHANGED <<semVars, semUnchanged>>

TrySema(t) ==
  /\ At(t, "s_trysema")
  /\ IF m_sema > 0
     THEN m_sema' = m_sema - 1 /\ First(t)
     ELSE Go(t, "s_adjust", NoLocals) /\ UNCHANGED m_sema
  /\ UNCHANGED <<m_count, semUnchanged>>

Restore(t) ==
  /\ At(t, "s_restore")
  /\ IF m_count = Loc(t).old
     THEN m_count' = m_count + 1 /\ Return(t)
     ELSE Go(t, "s_adjust", NoLocals) /\ UNCHANGED m_count
  /\ UNCHANGED <<m_sema, semUnchanged>>

(* Mutant: one sleeper is enough to wake all that the signal is for. *)
SignalWakesOne(t) ==
  /\ At(t, "signal")
  /\ m_count' = m_count + Size(t)
  /\ IF m_count < 0 THEN Go(t, "s_post", [NoLocals EXCEPT !.size = 1]) ELSE Return(t)
  /\ UNCHANGED <<m_sema, semUnchanged>>

(* signal(count): m_count.fetch_add, then m_sema.signal for the sleepers    *)
(* among them.                                                              *)
Signal(t) ==
  /\ At(t, "signal")
  /\ m_count' = m_count + Size(t)
  /\ IF m_count < 0
     THEN Go(t, "s_post", [NoLocals EXCEPT !.size = Least(-m_count, Size(t))])
     ELSE Return(t)
  /\ UNCHANGED <<m_sema, semUnchanged>>

Post(t) ==
  /\ At(t, "s_post")
  /\ m_sema' = m_sema + Loc(t).size
  /\ Return(t)
  /\ UNCHANGED <<m_count, semUnchanged>>

SemaphoreStep(t) ==
  \/ TryWaitLoad(t) \/ TryWaitCAS(t) \/ SpinLoad(t) \/ SpinCAS(t) \/ FetchSub(t)
  \/ Sleep(t) \/ Timeout(t) \/ AdjustLoad(t) \/ TrySema(t) \/ Restore(t)
  \/ Signal(t) \/ Post(t)

=============================================================================
