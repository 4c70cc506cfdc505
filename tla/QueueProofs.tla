----------------------------- MODULE QueueProofs -----------------------------
(* The permits of LightweightSemaphore, its wake-ups and the owners of the producers of *)
(* BlockingConcurrentQueue, proved for any number of threads, calls, producers, blocks and *)
(* tables, and for every width of the indexes.                                            *)
(*                                                                                        *)
(* The two counts are sums over the threads of what each of them owes at its place in the *)
(* code. ThreadInv says what is known of one thread there; every step then changes the    *)
(* counts by what its own thread owes before and after it (Effect), and QueueInv follows. *)
(* OwnInv, which rests on QueueInv, follows the ways in which a thread comes by a         *)
(* producer, keeps it in the hash tables or a token, and gives it up.                     *)
EXTENDS BlockingConcurrentQueue, CountingProofs

-----------------------------------------------------------------------------
(* What is known of a thread *)

(* The local variables of all calls. *)
Fields == {"old", "spin", "main", "count", "slot", "ptr", "fail", "entry", "blk", "head", "next", "refs",
  "node", "link", "again", "prod", "best", "size", "seen", "rest", "tail", "over", "my", "index", "hdr",
  "items", "pos", "permits", "want", "chain", "freed", "saved"}

(* The labels at which a thread has a producer to enqueue with, has taken no permits, adds a block *)
(* to the free list, and has a producer to dequeue from. *)
PtrLabels == {"h_copy", "h_copy2", "h_walk", "h_push", "h_reuse", "h_empty", "h_uncount", "enqueue",
  "e_entry", "e_tail", "e_pool", "e_take", "e_create", "e_block", "e_rewind", "e_unset", "e_publish",
  "f_get", "f_refs", "f_ref", "f_next", "f_cas", "f_got", "f_unref", "b_full", "b_publish", "b_unset",
  "b_rewind", "t_block", "t_index", "t_front", "x_clear", "x_inactive"}
FreeHanded == PtrLabels \cup {"s_spin", "s_spincas", "s_sub", "s_sleep", "s_adjust", "s_trysema", "s_restore",
  "idle", "h_count", "h_full", "h_resize", "h_clear", "h_reload", "h_recycle", "h_create", "signal", "s_post"}
AddLabels == {"f_add", "f_load", "f_link", "f_push", "f_retry"}
ProdLabels == {"v_head", "deq", "d_over", "d_opt", "d_claim", "d_recheck", "b_over", "d_undo", "d_fail",
  "d_head", "d_index", "d_tail", "d_entry", "d_read", "b_read", "d_empty", "b_empty", "d_release"}
(* Those of the single and of the bulk operations; those after a single dequeue has chosen its *)
(* producer, and around the claim of elements. *)
SingleLabels == {"scan", "visit", "v_head", "d_fail", "d_undo", "e_publish"}
BulkLabels == {"b_scan", "b_over", "b_publish"}
BestLabels == {"deq", "d_over", "d_opt", "d_claim", "d_recheck", "d_undo", "d_fail"}
ClaimLabels == {"d_claim", "d_recheck", "b_over", "d_head"}

(* What is known of a thread at a label, with local variables l, in a call of z elements that *)
(* is a bulk operation or not, when there are n producers. *)
Typed(l, n) ==
  /\ DOMAIN l = Fields /\ l.permits \in Nat
  /\ l.ptr \in 0..n /\ l.prod \in 0..n /\ l.best \in 0..n
Pointing(label, l, bulk) ==
  /\ label \in PtrLabels => l.ptr # Null
  /\ l.again => l.ptr # Null /\ label \in AddLabels \ {"f_add"}
  /\ label \in ProdLabels => l.prod # Null
  /\ label \in AddLabels => l.prod # Null \/ (l.permits = 0 /\ l.want = 0)
  /\ label \in BestLabels => bulk \/ l.best # Null
Permits(label, l, bulk) ==
  /\ l.permits > 0 => bulk
  /\ label \in FreeHanded => l.permits = 0 /\ l.want = 0
  /\ l.again => l.permits = 0 /\ l.want = 0
  /\ label \in SingleLabels => ~bulk
  /\ label \in BulkLabels => bulk
  /\ label \in Permitted => bulk \/ l.want = 0
  /\ label \in ClaimLabels => l.want \in 0..l.permits
Search(label, l) ==
  /\ label \in {"visit", "v_head"} =>
       /\ l.seen \in Nat /\ l.size \in Nat
       /\ IF l.seen = 0 THEN l.size = 0 ELSE l.best # Null
  /\ label \in {"v_head", "d_over", "d_opt"} => l.tail \in Indexes
  /\ label \in {"d_opt", "d_claim", "d_recheck"} => l.over \in Indexes
  /\ label = "d_recheck" => l.my \in Indexes
  /\ label = "b_over" => l.over \in Nat
Waits(label, l, z) ==
  /\ label \in {"s_try", "s_more"} => l.permits <= z
  /\ label = "s_try" => l.old \in Int
  /\ label = "s_spincas" => l.old \in Nat /\ l.old > 0
  /\ label = "s_restore" => l.old \in Int /\ l.old < 0
  /\ label = "s_post" => l.size \in Nat
Fits(label, l, bulk, z, n) ==
  /\ Typed(l, n) /\ Pointing(label, l, bulk) /\ Permits(label, l, bulk)
  /\ Search(label, l) /\ Waits(label, l, z) /\ (label = "idle" => l = NoLocals)

ThreadInv(t) ==
  /\ pc[t] # "idle" => program[t] # <<>>
  /\ Fits(pc[t], lv[t], Bulk(t), Size(t), Len(taken))

(* What such a thread owes to the count of permits, whether it sleeps, and the wake-ups it posts. *)
Sleeps(label) == IF label \in Asleep THEN 1 ELSE 0
Holds(label, l, bulk) == IF label \in Permitted /\ ~bulk THEN 1 ELSE l.permits
Signals(label, z) == IF label = "signal" THEN z ELSE 0
Posts(label, l) == IF label = "s_post" THEN l.size ELSE 0
Kept(label, l, label2, l2, bulk, z) ==
  /\ Sleeps(label2) = Sleeps(label) /\ Holds(label2, l2, bulk) = Holds(label, l, bulk)
  /\ Signals(label2, z) = Signals(label, z) /\ Posts(label2, l2) = Posts(label, l)
Idle(label, l, bulk, z) ==
  Sleeps(label) = 0 /\ Holds(label, l, bulk) = 0 /\ Signals(label, z) = 0 /\ Posts(label, l) = 0

(* The threads and the semaphore. *)
ControlInv ==
  /\ DOMAIN pc = Threads /\ DOMAIN lv = Threads /\ program \in [Threads -> Seq(Calls)]
  /\ m_count \in Int /\ m_sema \in Nat

(* The producers, their elements and the slots of the tables. *)
Sound(r, n) ==
  /\ DOMAIN r = DOMAIN NewProducer(Null) /\ r.next \in 0..n
  /\ r.tailIndex \in Indexes /\ r.headIndex \in Indexes
  /\ r.dequeueOptimisticCount \in Indexes /\ r.dequeueOvercommit \in Indexes
ProducersInv ==
  /\ prod \in Seq(Elements(prod)) /\ Len(prod) = Len(taken) /\ producerListTail \in 0..Len(prod)
  /\ \A p \in 1..Len(prod) : Sound(prod[p], Len(prod))
HistoryInv == log \in Seq(Seq(Items)) /\ taken \in Seq(Nat) /\ Len(log) = Len(taken)
TablesInv ==
  /\ tables \in Seq(Elements(tables))
  /\ \A k \in DOMAIN tables : \A i \in DOMAIN tables[k] :
       /\ DOMAIN tables[k][i] = {"key", "value"}
       /\ tables[k][i].key \in Threads => tables[k][i].value \in DOMAIN prod
DataInv == ProducersInv /\ HistoryInv /\ TablesInv

(* A step of t leaves the other threads alone. *)
Others(t) ==
  /\ \A u \in Threads \ {t} : pc'[u] = pc[u] /\ lv'[u] = lv[u] /\ program'[u] = program[u]
  /\ DOMAIN pc' = Threads /\ DOMAIN lv' = Threads /\ program' \in [Threads -> Seq(Calls)]

(* What t owes, and steps that do not change it. *)
Owing(t) == <<Sleeps(pc[t]), Holds(pc[t], lv[t], Bulk(t)), Signals(pc[t], Size(t)), Posts(pc[t], lv[t])>>
StepOf(t) == Others(t) /\ ThreadInv(t)'
KeepsOwing(t) == Owing(t)' = Owing(t)
(* How a step of one thread changes the two sums, when it adds d elements that nobody has claimed. *)
Below(c) == IF c < 0 THEN 0 - c ELSE 0
Balance(label, l, label2, l2, b, z, c, s, c2, s2, d) ==
  /\ c2 + Sleeps(label2) + Holds(label2, l2, b) + Signals(label2, z)
       = c + Sleeps(label) + Holds(label, l, b) + Signals(label, z) + d
  /\ s2 + Posts(label2, l2) + Below(c2) + Sleeps(label) = s + Posts(label, l) + Below(c) + Sleeps(label2)
Balanced(t, d) ==
  /\ m_count' + Owing(t)'[1] + Owing(t)'[2] + Owing(t)'[3]
       = m_count + Owing(t)[1] + Owing(t)[2] + Owing(t)[3] + d
  /\ m_sema' + Owing(t)'[4] + Below(m_count') + Owing(t)[1]
       = m_sema + Owing(t)[4] + Below(m_count) + Owing(t)'[1]

(* The fields of the locals with which every call begins. *)
LEMMA NoLocalsFields ==
  /\ DOMAIN NoLocals = Fields
  /\ NoLocals.permits = 0 /\ NoLocals.want = 0 /\ NoLocals.ptr = 0 /\ NoLocals.prod = 0
  /\ NoLocals.best = 0 /\ NoLocals.seen = 0 /\ NoLocals.size = 0 /\ NoLocals.again = FALSE
  /\ NoLocals.old = 0 /\ NoLocals.tail = 0 /\ NoLocals.freed = <<>>
BY DEF NoLocals, Fields

(* A call is of at least one element, and of more only when it is a bulk operation. *)
LEMMA SizeType == \A t \in Threads : Size(t) \in Nat /\ Size(t) > 0 /\ (Size(t) > 1 => Bulk(t))
BY SizesAssumption DEF Size

(* circular_less_than: the distance between two indexes in this order is not 0 (concurrentqueue.h:477). *)
LEMMA MinusPositive ==
  ASSUME NEW a \in Indexes, NEW b \in Indexes, IndexMod \in Nat, IndexMod > 0, circular_less_than(a, b)
  PROVE  Minus(b, a) > 0 /\ Minus(b, a) \in Nat
<1>1. a # b
  <2>1. \A x \in Int : x - x = 0
    OBVIOUS
  <2>2. 0 % IndexMod = 0 /\ IndexMod \div 2 >= 0
    OBVIOUS
  <2> QED BY <2>1, <2>2 DEF circular_less_than, Indexes
<1>2. CASE a < b
  <2>1. b - a \in 1..(IndexMod - 1)
    BY <1>2 DEF Indexes
  <2>2. (b - a) % IndexMod = b - a
    BY <2>1
  <2> QED BY <2>1, <2>2 DEF Minus
<1>3. CASE b < a
  <2>1. b - a + IndexMod \in 1..(IndexMod - 1)
    BY <1>3 DEF Indexes
  <2> DEFINE q == (b - a) \div IndexMod
             r == (b - a) % IndexMod
  <2>3. q \in Int /\ r \in 0..(IndexMod - 1) /\ b - a = IndexMod * q + r
    BY DEF Indexes
  <2>0. a - b \in 1..(IndexMod - 1) /\ b - a = 0 - (a - b)
    BY <1>3 DEF Indexes
  <2> HIDE DEF q, r
  <2>4. ~(q >= 0)
    <3>1. q >= 0 => IndexMod * q >= 0
      BY <2>3
    <3>2. IndexMod * q \in Int
      BY <2>3
    <3> QED BY <2>3, <2>0, <3>1, <3>2
  <2>5. ~(q <= -2)
    <3>1. q <= -2 => IndexMod * (0 - q - 2) >= 0
      BY <2>3
    <3>2. IndexMod * (0 - q - 2) = 0 - IndexMod * q - 2 * IndexMod
      BY <2>3
    <3>3. IndexMod * q \in Int
      BY <2>3
    <3> QED BY <2>3, <2>0, <3>1, <3>2, <3>3
  <2>6. q = -1
    BY <2>3, <2>4, <2>5
  <2>2. (b - a) % IndexMod = b - a + IndexMod
    <3>1. IndexMod * q = 0 - IndexMod
      BY <2>6
    <3> QED BY <2>3, <3>1, <2>0 DEF r
  <2> QED BY <2>1, <2>2 DEF Minus
<1> QED BY <1>1, <1>2, <1>3 DEF Indexes

(* Indexes wrap around. *)
LEMMA ModIndex ==
  ASSUME NEW a \in Int, IndexMod \in Nat, IndexMod > 0
  PROVE a % IndexMod \in Indexes /\ Indexes \subseteq Nat
BY DEF Indexes

(* The newest of some tables is one of them, and no other is newer. *)
LEMMA MaxMember ==
  ASSUME NEW n \in Nat, NEW S, S \subseteq 1..n, S # {}
  PROVE  Newest(S) \in S /\ \A j \in S : j <= Newest(S)
<1> DEFINE T == {k..n : k \in S}
           R == StrictSubsetOrdering(1..n)
<1>1. T \subseteq FiniteSubsetsOf(1..n) /\ T # {}
  <2>1. \A k \in S : k..n \subseteq 1..n
    OBVIOUS
  <2>2. \A k \in S : k \in Int /\ IsFiniteSet(k..n)
    BY FS_Interval
  <2> QED BY <2>1, <2>2 DEF FiniteSubsetsOf
<1>2. \E x \in T : \A y \in T : ~(<<y, x>> \in R)
  BY <1>1, FS_StrictSubsetOrderingWellFounded, WFMin
<1>3. PICK k \in S : \A j \in S : ~(<<j..n, k..n>> \in R)
  BY <1>2
<1>4. ASSUME NEW j \in S, j > k PROVE FALSE
  <2>1. j..n \subseteq k..n /\ k \in k..n /\ k \notin j..n
    BY <1>4
  <2>2. j..n \in SUBSET (1..n) /\ k..n \in SUBSET (1..n)
    OBVIOUS
  <2> QED BY <1>3, <2>1, <2>2 DEF StrictSubsetOrdering
<1>5. \A j \in S : j <= k
  BY <1>4
<1> QED BY <1>5 DEF Newest

(* A thread that goes on within its call. *)
LEMMA GoOthers ==
  ASSUME NEW t \in Threads, NEW label, NEW l, ControlInv, Go(t, label, l)
  PROVE  /\ Others(t) /\ pc'[t] = label /\ lv'[t] = l /\ program' = program
         /\ Call(t)' = Call(t) /\ Bulk(t)' = Bulk(t) /\ Size(t)' = Size(t)
BY DEF ControlInv, Others, Go, Call, Bulk, Size

(* A thread whose call returns. *)
LEMMA ReturnOthers ==
  ASSUME NEW t \in Threads, ControlInv, Return(t), program[t] # <<>>
  PROVE  Others(t) /\ pc'[t] = "idle" /\ lv'[t] = NoLocals
BY DEF ControlInv, Others, Return

USE DEF PtrLabels, ProdLabels, AddLabels, BestLabels, FreeHanded, SingleLabels, BulkLabels, Permitted,
        ClaimLabels, Asleep

(* A thread between two calls owes nothing. *)
LEMMA IdleFits ==
  ASSUME NEW bulk \in BOOLEAN, NEW z, NEW n \in Nat
  PROVE  Fits("idle", NoLocals, bulk, z, n) /\ Idle("idle", NoLocals, bulk, z)
<1>1. Fits("idle", NoLocals, bulk, z, n)
  <2>1. Typed(NoLocals, n)
    BY NoLocalsFields DEF Typed
  <2>2. Pointing("idle", NoLocals, bulk)
    BY NoLocalsFields DEF Pointing
  <2>3. Permits("idle", NoLocals, bulk)
    BY NoLocalsFields DEF Permits
  <2>4. Search("idle", NoLocals) /\ Waits("idle", NoLocals, z)
    BY DEF Search, Waits
  <2> QED BY <2>1, <2>2, <2>3, <2>4 DEF Fits
<1>2. Idle("idle", NoLocals, bulk, z)
  BY NoLocalsFields DEF Idle, Sleeps, Holds, Signals, Posts
<1> QED BY <1>1, <1>2

(* What a call that returns settles. *)
LEMMA ReturnInv ==
  ASSUME NEW t \in Threads, ControlInv, ThreadInv(t), Return(t), program[t] # <<>>, taken' \in Seq(Nat)
  PROVE  /\ StepOf(t) /\ pc'[t] = "idle" /\ lv'[t] = NoLocals
         /\ Owing(t)' = <<0, 0, 0, 0>>
         /\ Idle(pc[t], lv[t], Bulk(t), Size(t)) => KeepsOwing(t)
         /\ \A d : Balance(pc[t], lv[t], "idle", NoLocals, Bulk(t), Size(t), m_count, m_sema, m_count', m_sema', d)
                    => Balanced(t, d)
<1>1. Others(t) /\ pc'[t] = "idle" /\ lv'[t] = NoLocals
  BY ReturnOthers
<1>2. Fits("idle", NoLocals, Bulk(t)', Size(t)', Len(taken')) /\ Idle("idle", NoLocals, Bulk(t)', Size(t)')
  <2>1. Bulk(t)' \in BOOLEAN
    BY DEF Bulk
  <2> QED BY <2>1, IdleFits
<1>3. StepOf(t)
  BY <1>1, <1>2 DEF ThreadInv, StepOf
<1>4. Owing(t)' = <<0, 0, 0, 0>>
  BY <1>1, <1>2 DEF Idle, Owing
<1>5. ASSUME NEW d,
             Balance(pc[t], lv[t], "idle", NoLocals, Bulk(t), Size(t), m_count, m_sema, m_count', m_sema', d)
      PROVE  Balanced(t, d)
  <2>1. /\ Sleeps("idle") = 0 /\ Holds("idle", NoLocals, Bulk(t)) = 0
        /\ Signals("idle", Size(t)) = 0 /\ Posts("idle", NoLocals) = 0
    BY NoLocalsFields DEF Sleeps, Holds, Signals, Posts
  <2>2. /\ Owing(t)[1] = Sleeps(pc[t]) /\ Owing(t)[2] = Holds(pc[t], lv[t], Bulk(t))
        /\ Owing(t)[3] = Signals(pc[t], Size(t)) /\ Owing(t)[4] = Posts(pc[t], lv[t])
    BY DEF Owing
  <2>3. Owing(t)'[1] = 0 /\ Owing(t)'[2] = 0 /\ Owing(t)'[3] = 0 /\ Owing(t)'[4] = 0
    BY <1>4
  <2> QED BY ONLY <1>5, <2>1, <2>2, <2>3 DEF Balance, Balanced
<1> QED BY <1>1, <1>3, <1>4, <1>5 DEF Idle, Owing, KeepsOwing

(* What a step within a call changes, by what is known at the label it leads to. *)
LEMMA GoInv ==
  ASSUME NEW t \in Threads, ControlInv, NEW label, NEW l, Go(t, label, l), label # "idle",
         program[t] # <<>>,
         Fits(label, l, Bulk(t), Size(t), Len(taken'))
  PROVE  /\ StepOf(t) /\ pc'[t] = label /\ lv'[t] = l
         /\ Owing(t)' = <<Sleeps(label), Holds(label, l, Bulk(t)), Signals(label, Size(t)), Posts(label, l)>>
         /\ Kept(pc[t], lv[t], label, l, Bulk(t), Size(t)) => KeepsOwing(t)
         /\ \A d : Balance(pc[t], lv[t], label, l, Bulk(t), Size(t), m_count, m_sema, m_count', m_sema', d)
                    => Balanced(t, d)
<1>1. /\ Others(t) /\ pc'[t] = label /\ lv'[t] = l /\ program' = program
      /\ Bulk(t)' = Bulk(t) /\ Size(t)' = Size(t)
  BY GoOthers
<1>2. ThreadInv(t)'
  BY <1>1 DEF ThreadInv
<1>3. Owing(t)' = <<Sleeps(label), Holds(label, l, Bulk(t)), Signals(label, Size(t)), Posts(label, l)>>
  BY <1>1 DEF Owing
<1>4. ASSUME NEW d,
             Balance(pc[t], lv[t], label, l, Bulk(t), Size(t), m_count, m_sema, m_count', m_sema', d)
      PROVE  Balanced(t, d)
  <2>2. /\ Owing(t)[1] = Sleeps(pc[t]) /\ Owing(t)[2] = Holds(pc[t], lv[t], Bulk(t))
        /\ Owing(t)[3] = Signals(pc[t], Size(t)) /\ Owing(t)[4] = Posts(pc[t], lv[t])
    BY DEF Owing
  <2>3. /\ Owing(t)'[1] = Sleeps(label) /\ Owing(t)'[2] = Holds(label, l, Bulk(t))
        /\ Owing(t)'[3] = Signals(label, Size(t)) /\ Owing(t)'[4] = Posts(label, l)
    BY <1>3
  <2> QED BY ONLY <1>4, <2>2, <2>3 DEF Balance, Balanced
<1> QED BY <1>1, <1>2, <1>3, <1>4 DEF StepOf, Kept, KeepsOwing, Owing

(* The same for a step that moves permits or wake-ups. *)
LEMMA GoBalanced ==
  ASSUME NEW t \in Threads, ControlInv, NEW label, NEW l, NEW d, NEW c2, NEW s2, NEW n,
         Go(t, label, l), label # "idle", program[t] # <<>>, Len(taken') = n,
         Fits(label, l, Bulk(t), Size(t), n), m_count' = c2, m_sema' = s2,
         Balance(pc[t], lv[t], label, l, Bulk(t), Size(t), m_count, m_sema, c2, s2, d)
  PROVE  StepOf(t) /\ Balanced(t, d)
BY GoInv

(* The same for a step that moves none. *)
LEMMA GoQuiet ==
  ASSUME NEW t \in Threads, ControlInv, NEW label, NEW l, NEW n,
         Go(t, label, l), label # "idle", program[t] # <<>>, Len(taken') = n,
         Fits(label, l, Bulk(t), Size(t), n), Kept(pc[t], lv[t], label, l, Bulk(t), Size(t))
  PROVE  StepOf(t) /\ KeepsOwing(t)
BY GoInv

(* A call that returns with the last of its permits. *)
LEMMA ReturnBalanced ==
  ASSUME NEW t \in Threads, ControlInv, ThreadInv(t), NEW d, NEW c2, NEW s2,
         Return(t), program[t] # <<>>, taken' \in Seq(Nat), m_count' = c2, m_sema' = s2,
         Balance(pc[t], lv[t], "idle", NoLocals, Bulk(t), Size(t), m_count, m_sema, c2, s2, d)
  PROVE  StepOf(t) /\ Balanced(t, d)
BY ReturnInv

(* A call that returns and had none. *)
LEMMA ReturnQuiet ==
  ASSUME NEW t \in Threads, ControlInv, ThreadInv(t),
         Return(t), program[t] # <<>>, taken' \in Seq(Nat), Idle(pc[t], lv[t], Bulk(t), Size(t))
  PROVE  StepOf(t) /\ KeepsOwing(t)
BY ReturnInv

(* A step that stays where it is. *)
LEMMA StayQuiet ==
  ASSUME NEW t \in Threads, ControlInv, ThreadInv(t), UNCHANGED control, Len(taken') = Len(taken)
  PROVE  StepOf(t) /\ KeepsOwing(t)
<1>1. Others(t)
  BY DEF Others, control, ControlInv
<1>2. ThreadInv(t)' /\ Owing(t)' = Owing(t)
  BY DEF ThreadInv, Owing, control, Bulk, Size, Call
<1> QED BY <1>1, <1>2 DEF StepOf, KeepsOwing

(* A step that neither changes what its thread owes nor the semaphore. *)
LEMMA QuietBalanced ==
  ASSUME NEW t \in Threads, ControlInv, ThreadInv(t), KeepsOwing(t), UNCHANGED semVars
  PROVE  Balanced(t, 0)
<1>1. /\ Owing(t)[1] \in Int /\ Owing(t)[2] \in Int /\ Owing(t)[3] \in Int /\ Owing(t)[4] \in Int
  <2>1. Owing(t)[1] = Sleeps(pc[t]) /\ Owing(t)[2] = Holds(pc[t], lv[t], Bulk(t))
        /\ Owing(t)[3] = Signals(pc[t], Size(t)) /\ Owing(t)[4] = Posts(pc[t], lv[t])
    BY DEF Owing
  <2> QED BY <2>1, SizeType DEF Sleeps, Holds, Signals, Posts, ThreadInv, Fits, Typed, Waits
<1>2. m_count' = m_count /\ m_sema' = m_sema /\ Owing(t)' = Owing(t)
  BY DEF KeepsOwing, semVars
<1>3. m_count \in Int /\ m_sema \in Int
  BY DEF ControlInv
<1> QED BY <1>1, <1>2, <1>3 DEF Balanced, Below

(* A step of the semaphore keeps the accounts. *)
LEMMA SemaphoreLocal ==
  ASSUME NEW t \in Threads, ControlInv, ThreadInv(t), SemaphoreStep(t), taken \in Seq(Nat)
  PROVE  StepOf(t) /\ Balanced(t, 0)
<1> DEFINE l == lv[t]
           b == Bulk(t)
           z == Size(t)
           n == Len(taken)
<1>a. taken' = taken /\ ControlInv /\ taken \in Seq(Nat) /\ ThreadInv(t)
  BY DEF SemaphoreStep, TryWaitLoad, TryWaitCAS, SpinLoad, SpinCAS, FetchSub, Sleep, Timeout,
         AdjustLoad, TrySema, Restore, Signal, Post, semUnchanged, history
<1>b. /\ Fits(pc[t], l, b, z, n) /\ (pc[t] # "idle" => program[t] # <<>>)
      /\ z \in Nat /\ z > 0 /\ (z > 1 => b) /\ (~b => z = 1)
      /\ m_count \in Int /\ m_sema \in Nat /\ n \in Nat
  BY SizeType DEF ThreadInv, Size, ControlInv
<1>1. CASE TryWaitLoad(t)
  <2> DEFINE l2 == [l EXCEPT !.old = m_count]
  <2>1. Go(t, "s_try", l2)
    BY <1>1 DEF TryWaitLoad, Loc, Calling
  <2>2. Fits("s_try", l2, b, z, n) /\ Balance(pc[t], l, "s_try", l2, b, z, m_count, m_sema,
       m_count, m_sema, 0) /\ program[t] # <<>> /\ "s_try" # "idle"
    <3>1. (pc[t] = "s_more" \/ pc[t] = "idle") /\ (pc[t] = "idle" => program[t] # <<>>)
      BY <1>1 DEF TryWaitLoad, Loc, At, Calling
    <3> HIDE DEF l, b, z, n
    <3> QED BY <1>b, <3>1, NoLocalsFields DEF Null, Fields, Fits, Typed, Pointing, Permits, Search,
           Waits, Balance, Below, Sleeps, Holds, Signals, Posts
  <2>3. m_count' = m_count /\ m_sema' = m_sema
    BY <1>1 DEF TryWaitLoad, semVars, Loc, Calling
  <2> HIDE DEF l2
  <2> QED BY <2>1, <2>2, <2>3, <1>a, <1>b, GoBalanced
<1>2. CASE TryWaitCAS(t)
  <2> DEFINE k == Least(l.old, z - l.permits)
  <2>0. pc[t] = "s_try" /\ l.old \in Int
    <3>1. pc[t] = "s_try"
      BY <1>2 DEF TryWaitCAS, At
    <3> QED BY <3>1, <1>b DEF Fits, Waits
  <2>1. CASE l.old <= 0
    <3>0. /\ IF l.permits > 0 THEN Acquired(t, l.permits)
             ELSE IF Call(t) \in TryDequeues THEN Return(t)
             ELSE Go(t, "s_spin", [NoLocals EXCEPT !.spin = MaxSpins])
          /\ m_count' = m_count /\ m_sema' = m_sema
      BY <1>2, <2>0, <2>1 DEF TryWaitCAS, Loc
    <3>1. CASE l.permits > 0
      <4>1. CASE b
        <5> DEFINE l2 == [NoLocals EXCEPT !.permits = l.permits]
        <5>1. Go(t, "b_scan", l2)
          BY <2>0, <3>0, <3>1, <4>1 DEF Loc, Acquired
        <5>2. Fits("b_scan", l2, b, z, n) /\ Balance(pc[t], l, "b_scan", l2, b, z, m_count,
             m_sema, m_count, m_sema, 0) /\ program[t] # <<>> /\ "b_scan" # "idle"
          <6>1. pc[t] = "s_try" /\ l.permits > 0 /\ b
            BY <2>0, <3>0, <3>1, <4>1 DEF Loc, At, Acquired
          <6> HIDE DEF l, b, z, n
          <6> QED BY <1>b, <6>1, NoLocalsFields DEF Null, Fields, Fits, Typed, Pointing, Permits,
                 Search, Waits, Balance, Below, Sleeps, Holds, Signals, Posts
        <5>3. m_count' = m_count /\ m_sema' = m_sema
          BY <2>0, <3>0, <3>1, <4>1 DEF semVars, Loc, Acquired
        <5> HIDE DEF l2
        <5> QED BY <5>1, <5>2, <5>3, <1>a, <1>b, GoBalanced
      <4>2. CASE ~b
        <5> DEFINE l2 == NoLocals
        <5>1. Go(t, "scan", l2)
          BY <2>0, <3>0, <3>1, <4>2 DEF Loc, Acquired
        <5>2. Fits("scan", l2, b, z, n) /\ Balance(pc[t], l, "scan", l2, b, z, m_count, m_sema,
             m_count, m_sema, 0) /\ program[t] # <<>> /\ "scan" # "idle"
          <6>1. pc[t] = "s_try" /\ l.permits > 0 /\ ~b
            BY <2>0, <3>0, <3>1, <4>2 DEF Loc, At, Acquired
          <6> HIDE DEF l, b, z, n
          <6> QED BY <1>b, <6>1, NoLocalsFields DEF Null, Fields, Fits, Typed, Pointing, Permits,
                 Search, Waits, Balance, Below, Sleeps, Holds, Signals, Posts
        <5>3. m_count' = m_count /\ m_sema' = m_sema
          BY <2>0, <3>0, <3>1, <4>2 DEF semVars, Loc, Acquired
        <5> HIDE DEF l2
        <5> QED BY <5>1, <5>2, <5>3, <1>a, <1>b, GoBalanced
      <4> QED BY <4>1, <4>2
    <3>2. CASE ~(l.permits > 0) /\ Call(t) \in TryDequeues
      <4>1. Return(t)
        BY <2>0, <3>0, <3>2 DEF Loc
      <4>2. Balance(pc[t], l, "idle", NoLocals, b, z, m_count, m_sema, m_count, m_sema, 0)
           /\ program[t] # <<>>
        <5>1. pc[t] = "s_try" /\ ~(l.permits > 0)
          BY <2>0, <3>0, <3>2 DEF Loc, At
        <5> HIDE DEF l, b, z, n
        <5> QED BY <1>b, <5>1, NoLocalsFields DEF Null, Fields, Fits, Typed, Pointing, Permits, Search,
               Waits, Balance, Below, Sleeps, Holds, Signals, Posts
      <4>3. m_count' = m_count /\ m_sema' = m_sema
        BY <2>0, <3>0, <3>2 DEF semVars, Loc
      <4> QED BY <4>1, <4>2, <4>3, <1>a, <1>b, ReturnBalanced
    <3>3. CASE ~(l.permits > 0) /\ Call(t) \notin TryDequeues
      <4> DEFINE l2 == [NoLocals EXCEPT !.spin = MaxSpins]
      <4>1. Go(t, "s_spin", l2)
        BY <2>0, <3>0, <3>3 DEF Loc
      <4>2. Fits("s_spin", l2, b, z, n) /\ Balance(pc[t], l, "s_spin", l2, b, z, m_count,
           m_sema, m_count, m_sema, 0) /\ program[t] # <<>> /\ "s_spin" # "idle"
        <5>1. pc[t] = "s_try" /\ ~(l.permits > 0)
          BY <2>0, <3>0, <3>3 DEF Loc, At
        <5> HIDE DEF l, b, z, n
        <5> QED BY <1>b, <5>1, NoLocalsFields DEF Null, Fields, Fits, Typed, Pointing, Permits, Search,
               Waits, Balance, Below, Sleeps, Holds, Signals, Posts
      <4>3. m_count' = m_count /\ m_sema' = m_sema
        BY <2>0, <3>0, <3>3 DEF semVars, Loc
      <4> HIDE DEF l2
      <4> QED BY <4>1, <4>2, <4>3, <1>a, <1>b, GoBalanced
    <3> QED BY <3>1, <3>2, <3>3
  <2>2. CASE l.old > 0 /\ m_count = l.old
    <3>0. Acquired(t, l.permits + k) /\ m_count' = m_count - k /\ m_sema' = m_sema
      BY <1>2, <2>0, <2>2 DEF TryWaitCAS, Loc
    <3>1. CASE b
      <4> DEFINE l2 == [NoLocals EXCEPT !.permits = l.permits + k]
      <4>1. Go(t, "b_scan", l2)
        BY <2>0, <2>2, <3>0, <3>1 DEF Loc, Acquired
      <4>2. Fits("b_scan", l2, b, z, n) /\ Balance(pc[t], l, "b_scan", l2, b, z, m_count,
           m_sema, m_count - k, m_sema, 0) /\ program[t] # <<>> /\ "b_scan" # "idle"
        <5>1. pc[t] = "s_try" /\ l.old > 0 /\ m_count = l.old /\ b
          BY <2>0, <2>2, <3>0, <3>1 DEF Loc, At, Acquired
        <5> HIDE DEF l, b, z, n
        <5> QED BY <1>b, <5>1, NoLocalsFields DEF Least, Null, Fields, Fits, Typed, Pointing, Permits,
               Search, Waits, Balance, Below, Sleeps, Holds, Signals, Posts
      <4>3. m_count' = m_count - k /\ m_sema' = m_sema
        BY <2>0, <2>2, <3>0, <3>1 DEF semVars, Loc, Acquired
      <4> HIDE DEF l2
      <4> QED BY <4>1, <4>2, <4>3, <1>a, <1>b, GoBalanced
    <3>2. CASE ~b
      <4> DEFINE l2 == NoLocals
      <4>1. Go(t, "scan", l2)
        BY <2>0, <2>2, <3>0, <3>2 DEF Loc, Acquired
      <4>2. Fits("scan", l2, b, z, n) /\ Balance(pc[t], l, "scan", l2, b, z, m_count, m_sema,
           m_count - k, m_sema, 0) /\ program[t] # <<>> /\ "scan" # "idle"
        <5>1. pc[t] = "s_try" /\ l.old > 0 /\ m_count = l.old /\ ~b
          BY <2>0, <2>2, <3>0, <3>2 DEF Loc, At, Acquired
        <5> HIDE DEF l, b, z, n
        <5> QED BY <1>b, <5>1, NoLocalsFields DEF Least, Null, Fields, Fits, Typed, Pointing, Permits,
               Search, Waits, Balance, Below, Sleeps, Holds, Signals, Posts
      <4>3. m_count' = m_count - k /\ m_sema' = m_sema
        BY <2>0, <2>2, <3>0, <3>2 DEF semVars, Loc, Acquired
      <4> HIDE DEF l2
      <4> QED BY <4>1, <4>2, <4>3, <1>a, <1>b, GoBalanced
    <3> QED BY <3>1, <3>2
  <2>3. CASE l.old > 0 /\ m_count # l.old
    <3>0. Go(t, "s_try", [l EXCEPT !.old = m_count]) /\ m_count' = m_count /\ m_sema' = m_sema
      BY <1>2, <2>0, <2>3 DEF TryWaitCAS, Loc
    <3> DEFINE l2 == [l EXCEPT !.old = m_count]
    <3>1. Go(t, "s_try", l2)
      BY <2>0, <3>0 DEF Loc
    <3>2. Fits("s_try", l2, b, z, n) /\ Balance(pc[t], l, "s_try", l2, b, z, m_count, m_sema,
         m_count, m_sema, 0) /\ program[t] # <<>> /\ "s_try" # "idle"
      <4>1. pc[t] = "s_try"
        BY <2>0, <3>0 DEF Loc, At
      <4> HIDE DEF l, b, z, n
      <4> QED BY <1>b, <4>1, NoLocalsFields DEF Null, Fields, Fits, Typed, Pointing, Permits, Search,
             Waits, Balance, Below, Sleeps, Holds, Signals, Posts
    <3>3. m_count' = m_count /\ m_sema' = m_sema
      BY <2>0, <3>0 DEF semVars, Loc
    <3> HIDE DEF l2
    <3> QED BY <3>1, <3>2, <3>3, <1>a, <1>b, GoBalanced
  <2> QED BY <2>0, <2>1, <2>2, <2>3
<1>3. CASE SpinLoad(t)
  <2>1. CASE l.spin = 0
    <3> DEFINE l2 == NoLocals
    <3>1. Go(t, "s_sub", l2)
      BY <1>3, <2>1 DEF SpinLoad, Loc
    <3>2. Fits("s_sub", l2, b, z, n) /\ Balance(pc[t], l, "s_sub", l2, b, z, m_count, m_sema,
         m_count, m_sema, 0) /\ program[t] # <<>> /\ "s_sub" # "idle"
      <4>1. pc[t] = "s_spin"
        BY <1>3, <2>1 DEF SpinLoad, Loc, At
      <4> HIDE DEF l, b, z, n
      <4> QED BY <1>b, <4>1, NoLocalsFields DEF Null, Fields, Fits, Typed, Pointing, Permits, Search,
             Waits, Balance, Below, Sleeps, Holds, Signals, Posts
    <3>3. m_count' = m_count /\ m_sema' = m_sema
      BY <1>3, <2>1 DEF SpinLoad, semVars, Loc
    <3> HIDE DEF l2
    <3> QED BY <3>1, <3>2, <3>3, <1>a, <1>b, GoBalanced
  <2>2. CASE l.spin # 0 /\ m_count > 0
    <3> DEFINE l2 == [l EXCEPT !.spin = @ - 1, !.old = m_count]
    <3>1. Go(t, "s_spincas", l2)
      BY <1>3, <2>2 DEF SpinLoad, Loc
    <3>2. Fits("s_spincas", l2, b, z, n) /\ Balance(pc[t], l, "s_spincas", l2, b, z, m_count,
         m_sema, m_count, m_sema, 0) /\ program[t] # <<>> /\ "s_spincas" # "idle"
      <4>1. pc[t] = "s_spin" /\ m_count > 0
        BY <1>3, <2>2 DEF SpinLoad, Loc, At
      <4> HIDE DEF l, b, z, n
      <4> QED BY <1>b, <4>1, NoLocalsFields DEF Null, Fields, Fits, Typed, Pointing, Permits, Search,
             Waits, Balance, Below, Sleeps, Holds, Signals, Posts
    <3>3. m_count' = m_count /\ m_sema' = m_sema
      BY <1>3, <2>2 DEF SpinLoad, semVars, Loc
    <3> HIDE DEF l2
    <3> QED BY <3>1, <3>2, <3>3, <1>a, <1>b, GoBalanced
  <2>3. CASE l.spin # 0 /\ ~(m_count > 0)
    <3> DEFINE l2 == [l EXCEPT !.spin = @ - 1, !.old = m_count]
    <3>1. Go(t, "s_spin", l2)
      BY <1>3, <2>3 DEF SpinLoad, Loc
    <3>2. Fits("s_spin", l2, b, z, n) /\ Balance(pc[t], l, "s_spin", l2, b, z, m_count, m_sema,
         m_count, m_sema, 0) /\ program[t] # <<>> /\ "s_spin" # "idle"
      <4>1. pc[t] = "s_spin"
        BY <1>3, <2>3 DEF SpinLoad, Loc, At
      <4> HIDE DEF l, b, z, n
      <4> QED BY <1>b, <4>1, NoLocalsFields DEF Null, Fields, Fits, Typed, Pointing, Permits, Search,
             Waits, Balance, Below, Sleeps, Holds, Signals, Posts
    <3>3. m_count' = m_count /\ m_sema' = m_sema
      BY <1>3, <2>3 DEF SpinLoad, semVars, Loc
    <3> HIDE DEF l2
    <3> QED BY <3>1, <3>2, <3>3, <1>a, <1>b, GoBalanced
  <2> QED BY <2>1, <2>2, <2>3
<1>4. CASE SpinCAS(t)
  <2> DEFINE k == Least(l.old, z)
  <2>1. CASE m_count = l.old
    <3>1. CASE b
      <4> DEFINE l2 == [NoLocals EXCEPT !.permits = k]
      <4>1. Go(t, "b_scan", l2)
        BY <1>4, <2>1, <3>1 DEF SpinCAS, Loc, Acquired
      <4>2. Fits("b_scan", l2, b, z, n) /\ Balance(pc[t], l, "b_scan", l2, b, z, m_count,
           m_sema, m_count - k, m_sema, 0) /\ program[t] # <<>> /\ "b_scan" # "idle"
        <5>1. pc[t] = "s_spincas" /\ m_count = l.old /\ b
          BY <1>4, <2>1, <3>1 DEF SpinCAS, Loc, At, Acquired
        <5> HIDE DEF l, b, z, n
        <5> QED BY <1>b, <5>1, NoLocalsFields DEF Least, Null, Fields, Fits, Typed, Pointing, Permits,
               Search, Waits, Balance, Below, Sleeps, Holds, Signals, Posts
      <4>3. m_count' = m_count - k /\ m_sema' = m_sema
        BY <1>4, <2>1, <3>1 DEF SpinCAS, semVars, Loc, Acquired
      <4> HIDE DEF l2
      <4> QED BY <4>1, <4>2, <4>3, <1>a, <1>b, GoBalanced
    <3>2. CASE ~b
      <4> DEFINE l2 == NoLocals
      <4>1. Go(t, "scan", l2)
        BY <1>4, <2>1, <3>2 DEF SpinCAS, Loc, Acquired
      <4>2. Fits("scan", l2, b, z, n) /\ Balance(pc[t], l, "scan", l2, b, z, m_count, m_sema,
           m_count - k, m_sema, 0) /\ program[t] # <<>> /\ "scan" # "idle"
        <5>1. pc[t] = "s_spincas" /\ m_count = l.old /\ ~b
          BY <1>4, <2>1, <3>2 DEF SpinCAS, Loc, At, Acquired
        <5> HIDE DEF l, b, z, n
        <5> QED BY <1>b, <5>1, NoLocalsFields DEF Least, Null, Fields, Fits, Typed, Pointing, Permits,
               Search, Waits, Balance, Below, Sleeps, Holds, Signals, Posts
      <4>3. m_count' = m_count - k /\ m_sema' = m_sema
        BY <1>4, <2>1, <3>2 DEF SpinCAS, semVars, Loc, Acquired
      <4> HIDE DEF l2
      <4> QED BY <4>1, <4>2, <4>3, <1>a, <1>b, GoBalanced
    <3> QED BY <3>1, <3>2
  <2>2. CASE m_count # l.old
    <3> DEFINE l2 == [l EXCEPT !.old = 0]
    <3>1. Go(t, "s_spin", l2)
      BY <1>4, <2>2 DEF SpinCAS, Loc
    <3>2. Fits("s_spin", l2, b, z, n) /\ Balance(pc[t], l, "s_spin", l2, b, z, m_count, m_sema,
         m_count, m_sema, 0) /\ program[t] # <<>> /\ "s_spin" # "idle"
      <4>1. pc[t] = "s_spincas"
        BY <1>4, <2>2 DEF SpinCAS, Loc, At
      <4> HIDE DEF l, b, z, n
      <4> QED BY <1>b, <4>1, NoLocalsFields DEF Null, Fields, Fits, Typed, Pointing, Permits, Search,
             Waits, Balance, Below, Sleeps, Holds, Signals, Posts
    <3>3. m_count' = m_count /\ m_sema' = m_sema
      BY <1>4, <2>2 DEF SpinCAS, semVars, Loc
    <3> HIDE DEF l2
    <3> QED BY <3>1, <3>2, <3>3, <1>a, <1>b, GoBalanced
  <2> QED BY <2>1, <2>2
<1>5. CASE FetchSub(t)
  <2>1. CASE m_count > 0
    <3>3. CASE z > 1
      <4> DEFINE l2 == [NoLocals EXCEPT !.permits = 1]
      <4>1. Go(t, "s_more", l2)
        BY <1>5, <2>1, <3>3 DEF FetchSub, Loc, First
      <4>2. Fits("s_more", l2, b, z, n) /\ Balance(pc[t], l, "s_more", l2, b, z, m_count,
           m_sema, m_count - 1, m_sema, 0) /\ program[t] # <<>> /\ "s_more" # "idle"
        <5>1. pc[t] = "s_sub" /\ m_count > 0 /\ z > 1
          BY <1>5, <2>1, <3>3 DEF FetchSub, Loc, At, First
        <5> HIDE DEF l, b, z, n
        <5> QED BY <1>b, <5>1, NoLocalsFields DEF Null, Fields, Fits, Typed, Pointing, Permits, Search,
               Waits, Balance, Below, Sleeps, Holds, Signals, Posts
      <4>3. m_count' = m_count - 1 /\ m_sema' = m_sema
        BY <1>5, <2>1, <3>3 DEF FetchSub, semVars, Loc, First
      <4> HIDE DEF l2
      <4> QED BY <4>1, <4>2, <4>3, <1>a, <1>b, GoBalanced
    <3>4. CASE ~(z > 1)
      <4>1. CASE b
        <5> DEFINE l2 == [NoLocals EXCEPT !.permits = 1]
        <5>1. Go(t, "b_scan", l2)
          BY <1>5, <2>1, <3>4, <4>1 DEF FetchSub, Loc, First, Acquired
        <5>2. Fits("b_scan", l2, b, z, n) /\ Balance(pc[t], l, "b_scan", l2, b, z, m_count,
             m_sema, m_count - 1, m_sema, 0) /\ program[t] # <<>> /\ "b_scan" # "idle"
          <6>1. pc[t] = "s_sub" /\ m_count > 0 /\ ~(z > 1) /\ b
            BY <1>5, <2>1, <3>4, <4>1 DEF FetchSub, Loc, At, First, Acquired
          <6> HIDE DEF l, b, z, n
          <6> QED BY <1>b, <6>1, NoLocalsFields DEF Null, Fields, Fits, Typed, Pointing, Permits,
                 Search, Waits, Balance, Below, Sleeps, Holds, Signals, Posts
        <5>3. m_count' = m_count - 1 /\ m_sema' = m_sema
          BY <1>5, <2>1, <3>4, <4>1 DEF FetchSub, semVars, Loc, First, Acquired
        <5> HIDE DEF l2
        <5> QED BY <5>1, <5>2, <5>3, <1>a, <1>b, GoBalanced
      <4>2. CASE ~b
        <5> DEFINE l2 == NoLocals
        <5>1. Go(t, "scan", l2)
          BY <1>5, <2>1, <3>4, <4>2 DEF FetchSub, Loc, First, Acquired
        <5>2. Fits("scan", l2, b, z, n) /\ Balance(pc[t], l, "scan", l2, b, z, m_count, m_sema,
             m_count - 1, m_sema, 0) /\ program[t] # <<>> /\ "scan" # "idle"
          <6>1. pc[t] = "s_sub" /\ m_count > 0 /\ ~(z > 1) /\ ~b
            BY <1>5, <2>1, <3>4, <4>2 DEF FetchSub, Loc, At, First, Acquired
          <6> HIDE DEF l, b, z, n
          <6> QED BY <1>b, <6>1, NoLocalsFields DEF Null, Fields, Fits, Typed, Pointing, Permits,
                 Search, Waits, Balance, Below, Sleeps, Holds, Signals, Posts
        <5>3. m_count' = m_count - 1 /\ m_sema' = m_sema
          BY <1>5, <2>1, <3>4, <4>2 DEF FetchSub, semVars, Loc, First, Acquired
        <5> HIDE DEF l2
        <5> QED BY <5>1, <5>2, <5>3, <1>a, <1>b, GoBalanced
      <4> QED BY <4>1, <4>2
    <3> QED BY <3>3, <3>4
  <2>2. CASE ~(m_count > 0)
    <3> DEFINE l2 == NoLocals
    <3>1. Go(t, "s_sleep", l2)
      BY <1>5, <2>2 DEF FetchSub, Loc
    <3>2. Fits("s_sleep", l2, b, z, n) /\ Balance(pc[t], l, "s_sleep", l2, b, z, m_count,
         m_sema, m_count - 1, m_sema, 0) /\ program[t] # <<>> /\ "s_sleep" # "idle"
      <4>1. pc[t] = "s_sub" /\ ~(m_count > 0)
        BY <1>5, <2>2 DEF FetchSub, Loc, At
      <4> HIDE DEF l, b, z, n
      <4> QED BY <1>b, <4>1, NoLocalsFields DEF Null, Fields, Fits, Typed, Pointing, Permits, Search,
             Waits, Balance, Below, Sleeps, Holds, Signals, Posts
    <3>3. m_count' = m_count - 1 /\ m_sema' = m_sema
      BY <1>5, <2>2 DEF FetchSub, semVars, Loc
    <3> HIDE DEF l2
    <3> QED BY <3>1, <3>2, <3>3, <1>a, <1>b, GoBalanced
  <2> QED BY <2>1, <2>2
<1>6. CASE Sleep(t)
  <2>3. CASE z > 1
    <3> DEFINE l2 == [NoLocals EXCEPT !.permits = 1]
    <3>1. Go(t, "s_more", l2)
      BY <1>6, <2>3 DEF Sleep, Loc, First
    <3>2. Fits("s_more", l2, b, z, n) /\ Balance(pc[t], l, "s_more", l2, b, z, m_count, m_sema,
         m_count, m_sema - 1, 0) /\ program[t] # <<>> /\ "s_more" # "idle"
      <4>1. pc[t] = "s_sleep" /\ m_sema > 0 /\ z > 1
        BY <1>6, <2>3 DEF Sleep, Loc, At, First
      <4> HIDE DEF l, b, z, n
      <4> QED BY <1>b, <4>1, NoLocalsFields DEF Null, Fields, Fits, Typed, Pointing, Permits, Search,
             Waits, Balance, Below, Sleeps, Holds, Signals, Posts
    <3>3. m_count' = m_count /\ m_sema' = m_sema - 1
      BY <1>6, <2>3 DEF Sleep, semVars, Loc, First
    <3> HIDE DEF l2
    <3> QED BY <3>1, <3>2, <3>3, <1>a, <1>b, GoBalanced
  <2>4. CASE ~(z > 1)
    <3>1. CASE b
      <4> DEFINE l2 == [NoLocals EXCEPT !.permits = 1]
      <4>1. Go(t, "b_scan", l2)
        BY <1>6, <2>4, <3>1 DEF Sleep, Loc, First, Acquired
      <4>2. Fits("b_scan", l2, b, z, n) /\ Balance(pc[t], l, "b_scan", l2, b, z, m_count,
           m_sema, m_count, m_sema - 1, 0) /\ program[t] # <<>> /\ "b_scan" # "idle"
        <5>1. pc[t] = "s_sleep" /\ m_sema > 0 /\ ~(z > 1) /\ b
          BY <1>6, <2>4, <3>1 DEF Sleep, Loc, At, First, Acquired
        <5> HIDE DEF l, b, z, n
        <5> QED BY <1>b, <5>1, NoLocalsFields DEF Null, Fields, Fits, Typed, Pointing, Permits, Search,
               Waits, Balance, Below, Sleeps, Holds, Signals, Posts
      <4>3. m_count' = m_count /\ m_sema' = m_sema - 1
        BY <1>6, <2>4, <3>1 DEF Sleep, semVars, Loc, First, Acquired
      <4> HIDE DEF l2
      <4> QED BY <4>1, <4>2, <4>3, <1>a, <1>b, GoBalanced
    <3>2. CASE ~b
      <4> DEFINE l2 == NoLocals
      <4>1. Go(t, "scan", l2)
        BY <1>6, <2>4, <3>2 DEF Sleep, Loc, First, Acquired
      <4>2. Fits("scan", l2, b, z, n) /\ Balance(pc[t], l, "scan", l2, b, z, m_count, m_sema,
           m_count, m_sema - 1, 0) /\ program[t] # <<>> /\ "scan" # "idle"
        <5>1. pc[t] = "s_sleep" /\ m_sema > 0 /\ ~(z > 1) /\ ~b
          BY <1>6, <2>4, <3>2 DEF Sleep, Loc, At, First, Acquired
        <5> HIDE DEF l, b, z, n
        <5> QED BY <1>b, <5>1, NoLocalsFields DEF Null, Fields, Fits, Typed, Pointing, Permits, Search,
               Waits, Balance, Below, Sleeps, Holds, Signals, Posts
      <4>3. m_count' = m_count /\ m_sema' = m_sema - 1
        BY <1>6, <2>4, <3>2 DEF Sleep, semVars, Loc, First, Acquired
      <4> HIDE DEF l2
      <4> QED BY <4>1, <4>2, <4>3, <1>a, <1>b, GoBalanced
    <3> QED BY <3>1, <3>2
  <2> QED BY <2>3, <2>4
<1>7. CASE Timeout(t)
  <2> DEFINE l2 == NoLocals
  <2>1. Go(t, "s_adjust", l2)
    BY <1>7 DEF Timeout, Loc
  <2>2. Fits("s_adjust", l2, b, z, n) /\ Balance(pc[t], l, "s_adjust", l2, b, z, m_count,
       m_sema, m_count, m_sema, 0) /\ program[t] # <<>> /\ "s_adjust" # "idle"
    <3>1. pc[t] = "s_sleep"
      BY <1>7 DEF Timeout, Loc, At
    <3> HIDE DEF l, b, z, n
    <3> QED BY <1>b, <3>1, NoLocalsFields DEF Null, Fields, Fits, Typed, Pointing, Permits, Search,
           Waits, Balance, Below, Sleeps, Holds, Signals, Posts
  <2>3. m_count' = m_count /\ m_sema' = m_sema
    BY <1>7 DEF Timeout, semVars, Loc
  <2> HIDE DEF l2
  <2> QED BY <2>1, <2>2, <2>3, <1>a, <1>b, GoBalanced
<1>8. CASE AdjustLoad(t)
  <2>1. CASE m_count >= 0
    <3> DEFINE l2 == [NoLocals EXCEPT !.old = m_count]
    <3>1. Go(t, "s_trysema", l2)
      BY <1>8, <2>1 DEF AdjustLoad, Loc
    <3>2. Fits("s_trysema", l2, b, z, n) /\ Balance(pc[t], l, "s_trysema", l2, b, z, m_count,
         m_sema, m_count, m_sema, 0) /\ program[t] # <<>> /\ "s_trysema" # "idle"
      <4>1. pc[t] = "s_adjust" /\ m_count >= 0
        BY <1>8, <2>1 DEF AdjustLoad, Loc, At
      <4> HIDE DEF l, b, z, n
      <4> QED BY <1>b, <4>1, NoLocalsFields DEF Null, Fields, Fits, Typed, Pointing, Permits, Search,
             Waits, Balance, Below, Sleeps, Holds, Signals, Posts
    <3>3. m_count' = m_count /\ m_sema' = m_sema
      BY <1>8, <2>1 DEF AdjustLoad, semVars, Loc
    <3> HIDE DEF l2
    <3> QED BY <3>1, <3>2, <3>3, <1>a, <1>b, GoBalanced
  <2>2. CASE ~(m_count >= 0)
    <3> DEFINE l2 == [NoLocals EXCEPT !.old = m_count]
    <3>1. Go(t, "s_restore", l2)
      BY <1>8, <2>2 DEF AdjustLoad, Loc
    <3>2. Fits("s_restore", l2, b, z, n) /\ Balance(pc[t], l, "s_restore", l2, b, z, m_count,
         m_sema, m_count, m_sema, 0) /\ program[t] # <<>> /\ "s_restore" # "idle"
      <4>1. pc[t] = "s_adjust" /\ ~(m_count >= 0)
        BY <1>8, <2>2 DEF AdjustLoad, Loc, At
      <4> HIDE DEF l, b, z, n
      <4> QED BY <1>b, <4>1, NoLocalsFields DEF Null, Fields, Fits, Typed, Pointing, Permits, Search,
             Waits, Balance, Below, Sleeps, Holds, Signals, Posts
    <3>3. m_count' = m_count /\ m_sema' = m_sema
      BY <1>8, <2>2 DEF AdjustLoad, semVars, Loc
    <3> HIDE DEF l2
    <3> QED BY <3>1, <3>2, <3>3, <1>a, <1>b, GoBalanced
  <2> QED BY <2>1, <2>2
<1>9. CASE TrySema(t)
  <2>1. CASE m_sema > 0
    <3>3. CASE z > 1
      <4> DEFINE l2 == [NoLocals EXCEPT !.permits = 1]
      <4>1. Go(t, "s_more", l2)
        BY <1>9, <2>1, <3>3 DEF TrySema, Loc, First
      <4>2. Fits("s_more", l2, b, z, n) /\ Balance(pc[t], l, "s_more", l2, b, z, m_count,
           m_sema, m_count, m_sema - 1, 0) /\ program[t] # <<>> /\ "s_more" # "idle"
        <5>1. pc[t] = "s_trysema" /\ m_sema > 0 /\ z > 1
          BY <1>9, <2>1, <3>3 DEF TrySema, Loc, At, First
        <5> HIDE DEF l, b, z, n
        <5> QED BY <1>b, <5>1, NoLocalsFields DEF Null, Fields, Fits, Typed, Pointing, Permits, Search,
               Waits, Balance, Below, Sleeps, Holds, Signals, Posts
      <4>3. m_count' = m_count /\ m_sema' = m_sema - 1
        BY <1>9, <2>1, <3>3 DEF TrySema, semVars, Loc, First
      <4> HIDE DEF l2
      <4> QED BY <4>1, <4>2, <4>3, <1>a, <1>b, GoBalanced
    <3>4. CASE ~(z > 1)
      <4>1. CASE b
        <5> DEFINE l2 == [NoLocals EXCEPT !.permits = 1]
        <5>1. Go(t, "b_scan", l2)
          BY <1>9, <2>1, <3>4, <4>1 DEF TrySema, Loc, First, Acquired
        <5>2. Fits("b_scan", l2, b, z, n) /\ Balance(pc[t], l, "b_scan", l2, b, z, m_count,
             m_sema, m_count, m_sema - 1, 0) /\ program[t] # <<>> /\ "b_scan" # "idle"
          <6>1. pc[t] = "s_trysema" /\ m_sema > 0 /\ ~(z > 1) /\ b
            BY <1>9, <2>1, <3>4, <4>1 DEF TrySema, Loc, At, First, Acquired
          <6> HIDE DEF l, b, z, n
          <6> QED BY <1>b, <6>1, NoLocalsFields DEF Null, Fields, Fits, Typed, Pointing, Permits,
                 Search, Waits, Balance, Below, Sleeps, Holds, Signals, Posts
        <5>3. m_count' = m_count /\ m_sema' = m_sema - 1
          BY <1>9, <2>1, <3>4, <4>1 DEF TrySema, semVars, Loc, First, Acquired
        <5> HIDE DEF l2
        <5> QED BY <5>1, <5>2, <5>3, <1>a, <1>b, GoBalanced
      <4>2. CASE ~b
        <5> DEFINE l2 == NoLocals
        <5>1. Go(t, "scan", l2)
          BY <1>9, <2>1, <3>4, <4>2 DEF TrySema, Loc, First, Acquired
        <5>2. Fits("scan", l2, b, z, n) /\ Balance(pc[t], l, "scan", l2, b, z, m_count, m_sema,
             m_count, m_sema - 1, 0) /\ program[t] # <<>> /\ "scan" # "idle"
          <6>1. pc[t] = "s_trysema" /\ m_sema > 0 /\ ~(z > 1) /\ ~b
            BY <1>9, <2>1, <3>4, <4>2 DEF TrySema, Loc, At, First, Acquired
          <6> HIDE DEF l, b, z, n
          <6> QED BY <1>b, <6>1, NoLocalsFields DEF Null, Fields, Fits, Typed, Pointing, Permits,
                 Search, Waits, Balance, Below, Sleeps, Holds, Signals, Posts
        <5>3. m_count' = m_count /\ m_sema' = m_sema - 1
          BY <1>9, <2>1, <3>4, <4>2 DEF TrySema, semVars, Loc, First, Acquired
        <5> HIDE DEF l2
        <5> QED BY <5>1, <5>2, <5>3, <1>a, <1>b, GoBalanced
      <4> QED BY <4>1, <4>2
    <3> QED BY <3>3, <3>4
  <2>2. CASE ~(m_sema > 0)
    <3> DEFINE l2 == NoLocals
    <3>1. Go(t, "s_adjust", l2)
      BY <1>9, <2>2 DEF TrySema, Loc
    <3>2. Fits("s_adjust", l2, b, z, n) /\ Balance(pc[t], l, "s_adjust", l2, b, z, m_count,
         m_sema, m_count, m_sema, 0) /\ program[t] # <<>> /\ "s_adjust" # "idle"
      <4>1. pc[t] = "s_trysema"
        BY <1>9, <2>2 DEF TrySema, Loc, At
      <4> HIDE DEF l, b, z, n
      <4> QED BY <1>b, <4>1, NoLocalsFields DEF Null, Fields, Fits, Typed, Pointing, Permits, Search,
             Waits, Balance, Below, Sleeps, Holds, Signals, Posts
    <3>3. m_count' = m_count /\ m_sema' = m_sema
      BY <1>9, <2>2 DEF TrySema, semVars, Loc
    <3> HIDE DEF l2
    <3> QED BY <3>1, <3>2, <3>3, <1>a, <1>b, GoBalanced
  <2> QED BY <2>1, <2>2
<1>10. CASE Restore(t)
  <2>1. CASE m_count = l.old
    <3>1. Return(t)
      BY <1>10, <2>1 DEF Restore, Loc
    <3>2. Balance(pc[t], l, "idle", NoLocals, b, z, m_count, m_sema, m_count + 1, m_sema, 0)
         /\ program[t] # <<>>
      <4>1. pc[t] = "s_restore" /\ m_count = l.old
        BY <1>10, <2>1 DEF Restore, Loc, At
      <4> HIDE DEF l, b, z, n
      <4> QED BY <1>b, <4>1, NoLocalsFields DEF Null, Fields, Fits, Typed, Pointing, Permits, Search,
             Waits, Balance, Below, Sleeps, Holds, Signals, Posts
    <3>3. m_count' = m_count + 1 /\ m_sema' = m_sema
      BY <1>10, <2>1 DEF Restore, semVars, Loc
    <3> QED BY <3>1, <3>2, <3>3, <1>a, <1>b, ReturnBalanced
  <2>2. CASE m_count # l.old
    <3> DEFINE l2 == NoLocals
    <3>1. Go(t, "s_adjust", l2)
      BY <1>10, <2>2 DEF Restore, Loc
    <3>2. Fits("s_adjust", l2, b, z, n) /\ Balance(pc[t], l, "s_adjust", l2, b, z, m_count,
         m_sema, m_count, m_sema, 0) /\ program[t] # <<>> /\ "s_adjust" # "idle"
      <4>1. pc[t] = "s_restore"
        BY <1>10, <2>2 DEF Restore, Loc, At
      <4> HIDE DEF l, b, z, n
      <4> QED BY <1>b, <4>1, NoLocalsFields DEF Null, Fields, Fits, Typed, Pointing, Permits, Search,
             Waits, Balance, Below, Sleeps, Holds, Signals, Posts
    <3>3. m_count' = m_count /\ m_sema' = m_sema
      BY <1>10, <2>2 DEF Restore, semVars, Loc
    <3> HIDE DEF l2
    <3> QED BY <3>1, <3>2, <3>3, <1>a, <1>b, GoBalanced
  <2> QED BY <2>1, <2>2
<1>11. CASE Signal(t)
  <2>1. CASE m_count < 0
    <3> DEFINE l2 == [NoLocals EXCEPT !.size = Least(-m_count, z)]
    <3>1. Go(t, "s_post", l2)
      BY <1>11, <2>1 DEF Signal, Loc
    <3>2. Fits("s_post", l2, b, z, n) /\ Balance(pc[t], l, "s_post", l2, b, z, m_count, m_sema,
         m_count + z, m_sema, 0) /\ program[t] # <<>> /\ "s_post" # "idle"
      <4>1. pc[t] = "signal" /\ m_count < 0
        BY <1>11, <2>1 DEF Signal, Loc, At
      <4> HIDE DEF l, b, z, n
      <4>2. Fits("s_post", l2, b, z, n)
        BY <1>b, <4>1, NoLocalsFields DEF Null, Fields, Fits, Typed, Pointing, Permits, Search, Waits,
               Least
      <4>3. Balance(pc[t], l, "s_post", l2, b, z, m_count, m_sema, m_count + z, m_sema, 0)
        <5>1. /\ l2.size = Least(-m_count, z) /\ l2.permits = 0 /\ l.permits = 0
            /\ z \in Nat /\ m_count \in Int /\ m_sema \in Nat /\ m_count < 0
          BY <1>b, <4>1, NoLocalsFields DEF Fields, Fits, Typed, Permits
        <5>2. /\ Sleeps("signal") = 0 /\ Holds("signal", l, b) = 0 /\ Signals("signal", z) = z
              /\ Posts("signal", l) = 0 /\ Sleeps("s_post") = 0 /\ Holds("s_post", l2, b) = 0
              /\ Signals("s_post", z) = 0 /\ Posts("s_post", l2) = l2.size
          BY <5>1 DEF Sleeps, Holds, Signals, Posts
        <5> HIDE DEF l2
        <5>3. CASE -m_count < z
          <6>1. l2.size = 0 - m_count /\ m_count + z > 0
            BY <5>1, <5>3 DEF Least
          <6> QED BY <4>1, <5>1, <5>2, <6>1 DEF Balance, Below
        <5>4. CASE ~(-m_count < z)
          <6>1. l2.size = z /\ m_count + z <= 0
            BY <5>1, <5>4 DEF Least
          <6> QED BY <4>1, <5>1, <5>2, <6>1 DEF Balance, Below
        <5> QED BY <5>3, <5>4
      <4> QED BY <1>b, <4>1, <4>2, <4>3
    <3>3. m_count' = m_count + z /\ m_sema' = m_sema
      BY <1>11, <2>1 DEF Signal, semVars, Loc
    <3> HIDE DEF l2
    <3> QED BY <3>1, <3>2, <3>3, <1>a, <1>b, GoBalanced
  <2>2. CASE ~(m_count < 0)
    <3>1. Return(t)
      BY <1>11, <2>2 DEF Signal, Loc
    <3>2. Balance(pc[t], l, "idle", NoLocals, b, z, m_count, m_sema, m_count + z, m_sema, 0)
         /\ program[t] # <<>>
      <4>1. pc[t] = "signal" /\ ~(m_count < 0)
        BY <1>11, <2>2 DEF Signal, Loc, At
      <4> HIDE DEF l, b, z, n
      <4> QED BY <1>b, <4>1, NoLocalsFields DEF Null, Fields, Fits, Typed, Pointing, Permits, Search,
             Waits, Balance, Below, Sleeps, Holds, Signals, Posts
    <3>3. m_count' = m_count + z /\ m_sema' = m_sema
      BY <1>11, <2>2 DEF Signal, semVars, Loc
    <3> QED BY <3>1, <3>2, <3>3, <1>a, <1>b, ReturnBalanced
  <2> QED BY <2>1, <2>2
<1>12. CASE Post(t)
  <2>1. Return(t)
    BY <1>12 DEF Post, Loc
  <2>2. Balance(pc[t], l, "idle", NoLocals, b, z, m_count, m_sema, m_count, m_sema + l.size,
       0) /\ program[t] # <<>>
    <3>1. pc[t] = "s_post"
      BY <1>12 DEF Post, Loc, At
    <3> HIDE DEF l, b, z, n
    <3> QED BY <1>b, <3>1, NoLocalsFields DEF Null, Fields, Fits, Typed, Pointing, Permits, Search,
           Waits, Balance, Below, Sleeps, Holds, Signals, Posts
  <2>3. m_count' = m_count /\ m_sema' = m_sema + l.size
    BY <1>12 DEF Post, semVars, Loc
  <2> QED BY <2>1, <2>2, <2>3, <1>a, <1>b, ReturnBalanced
<1> QED BY <1>1, <1>2, <1>3, <1>4, <1>5, <1>6, <1>7, <1>8, <1>9, <1>10, <1>11, <1>12
   DEF SemaphoreStep

(* A bulk dequeue takes its permits to the next producer. *)
LEMMA NextQuiet ==
  ASSUME NEW t \in Threads, ControlInv, DataInv, ThreadInv(t), NEW l2, NextProducer(t, l2),
         Len(taken') = Len(taken), program[t] # <<>>, Typed(l2, Len(taken)), Bulk(t),
         l2.prod # Null, Sleeps(pc[t]) = 0, Holds(pc[t], lv[t], Bulk(t)) = l2.permits,
         Signals(pc[t], Size(t)) = 0, Posts(pc[t], lv[t]) = 0
  PROVE  StepOf(t) /\ KeepsOwing(t)
<1> DEFINE b == Bulk(t)
           z == Size(t)
           n == Len(taken)
           next == prod[l2.prod].next
           l3 == [NoLocals EXCEPT !.permits = l2.permits, !.items = l2.items, !.prod = next]
<1>a. /\ \A p \in 1..n : prod[p].next \in 0..n
      /\ n \in Nat
  BY DEF DataInv, ProducersInv, HistoryInv, Sound
<1>b. /\ Typed(l2, n) /\ b /\ l2.prod # Null
      /\ Sleeps(pc[t]) = 0 /\ Holds(pc[t], lv[t], b) = l2.permits
      /\ Signals(pc[t], z) = 0 /\ Posts(pc[t], lv[t]) = 0
  OBVIOUS
<1>0. next \in 0..n
  BY <1>a, <1>b DEF Typed, Null
<1> HIDE DEF next
<1>1. CASE next = Null
  <2>1. Fits("b_scan", l3, b, z, n) /\ Kept(pc[t], lv[t], "b_scan", l3, b, z)
    <3> HIDE DEF b, z, n
    <3> QED BY <1>a, <1>b, <1>0, <1>1, NoLocalsFields DEF Kept, Sleeps, Holds, Signals, Posts, Null,
           Fields, Fits, Typed, Pointing, Permits, Search, Waits
  <2>2. Go(t, "b_scan", l3)
    BY <1>1 DEF NextProducer, next
  <2> HIDE DEF l3
  <2> QED BY <2>1, <2>2, GoQuiet
<1>2. CASE next # Null
  <2>1. Fits("deq", l3, b, z, n) /\ Kept(pc[t], lv[t], "deq", l3, b, z)
    <3> HIDE DEF b, z, n
    <3> QED BY <1>a, <1>b, <1>0, <1>2, NoLocalsFields DEF Kept, Sleeps, Holds, Signals, Posts, Null,
           Fields, Fits, Typed, Pointing, Permits, Search, Waits
  <2>2. Go(t, "deq", l3)
    BY <1>2 DEF NextProducer, next
  <2> HIDE DEF l3
  <2> QED BY <2>1, <2>2, GoQuiet
<1> QED BY <1>1, <1>2

(* Proceed goes on with the permits that are left. *)
LEMMA ProceedQuiet ==
  ASSUME NEW t \in Threads, ControlInv, DataInv, ThreadInv(t), NEW l2, Proceed(t, l2),
         Len(taken') = Len(taken), taken' \in Seq(Nat), program[t] # <<>>,
         Typed(l2, Len(taken)), ~l2.again, l2.permits > 0 => Bulk(t),
         l2.prod # Null \/ (l2.permits = 0 /\ l2.want = 0),
         Sleeps(pc[t]) = 0, Holds(pc[t], lv[t], Bulk(t)) = l2.permits,
         Signals(pc[t], Size(t)) = 0, Posts(pc[t], lv[t]) = 0
  PROVE  StepOf(t) /\ KeepsOwing(t)
<1> DEFINE b == Bulk(t)
           z == Size(t)
           n == Len(taken)
<1>a. /\ \A p \in 1..n : prod[p].next \in 0..n
      /\ n \in Nat
  BY DEF DataInv, ProducersInv, HistoryInv, Sound
<1>b. /\ Typed(l2, n) /\ ~l2.again /\ (l2.permits > 0 => b)
      /\ l2.prod # Null \/ (l2.permits = 0 /\ l2.want = 0)
      /\ Sleeps(pc[t]) = 0 /\ Holds(pc[t], lv[t], b) = l2.permits
      /\ Signals(pc[t], z) = 0 /\ Posts(pc[t], lv[t]) = 0
  OBVIOUS
<1>1. CASE l2.freed # <<>> /\ Go(t, "f_add", [l2 EXCEPT !.blk = Head(l2.freed),
     !.freed = Tail(@)])
  <2> DEFINE l3 == [l2 EXCEPT !.blk = Head(l2.freed), !.freed = Tail(@)]
  <2>1. Fits("f_add", l3, b, z, n) /\ Kept(pc[t], lv[t], "f_add", l3, b, z)
    <3> HIDE DEF b, z, n
    <3> QED BY <1>a, <1>b DEF Kept, Sleeps, Holds, Signals, Posts, Null, Fields, Fits, Typed, Pointing,
           Permits, Search, Waits
  <2> HIDE DEF l3
  <2> QED BY <1>1, <2>1, GoQuiet DEF l3
<1>2. CASE l2.want > 0 /\ Go(t, "b_read", l2)
  <2>1. Fits("b_read", l2, b, z, n) /\ Kept(pc[t], lv[t], "b_read", l2, b, z)
    BY <1>a, <1>b, <1>2 DEF Kept, Sleeps, Holds, Signals, Posts, Null, Fields, Fits, Typed, Pointing,
           Permits, Search, Waits
  <2> QED BY <1>2, <2>1, GoQuiet
<1>3. CASE l2.permits > 0 /\ NextProducer(t, l2)
  <2>1. b /\ l2.prod # Null
    BY <1>b, <1>3 DEF Typed
  <2> QED BY <1>3, <2>1, NextQuiet
<1>4. CASE l2.permits = 0 /\ Return(t)
  <2>1. Idle(pc[t], lv[t], b, z)
    BY <1>4 DEF Idle
  <2> QED BY <1>4, <2>1, ReturnQuiet
<1> QED BY <1>1, <1>2, <1>3, <1>4 DEF Proceed

(* The block is where it belongs: the call goes on. *)
LEMMA DeliverQuiet ==
  ASSUME NEW t \in Threads, ControlInv, DataInv, ThreadInv(t), Deliver(t),
         Len(taken') = Len(taken), taken' \in Seq(Nat), pc[t] \in AddLabels, ~lv[t].again
  PROVE  StepOf(t) /\ KeepsOwing(t)
<1> DEFINE l == lv[t]
           l2 == [l EXCEPT !.blk = 0, !.node = 0, !.link = 0]
           b == Bulk(t)
           z == Size(t)
           n == Len(taken)
<1>1. Fits(pc[t], l, b, z, n) /\ program[t] # <<>> /\ n \in Nat
  BY DEF ThreadInv, DataInv, HistoryInv
<1>2. /\ Typed(l2, n) /\ ~l2.again /\ (l2.permits > 0 => b)
      /\ l2.prod # Null \/ (l2.permits = 0 /\ l2.want = 0)
      /\ Sleeps(pc[t]) = 0 /\ Holds(pc[t], l, b) = l2.permits
      /\ Signals(pc[t], z) = 0 /\ Posts(pc[t], l) = 0
  <2> HIDE DEF l, b, z, n
  <2>1. pc[t] \in AddLabels /\ ~l.again
    BY DEF l
  <2> QED BY <1>1, <2>1 DEF Sleeps, Holds, Signals, Posts, Null, Fields, Fits, Typed, Pointing,
         Permits, Search, Waits
<1>3. Proceed(t, l2)
  BY DEF Deliver, Loc
<1> HIDE DEF l2
<1> QED BY <1>1, <1>2, <1>3, ProceedQuiet

(* After add_knowing_refcount_is_zero a thread goes on with what it added the block for. *)
LEMMA AddedQuiet ==
  ASSUME NEW t \in Threads, ControlInv, DataInv, ThreadInv(t), Added(t),
         Len(taken') = Len(taken), taken' \in Seq(Nat), pc[t] \in AddLabels
  PROVE  StepOf(t) /\ KeepsOwing(t)
<1> DEFINE l == lv[t]
           b == Bulk(t)
           z == Size(t)
           n == Len(taken)
<1>a. Len(taken') = n /\ taken' \in Seq(Nat) /\ ControlInv /\ ThreadInv(t)
  OBVIOUS
<1>b. Fits(pc[t], l, b, z, n) /\ program[t] # <<>> /\ n \in Nat
  BY DEF ThreadInv, DataInv, HistoryInv
<1>1. CASE l.again /\ l.head = Null
  <2> DEFINE l2 == [l EXCEPT !.again = FALSE]
  <2>1. Go(t, "e_create", l2)
    BY <1>1 DEF Added, Loc, GetLabel
  <2>2. Fits("e_create", l2, b, z, n) /\ Kept(pc[t], l, "e_create", l2, b, z)
       /\ program[t] # <<>> /\ "e_create" # "idle"
    <3>1. pc[t] \in AddLabels /\ l.again
      BY <1>1 DEF Added, Loc, At, GetLabel
    <3> HIDE DEF l, b, z, n
    <3> QED BY <1>b, <3>1, NoLocalsFields DEF Null, Fields, Fits, Typed, Pointing, Permits, Search,
           Waits, Kept, Sleeps, Holds, Signals, Posts
  <2> HIDE DEF l2
  <2> QED BY <2>1, <2>2, <1>a, <1>b, GoQuiet
<1>2. CASE l.again /\ l.head # Null
  <2> DEFINE l2 == [l EXCEPT !.again = FALSE]
  <2>1. Go(t, "f_refs", l2)
    BY <1>2 DEF Added, Loc, GetLabel
  <2>2. Fits("f_refs", l2, b, z, n) /\ Kept(pc[t], l, "f_refs", l2, b, z)
       /\ program[t] # <<>> /\ "f_refs" # "idle"
    <3>1. pc[t] \in AddLabels /\ l.again
      BY <1>2 DEF Added, Loc, At, GetLabel
    <3> HIDE DEF l, b, z, n
    <3> QED BY <1>b, <3>1, NoLocalsFields DEF Null, Fields, Fits, Typed, Pointing, Permits, Search,
           Waits, Kept, Sleeps, Holds, Signals, Posts
  <2> HIDE DEF l2
  <2> QED BY <2>1, <2>2, <1>a, <1>b, GoQuiet
<1>3. CASE ~l.again
  BY <1>3, DeliverQuiet DEF Added, Loc
<1> QED BY <1>1, <1>2, <1>3

(* A step of the free list owes nothing to the semaphore. *)
LEMMA FreeListLocal ==
  ASSUME NEW t \in Threads, ControlInv, DataInv, ThreadInv(t), FreeListStep(t)
  PROVE  StepOf(t) /\ KeepsOwing(t)
<1> DEFINE l == lv[t]
           b == Bulk(t)
           z == Size(t)
           n == Len(taken)
<1>a. Len(taken') = n /\ taken' \in Seq(Nat) /\ ControlInv /\ ThreadInv(t) /\ taken \in Seq(Nat)
  BY DEF FreeListStep, PoolLoad, PoolTake, GetHead, GetRefs, GetRef, GetNext, GetCAS, GetDone,
         GetUnref, CreateBlock, AddBlock, AddLoad, AddLink, AddPush, AddRetry, freeUnchanged,
         addUnchanged, history, DataInv, HistoryInv
<1>b. /\ Fits(pc[t], l, b, z, n) /\ (pc[t] # "idle" => program[t] # <<>>)
      /\ z \in Nat /\ z > 0 /\ (z > 1 => b) /\ (~b => z = 1) /\ n \in Nat
  BY SizeType DEF ThreadInv, Size, DataInv, HistoryInv
<1>c. /\ n = Len(prod) /\ producerListTail \in 0..n
      /\ \A p \in 1..n : Sound(prod[p], n)
  BY DEF DataInv, ProducersInv
<1>1. CASE PoolLoad(t)
  <2>1. CASE initialBlockPoolIndex >= PoolSize
    <3> DEFINE l2 == l
    <3>1. Go(t, "f_get", l2)
      BY <1>1, <2>1 DEF PoolLoad, Loc
    <3>2. Fits("f_get", l2, b, z, n) /\ Kept(pc[t], l, "f_get", l2, b, z)
         /\ program[t] # <<>> /\ "f_get" # "idle"
      <4>1. pc[t] = "e_pool"
        BY <1>1, <2>1 DEF PoolLoad, Loc, At
      <4> HIDE DEF l, b, z, n
      <4> QED BY <1>b, <4>1, NoLocalsFields DEF Null, Fields, Fits, Typed, Pointing, Permits, Search,
             Waits, Kept, Sleeps, Holds, Signals, Posts
    <3> HIDE DEF l2
    <3> QED BY <3>1, <3>2, <1>a, <1>b, GoQuiet
  <2>2. CASE ~(initialBlockPoolIndex >= PoolSize)
    <3> DEFINE l2 == l
    <3>1. Go(t, "e_take", l2)
      BY <1>1, <2>2 DEF PoolLoad, Loc
    <3>2. Fits("e_take", l2, b, z, n) /\ Kept(pc[t], l, "e_take", l2, b, z)
         /\ program[t] # <<>> /\ "e_take" # "idle"
      <4>1. pc[t] = "e_pool"
        BY <1>1, <2>2 DEF PoolLoad, Loc, At
      <4> HIDE DEF l, b, z, n
      <4> QED BY <1>b, <4>1, NoLocalsFields DEF Null, Fields, Fits, Typed, Pointing, Permits, Search,
             Waits, Kept, Sleeps, Holds, Signals, Posts
    <3> HIDE DEF l2
    <3> QED BY <3>1, <3>2, <1>a, <1>b, GoQuiet
  <2> QED BY <1>1, <2>1, <2>2 DEF PoolLoad, Loc
<1>2. CASE PoolTake(t)
  <2>1. CASE initialBlockPoolIndex < PoolSize
    <3> DEFINE l2 == [l EXCEPT !.blk = initialBlockPoolIndex + 1]
    <3>1. Go(t, "e_block", l2)
      BY <1>2, <2>1 DEF PoolTake, Loc
    <3>2. Fits("e_block", l2, b, z, n) /\ Kept(pc[t], l, "e_block", l2, b, z)
         /\ program[t] # <<>> /\ "e_block" # "idle"
      <4>1. pc[t] = "e_take"
        BY <1>2, <2>1 DEF PoolTake, Loc, At
      <4> HIDE DEF l, b, z, n
      <4> QED BY <1>b, <4>1, NoLocalsFields DEF Null, Fields, Fits, Typed, Pointing, Permits, Search,
             Waits, Kept, Sleeps, Holds, Signals, Posts
    <3> HIDE DEF l2
    <3> QED BY <3>1, <3>2, <1>a, <1>b, GoQuiet
  <2>2. CASE ~(initialBlockPoolIndex < PoolSize)
    <3> DEFINE l2 == l
    <3>1. Go(t, "f_get", l2)
      BY <1>2, <2>2 DEF PoolTake, Loc
    <3>2. Fits("f_get", l2, b, z, n) /\ Kept(pc[t], l, "f_get", l2, b, z)
         /\ program[t] # <<>> /\ "f_get" # "idle"
      <4>1. pc[t] = "e_take"
        BY <1>2, <2>2 DEF PoolTake, Loc, At
      <4> HIDE DEF l, b, z, n
      <4> QED BY <1>b, <4>1, NoLocalsFields DEF Null, Fields, Fits, Typed, Pointing, Permits, Search,
             Waits, Kept, Sleeps, Holds, Signals, Posts
    <3> HIDE DEF l2
    <3> QED BY <3>1, <3>2, <1>a, <1>b, GoQuiet
  <2> QED BY <1>2, <2>1, <2>2 DEF PoolTake, Loc
<1>3. CASE GetHead(t)
  <2>1. CASE freeListHead = Null
    <3> DEFINE l2 == [l EXCEPT !.head = freeListHead]
    <3>1. Go(t, "e_create", l2)
      BY <1>3, <2>1 DEF GetHead, Loc, GetLabel
    <3>2. Fits("e_create", l2, b, z, n) /\ Kept(pc[t], l, "e_create", l2, b, z)
         /\ program[t] # <<>> /\ "e_create" # "idle"
      <4>1. pc[t] = "f_get"
        BY <1>3, <2>1 DEF GetHead, Loc, At, GetLabel
      <4> HIDE DEF l, b, z, n
      <4> QED BY <1>b, <4>1, NoLocalsFields DEF Null, Fields, Fits, Typed, Pointing, Permits, Search,
             Waits, Kept, Sleeps, Holds, Signals, Posts
    <3> HIDE DEF l2
    <3> QED BY <3>1, <3>2, <1>a, <1>b, GoQuiet
  <2>2. CASE freeListHead # Null
    <3> DEFINE l2 == [l EXCEPT !.head = freeListHead]
    <3>1. Go(t, "f_refs", l2)
      BY <1>3, <2>2 DEF GetHead, Loc, GetLabel
    <3>2. Fits("f_refs", l2, b, z, n) /\ Kept(pc[t], l, "f_refs", l2, b, z)
         /\ program[t] # <<>> /\ "f_refs" # "idle"
      <4>1. pc[t] = "f_get"
        BY <1>3, <2>2 DEF GetHead, Loc, At, GetLabel
      <4> HIDE DEF l, b, z, n
      <4> QED BY <1>b, <4>1, NoLocalsFields DEF Null, Fields, Fits, Typed, Pointing, Permits, Search,
             Waits, Kept, Sleeps, Holds, Signals, Posts
    <3> HIDE DEF l2
    <3> QED BY <3>1, <3>2, <1>a, <1>b, GoQuiet
  <2> QED BY <1>3, <2>1, <2>2 DEF GetHead, Loc
<1>4. CASE GetRefs(t)
  <2>1. CASE freeListRefs[l.head].n = 0
    <3> DEFINE l2 == [l EXCEPT !.refs = freeListRefs[l.head]]
    <3>1. Go(t, "f_get", l2)
      BY <1>4, <2>1 DEF GetRefs, Loc
    <3>2. Fits("f_get", l2, b, z, n) /\ Kept(pc[t], l, "f_get", l2, b, z)
         /\ program[t] # <<>> /\ "f_get" # "idle"
      <4>1. pc[t] = "f_refs"
        BY <1>4, <2>1 DEF GetRefs, Loc, At
      <4> HIDE DEF l, b, z, n
      <4> QED BY <1>b, <4>1, NoLocalsFields DEF Null, Fields, Fits, Typed, Pointing, Permits, Search,
             Waits, Kept, Sleeps, Holds, Signals, Posts
    <3> HIDE DEF l2
    <3> QED BY <3>1, <3>2, <1>a, <1>b, GoQuiet
  <2>2. CASE freeListRefs[l.head].n # 0
    <3> DEFINE l2 == [l EXCEPT !.refs = freeListRefs[l.head]]
    <3>1. Go(t, "f_ref", l2)
      BY <1>4, <2>2 DEF GetRefs, Loc
    <3>2. Fits("f_ref", l2, b, z, n) /\ Kept(pc[t], l, "f_ref", l2, b, z)
         /\ program[t] # <<>> /\ "f_ref" # "idle"
      <4>1. pc[t] = "f_refs"
        BY <1>4, <2>2 DEF GetRefs, Loc, At
      <4> HIDE DEF l, b, z, n
      <4> QED BY <1>b, <4>1, NoLocalsFields DEF Null, Fields, Fits, Typed, Pointing, Permits, Search,
             Waits, Kept, Sleeps, Holds, Signals, Posts
    <3> HIDE DEF l2
    <3> QED BY <3>1, <3>2, <1>a, <1>b, GoQuiet
  <2> QED BY <1>4, <2>1, <2>2 DEF GetRefs, Loc
<1>5. CASE GetRef(t)
  <2>1. CASE freeListRefs[l.head] = l.refs
    <3> DEFINE l2 == l
    <3>1. Go(t, "f_next", l2)
      BY <1>5, <2>1 DEF GetRef, Loc
    <3>2. Fits("f_next", l2, b, z, n) /\ Kept(pc[t], l, "f_next", l2, b, z)
         /\ program[t] # <<>> /\ "f_next" # "idle"
      <4>1. pc[t] = "f_ref"
        BY <1>5, <2>1 DEF GetRef, Loc, At
      <4> HIDE DEF l, b, z, n
      <4> QED BY <1>b, <4>1, NoLocalsFields DEF Null, Fields, Fits, Typed, Pointing, Permits, Search,
             Waits, Kept, Sleeps, Holds, Signals, Posts
    <3> HIDE DEF l2
    <3> QED BY <3>1, <3>2, <1>a, <1>b, GoQuiet
  <2>2. CASE freeListRefs[l.head] # l.refs
    <3> DEFINE l2 == l
    <3>1. Go(t, "f_get", l2)
      BY <1>5, <2>2 DEF GetRef, Loc
    <3>2. Fits("f_get", l2, b, z, n) /\ Kept(pc[t], l, "f_get", l2, b, z)
         /\ program[t] # <<>> /\ "f_get" # "idle"
      <4>1. pc[t] = "f_ref"
        BY <1>5, <2>2 DEF GetRef, Loc, At
      <4> HIDE DEF l, b, z, n
      <4> QED BY <1>b, <4>1, NoLocalsFields DEF Null, Fields, Fits, Typed, Pointing, Permits, Search,
             Waits, Kept, Sleeps, Holds, Signals, Posts
    <3> HIDE DEF l2
    <3> QED BY <3>1, <3>2, <1>a, <1>b, GoQuiet
  <2> QED BY <1>5, <2>1, <2>2 DEF GetRef, Loc
<1>6. CASE GetNext(t)
  <2> DEFINE l2 == [l EXCEPT !.next = freeListNext[l.head]]
  <2>1. Go(t, "f_cas", l2)
    BY <1>6 DEF GetNext, Loc
  <2>2. Fits("f_cas", l2, b, z, n) /\ Kept(pc[t], l, "f_cas", l2, b, z) /\ program[t] # <<>>
       /\ "f_cas" # "idle"
    <3>1. pc[t] = "f_next"
      BY <1>6 DEF GetNext, Loc, At
    <3> HIDE DEF l, b, z, n
    <3> QED BY <1>b, <3>1, NoLocalsFields DEF Null, Fields, Fits, Typed, Pointing, Permits, Search,
           Waits, Kept, Sleeps, Holds, Signals, Posts
  <2> HIDE DEF l2
  <2> QED BY <2>1, <2>2, <1>a, <1>b, GoQuiet
<1>7. CASE GetCAS(t)
  <2>1. CASE freeListHead = l.head
    <3> DEFINE l2 == l
    <3>1. Go(t, "f_got", l2)
      BY <1>7, <2>1 DEF GetCAS, Loc
    <3>2. Fits("f_got", l2, b, z, n) /\ Kept(pc[t], l, "f_got", l2, b, z)
         /\ program[t] # <<>> /\ "f_got" # "idle"
      <4>1. pc[t] = "f_cas"
        BY <1>7, <2>1 DEF GetCAS, Loc, At
      <4> HIDE DEF l, b, z, n
      <4> QED BY <1>b, <4>1, NoLocalsFields DEF Null, Fields, Fits, Typed, Pointing, Permits, Search,
             Waits, Kept, Sleeps, Holds, Signals, Posts
    <3> HIDE DEF l2
    <3> QED BY <3>1, <3>2, <1>a, <1>b, GoQuiet
  <2>2. CASE freeListHead # l.head
    <3> DEFINE l2 == [l EXCEPT !.node = l.head, !.head = freeListHead]
    <3>1. Go(t, "f_unref", l2)
      BY <1>7, <2>2 DEF GetCAS, Loc
    <3>2. Fits("f_unref", l2, b, z, n) /\ Kept(pc[t], l, "f_unref", l2, b, z)
         /\ program[t] # <<>> /\ "f_unref" # "idle"
      <4>1. pc[t] = "f_cas"
        BY <1>7, <2>2 DEF GetCAS, Loc, At
      <4> HIDE DEF l, b, z, n
      <4> QED BY <1>b, <4>1, NoLocalsFields DEF Null, Fields, Fits, Typed, Pointing, Permits, Search,
             Waits, Kept, Sleeps, Holds, Signals, Posts
    <3> HIDE DEF l2
    <3> QED BY <3>1, <3>2, <1>a, <1>b, GoQuiet
  <2> QED BY <1>7, <2>1, <2>2 DEF GetCAS, Loc
<1>8. CASE GetDone(t)
  <2> DEFINE l2 == [l EXCEPT !.blk = l.head]
  <2>1. Go(t, "e_block", l2)
    BY <1>8 DEF GetDone, Loc
  <2>2. Fits("e_block", l2, b, z, n) /\ Kept(pc[t], l, "e_block", l2, b, z)
       /\ program[t] # <<>> /\ "e_block" # "idle"
    <3>1. pc[t] = "f_got"
      BY <1>8 DEF GetDone, Loc, At
    <3> HIDE DEF l, b, z, n
    <3> QED BY <1>b, <3>1, NoLocalsFields DEF Null, Fields, Fits, Typed, Pointing, Permits, Search,
           Waits, Kept, Sleeps, Holds, Signals, Posts
  <2> HIDE DEF l2
  <2> QED BY <2>1, <2>2, <1>a, <1>b, GoQuiet
<1>9. CASE GetUnref(t)
  <2>1. CASE freeListRefs[l.node] = Ref(1, TRUE)
    <3> DEFINE l2 == [l EXCEPT !.again = TRUE]
    <3>1. Go(t, "f_load", l2)
      BY <1>9, <2>1 DEF GetUnref, Loc
    <3>2. Fits("f_load", l2, b, z, n) /\ Kept(pc[t], l, "f_load", l2, b, z)
         /\ program[t] # <<>> /\ "f_load" # "idle"
      <4>1. pc[t] = "f_unref"
        BY <1>9, <2>1 DEF GetUnref, Loc, At
      <4> HIDE DEF l, b, z, n
      <4> QED BY <1>b, <4>1, NoLocalsFields DEF Null, Fields, Fits, Typed, Pointing, Permits, Search,
             Waits, Kept, Sleeps, Holds, Signals, Posts
    <3> HIDE DEF l2
    <3> QED BY <3>1, <3>2, <1>a, <1>b, GoQuiet
  <2>2. CASE freeListRefs[l.node] # Ref(1, TRUE) /\ l.head = Null
    <3> DEFINE l2 == l
    <3>1. Go(t, "e_create", l2)
      BY <1>9, <2>2 DEF GetUnref, Loc, GetLabel
    <3>2. Fits("e_create", l2, b, z, n) /\ Kept(pc[t], l, "e_create", l2, b, z)
         /\ program[t] # <<>> /\ "e_create" # "idle"
      <4>1. pc[t] = "f_unref"
        BY <1>9, <2>2 DEF GetUnref, Loc, At, GetLabel
      <4> HIDE DEF l, b, z, n
      <4> QED BY <1>b, <4>1, NoLocalsFields DEF Null, Fields, Fits, Typed, Pointing, Permits, Search,
             Waits, Kept, Sleeps, Holds, Signals, Posts
    <3> HIDE DEF l2
    <3> QED BY <3>1, <3>2, <1>a, <1>b, GoQuiet
  <2>3. CASE freeListRefs[l.node] # Ref(1, TRUE) /\ l.head # Null
    <3> DEFINE l2 == l
    <3>1. Go(t, "f_refs", l2)
      BY <1>9, <2>3 DEF GetUnref, Loc, GetLabel
    <3>2. Fits("f_refs", l2, b, z, n) /\ Kept(pc[t], l, "f_refs", l2, b, z)
         /\ program[t] # <<>> /\ "f_refs" # "idle"
      <4>1. pc[t] = "f_unref"
        BY <1>9, <2>3 DEF GetUnref, Loc, At, GetLabel
      <4> HIDE DEF l, b, z, n
      <4> QED BY <1>b, <4>1, NoLocalsFields DEF Null, Fields, Fits, Typed, Pointing, Permits, Search,
             Waits, Kept, Sleeps, Holds, Signals, Posts
    <3> HIDE DEF l2
    <3> QED BY <3>1, <3>2, <1>a, <1>b, GoQuiet
  <2> QED BY <1>9, <2>1, <2>2, <2>3 DEF GetUnref, Loc
<1>10. CASE CreateBlock(t)
  <2> DEFINE unused == Blocks \ (Pool \cup heap)
             x == CHOOSE y \in unused : \A w \in unused : y <= w
             none == unused = {} \/ Call(t) \in TryEnqueues
  <2>1. CASE none
    <3> DEFINE l2 == l
    <3>1. Go(t, "e_rewind", l2)
      BY <1>10, <2>1 DEF CreateBlock, Loc
    <3>2. Fits("e_rewind", l2, b, z, n) /\ Kept(pc[t], l, "e_rewind", l2, b, z)
         /\ program[t] # <<>> /\ "e_rewind" # "idle"
      <4>1. pc[t] = "e_create"
        BY <1>10, <2>1 DEF CreateBlock, Loc, At
      <4> HIDE DEF l, b, z, n
      <4> QED BY <1>b, <4>1, NoLocalsFields DEF Null, Fields, Fits, Typed, Pointing, Permits, Search,
             Waits, Kept, Sleeps, Holds, Signals, Posts
    <3> HIDE DEF l2
    <3> QED BY <3>1, <3>2, <1>a, <1>b, GoQuiet
  <2>2. CASE ~none
    <3> DEFINE l2 == [l EXCEPT !.blk = x]
    <3>1. Go(t, "e_block", l2)
      BY <1>10, <2>2 DEF CreateBlock, Loc
    <3>2. Fits("e_block", l2, b, z, n) /\ Kept(pc[t], l, "e_block", l2, b, z)
         /\ program[t] # <<>> /\ "e_block" # "idle"
      <4>1. pc[t] = "e_create"
        BY <1>10, <2>2 DEF CreateBlock, Loc, At
      <4> HIDE DEF l, b, z, n
      <4> QED BY <1>b, <4>1, NoLocalsFields DEF Null, Fields, Fits, Typed, Pointing, Permits, Search,
             Waits, Kept, Sleeps, Holds, Signals, Posts
    <3> HIDE DEF l2
    <3> QED BY <3>1, <3>2, <1>a, <1>b, GoQuiet
  <2> QED BY <2>1, <2>2
<1>11. CASE AddBlock(t)
  <2>0. pc[t] = "f_add" /\ program[t] # <<>>
    BY <1>b, <1>11 DEF AddBlock, At
  <2>1. CASE Deliver(t)
    <3>1. ~l.again
      BY <2>0, <1>b DEF Fits, Pointing
    <3> QED BY <2>0, <2>1, <3>1, <1>a, DeliverQuiet
  <2>2. CASE Go(t, "f_load", [l EXCEPT !.node = l.blk])
    <3> DEFINE l2 == [l EXCEPT !.node = l.blk]
    <3>1. Go(t, "f_load", l2)
      BY <2>0, <2>2 DEF Loc
    <3>2. Fits("f_load", l2, b, z, n) /\ Kept(pc[t], l, "f_load", l2, b, z)
         /\ program[t] # <<>> /\ "f_load" # "idle"
      <4>1. pc[t] = "f_add"
        BY <2>0, <2>2 DEF Loc, At
      <4> HIDE DEF l, b, z, n
      <4> QED BY <1>b, <4>1, NoLocalsFields DEF Null, Fields, Fits, Typed, Pointing, Permits, Search,
             Waits, Kept, Sleeps, Holds, Signals, Posts
    <3> HIDE DEF l2
    <3> QED BY <3>1, <3>2, <1>a, <1>b, GoQuiet
  <2> QED BY <1>11, <2>1, <2>2 DEF AddBlock, Add, Loc
<1>12. CASE AddLoad(t)
  <2> DEFINE l2 == [l EXCEPT !.link = freeListHead]
  <2>1. Go(t, "f_link", l2)
    BY <1>12 DEF AddLoad, Loc
  <2>2. Fits("f_link", l2, b, z, n) /\ Kept(pc[t], l, "f_link", l2, b, z)
       /\ program[t] # <<>> /\ "f_link" # "idle"
    <3>1. pc[t] = "f_load"
      BY <1>12 DEF AddLoad, Loc, At
    <3> HIDE DEF l, b, z, n
    <3> QED BY <1>b, <3>1, NoLocalsFields DEF Null, Fields, Fits, Typed, Pointing, Permits, Search,
           Waits, Kept, Sleeps, Holds, Signals, Posts
  <2> HIDE DEF l2
  <2> QED BY <2>1, <2>2, <1>a, <1>b, GoQuiet
<1>13. CASE AddLink(t)
  <2> DEFINE l2 == l
  <2>1. Go(t, "f_push", l2)
    BY <1>13 DEF AddLink, Loc
  <2>2. Fits("f_push", l2, b, z, n) /\ Kept(pc[t], l, "f_push", l2, b, z)
       /\ program[t] # <<>> /\ "f_push" # "idle"
    <3>1. pc[t] = "f_link"
      BY <1>13 DEF AddLink, Loc, At
    <3> HIDE DEF l, b, z, n
    <3> QED BY <1>b, <3>1, NoLocalsFields DEF Null, Fields, Fits, Typed, Pointing, Permits, Search,
           Waits, Kept, Sleeps, Holds, Signals, Posts
  <2> HIDE DEF l2
  <2> QED BY <2>1, <2>2, <1>a, <1>b, GoQuiet
<1>14. CASE AddPush(t)
  <2>0. pc[t] = "f_push"
    BY <1>14 DEF AddPush, At
  <2>1. CASE Added(t)
    BY <2>0, <2>1, <1>a, AddedQuiet
  <2>2. CASE ~Added(t)
    <3> DEFINE l2 == [l EXCEPT !.link = freeListHead]
    <3>1. Go(t, "f_retry", l2)
      BY <1>14, <2>2 DEF AddPush, Loc
    <3>2. Fits("f_retry", l2, b, z, n) /\ Kept(pc[t], l, "f_retry", l2, b, z)
         /\ program[t] # <<>> /\ "f_retry" # "idle"
      <4>1. pc[t] = "f_push"
        BY <1>14, <2>2 DEF AddPush, Loc, At
      <4> HIDE DEF l, b, z, n
      <4> QED BY <1>b, <4>1, NoLocalsFields DEF Null, Fields, Fits, Typed, Pointing, Permits, Search,
             Waits, Kept, Sleeps, Holds, Signals, Posts
    <3> HIDE DEF l2
    <3> QED BY <3>1, <3>2, <1>a, <1>b, GoQuiet
  <2> QED BY <2>1, <2>2
<1>15. CASE AddRetry(t)
  <2>0. pc[t] = "f_retry"
    BY <1>15 DEF AddRetry, At
  <2>1. CASE Added(t)
    BY <2>0, <2>1, <1>a, AddedQuiet
  <2>2. CASE ~Added(t)
    <3> DEFINE l2 == l
    <3>1. Go(t, "f_link", l2)
      BY <1>15, <2>2 DEF AddRetry, Loc
    <3>2. Fits("f_link", l2, b, z, n) /\ Kept(pc[t], l, "f_link", l2, b, z)
         /\ program[t] # <<>> /\ "f_link" # "idle"
      <4>1. pc[t] = "f_retry"
        BY <1>15, <2>2 DEF AddRetry, Loc, At
      <4> HIDE DEF l, b, z, n
      <4> QED BY <1>b, <4>1, NoLocalsFields DEF Null, Fields, Fits, Typed, Pointing, Permits, Search,
             Waits, Kept, Sleeps, Holds, Signals, Posts
    <3> HIDE DEF l2
    <3> QED BY <3>1, <3>2, <1>a, <1>b, GoQuiet
  <2> QED BY <2>1, <2>2
<1> QED BY <1>1, <1>2, <1>3, <1>4, <1>5, <1>6, <1>7, <1>8, <1>9, <1>10, <1>11, <1>12, <1>13,
     <1>14, <1>15 DEF FreeListStep

(* A thread that is in a table has a producer. *)
LEMMA FoundProducer ==
  ASSUME NEW t \in Threads, DataInv, Holding(t) # {}
  PROVE  /\ Newest(Holding(t)) \in 1..Len(tables)
         /\ Found(Newest(Holding(t)), t) \in 1..Len(taken)
<1> DEFINE k == Newest(Holding(t))
           i == CHOOSE j \in Slots(k, t) : TRUE
<1>1. Holding(t) \subseteq 1..Len(tables) /\ Len(tables) \in Nat
     /\ DOMAIN tables = 1..Len(tables)
  BY DEF DataInv, TablesInv, Holding
<1>2. k \in Holding(t)
  BY <1>1, MaxMember
<1> HIDE DEF k
<1>3. Slots(k, t) # {} /\ k \in DOMAIN tables
  BY <1>2 DEF Holding
<1>4. i \in Slots(k, t)
  BY <1>3
<1> HIDE DEF i
<1>5. i \in DOMAIN tables[k] /\ tables[k][i].key = t
  BY <1>4 DEF Slots
<1>6. tables[k][i].value \in DOMAIN prod /\ DOMAIN prod = 1..Len(prod) /\ Len(prod) = Len(taken)
  BY <1>3, <1>5 DEF DataInv, TablesInv, ProducersInv
<1> QED BY <1>1, <1>2, <1>6 DEF Found, i, k

(* A thread that creates its producer has one more to point to. *)
LEMMA CreateLocal ==
  ASSUME NEW t \in Threads, ControlInv, DataInv, ThreadInv(t), CreateProducer(t)
  PROVE  StepOf(t) /\ KeepsOwing(t)
<1> DEFINE l == lv[t]
           b == Bulk(t)
           z == Size(t)
           n == Len(taken)
<1>a. taken' \in Seq(Nat) /\ ControlInv /\ ThreadInv(t) /\ taken \in Seq(Nat)
  <2>1. taken' = taken \/ taken' = Append(taken, 0)
    BY DEF CreateProducer
  <2>2. taken \in Seq(Nat)
    BY DEF DataInv, HistoryInv
  <2> QED BY <2>1, <2>2
<1>b. /\ Fits(pc[t], l, b, z, n) /\ (pc[t] # "idle" => program[t] # <<>>)
      /\ z \in Nat /\ z > 0 /\ (z > 1 => b) /\ (~b => z = 1) /\ n \in Nat
  BY SizeType DEF ThreadInv, Size, DataInv, HistoryInv
<1>c. /\ n = Len(prod) /\ producerListTail \in 0..n
      /\ \A p \in 1..n : Sound(prod[p], n)
  BY DEF DataInv, ProducersInv
<1>1. CASE Go(t, "h_push", [l EXCEPT !.ptr = Len(prod) + 1]) /\ taken' = Append(taken, 0)
  <2>0. Len(taken') = n + 1 /\ pc[t] = "h_create"
    BY <1>1, <1>a DEF CreateProducer, At
  <2> DEFINE l2 == [l EXCEPT !.ptr = Len(prod) + 1]
  <2>1. Go(t, "h_push", l2)
    BY <1>1, <2>0 DEF Loc
  <2>2. Fits("h_push", l2, b, z, n + 1) /\ Kept(pc[t], l, "h_push", l2, b, z)
       /\ program[t] # <<>> /\ "h_push" # "idle"
    <3>1. pc[t] = "h_create"
      BY <1>1, <2>0 DEF Loc, At
    <3> HIDE DEF l, b, z, n
    <3> QED BY <1>b, <3>1, NoLocalsFields, <1>c DEF Null, Fields, Fits, Typed, Pointing, Permits,
           Search, Waits, Kept, Sleeps, Holds, Signals, Posts
  <2> HIDE DEF l2
  <2> QED BY <2>1, <2>2, <2>0, <1>a, <1>b, GoQuiet
<1>2. CASE Return(t) /\ taken' = taken
  <2>1. Return(t)
    BY <1>2 DEF CreateProducer, Loc
  <2>2. Idle(pc[t], l, b, z) /\ program[t] # <<>>
    <3>1. pc[t] = "h_create"
      BY <1>2 DEF CreateProducer, Loc, At
    <3> HIDE DEF l, b, z, n
    <3> QED BY <1>b, <3>1, NoLocalsFields DEF Null, Fields, Fits, Typed, Pointing, Permits, Search,
           Waits, Idle, Sleeps, Holds, Signals, Posts
  <2> QED BY <2>1, <2>2, <1>a, <1>b, ReturnQuiet
<1> QED BY <1>1, <1>2 DEF CreateProducer, Loc

(* A step in the hash tables owes nothing to the semaphore. *)
LEMMA HashLocal ==
  ASSUME NEW t \in Threads, ControlInv, DataInv, ThreadInv(t), HashStep(t), ~CreateProducer(t)
  PROVE  StepOf(t) /\ KeepsOwing(t)
<1> DEFINE l == lv[t]
           b == Bulk(t)
           z == Size(t)
           n == Len(taken)
<1>a. Len(taken') = n /\ taken' \in Seq(Nat) /\ ControlInv /\ ThreadInv(t) /\ taken \in Seq(Nat)
  BY DEF HashStep, Lookup, Copy, CopyReusable, CountSelf, Full, Resize, Clear, Reload, Recycle, Walk,
         PushProducer, InsertReusable, InsertFree, Uncount, Exit, ExitTable, ExitProducer, DropToken,
         hashUnchanged, history, DataInv, HistoryInv
<1>b. /\ Fits(pc[t], l, b, z, n) /\ (pc[t] # "idle" => program[t] # <<>>)
      /\ z \in Nat /\ z > 0 /\ (z > 1 => b) /\ (~b => z = 1) /\ n \in Nat
  BY SizeType DEF ThreadInv, Size, DataInv, HistoryInv
<1>c. /\ n = Len(prod) /\ producerListTail \in 0..n
      /\ \A p \in 1..n : Sound(prod[p], n)
  BY DEF DataInv, ProducersInv
<1>d. producerListTail \in 0..n
  BY <1>c
<1>1. CASE Lookup(t)
  <2> DEFINE main == Len(tables)
             k == Newest(Holding(t))
             found == Found(k, t)
  <2>1. CASE Holding(t) = {}
    <3> DEFINE l2 == [NoLocals EXCEPT !.main = main]
    <3>1. Go(t, "h_count", l2)
      BY <1>1, <2>1 DEF Lookup, Loc, Calling
    <3>2. Fits("h_count", l2, b, z, n) /\ Kept(pc[t], l, "h_count", l2, b, z)
         /\ program[t] # <<>> /\ "h_count" # "idle"
      <4>1. pc[t] = "idle" /\ program[t] # <<>>
        BY <1>1, <2>1 DEF Lookup, Loc, At, Calling
      <4> HIDE DEF l, b, z, n
      <4> QED BY <1>b, <4>1, NoLocalsFields DEF Null, Fields, Fits, Typed, Pointing, Permits, Search,
             Waits, Kept, Sleeps, Holds, Signals, Posts
    <3> HIDE DEF l2
    <3> QED BY <3>1, <3>2, <1>a, <1>b, GoQuiet
  <2>2. CASE Holding(t) # {} /\ k = main
    <3>0. found \in 1..n
      BY <2>2, <1>a, FoundProducer
    <3> DEFINE l2 == [NoLocals EXCEPT !.ptr = found]
    <3>1. Go(t, "enqueue", l2)
      BY <1>1, <2>2 DEF Lookup, Loc, Calling
    <3>2. Fits("enqueue", l2, b, z, n) /\ Kept(pc[t], l, "enqueue", l2, b, z)
         /\ program[t] # <<>> /\ "enqueue" # "idle"
      <4>1. pc[t] = "idle" /\ program[t] # <<>>
        BY <1>1, <2>2 DEF Lookup, Loc, At, Calling
      <4> HIDE DEF found, l, b, z, n
      <4> QED BY <1>b, <4>1, NoLocalsFields, <3>0 DEF Null, Fields, Fits, Typed, Pointing, Permits,
             Search, Waits, Kept, Sleeps, Holds, Signals, Posts
    <3> HIDE DEF l2
    <3> QED BY <3>1, <3>2, <1>a, <1>b, GoQuiet
  <2>3. CASE Holding(t) # {} /\ k # main
    <3>0. found \in 1..n
      BY <2>3, <1>a, FoundProducer
    <3> DEFINE l2 == [NoLocals EXCEPT !.main = main, !.ptr = found, !.slot = Home(main, t)]
    <3>1. Go(t, "h_copy", l2)
      BY <1>1, <2>3 DEF Lookup, Loc, Calling
    <3>2. Fits("h_copy", l2, b, z, n) /\ Kept(pc[t], l, "h_copy", l2, b, z)
         /\ program[t] # <<>> /\ "h_copy" # "idle"
      <4>1. pc[t] = "idle" /\ program[t] # <<>>
        BY <1>1, <2>3 DEF Lookup, Loc, At, Calling
      <4> HIDE DEF found, l, b, z, n
      <4> QED BY <1>b, <4>1, NoLocalsFields, <3>0 DEF Null, Fields, Fits, Typed, Pointing, Permits,
             Search, Waits, Kept, Sleeps, Holds, Signals, Posts
    <3> HIDE DEF l2
    <3> QED BY <3>1, <3>2, <1>a, <1>b, GoQuiet
  <2> QED BY <2>1, <2>2, <2>3
<1>2. CASE Copy(t)
  <2>1. CASE tables[l.main][l.slot].key = Free
    <3> DEFINE l2 == [NoLocals EXCEPT !.ptr = l.ptr]
    <3>1. Go(t, "enqueue", l2)
      BY <1>2, <2>1 DEF Copy, Loc, Claim, Ready
    <3>2. Fits("enqueue", l2, b, z, n) /\ Kept(pc[t], l, "enqueue", l2, b, z)
         /\ program[t] # <<>> /\ "enqueue" # "idle"
      <4>1. pc[t] = "h_copy"
        BY <1>2, <2>1 DEF Copy, Loc, At, Claim, Ready
      <4> HIDE DEF l, b, z, n
      <4> QED BY <1>b, <4>1, NoLocalsFields DEF Null, Fields, Fits, Typed, Pointing, Permits, Search,
             Waits, Kept, Sleeps, Holds, Signals, Posts
    <3> HIDE DEF l2
    <3> QED BY <3>1, <3>2, <1>a, <1>b, GoQuiet
  <2>2. CASE tables[l.main][l.slot].key # Free
    <3> DEFINE l2 == l
    <3>1. Go(t, "h_copy2", l2)
      BY <1>2, <2>2 DEF Copy, Loc, Claim
    <3>2. Fits("h_copy2", l2, b, z, n) /\ Kept(pc[t], l, "h_copy2", l2, b, z)
         /\ program[t] # <<>> /\ "h_copy2" # "idle"
      <4>1. pc[t] = "h_copy"
        BY <1>2, <2>2 DEF Copy, Loc, At, Claim
      <4> HIDE DEF l, b, z, n
      <4> QED BY <1>b, <4>1, NoLocalsFields DEF Null, Fields, Fits, Typed, Pointing, Permits, Search,
             Waits, Kept, Sleeps, Holds, Signals, Posts
    <3> HIDE DEF l2
    <3> QED BY <3>1, <3>2, <1>a, <1>b, GoQuiet
  <2> QED BY <1>2, <2>1, <2>2 DEF Copy, Loc
<1>3. CASE CopyReusable(t)
  <2>1. CASE tables[l.main][l.slot].key = Reusable
    <3> DEFINE l2 == [NoLocals EXCEPT !.ptr = l.ptr]
    <3>1. Go(t, "enqueue", l2)
      BY <1>3, <2>1 DEF CopyReusable, Loc, Claim, Ready
    <3>2. Fits("enqueue", l2, b, z, n) /\ Kept(pc[t], l, "enqueue", l2, b, z)
         /\ program[t] # <<>> /\ "enqueue" # "idle"
      <4>1. pc[t] = "h_copy2"
        BY <1>3, <2>1 DEF CopyReusable, Loc, At, Claim, Ready
      <4> HIDE DEF l, b, z, n
      <4> QED BY <1>b, <4>1, NoLocalsFields DEF Null, Fields, Fits, Typed, Pointing, Permits, Search,
             Waits, Kept, Sleeps, Holds, Signals, Posts
    <3> HIDE DEF l2
    <3> QED BY <3>1, <3>2, <1>a, <1>b, GoQuiet
  <2>2. CASE tables[l.main][l.slot].key # Reusable
    <3> DEFINE l2 == [l EXCEPT !.slot = NextSlot(l.main, @)]
    <3>1. Go(t, "h_copy", l2)
      BY <1>3, <2>2 DEF CopyReusable, Loc, Claim
    <3>2. Fits("h_copy", l2, b, z, n) /\ Kept(pc[t], l, "h_copy", l2, b, z)
         /\ program[t] # <<>> /\ "h_copy" # "idle"
      <4>1. pc[t] = "h_copy2"
        BY <1>3, <2>2 DEF CopyReusable, Loc, At, Claim
      <4> HIDE DEF l, b, z, n
      <4> QED BY <1>b, <4>1, NoLocalsFields DEF Null, Fields, Fits, Typed, Pointing, Permits, Search,
             Waits, Kept, Sleeps, Holds, Signals, Posts
    <3> HIDE DEF l2
    <3> QED BY <3>1, <3>2, <1>a, <1>b, GoQuiet
  <2> QED BY <1>3, <2>1, <2>2 DEF CopyReusable, Loc
<1>4. CASE CountSelf(t)
  <2> DEFINE l2 == [l EXCEPT !.count = implicitProducerHashCount + 1]
  <2>1. Go(t, "h_full", l2)
    BY <1>4 DEF CountSelf, Loc
  <2>2. Fits("h_full", l2, b, z, n) /\ Kept(pc[t], l, "h_full", l2, b, z)
       /\ program[t] # <<>> /\ "h_full" # "idle"
    <3>1. pc[t] = "h_count"
      BY <1>4 DEF CountSelf, Loc, At
    <3> HIDE DEF l, b, z, n
    <3> QED BY <1>b, <3>1, NoLocalsFields DEF Null, Fields, Fits, Typed, Pointing, Permits, Search,
           Waits, Kept, Sleeps, Holds, Signals, Posts
  <2> HIDE DEF l2
  <2> QED BY <2>1, <2>2, <1>a, <1>b, GoQuiet
<1>5. CASE Full(t)
  <2>1. CASE l.count >= Half(l.main) /\ ~resizing
    <3> DEFINE l2 == l
    <3>1. Go(t, "h_resize", l2)
      BY <1>5, <2>1 DEF Full, Loc
    <3>2. Fits("h_resize", l2, b, z, n) /\ Kept(pc[t], l, "h_resize", l2, b, z)
         /\ program[t] # <<>> /\ "h_resize" # "idle"
      <4>1. pc[t] = "h_full"
        BY <1>5, <2>1 DEF Full, Loc, At
      <4> HIDE DEF l, b, z, n
      <4> QED BY <1>b, <4>1, NoLocalsFields DEF Null, Fields, Fits, Typed, Pointing, Permits, Search,
             Waits, Kept, Sleeps, Holds, Signals, Posts
    <3> HIDE DEF l2
    <3> QED BY <3>1, <3>2, <1>a, <1>b, GoQuiet
  <2>2. CASE ~(l.count >= Half(l.main) /\ ~resizing) /\ Room(l.main, l.count) = "h_recycle"
    <3> DEFINE l2 == l
    <3>1. Go(t, "h_recycle", l2)
      BY <1>5, <2>2 DEF Full, Loc
    <3>2. Fits("h_recycle", l2, b, z, n) /\ Kept(pc[t], l, "h_recycle", l2, b, z)
         /\ program[t] # <<>> /\ "h_recycle" # "idle"
      <4>1. pc[t] = "h_full"
        BY <1>5, <2>2 DEF Full, Loc, At
      <4> HIDE DEF l, b, z, n
      <4> QED BY <1>b, <4>1, NoLocalsFields DEF Null, Fields, Fits, Typed, Pointing, Permits, Search,
             Waits, Kept, Sleeps, Holds, Signals, Posts
    <3> HIDE DEF l2
    <3> QED BY <3>1, <3>2, <1>a, <1>b, GoQuiet
  <2>3. CASE ~(l.count >= Half(l.main) /\ ~resizing) /\ Room(l.main, l.count) = "h_reload"
    <3> DEFINE l2 == l
    <3>1. Go(t, "h_reload", l2)
      BY <1>5, <2>3 DEF Full, Loc
    <3>2. Fits("h_reload", l2, b, z, n) /\ Kept(pc[t], l, "h_reload", l2, b, z)
         /\ program[t] # <<>> /\ "h_reload" # "idle"
      <4>1. pc[t] = "h_full"
        BY <1>5, <2>3 DEF Full, Loc, At
      <4> HIDE DEF l, b, z, n
      <4> QED BY <1>b, <4>1, NoLocalsFields DEF Null, Fields, Fits, Typed, Pointing, Permits, Search,
             Waits, Kept, Sleeps, Holds, Signals, Posts
    <3> HIDE DEF l2
    <3> QED BY <3>1, <3>2, <1>a, <1>b, GoQuiet
  <2> QED BY <1>5, <2>1, <2>2, <2>3 DEF Full, Loc, Room
<1>6. CASE Resize(t)
  <2>0. pc[t] = "h_resize"
    BY <1>6 DEF Resize, At
  <2>1. CASE Go(t, "h_clear", [l EXCEPT !.main = Len(tables)])
    <3> DEFINE l2 == [l EXCEPT !.main = Len(tables)]
    <3>1. Go(t, "h_clear", l2)
      BY <2>0, <2>1 DEF Loc
    <3>2. Fits("h_clear", l2, b, z, n) /\ Kept(pc[t], l, "h_clear", l2, b, z)
         /\ program[t] # <<>> /\ "h_clear" # "idle"
      <4>1. pc[t] = "h_resize"
        BY <2>0, <2>1 DEF Loc, At
      <4> HIDE DEF l, b, z, n
      <4> QED BY <1>b, <4>1, NoLocalsFields DEF Null, Fields, Fits, Typed, Pointing, Permits, Search,
             Waits, Kept, Sleeps, Holds, Signals, Posts
    <3> HIDE DEF l2
    <3> QED BY <3>1, <3>2, <1>a, <1>b, GoQuiet
  <2>2. CASE Go(t, "h_clear", [l EXCEPT !.main = Len(tables) + 1])
    <3> DEFINE l2 == [l EXCEPT !.main = Len(tables) + 1]
    <3>1. Go(t, "h_clear", l2)
      BY <2>0, <2>2 DEF Loc
    <3>2. Fits("h_clear", l2, b, z, n) /\ Kept(pc[t], l, "h_clear", l2, b, z)
         /\ program[t] # <<>> /\ "h_clear" # "idle"
      <4>1. pc[t] = "h_resize"
        BY <2>0, <2>2 DEF Loc, At
      <4> HIDE DEF l, b, z, n
      <4> QED BY <1>b, <4>1, NoLocalsFields DEF Null, Fields, Fits, Typed, Pointing, Permits, Search,
             Waits, Kept, Sleeps, Holds, Signals, Posts
    <3> HIDE DEF l2
    <3> QED BY <3>1, <3>2, <1>a, <1>b, GoQuiet
  <2>3. CASE Go(t, "h_clear", [l EXCEPT !.fail = TRUE])
    <3> DEFINE l2 == [l EXCEPT !.fail = TRUE]
    <3>1. Go(t, "h_clear", l2)
      BY <2>0, <2>3 DEF Loc
    <3>2. Fits("h_clear", l2, b, z, n) /\ Kept(pc[t], l, "h_clear", l2, b, z)
         /\ program[t] # <<>> /\ "h_clear" # "idle"
      <4>1. pc[t] = "h_resize"
        BY <2>0, <2>3 DEF Loc, At
      <4> HIDE DEF l, b, z, n
      <4> QED BY <1>b, <4>1, NoLocalsFields DEF Null, Fields, Fits, Typed, Pointing, Permits, Search,
             Waits, Kept, Sleeps, Holds, Signals, Posts
    <3> HIDE DEF l2
    <3> QED BY <3>1, <3>2, <1>a, <1>b, GoQuiet
  <2> QED BY <1>6, <2>1, <2>2, <2>3 DEF Resize, Loc
<1>7. CASE Clear(t)
  <2>1. CASE l.fail
    <3>1. Return(t)
      BY <1>7, <2>1 DEF Clear, Loc
    <3>2. Idle(pc[t], l, b, z) /\ program[t] # <<>>
      <4>1. pc[t] = "h_clear"
        BY <1>7, <2>1 DEF Clear, Loc, At
      <4> HIDE DEF l, b, z, n
      <4> QED BY <1>b, <4>1, NoLocalsFields DEF Null, Fields, Fits, Typed, Pointing, Permits, Search,
             Waits, Idle, Sleeps, Holds, Signals, Posts
    <3> QED BY <3>1, <3>2, <1>a, <1>b, ReturnQuiet
  <2>2. CASE ~l.fail /\ Room(l.main, l.count) = "h_recycle"
    <3> DEFINE l2 == l
    <3>1. Go(t, "h_recycle", l2)
      BY <1>7, <2>2 DEF Clear, Loc
    <3>2. Fits("h_recycle", l2, b, z, n) /\ Kept(pc[t], l, "h_recycle", l2, b, z)
         /\ program[t] # <<>> /\ "h_recycle" # "idle"
      <4>1. pc[t] = "h_clear"
        BY <1>7, <2>2 DEF Clear, Loc, At
      <4> HIDE DEF l, b, z, n
      <4> QED BY <1>b, <4>1, NoLocalsFields DEF Null, Fields, Fits, Typed, Pointing, Permits, Search,
             Waits, Kept, Sleeps, Holds, Signals, Posts
    <3> HIDE DEF l2
    <3> QED BY <3>1, <3>2, <1>a, <1>b, GoQuiet
  <2>3. CASE ~l.fail /\ Room(l.main, l.count) = "h_reload"
    <3> DEFINE l2 == l
    <3>1. Go(t, "h_reload", l2)
      BY <1>7, <2>3 DEF Clear, Loc
    <3>2. Fits("h_reload", l2, b, z, n) /\ Kept(pc[t], l, "h_reload", l2, b, z)
         /\ program[t] # <<>> /\ "h_reload" # "idle"
      <4>1. pc[t] = "h_clear"
        BY <1>7, <2>3 DEF Clear, Loc, At
      <4> HIDE DEF l, b, z, n
      <4> QED BY <1>b, <4>1, NoLocalsFields DEF Null, Fields, Fits, Typed, Pointing, Permits, Search,
             Waits, Kept, Sleeps, Holds, Signals, Posts
    <3> HIDE DEF l2
    <3> QED BY <3>1, <3>2, <1>a, <1>b, GoQuiet
  <2> QED BY <1>7, <2>1, <2>2, <2>3 DEF Clear, Loc, Room
<1>8. CASE Reload(t)
  <2> DEFINE l2 == [l EXCEPT !.main = Len(tables)]
  <2>1. Go(t, "h_full", l2)
    BY <1>8 DEF Reload, Loc
  <2>2. Fits("h_full", l2, b, z, n) /\ Kept(pc[t], l, "h_full", l2, b, z)
       /\ program[t] # <<>> /\ "h_full" # "idle"
    <3>1. pc[t] = "h_reload"
      BY <1>8 DEF Reload, Loc, At
    <3> HIDE DEF l, b, z, n
    <3> QED BY <1>b, <3>1, NoLocalsFields DEF Null, Fields, Fits, Typed, Pointing, Permits, Search,
           Waits, Kept, Sleeps, Holds, Signals, Posts
  <2> HIDE DEF l2
  <2> QED BY <2>1, <2>2, <1>a, <1>b, GoQuiet
<1>9. CASE Recycle(t)
  <2>1. CASE producerListTail = Null
    <3> DEFINE l2 == [l EXCEPT !.ptr = producerListTail]
    <3>1. Go(t, "h_create", l2)
      BY <1>9, <2>1 DEF Recycle, Loc, Calling
    <3>2. Fits("h_create", l2, b, z, n) /\ Kept(pc[t], l, "h_create", l2, b, z)
         /\ program[t] # <<>> /\ "h_create" # "idle"
      <4>1. (pc[t] = "h_recycle" \/ pc[t] = "idle") /\ (pc[t] = "idle" => program[t] # <<>>)
        BY <1>9, <2>1 DEF Recycle, Loc, At, Calling
      <4> HIDE DEF l, b, z, n
      <4> QED BY <1>b, <4>1, NoLocalsFields, <1>d DEF Null, Fields, Fits, Typed, Pointing, Permits,
             Search, Waits, Kept, Sleeps, Holds, Signals, Posts
    <3> HIDE DEF l2
    <3> QED BY <3>1, <3>2, <1>a, <1>b, GoQuiet
  <2>2. CASE producerListTail # Null
    <3> DEFINE l2 == [l EXCEPT !.ptr = producerListTail]
    <3>1. Go(t, "h_walk", l2)
      BY <1>9, <2>2 DEF Recycle, Loc, Calling
    <3>2. Fits("h_walk", l2, b, z, n) /\ Kept(pc[t], l, "h_walk", l2, b, z)
         /\ program[t] # <<>> /\ "h_walk" # "idle"
      <4>1. (pc[t] = "h_recycle" \/ pc[t] = "idle") /\ (pc[t] = "idle" => program[t] # <<>>)
           /\ producerListTail # Null
        BY <1>9, <2>2 DEF Recycle, Loc, At, Calling
      <4> HIDE DEF l, b, z, n
      <4> QED BY <1>b, <4>1, NoLocalsFields, <1>d DEF Null, Fields, Fits, Typed, Pointing, Permits,
             Search, Waits, Kept, Sleeps, Holds, Signals, Posts
    <3> HIDE DEF l2
    <3> QED BY <3>1, <3>2, <1>a, <1>b, GoQuiet
  <2> QED BY <1>9, <2>1, <2>2 DEF Recycle, Loc
<1>10. CASE Walk(t)
  <2> DEFINE next == prod[l.ptr].next
             mine == prod[l.ptr].inactive /\ prod[l.ptr].explicit = ForToken(t)
  <2>0. pc[t] = "h_walk" /\ next \in 0..n
    <3>1. pc[t] = "h_walk"
      BY <1>10 DEF Walk, At
    <3>2. l.ptr \in 1..n
      BY <3>1, <1>b DEF Fits, Typed, Pointing, Null
    <3> QED BY <3>1, <3>2, <1>c DEF Sound
  <2>1. CASE mine /\ ForToken(t)
    <3>1. Return(t)
      BY <1>10, <2>1 DEF Walk, Loc, Obtained
    <3>2. Idle(pc[t], l, b, z) /\ program[t] # <<>>
      <4>1. pc[t] = "h_walk"
        BY <1>10, <2>1 DEF Walk, Loc, At, Obtained
      <4> HIDE DEF l, b, z, n
      <4> QED BY <1>b, <4>1, NoLocalsFields DEF Null, Fields, Fits, Typed, Pointing, Permits, Search,
             Waits, Idle, Sleeps, Holds, Signals, Posts
    <3> QED BY <3>1, <3>2, <1>a, <1>b, ReturnQuiet
  <2>2. CASE mine /\ ~ForToken(t)
    <3> DEFINE l2 == [l EXCEPT !.slot = Home(l.main, t)]
    <3>1. Go(t, "h_reuse", l2)
      BY <1>10, <2>2 DEF Walk, Loc, Obtained
    <3>2. Fits("h_reuse", l2, b, z, n) /\ Kept(pc[t], l, "h_reuse", l2, b, z)
         /\ program[t] # <<>> /\ "h_reuse" # "idle"
      <4>1. pc[t] = "h_walk"
        BY <1>10, <2>2 DEF Walk, Loc, At, Obtained
      <4> HIDE DEF l, b, z, n
      <4> QED BY <1>b, <4>1, NoLocalsFields DEF Null, Fields, Fits, Typed, Pointing, Permits, Search,
             Waits, Kept, Sleeps, Holds, Signals, Posts
    <3> HIDE DEF l2
    <3> QED BY <3>1, <3>2, <1>a, <1>b, GoQuiet
  <2>3. CASE ~mine /\ next = Null
    <3> DEFINE l2 == [l EXCEPT !.ptr = next]
    <3>1. Go(t, "h_create", l2)
      BY <1>10, <2>3 DEF Walk, Loc
    <3>2. Fits("h_create", l2, b, z, n) /\ Kept(pc[t], l, "h_create", l2, b, z)
         /\ program[t] # <<>> /\ "h_create" # "idle"
      <4>1. pc[t] = "h_walk"
        BY <1>10, <2>3 DEF Walk, Loc, At
      <4> HIDE DEF next, l, b, z, n
      <4> QED BY <1>b, <4>1, NoLocalsFields, <2>0 DEF Null, Fields, Fits, Typed, Pointing, Permits,
             Search, Waits, Kept, Sleeps, Holds, Signals, Posts
    <3> HIDE DEF l2
    <3> QED BY <3>1, <3>2, <1>a, <1>b, GoQuiet
  <2>4. CASE ~mine /\ next # Null
    <3> DEFINE l2 == [l EXCEPT !.ptr = next]
    <3>1. Go(t, "h_walk", l2)
      BY <1>10, <2>4 DEF Walk, Loc
    <3>2. Fits("h_walk", l2, b, z, n) /\ Kept(pc[t], l, "h_walk", l2, b, z)
         /\ program[t] # <<>> /\ "h_walk" # "idle"
      <4>1. pc[t] = "h_walk" /\ next # Null
        BY <1>10, <2>4 DEF Walk, Loc, At
      <4> HIDE DEF next, l, b, z, n
      <4> QED BY <1>b, <4>1, NoLocalsFields, <2>0 DEF Null, Fields, Fits, Typed, Pointing, Permits,
             Search, Waits, Kept, Sleeps, Holds, Signals, Posts
    <3> HIDE DEF l2
    <3> QED BY <3>1, <3>2, <1>a, <1>b, GoQuiet
  <2> QED BY <2>1, <2>2, <2>3, <2>4
<1>11. CASE PushProducer(t)
  <2> DEFINE last == producerListTail = prod[l.ptr].next
  <2>1. CASE last /\ ForToken(t)
    <3>1. Return(t)
      BY <1>11, <2>1 DEF PushProducer, Loc, Obtained
    <3>2. Idle(pc[t], l, b, z) /\ program[t] # <<>>
      <4>1. pc[t] = "h_push"
        BY <1>11, <2>1 DEF PushProducer, Loc, At, Obtained
      <4> HIDE DEF l, b, z, n
      <4> QED BY <1>b, <4>1, NoLocalsFields DEF Null, Fields, Fits, Typed, Pointing, Permits, Search,
             Waits, Idle, Sleeps, Holds, Signals, Posts
    <3> QED BY <3>1, <3>2, <1>a, <1>b, ReturnQuiet
  <2>2. CASE last /\ ~ForToken(t)
    <3> DEFINE l2 == [l EXCEPT !.slot = Home(l.main, t)]
    <3>1. Go(t, "h_reuse", l2)
      BY <1>11, <2>2 DEF PushProducer, Loc, Obtained
    <3>2. Fits("h_reuse", l2, b, z, n) /\ Kept(pc[t], l, "h_reuse", l2, b, z)
         /\ program[t] # <<>> /\ "h_reuse" # "idle"
      <4>1. pc[t] = "h_push"
        BY <1>11, <2>2 DEF PushProducer, Loc, At, Obtained
      <4> HIDE DEF l, b, z, n
      <4> QED BY <1>b, <4>1, NoLocalsFields DEF Null, Fields, Fits, Typed, Pointing, Permits, Search,
             Waits, Kept, Sleeps, Holds, Signals, Posts
    <3> HIDE DEF l2
    <3> QED BY <3>1, <3>2, <1>a, <1>b, GoQuiet
  <2>3. CASE ~last
    <3>1. UNCHANGED control
      BY <1>11, <2>3 DEF PushProducer, Loc
    <3> QED BY <3>1, <1>a, StayQuiet
  <2> QED BY <2>1, <2>2, <2>3
<1>12. CASE InsertReusable(t)
  <2>1. CASE tables[l.main][l.slot].key = Reusable
    <3> DEFINE l2 == l
    <3>1. Go(t, "h_uncount", l2)
      BY <1>12, <2>1 DEF InsertReusable, Loc, Claim
    <3>2. Fits("h_uncount", l2, b, z, n) /\ Kept(pc[t], l, "h_uncount", l2, b, z)
         /\ program[t] # <<>> /\ "h_uncount" # "idle"
      <4>1. pc[t] = "h_reuse"
        BY <1>12, <2>1 DEF InsertReusable, Loc, At, Claim
      <4> HIDE DEF l, b, z, n
      <4> QED BY <1>b, <4>1, NoLocalsFields DEF Null, Fields, Fits, Typed, Pointing, Permits, Search,
             Waits, Kept, Sleeps, Holds, Signals, Posts
    <3> HIDE DEF l2
    <3> QED BY <3>1, <3>2, <1>a, <1>b, GoQuiet
  <2>2. CASE tables[l.main][l.slot].key # Reusable
    <3> DEFINE l2 == l
    <3>1. Go(t, "h_empty", l2)
      BY <1>12, <2>2 DEF InsertReusable, Loc, Claim
    <3>2. Fits("h_empty", l2, b, z, n) /\ Kept(pc[t], l, "h_empty", l2, b, z)
         /\ program[t] # <<>> /\ "h_empty" # "idle"
      <4>1. pc[t] = "h_reuse"
        BY <1>12, <2>2 DEF InsertReusable, Loc, At, Claim
      <4> HIDE DEF l, b, z, n
      <4> QED BY <1>b, <4>1, NoLocalsFields DEF Null, Fields, Fits, Typed, Pointing, Permits, Search,
             Waits, Kept, Sleeps, Holds, Signals, Posts
    <3> HIDE DEF l2
    <3> QED BY <3>1, <3>2, <1>a, <1>b, GoQuiet
  <2> QED BY <1>12, <2>1, <2>2 DEF InsertReusable, Loc
<1>13. CASE InsertFree(t)
  <2>1. CASE tables[l.main][l.slot].key = Free
    <3> DEFINE l2 == [NoLocals EXCEPT !.ptr = l.ptr]
    <3>1. Go(t, "enqueue", l2)
      BY <1>13, <2>1 DEF InsertFree, Loc, Claim, Ready
    <3>2. Fits("enqueue", l2, b, z, n) /\ Kept(pc[t], l, "enqueue", l2, b, z)
         /\ program[t] # <<>> /\ "enqueue" # "idle"
      <4>1. pc[t] = "h_empty"
        BY <1>13, <2>1 DEF InsertFree, Loc, At, Claim, Ready
      <4> HIDE DEF l, b, z, n
      <4> QED BY <1>b, <4>1, NoLocalsFields DEF Null, Fields, Fits, Typed, Pointing, Permits, Search,
             Waits, Kept, Sleeps, Holds, Signals, Posts
    <3> HIDE DEF l2
    <3> QED BY <3>1, <3>2, <1>a, <1>b, GoQuiet
  <2>2. CASE tables[l.main][l.slot].key # Free
    <3> DEFINE l2 == [l EXCEPT !.slot = NextSlot(l.main, @)]
    <3>1. Go(t, "h_reuse", l2)
      BY <1>13, <2>2 DEF InsertFree, Loc, Claim
    <3>2. Fits("h_reuse", l2, b, z, n) /\ Kept(pc[t], l, "h_reuse", l2, b, z)
         /\ program[t] # <<>> /\ "h_reuse" # "idle"
      <4>1. pc[t] = "h_empty"
        BY <1>13, <2>2 DEF InsertFree, Loc, At, Claim
      <4> HIDE DEF l, b, z, n
      <4> QED BY <1>b, <4>1, NoLocalsFields DEF Null, Fields, Fits, Typed, Pointing, Permits, Search,
             Waits, Kept, Sleeps, Holds, Signals, Posts
    <3> HIDE DEF l2
    <3> QED BY <3>1, <3>2, <1>a, <1>b, GoQuiet
  <2> QED BY <1>13, <2>1, <2>2 DEF InsertFree, Loc
<1>14. CASE Uncount(t)
  <2> DEFINE l2 == [NoLocals EXCEPT !.ptr = l.ptr]
  <2>1. Go(t, "enqueue", l2)
    BY <1>14 DEF Uncount, Loc, Ready
  <2>2. Fits("enqueue", l2, b, z, n) /\ Kept(pc[t], l, "enqueue", l2, b, z)
       /\ program[t] # <<>> /\ "enqueue" # "idle"
    <3>1. pc[t] = "h_uncount"
      BY <1>14 DEF Uncount, Loc, At, Ready
    <3> HIDE DEF l, b, z, n
    <3> QED BY <1>b, <3>1, NoLocalsFields DEF Null, Fields, Fits, Typed, Pointing, Permits, Search,
           Waits, Kept, Sleeps, Holds, Signals, Posts
  <2> HIDE DEF l2
  <2> QED BY <2>1, <2>2, <1>a, <1>b, GoQuiet
<1>15. CASE Exit(t)
  <2> DEFINE found == Found(Newest(Holding(t)), t)
  <2>1. CASE Holding(t) = {}
    <3>1. Return(t)
      BY <1>15, <2>1 DEF Exit, Loc, Calling
    <3>2. Idle(pc[t], l, b, z) /\ program[t] # <<>>
      <4>1. pc[t] = "idle" /\ program[t] # <<>>
        BY <1>15, <2>1 DEF Exit, Loc, At, Calling
      <4> HIDE DEF l, b, z, n
      <4> QED BY <1>b, <4>1, NoLocalsFields DEF Null, Fields, Fits, Typed, Pointing, Permits, Search,
             Waits, Idle, Sleeps, Holds, Signals, Posts
    <3> QED BY <3>1, <3>2, <1>a, <1>b, ReturnQuiet
  <2>2. CASE Holding(t) # {}
    <3>0. found \in 1..n
      BY <2>2, <1>a, FoundProducer
    <3> DEFINE l2 == [NoLocals EXCEPT !.main = Len(tables), !.ptr = found]
    <3>1. Go(t, "x_clear", l2)
      BY <1>15, <2>2 DEF Exit, Loc, Calling
    <3>2. Fits("x_clear", l2, b, z, n) /\ Kept(pc[t], l, "x_clear", l2, b, z)
         /\ program[t] # <<>> /\ "x_clear" # "idle"
      <4>1. pc[t] = "idle" /\ program[t] # <<>>
        BY <1>15, <2>2 DEF Exit, Loc, At, Calling
      <4> HIDE DEF found, l, b, z, n
      <4> QED BY <1>b, <4>1, NoLocalsFields, <3>0 DEF Null, Fields, Fits, Typed, Pointing, Permits,
             Search, Waits, Kept, Sleeps, Holds, Signals, Posts
    <3> HIDE DEF l2
    <3> QED BY <3>1, <3>2, <1>a, <1>b, GoQuiet
  <2> QED BY <2>1, <2>2
<1>16. CASE ExitTable(t)
  <2>1. CASE l.main = 1
    <3> DEFINE l2 == [l EXCEPT !.main = l.main - 1]
    <3>1. Go(t, "x_inactive", l2)
      BY <1>16, <2>1 DEF ExitTable, Loc
    <3>2. Fits("x_inactive", l2, b, z, n) /\ Kept(pc[t], l, "x_inactive", l2, b, z)
         /\ program[t] # <<>> /\ "x_inactive" # "idle"
      <4>1. pc[t] = "x_clear"
        BY <1>16, <2>1 DEF ExitTable, Loc, At
      <4> HIDE DEF l, b, z, n
      <4> QED BY <1>b, <4>1, NoLocalsFields DEF Null, Fields, Fits, Typed, Pointing, Permits, Search,
             Waits, Kept, Sleeps, Holds, Signals, Posts
    <3> HIDE DEF l2
    <3> QED BY <3>1, <3>2, <1>a, <1>b, GoQuiet
  <2>2. CASE l.main # 1
    <3> DEFINE l2 == [l EXCEPT !.main = l.main - 1]
    <3>1. Go(t, "x_clear", l2)
      BY <1>16, <2>2 DEF ExitTable, Loc
    <3>2. Fits("x_clear", l2, b, z, n) /\ Kept(pc[t], l, "x_clear", l2, b, z)
         /\ program[t] # <<>> /\ "x_clear" # "idle"
      <4>1. pc[t] = "x_clear"
        BY <1>16, <2>2 DEF ExitTable, Loc, At
      <4> HIDE DEF l, b, z, n
      <4> QED BY <1>b, <4>1, NoLocalsFields DEF Null, Fields, Fits, Typed, Pointing, Permits, Search,
             Waits, Kept, Sleeps, Holds, Signals, Posts
    <3> HIDE DEF l2
    <3> QED BY <3>1, <3>2, <1>a, <1>b, GoQuiet
  <2> QED BY <1>16, <2>1, <2>2 DEF ExitTable, Loc
<1>17. CASE ExitProducer(t)
  <2>1. Return(t)
    BY <1>17 DEF ExitProducer, Loc
  <2>2. Idle(pc[t], l, b, z) /\ program[t] # <<>>
    <3>1. pc[t] = "x_inactive"
      BY <1>17 DEF ExitProducer, Loc, At
    <3> HIDE DEF l, b, z, n
    <3> QED BY <1>b, <3>1, NoLocalsFields DEF Null, Fields, Fits, Typed, Pointing, Permits, Search,
           Waits, Idle, Sleeps, Holds, Signals, Posts
  <2> QED BY <2>1, <2>2, <1>a, <1>b, ReturnQuiet
<1>18. CASE DropToken(t)
  <2>1. Return(t)
    BY <1>18, Zenon DEF DropToken, Loc, Calling
  <2>2. Idle(pc[t], l, b, z) /\ program[t] # <<>>
    <3>1. pc[t] = "idle" /\ program[t] # <<>>
      BY <1>18, Zenon DEF DropToken, Loc, At, Calling
    <3> HIDE DEF l, b, z, n
    <3> QED BY <1>b, <3>1, NoLocalsFields DEF Null, Fields, Fits, Typed, Pointing, Permits, Search,
           Waits, Idle, Sleeps, Holds, Signals, Posts
  <2> QED BY <2>1, <2>2, <1>a, <1>b, ReturnQuiet
<1> QED BY <1>1, <1>2, <1>3, <1>4, <1>5, <1>6, <1>7, <1>8, <1>9, <1>10, <1>11, <1>12, <1>13,
     <1>14, <1>15, <1>16, <1>17, <1>18 DEF HashStep

(* An enqueue that fails returns, or takes its blocks back first. *)
LEMMA RevertQuiet ==
  ASSUME NEW t \in Threads, ControlInv, DataInv, ThreadInv(t), Revert(t, lv[t]),
         Len(taken') = Len(taken), taken' \in Seq(Nat), pc[t] \in PtrLabels
  PROVE  StepOf(t) /\ KeepsOwing(t)
<1> DEFINE l == lv[t]
           b == Bulk(t)
           z == Size(t)
           n == Len(taken)
<1>a. Len(taken') = n /\ taken' \in Seq(Nat) /\ ControlInv /\ ThreadInv(t)
  OBVIOUS
<1>b. Fits(pc[t], l, b, z, n) /\ program[t] # <<>> /\ n \in Nat
  BY DEF ThreadInv, DataInv, HistoryInv
<1>1. CASE l.chain = <<>>
  <2>1. Return(t)
    BY <1>1 DEF Revert, Loc
  <2>2. Idle(pc[t], l, b, z) /\ program[t] # <<>>
    <3>1. pc[t] \in PtrLabels
      BY <1>1 DEF Revert, Loc, At
    <3> HIDE DEF l, b, z, n
    <3> QED BY <1>b, <3>1, NoLocalsFields DEF Null, Fields, Fits, Typed, Pointing, Permits, Search,
           Waits, Idle, Sleeps, Holds, Signals, Posts
  <2> QED BY <2>1, <2>2, <1>a, <1>b, ReturnQuiet
<1>2. CASE l.chain # <<>>
  <2> DEFINE l2 == l
  <2>1. Go(t, "b_unset", l2)
    BY <1>2 DEF Revert, Loc
  <2>2. Fits("b_unset", l2, b, z, n) /\ Kept(pc[t], l, "b_unset", l2, b, z)
       /\ program[t] # <<>> /\ "b_unset" # "idle"
    <3>1. pc[t] \in PtrLabels
      BY <1>2 DEF Revert, Loc, At
    <3> HIDE DEF l, b, z, n
    <3> QED BY <1>b, <3>1, NoLocalsFields DEF Null, Fields, Fits, Typed, Pointing, Permits, Search,
           Waits, Kept, Sleeps, Holds, Signals, Posts
  <2> HIDE DEF l2
  <2> QED BY <2>1, <2>2, <1>a, <1>b, GoQuiet
<1> QED BY <1>1, <1>2

(* Before it publishes its element an enqueue owes nothing. *)
LEMMA EnqueueLocal ==
  ASSUME NEW t \in Threads, ControlInv, DataInv, ThreadInv(t), EnqueueStep(t), ~Publish(t)
  PROVE  StepOf(t) /\ KeepsOwing(t)
<1> DEFINE l == lv[t]
           b == Bulk(t)
           z == Size(t)
           n == Len(taken)
<1>a. Len(taken') = n /\ taken' \in Seq(Nat) /\ ControlInv /\ ThreadInv(t) /\ taken \in Seq(Nat)
  BY DEF EnqueueStep, EnqueueStart, InsertEntry, InsertTail, Rewind, Unset, InsertBlock, Publish,
         prodUnchanged, dataUnchanged, history, DataInv, HistoryInv
<1>b. /\ Fits(pc[t], l, b, z, n) /\ (pc[t] # "idle" => program[t] # <<>>)
      /\ z \in Nat /\ z > 0 /\ (z > 1 => b) /\ (~b => z = 1) /\ n \in Nat
  BY SizeType DEF ThreadInv, Size, DataInv, HistoryInv
<1>c. /\ n = Len(prod) /\ producerListTail \in 0..n
      /\ \A p \in 1..n : Sound(prod[p], n)
  BY DEF DataInv, ProducersInv
<1>1. CASE EnqueueStart(t)
  <2>1. CASE Offset(prod[l.ptr].tailIndex) # 0 /\ Call(t) = "enqueue_throws"
    <3>1. Return(t)
      BY <1>1, <2>1 DEF EnqueueStart, Loc
    <3>2. Idle(pc[t], l, b, z) /\ program[t] # <<>>
      <4>1. pc[t] = "enqueue" /\ ~b
        BY <1>1, <2>1 DEF EnqueueStart, Loc, At
      <4> HIDE DEF l, b, z, n
      <4> QED BY <1>b, <4>1, NoLocalsFields DEF Null, Fields, Fits, Typed, Pointing, Permits, Search,
             Waits, Idle, Sleeps, Holds, Signals, Posts
    <3> QED BY <3>1, <3>2, <1>a, <1>b, ReturnQuiet
  <2>2. CASE Offset(prod[l.ptr].tailIndex) # 0 /\ Call(t) # "enqueue_throws"
    <3> DEFINE l2 == l
    <3>1. Go(t, "e_publish", l2)
      BY <1>1, <2>2 DEF EnqueueStart, Loc
    <3>2. Fits("e_publish", l2, b, z, n) /\ Kept(pc[t], l, "e_publish", l2, b, z)
         /\ program[t] # <<>> /\ "e_publish" # "idle"
      <4>1. pc[t] = "enqueue" /\ ~b
        BY <1>1, <2>2 DEF EnqueueStart, Loc, At
      <4> HIDE DEF l, b, z, n
      <4> QED BY <1>b, <4>1, NoLocalsFields DEF Null, Fields, Fits, Typed, Pointing, Permits, Search,
             Waits, Kept, Sleeps, Holds, Signals, Posts
    <3> HIDE DEF l2
    <3> QED BY <3>1, <3>2, <1>a, <1>b, GoQuiet
  <2>3. CASE Offset(prod[l.ptr].tailIndex) = 0 /\ circular_less_than(prod[l.ptr].headIndex,
       Plus(prod[l.ptr].tailIndex, BlockSize))
    <3> DEFINE l2 == [l EXCEPT !.index = prod[l.ptr].tailIndex]
    <3>1. Go(t, "e_entry", l2)
      BY <1>1, <2>3 DEF EnqueueStart, Loc
    <3>2. Fits("e_entry", l2, b, z, n) /\ Kept(pc[t], l, "e_entry", l2, b, z)
         /\ program[t] # <<>> /\ "e_entry" # "idle"
      <4>1. pc[t] = "enqueue" /\ ~b
        BY <1>1, <2>3 DEF EnqueueStart, Loc, At
      <4> HIDE DEF l, b, z, n
      <4> QED BY <1>b, <4>1, NoLocalsFields DEF Null, Fields, Fits, Typed, Pointing, Permits, Search,
             Waits, Kept, Sleeps, Holds, Signals, Posts
    <3> HIDE DEF l2
    <3> QED BY <3>1, <3>2, <1>a, <1>b, GoQuiet
  <2>4. CASE Offset(prod[l.ptr].tailIndex) = 0 /\ ~circular_less_than(prod[l.ptr].headIndex,
       Plus(prod[l.ptr].tailIndex, BlockSize))
    <3>1. Return(t)
      BY <1>1, <2>4 DEF EnqueueStart, Loc
    <3>2. Idle(pc[t], l, b, z) /\ program[t] # <<>>
      <4>1. pc[t] = "enqueue" /\ ~b
        BY <1>1, <2>4 DEF EnqueueStart, Loc, At
      <4> HIDE DEF l, b, z, n
      <4> QED BY <1>b, <4>1, NoLocalsFields DEF Null, Fields, Fits, Typed, Pointing, Permits, Search,
             Waits, Idle, Sleeps, Holds, Signals, Posts
    <3> QED BY <3>1, <3>2, <1>a, <1>b, ReturnQuiet
  <2> QED BY <1>1, <2>1, <2>2, <2>3, <2>4 DEF EnqueueStart, Loc
<1>2. CASE InsertEntry(t)
  <2> DEFINE hd == Header(l.ptr)
             newTail == (hd.tail + 1) % IndexCapacity(hd)
             e == Entry(hd, newTail)
  <2>0. pc[t] = "e_entry"
    BY <1>2 DEF InsertEntry, At
  <2>1. CASE Go(t, "e_tail", [l EXCEPT !.entry = e, !.tail = newTail])
    <3> DEFINE l2 == [l EXCEPT !.entry = e, !.tail = newTail]
    <3>1. Go(t, "e_tail", l2)
      BY <2>0, <2>1 DEF Loc
    <3>2. Fits("e_tail", l2, b, z, n) /\ Kept(pc[t], l, "e_tail", l2, b, z)
         /\ program[t] # <<>> /\ "e_tail" # "idle"
      <4>1. pc[t] = "e_entry"
        BY <2>0, <2>1 DEF Loc, At
      <4> HIDE DEF e, newTail, l, b, z, n
      <4> QED BY <1>b, <4>1, NoLocalsFields DEF Null, Fields, Fits, Typed, Pointing, Permits, Search,
             Waits, Kept, Sleeps, Holds, Signals, Posts
    <3> HIDE DEF l2
    <3> QED BY <3>1, <3>2, <1>a, <1>b, GoQuiet
  <2>2. CASE UNCHANGED control
    BY <2>2, <1>a, StayQuiet
  <2>3. CASE Revert(t, l)
    BY <2>0, <2>3, <1>a, RevertQuiet
  <2> QED BY <1>2, <2>1, <2>2, <2>3 DEF InsertEntry, Loc
<1>3. CASE InsertTail(t)
  <2> DEFINE l2 == [l EXCEPT !.tail = 0]
  <2>1. Go(t, "e_pool", l2)
    BY <1>3 DEF InsertTail, Loc
  <2>2. Fits("e_pool", l2, b, z, n) /\ Kept(pc[t], l, "e_pool", l2, b, z)
       /\ program[t] # <<>> /\ "e_pool" # "idle"
    <3>1. pc[t] = "e_tail"
      BY <1>3 DEF InsertTail, Loc, At
    <3> HIDE DEF l, b, z, n
    <3> QED BY <1>b, <3>1, NoLocalsFields DEF Null, Fields, Fits, Typed, Pointing, Permits, Search,
           Waits, Kept, Sleeps, Holds, Signals, Posts
  <2> HIDE DEF l2
  <2> QED BY <2>1, <2>2, <1>a, <1>b, GoQuiet
<1>4. CASE Rewind(t)
  <2> DEFINE l2 == l
  <2>1. Go(t, "e_unset", l2)
    BY <1>4 DEF Rewind, Loc
  <2>2. Fits("e_unset", l2, b, z, n) /\ Kept(pc[t], l, "e_unset", l2, b, z)
       /\ program[t] # <<>> /\ "e_unset" # "idle"
    <3>1. pc[t] = "e_rewind"
      BY <1>4 DEF Rewind, Loc, At
    <3> HIDE DEF l, b, z, n
    <3> QED BY <1>b, <3>1, NoLocalsFields DEF Null, Fields, Fits, Typed, Pointing, Permits, Search,
           Waits, Kept, Sleeps, Holds, Signals, Posts
  <2> HIDE DEF l2
  <2> QED BY <2>1, <2>2, <1>a, <1>b, GoQuiet
<1>5. CASE Unset(t)
  <2>1. CASE l.blk = Null
    <3>1. Revert(t, l) /\ pc[t] \in PtrLabels
      BY <1>5, <2>1 DEF Unset, Loc, At
    <3> QED BY <3>1, <1>a, RevertQuiet
  <2>2. CASE l.blk # Null
    <3> DEFINE l2 == [NoLocals EXCEPT !.blk = l.blk]
    <3>1. Go(t, "f_add", l2)
      BY <1>5, <2>2 DEF Unset, Loc
    <3>2. Fits("f_add", l2, b, z, n) /\ Kept(pc[t], l, "f_add", l2, b, z)
         /\ program[t] # <<>> /\ "f_add" # "idle"
      <4>1. pc[t] = "e_unset"
        BY <1>5, <2>2 DEF Unset, Loc, At
      <4> HIDE DEF l, b, z, n
      <4> QED BY <1>b, <4>1, NoLocalsFields DEF Null, Fields, Fits, Typed, Pointing, Permits, Search,
             Waits, Kept, Sleeps, Holds, Signals, Posts
    <3> HIDE DEF l2
    <3> QED BY <3>1, <3>2, <1>a, <1>b, GoQuiet
  <2> QED BY <1>5, <2>1, <2>2 DEF Unset, Loc
<1>6. CASE InsertBlock(t)
  <2>1. CASE Call(t) = "enqueue_throws"
    <3> DEFINE l2 == [NoLocals EXCEPT !.ptr = l.ptr, !.blk = l.blk, !.entry = l.entry]
    <3>1. Go(t, "e_rewind", l2)
      BY <1>6, <2>1 DEF InsertBlock, Loc
    <3>2. Fits("e_rewind", l2, b, z, n) /\ Kept(pc[t], l, "e_rewind", l2, b, z)
         /\ program[t] # <<>> /\ "e_rewind" # "idle"
      <4>1. pc[t] = "e_block" /\ ~b
        BY <1>6, <2>1 DEF InsertBlock, Loc, At
      <4> HIDE DEF l, b, z, n
      <4> QED BY <1>b, <4>1, NoLocalsFields DEF Null, Fields, Fits, Typed, Pointing, Permits, Search,
             Waits, Kept, Sleeps, Holds, Signals, Posts
    <3> HIDE DEF l2
    <3> QED BY <3>1, <3>2, <1>a, <1>b, GoQuiet
  <2>2. CASE Call(t) # "enqueue_throws"
    <3> DEFINE l2 == [NoLocals EXCEPT !.ptr = l.ptr]
    <3>1. Go(t, "e_publish", l2)
      BY <1>6, <2>2 DEF InsertBlock, Loc
    <3>2. Fits("e_publish", l2, b, z, n) /\ Kept(pc[t], l, "e_publish", l2, b, z)
         /\ program[t] # <<>> /\ "e_publish" # "idle"
      <4>1. pc[t] = "e_block" /\ ~b
        BY <1>6, <2>2 DEF InsertBlock, Loc, At
      <4> HIDE DEF l, b, z, n
      <4> QED BY <1>b, <4>1, NoLocalsFields DEF Null, Fields, Fits, Typed, Pointing, Permits, Search,
             Waits, Kept, Sleeps, Holds, Signals, Posts
    <3> HIDE DEF l2
    <3> QED BY <3>1, <3>2, <1>a, <1>b, GoQuiet
  <2> QED BY <1>6, <2>1, <2>2 DEF InsertBlock, Loc
<1> QED BY <1>1, <1>2, <1>3, <1>4, <1>5, <1>6 DEF EnqueueStep

(* Nor does an enqueue_bulk. *)
LEMMA BulkEnqueueLocal ==
  ASSUME NEW t \in Threads, ControlInv, DataInv, ThreadInv(t), BulkEnqueueStep(t),
       ~BulkPublish(t)
  PROVE  StepOf(t) /\ KeepsOwing(t)
<1> DEFINE l == lv[t]
           b == Bulk(t)
           z == Size(t)
           n == Len(taken)
<1>a. Len(taken') = n /\ taken' \in Seq(Nat) /\ ControlInv /\ ThreadInv(t) /\ taken \in Seq(Nat)
  BY DEF BulkEnqueueStep, BulkStart, BulkFull, BulkInsertBlock, BulkPublish, RevertUnset, RevertTail,
         loads, prodUnchanged, dataUnchanged, history, DataInv, HistoryInv
<1>b. /\ Fits(pc[t], l, b, z, n) /\ (pc[t] # "idle" => program[t] # <<>>)
      /\ z \in Nat /\ z > 0 /\ (z > 1 => b) /\ (~b => z = 1) /\ n \in Nat
  BY SizeType DEF ThreadInv, Size, DataInv, HistoryInv
<1>c. /\ n = Len(prod) /\ producerListTail \in 0..n
      /\ \A p \in 1..n : Sound(prod[p], n)
  BY DEF DataInv, ProducersInv
<1>1. CASE BulkStart(t)
  <2>1. CASE LastBase(t) = Base(Minus(prod[l.ptr].tailIndex, 1))
    <3> DEFINE l2 == [l EXCEPT !.index = Base(Minus(prod[l.ptr].tailIndex, 1))]
    <3>1. Go(t, "b_publish", l2)
      BY <1>1, <2>1 DEF BulkStart, Loc
    <3>2. Fits("b_publish", l2, b, z, n) /\ Kept(pc[t], l, "b_publish", l2, b, z)
         /\ program[t] # <<>> /\ "b_publish" # "idle"
      <4>1. pc[t] = "enqueue" /\ b
        BY <1>1, <2>1 DEF BulkStart, Loc, At
      <4> HIDE DEF l, b, z, n
      <4> QED BY <1>b, <4>1, NoLocalsFields DEF Null, Fields, Fits, Typed, Pointing, Permits, Search,
             Waits, Kept, Sleeps, Holds, Signals, Posts
    <3> HIDE DEF l2
    <3> QED BY <3>1, <3>2, <1>a, <1>b, GoQuiet
  <2>2. CASE LastBase(t) # Base(Minus(prod[l.ptr].tailIndex, 1))
    <3> DEFINE l2 == [l EXCEPT !.index = Base(Minus(prod[l.ptr].tailIndex, 1))]
    <3>1. Go(t, "b_full", l2)
      BY <1>1, <2>2 DEF BulkStart, Loc
    <3>2. Fits("b_full", l2, b, z, n) /\ Kept(pc[t], l, "b_full", l2, b, z)
         /\ program[t] # <<>> /\ "b_full" # "idle"
      <4>1. pc[t] = "enqueue" /\ b
        BY <1>1, <2>2 DEF BulkStart, Loc, At
      <4> HIDE DEF l, b, z, n
      <4> QED BY <1>b, <4>1, NoLocalsFields DEF Null, Fields, Fits, Typed, Pointing, Permits, Search,
             Waits, Kept, Sleeps, Holds, Signals, Posts
    <3> HIDE DEF l2
    <3> QED BY <3>1, <3>2, <1>a, <1>b, GoQuiet
  <2> QED BY <1>1, <2>1, <2>2 DEF BulkStart, Loc
<1>2. CASE BulkFull(t)
  <2>1. CASE circular_less_than(prod[l.ptr].headIndex, Plus(Plus(l.index, BlockSize),
       BlockSize))
    <3> DEFINE l2 == [l EXCEPT !.index = Plus(l.index, BlockSize)]
    <3>1. Go(t, "e_entry", l2)
      BY <1>2, <2>1 DEF BulkFull, Loc
    <3>2. Fits("e_entry", l2, b, z, n) /\ Kept(pc[t], l, "e_entry", l2, b, z)
         /\ program[t] # <<>> /\ "e_entry" # "idle"
      <4>1. pc[t] = "b_full"
        BY <1>2, <2>1 DEF BulkFull, Loc, At
      <4> HIDE DEF l, b, z, n
      <4> QED BY <1>b, <4>1, NoLocalsFields DEF Null, Fields, Fits, Typed, Pointing, Permits, Search,
             Waits, Kept, Sleeps, Holds, Signals, Posts
    <3> HIDE DEF l2
    <3> QED BY <3>1, <3>2, <1>a, <1>b, GoQuiet
  <2>2. CASE ~circular_less_than(prod[l.ptr].headIndex, Plus(Plus(l.index, BlockSize),
       BlockSize))
    <3>1. Revert(t, l) /\ pc[t] \in PtrLabels
      BY <1>2, <2>2 DEF BulkFull, Loc, At
    <3> QED BY <3>1, <1>a, RevertQuiet
  <2> QED BY <1>2, <2>1, <2>2 DEF BulkFull, Loc
<1>3. CASE BulkInsertBlock(t)
  <2>1. CASE l.index = LastBase(t)
    <3> DEFINE l2 == [NoLocals EXCEPT !.ptr = l.ptr, !.index = l.index,
         !.chain = Append(l.chain, l.blk)]
    <3>1. Go(t, "b_publish", l2)
      BY <1>3, <2>1 DEF BulkInsertBlock, Loc
    <3>2. Fits("b_publish", l2, b, z, n) /\ Kept(pc[t], l, "b_publish", l2, b, z)
         /\ program[t] # <<>> /\ "b_publish" # "idle"
      <4>1. pc[t] = "e_block" /\ b
        BY <1>3, <2>1 DEF BulkInsertBlock, Loc, At
      <4> HIDE DEF l, b, z, n
      <4> QED BY <1>b, <4>1, NoLocalsFields DEF Null, Fields, Fits, Typed, Pointing, Permits, Search,
             Waits, Kept, Sleeps, Holds, Signals, Posts
    <3> HIDE DEF l2
    <3> QED BY <3>1, <3>2, <1>a, <1>b, GoQuiet
  <2>2. CASE l.index # LastBase(t)
    <3> DEFINE l2 == [NoLocals EXCEPT !.ptr = l.ptr, !.index = l.index,
         !.chain = Append(l.chain, l.blk)]
    <3>1. Go(t, "b_full", l2)
      BY <1>3, <2>2 DEF BulkInsertBlock, Loc
    <3>2. Fits("b_full", l2, b, z, n) /\ Kept(pc[t], l, "b_full", l2, b, z)
         /\ program[t] # <<>> /\ "b_full" # "idle"
      <4>1. pc[t] = "e_block" /\ b
        BY <1>3, <2>2 DEF BulkInsertBlock, Loc, At
      <4> HIDE DEF l, b, z, n
      <4> QED BY <1>b, <4>1, NoLocalsFields DEF Null, Fields, Fits, Typed, Pointing, Permits, Search,
             Waits, Kept, Sleeps, Holds, Signals, Posts
    <3> HIDE DEF l2
    <3> QED BY <3>1, <3>2, <1>a, <1>b, GoQuiet
  <2> QED BY <1>3, <2>1, <2>2 DEF BulkInsertBlock, Loc
<1>4. CASE RevertUnset(t)
  <2> DEFINE l2 == [NoLocals EXCEPT !.ptr = l.ptr, !.chain = Tail(l.chain),
       !.freed = Append(l.freed, Head(l.chain))]
  <2>1. Go(t, "b_rewind", l2)
    BY <1>4 DEF RevertUnset, Loc
  <2>2. Fits("b_rewind", l2, b, z, n) /\ Kept(pc[t], l, "b_rewind", l2, b, z)
       /\ program[t] # <<>> /\ "b_rewind" # "idle"
    <3>1. pc[t] = "b_unset"
      BY <1>4 DEF RevertUnset, Loc, At
    <3> HIDE DEF l, b, z, n
    <3> QED BY <1>b, <3>1, NoLocalsFields DEF Null, Fields, Fits, Typed, Pointing, Permits, Search,
           Waits, Kept, Sleeps, Holds, Signals, Posts
  <2> HIDE DEF l2
  <2> QED BY <2>1, <2>2, <1>a, <1>b, GoQuiet
<1>5. CASE RevertTail(t)
  <2>1. CASE l.chain # <<>>
    <3> DEFINE l2 == l
    <3>1. Go(t, "b_unset", l2)
      BY <1>5, <2>1 DEF RevertTail, Loc
    <3>2. Fits("b_unset", l2, b, z, n) /\ Kept(pc[t], l, "b_unset", l2, b, z)
         /\ program[t] # <<>> /\ "b_unset" # "idle"
      <4>1. pc[t] = "b_rewind"
        BY <1>5, <2>1 DEF RevertTail, Loc, At
      <4> HIDE DEF l, b, z, n
      <4> QED BY <1>b, <4>1, NoLocalsFields DEF Null, Fields, Fits, Typed, Pointing, Permits, Search,
             Waits, Kept, Sleeps, Holds, Signals, Posts
    <3> HIDE DEF l2
    <3> QED BY <3>1, <3>2, <1>a, <1>b, GoQuiet
  <2>2. CASE l.chain = <<>>
    <3> DEFINE l2 == [NoLocals EXCEPT !.blk = Head(l.freed), !.freed = Tail(l.freed)]
    <3>1. Go(t, "f_add", l2)
      BY <1>5, <2>2 DEF RevertTail, Loc
    <3>2. Fits("f_add", l2, b, z, n) /\ Kept(pc[t], l, "f_add", l2, b, z)
         /\ program[t] # <<>> /\ "f_add" # "idle"
      <4>1. pc[t] = "b_rewind"
        BY <1>5, <2>2 DEF RevertTail, Loc, At
      <4> HIDE DEF l, b, z, n
      <4> QED BY <1>b, <4>1, NoLocalsFields DEF Null, Fields, Fits, Typed, Pointing, Permits, Search,
             Waits, Kept, Sleeps, Holds, Signals, Posts
    <3> HIDE DEF l2
    <3> QED BY <3>1, <3>2, <1>a, <1>b, GoQuiet
  <2> QED BY <1>5, <2>1, <2>2 DEF RevertTail, Loc
<1> QED BY <1>1, <1>2, <1>3, <1>4, <1>5 DEF BulkEnqueueStep

(* Until it claims its element a dequeue keeps its permit. *)
LEMMA DequeueLocal ==
  ASSUME NEW t \in Threads, ControlInv, DataInv, ThreadInv(t), DequeueStep(t), ~DequeueHead(t)
  PROVE  StepOf(t) /\ KeepsOwing(t)
<1> DEFINE l == lv[t]
           b == Bulk(t)
           z == Size(t)
           n == Len(taken)
<1>a. Len(taken') = n /\ taken' \in Seq(Nat) /\ ControlInv /\ ThreadInv(t) /\ taken \in Seq(Nat)
  BY DEF DequeueStep, Scan, Visit, VisitHead, DequeueTail, DequeueOvercommit, DequeueCheck,
         DequeueClaim, DequeueRecheck, DequeueUndo, DequeueFailed, LookupHeader, LookupTail,
         LookupEntry, Read, SetEmpty, Release, loads, prodUnchanged, dataUnchanged, history, DataInv,
         HistoryInv
<1>b. /\ Fits(pc[t], l, b, z, n) /\ (pc[t] # "idle" => program[t] # <<>>)
      /\ z \in Nat /\ z > 0 /\ (z > 1 => b) /\ (~b => z = 1) /\ n \in Nat
  BY SizeType DEF ThreadInv, Size, DataInv, HistoryInv
<1>c. /\ n = Len(prod) /\ producerListTail \in 0..n
      /\ \A p \in 1..n : Sound(prod[p], n)
  BY DEF DataInv, ProducersInv
<1>d. /\ \A p \in 1..n : prod[p].tailIndex \in Indexes /\ prod[p].headIndex \in Indexes
      /\ \A p \in 1..n : prod[p].next \in 0..n
      /\ \A p \in 1..n : prod[p].dequeueOptimisticCount \in Indexes
      /\ \A p \in 1..n : prod[p].dequeueOvercommit \in Indexes
      /\ producerListTail \in 0..n
  BY <1>c DEF Sound
<1>1. CASE Scan(t)
  <2> DEFINE l2 == [NoLocals EXCEPT !.prod = producerListTail]
  <2>1. Go(t, "visit", l2)
    BY <1>1 DEF Scan, Loc
  <2>2. Fits("visit", l2, b, z, n) /\ Kept(pc[t], l, "visit", l2, b, z) /\ program[t] # <<>>
       /\ "visit" # "idle"
    <3>1. pc[t] = "scan"
      BY <1>1 DEF Scan, Loc, At
    <3> HIDE DEF l, b, z, n
    <3> QED BY <1>b, <3>1, NoLocalsFields, <1>d DEF Null, Fields, Fits, Typed, Pointing, Permits,
           Search, Waits, Kept, Sleeps, Holds, Signals, Posts
  <2> HIDE DEF l2
  <2> QED BY <2>1, <2>2, <1>a, <1>b, GoQuiet
<1>2. CASE Visit(t)
  <2>0. pc[t] = "visit" /\ l.seen \in Nat /\ l.prod \in 0..n
    <3>1. pc[t] = "visit"
      BY <1>2 DEF Visit, At
    <3> QED BY <3>1, <1>b DEF Fits, Typed, Search
  <2>1. CASE l.prod # Null /\ l.seen < 3
    <3> DEFINE i == prod[l.prod].tailIndex
    <3>0. i \in Indexes
      BY <2>0, <2>1, <1>d DEF Null
    <3>a. Go(t, "v_head", [l EXCEPT !.tail = i])
      BY <1>2, <2>0, <2>1 DEF Visit, Loc
    <3> HIDE DEF i
    <3> DEFINE l2 == [l EXCEPT !.tail = i]
    <3>1. Go(t, "v_head", l2)
      BY <2>0, <2>1, <3>a DEF Loc
    <3>2. Fits("v_head", l2, b, z, n) /\ Kept(pc[t], l, "v_head", l2, b, z)
         /\ program[t] # <<>> /\ "v_head" # "idle"
      <4>1. pc[t] = "visit" /\ l.prod # Null
        BY <2>0, <2>1, <3>a DEF Loc, At
      <4> HIDE DEF l, b, z, n
      <4> QED BY <1>b, <4>1, NoLocalsFields, <3>0 DEF Null, Fields, Fits, Typed, Pointing, Permits,
             Search, Waits, Kept, Sleeps, Holds, Signals, Posts
    <3> HIDE DEF l2
    <3> QED BY <3>1, <3>2, <1>a, <1>b, GoQuiet
  <2>2. CASE (l.prod = Null \/ l.seen = 3) /\ l.seen > 0
    <3>a. Go(t, "deq", [NoLocals EXCEPT !.prod = l.best, !.best = l.best])
      BY <1>2, <2>0, <2>2 DEF Visit, Loc
    <3> DEFINE l2 == [NoLocals EXCEPT !.prod = l.best, !.best = l.best]
    <3>1. Go(t, "deq", l2)
      BY <2>0, <2>2, <3>a DEF Loc
    <3>2. Fits("deq", l2, b, z, n) /\ Kept(pc[t], l, "deq", l2, b, z) /\ program[t] # <<>>
         /\ "deq" # "idle"
      <4>1. pc[t] = "visit" /\ l.seen > 0
        BY <2>0, <2>2, <3>a DEF Loc, At
      <4> HIDE DEF l, b, z, n
      <4> QED BY <1>b, <4>1, NoLocalsFields DEF Null, Fields, Fits, Typed, Pointing, Permits, Search,
             Waits, Kept, Sleeps, Holds, Signals, Posts
    <3> HIDE DEF l2
    <3> QED BY <3>1, <3>2, <1>a, <1>b, GoQuiet
  <2>3. CASE (l.prod = Null \/ l.seen = 3) /\ ~(l.seen > 0)
    <3>a. Go(t, "scan", NoLocals)
      BY <1>2, <2>0, <2>3 DEF Visit, Loc
    <3> DEFINE l2 == NoLocals
    <3>1. Go(t, "scan", l2)
      BY <2>0, <3>a DEF Loc
    <3>2. Fits("scan", l2, b, z, n) /\ Kept(pc[t], l, "scan", l2, b, z) /\ program[t] # <<>>
         /\ "scan" # "idle"
      <4>1. pc[t] = "visit"
        BY <2>0, <3>a DEF Loc, At
      <4> HIDE DEF l, b, z, n
      <4> QED BY <1>b, <4>1, NoLocalsFields DEF Null, Fields, Fits, Typed, Pointing, Permits, Search,
             Waits, Kept, Sleeps, Holds, Signals, Posts
    <3> HIDE DEF l2
    <3> QED BY <3>1, <3>2, <1>a, <1>b, GoQuiet
  <2> QED BY <1>2, <2>0, <2>1, <2>2, <2>3 DEF Visit, Loc
<1>3. CASE VisitHead(t)
  <2> DEFINE r == prod[l.prod]
             next == r.next
             size == Minus(l.tail, r.headIndex)
             less == circular_less_than(r.headIndex, l.tail)
             l1 == [l EXCEPT !.prod = next, !.tail = 0]
  <2>0. pc[t] = "v_head" /\ l.prod \in 1..n
    <3>1. pc[t] = "v_head"
      BY <1>3 DEF VisitHead, At
    <3> QED BY <3>1, <1>b DEF Fits, Typed, Pointing, Null
  <2>a. next \in 0..n /\ size \in Int /\ (less => size > 0 /\ size \in Nat)
    <3>1. l.tail \in Indexes /\ r.headIndex \in Indexes /\ next \in 0..n
      BY <2>0, <1>b, <1>d DEF Fits, Search
    <3>2. IndexMod \in Nat /\ IndexMod > 0
      BY SizesAssumption
    <3>3. size \in Int
      BY <3>1, <3>2 DEF Minus, Indexes
    <3> QED BY <3>1, <3>2, <3>3, MinusPositive
  <2>b. \/ ~less /\ Go(t, "visit", l1)
        \/ less /\ size > l.size /\ Go(t, "visit", [l1 EXCEPT !.seen = @ + 1, !.size = size,
             !.best = l.prod])
        \/ less /\ ~(size > l.size) /\ Go(t, "visit", [l1 EXCEPT !.seen = @ + 1])
    BY <1>3 DEF VisitHead, Loc
  <2> HIDE DEF next, size, less
  <2>1. CASE ~less /\ Go(t, "visit", l1)
    <3> DEFINE l2 == l1
    <3>1. Go(t, "visit", l2)
      BY <2>0, <2>1 DEF Loc
    <3>2. Fits("visit", l2, b, z, n) /\ Kept(pc[t], l, "visit", l2, b, z)
         /\ program[t] # <<>> /\ "visit" # "idle"
      <4>1. pc[t] = "v_head"
        BY <2>0, <2>1 DEF Loc, At
      <4> HIDE DEF l, b, z, n
      <4> QED BY <1>b, <4>1, NoLocalsFields, <2>a DEF Null, Fields, Fits, Typed, Pointing, Permits,
             Search, Waits, Kept, Sleeps, Holds, Signals, Posts
    <3> HIDE DEF l2
    <3> QED BY <3>1, <3>2, <1>a, <1>b, GoQuiet
  <2>2. CASE less /\ size > l.size /\ Go(t, "visit", [l1 EXCEPT !.seen = @ + 1, !.size = size,
       !.best = l.prod])
    <3> DEFINE l2 == [l1 EXCEPT !.seen = @ + 1, !.size = size, !.best = l.prod]
    <3>1. Go(t, "visit", l2)
      BY <2>0, <2>2 DEF Loc
    <3>2. Fits("visit", l2, b, z, n) /\ Kept(pc[t], l, "visit", l2, b, z)
         /\ program[t] # <<>> /\ "visit" # "idle"
      <4>1. pc[t] = "v_head" /\ less
        BY <2>0, <2>2 DEF Loc, At
      <4> HIDE DEF l, b, z, n
      <4> QED BY <1>b, <4>1, NoLocalsFields, <2>a DEF Null, Fields, Fits, Typed, Pointing, Permits,
             Search, Waits, Kept, Sleeps, Holds, Signals, Posts
    <3> HIDE DEF l2
    <3> QED BY <3>1, <3>2, <1>a, <1>b, GoQuiet
  <2>3. CASE less /\ ~(size > l.size) /\ Go(t, "visit", [l1 EXCEPT !.seen = @ + 1])
    <3> DEFINE l2 == [l1 EXCEPT !.seen = @ + 1]
    <3>1. Go(t, "visit", l2)
      BY <2>0, <2>3 DEF Loc
    <3>2. Fits("visit", l2, b, z, n) /\ Kept(pc[t], l, "visit", l2, b, z)
         /\ program[t] # <<>> /\ "visit" # "idle"
      <4>1. pc[t] = "v_head" /\ less /\ ~(size > l.size)
        BY <2>0, <2>3 DEF Loc, At
      <4> HIDE DEF l, b, z, n
      <4> QED BY <1>b, <4>1, NoLocalsFields, <2>a DEF Null, Fields, Fits, Typed, Pointing, Permits,
             Search, Waits, Kept, Sleeps, Holds, Signals, Posts
    <3> HIDE DEF l2
    <3> QED BY <3>1, <3>2, <1>a, <1>b, GoQuiet
  <2> QED BY <2>b, <2>1, <2>2, <2>3
<1>4. CASE DequeueTail(t)
  <2> DEFINE i == prod[l.prod].tailIndex
  <2>0. pc[t] = "deq" /\ l.prod \in 1..n
    <3>1. pc[t] = "deq"
      BY <1>4 DEF DequeueTail, At
    <3> QED BY <3>1, <1>b DEF Fits, Typed, Pointing, Null
  <2>a. i \in Indexes /\ Go(t, "d_over", [l EXCEPT !.tail = i])
    BY <1>4, <2>0, <1>d DEF DequeueTail, Loc
  <2> HIDE DEF i
  <2> DEFINE l2 == [l EXCEPT !.tail = i]
  <2>1. Go(t, "d_over", l2)
    BY <2>0, <2>a DEF Loc
  <2>2. Fits("d_over", l2, b, z, n) /\ Kept(pc[t], l, "d_over", l2, b, z)
       /\ program[t] # <<>> /\ "d_over" # "idle"
    <3>1. pc[t] = "deq"
      BY <2>0, <2>a DEF Loc, At
    <3> HIDE DEF l, b, z, n
    <3> QED BY <1>b, <3>1, NoLocalsFields, <2>a DEF Null, Fields, Fits, Typed, Pointing, Permits,
           Search, Waits, Kept, Sleeps, Holds, Signals, Posts
  <2> HIDE DEF l2
  <2> QED BY <2>1, <2>2, <1>a, <1>b, GoQuiet
<1>5. CASE DequeueOvercommit(t)
  <2> DEFINE i == prod[l.prod].dequeueOvercommit
  <2>0. pc[t] = "d_over" /\ l.prod \in 1..n
    <3>1. pc[t] = "d_over"
      BY <1>5 DEF DequeueOvercommit, At
    <3> QED BY <3>1, <1>b DEF Fits, Typed, Pointing, Null
  <2>a. i \in Indexes /\ Go(t, "d_opt", [l EXCEPT !.over = i])
    BY <1>5, <2>0, <1>d DEF DequeueOvercommit, Loc
  <2> HIDE DEF i
  <2> DEFINE l2 == [l EXCEPT !.over = i]
  <2>1. Go(t, "d_opt", l2)
    BY <2>0, <2>a DEF Loc
  <2>2. Fits("d_opt", l2, b, z, n) /\ Kept(pc[t], l, "d_opt", l2, b, z) /\ program[t] # <<>>
       /\ "d_opt" # "idle"
    <3>1. pc[t] = "d_over"
      BY <2>0, <2>a DEF Loc, At
    <3> HIDE DEF l, b, z, n
    <3> QED BY <1>b, <3>1, NoLocalsFields, <2>a DEF Null, Fields, Fits, Typed, Pointing, Permits,
           Search, Waits, Kept, Sleeps, Holds, Signals, Posts
  <2> HIDE DEF l2
  <2> QED BY <2>1, <2>2, <1>a, <1>b, GoQuiet
<1>6. CASE DequeueCheck(t)
  <2>1. CASE circular_less_than(Minus(prod[l.prod].dequeueOptimisticCount, l.over), l.tail)
    <3> DEFINE l2 == [l EXCEPT !.tail = 0]
    <3>1. Go(t, "d_claim", l2)
      BY <1>6, <2>1 DEF DequeueCheck, Loc
    <3>2. Fits("d_claim", l2, b, z, n) /\ Kept(pc[t], l, "d_claim", l2, b, z)
         /\ program[t] # <<>> /\ "d_claim" # "idle"
      <4>1. pc[t] = "d_opt" /\ ~b
        BY <1>6, <2>1 DEF DequeueCheck, Loc, At
      <4> HIDE DEF l, b, z, n
      <4> QED BY <1>b, <4>1, NoLocalsFields DEF Null, Fields, Fits, Typed, Pointing, Permits, Search,
             Waits, Kept, Sleeps, Holds, Signals, Posts
    <3> HIDE DEF l2
    <3> QED BY <3>1, <3>2, <1>a, <1>b, GoQuiet
  <2>2. CASE ~circular_less_than(Minus(prod[l.prod].dequeueOptimisticCount, l.over), l.tail)
    <3> DEFINE l2 == [l EXCEPT !.tail = 0]
    <3>1. Go(t, "d_fail", l2)
      BY <1>6, <2>2 DEF DequeueCheck, Loc
    <3>2. Fits("d_fail", l2, b, z, n) /\ Kept(pc[t], l, "d_fail", l2, b, z)
         /\ program[t] # <<>> /\ "d_fail" # "idle"
      <4>1. pc[t] = "d_opt" /\ ~b
        BY <1>6, <2>2 DEF DequeueCheck, Loc, At
      <4> HIDE DEF l, b, z, n
      <4> QED BY <1>b, <4>1, NoLocalsFields DEF Null, Fields, Fits, Typed, Pointing, Permits, Search,
             Waits, Kept, Sleeps, Holds, Signals, Posts
    <3> HIDE DEF l2
    <3> QED BY <3>1, <3>2, <1>a, <1>b, GoQuiet
  <2> QED BY <1>6, <2>1, <2>2 DEF DequeueCheck, Loc
<1>7. CASE DequeueClaim(t)
  <2> DEFINE i == prod[l.prod].dequeueOptimisticCount
  <2>0. pc[t] = "d_claim" /\ l.prod \in 1..n
    <3>1. pc[t] = "d_claim"
      BY <1>7 DEF DequeueClaim, At
    <3> QED BY <3>1, <1>b DEF Fits, Typed, Pointing, Null
  <2>a. i \in Indexes /\ Go(t, "d_recheck", [l EXCEPT !.my = i])
    BY <1>7, <2>0, <1>d DEF DequeueClaim, Loc
  <2> HIDE DEF i
  <2> DEFINE l2 == [l EXCEPT !.my = i]
  <2>1. Go(t, "d_recheck", l2)
    BY <2>0, <2>a DEF Loc
  <2>2. Fits("d_recheck", l2, b, z, n) /\ Kept(pc[t], l, "d_recheck", l2, b, z)
       /\ program[t] # <<>> /\ "d_recheck" # "idle"
    <3>1. pc[t] = "d_claim"
      BY <2>0, <2>a DEF Loc, At
    <3> HIDE DEF l, b, z, n
    <3> QED BY <1>b, <3>1, NoLocalsFields, <2>a DEF Null, Fields, Fits, Typed, Pointing, Permits,
           Search, Waits, Kept, Sleeps, Holds, Signals, Posts
  <2> HIDE DEF l2
  <2> QED BY <2>1, <2>2, <1>a, <1>b, GoQuiet
<1>8. CASE DequeueRecheck(t)
  <2>1. CASE circular_less_than(Minus(l.my, l.over), prod[l.prod].tailIndex)
    <3> DEFINE l2 == [l EXCEPT !.my = 0, !.over = 0]
    <3>1. Go(t, "d_head", l2)
      BY <1>8, <2>1 DEF DequeueRecheck, Loc
    <3>2. Fits("d_head", l2, b, z, n) /\ Kept(pc[t], l, "d_head", l2, b, z)
         /\ program[t] # <<>> /\ "d_head" # "idle"
      <4>1. pc[t] = "d_recheck" /\ ~b
        BY <1>8, <2>1 DEF DequeueRecheck, Loc, At
      <4> HIDE DEF l, b, z, n
      <4> QED BY <1>b, <4>1, NoLocalsFields DEF Null, Fields, Fits, Typed, Pointing, Permits, Search,
             Waits, Kept, Sleeps, Holds, Signals, Posts
    <3> HIDE DEF l2
    <3> QED BY <3>1, <3>2, <1>a, <1>b, GoQuiet
  <2>2. CASE ~circular_less_than(Minus(l.my, l.over), prod[l.prod].tailIndex)
    <3> DEFINE l2 == [l EXCEPT !.my = 0, !.over = 0]
    <3>1. Go(t, "d_undo", l2)
      BY <1>8, <2>2 DEF DequeueRecheck, Loc
    <3>2. Fits("d_undo", l2, b, z, n) /\ Kept(pc[t], l, "d_undo", l2, b, z)
         /\ program[t] # <<>> /\ "d_undo" # "idle"
      <4>1. pc[t] = "d_recheck" /\ ~b
        BY <1>8, <2>2 DEF DequeueRecheck, Loc, At
      <4> HIDE DEF l, b, z, n
      <4> QED BY <1>b, <4>1, NoLocalsFields DEF Null, Fields, Fits, Typed, Pointing, Permits, Search,
             Waits, Kept, Sleeps, Holds, Signals, Posts
    <3> HIDE DEF l2
    <3> QED BY <3>1, <3>2, <1>a, <1>b, GoQuiet
  <2> QED BY <1>8, <2>1, <2>2 DEF DequeueRecheck, Loc
<1>9. CASE DequeueUndo(t)
  <2> DEFINE l2 == l
  <2>1. Go(t, "d_fail", l2)
    BY <1>9 DEF DequeueUndo, Loc
  <2>2. Fits("d_fail", l2, b, z, n) /\ Kept(pc[t], l, "d_fail", l2, b, z)
       /\ program[t] # <<>> /\ "d_fail" # "idle"
    <3>1. pc[t] = "d_undo"
      BY <1>9 DEF DequeueUndo, Loc, At
    <3> HIDE DEF l, b, z, n
    <3> QED BY <1>b, <3>1, NoLocalsFields DEF Null, Fields, Fits, Typed, Pointing, Permits, Search,
           Waits, Kept, Sleeps, Holds, Signals, Posts
  <2> HIDE DEF l2
  <2> QED BY <2>1, <2>2, <1>a, <1>b, GoQuiet
<1>10. CASE DequeueFailed(t)
  <2> DEFINE next == IF l.rest THEN prod[l.prod].next ELSE producerListTail
             other == IF next = l.best THEN prod[next].next ELSE next
  <2>0. pc[t] = "d_fail" /\ l.prod \in 1..n
    <3>1. pc[t] = "d_fail"
      BY <1>10 DEF DequeueFailed, At
    <3> QED BY <3>1, <1>b DEF Fits, Typed, Pointing, Null
  <2>a. other \in 0..n
    <3>1. l.best \in 1..n
      BY <2>0, <1>b DEF Fits, Typed, Pointing, Permits, Null
    <3>2. next \in 0..n
      BY <2>0, <1>d
    <3> HIDE DEF next
    <3> QED BY <3>1, <3>2, <1>d
  <2>b. IF other = Null THEN Go(t, "scan", NoLocals)
        ELSE Go(t, "deq", [NoLocals EXCEPT !.prod = other, !.best = l.best, !.rest = TRUE])
    BY <1>10 DEF DequeueFailed, Loc
  <2> HIDE DEF other
  <2>1. CASE other = Null
    <3> DEFINE l2 == NoLocals
    <3>1. Go(t, "scan", l2)
      BY <2>0, <2>b, <2>1 DEF Loc
    <3>2. Fits("scan", l2, b, z, n) /\ Kept(pc[t], l, "scan", l2, b, z) /\ program[t] # <<>>
         /\ "scan" # "idle"
      <4>1. pc[t] = "d_fail"
        BY <2>0, <2>b, <2>1 DEF Loc, At
      <4> HIDE DEF l, b, z, n
      <4> QED BY <1>b, <4>1, NoLocalsFields DEF Null, Fields, Fits, Typed, Pointing, Permits, Search,
             Waits, Kept, Sleeps, Holds, Signals, Posts
    <3> HIDE DEF l2
    <3> QED BY <3>1, <3>2, <1>a, <1>b, GoQuiet
  <2>2. CASE other # Null
    <3> DEFINE l2 == [NoLocals EXCEPT !.prod = other, !.best = l.best, !.rest = TRUE]
    <3>1. Go(t, "deq", l2)
      BY <2>0, <2>b, <2>2 DEF Loc
    <3>2. Fits("deq", l2, b, z, n) /\ Kept(pc[t], l, "deq", l2, b, z) /\ program[t] # <<>>
         /\ "deq" # "idle"
      <4>1. pc[t] = "d_fail" /\ other # Null
        BY <2>0, <2>b, <2>2 DEF Loc, At
      <4> HIDE DEF l, b, z, n
      <4> QED BY <1>b, <4>1, NoLocalsFields, <2>a DEF Null, Fields, Fits, Typed, Pointing, Permits,
             Search, Waits, Kept, Sleeps, Holds, Signals, Posts
    <3> HIDE DEF l2
    <3> QED BY <3>1, <3>2, <1>a, <1>b, GoQuiet
  <2> QED BY <2>1, <2>2
<1>11. CASE LookupHeader(t)
  <2> DEFINE l2 == [l EXCEPT !.hdr = blockIndex(l.prod)]
  <2>1. Go(t, "d_tail", l2)
    BY <1>11 DEF LookupHeader, Loc
  <2>2. Fits("d_tail", l2, b, z, n) /\ Kept(pc[t], l, "d_tail", l2, b, z)
       /\ program[t] # <<>> /\ "d_tail" # "idle"
    <3>1. pc[t] = "d_index"
      BY <1>11 DEF LookupHeader, Loc, At
    <3> HIDE DEF l, b, z, n
    <3> QED BY <1>b, <3>1, NoLocalsFields DEF Null, Fields, Fits, Typed, Pointing, Permits, Search,
           Waits, Kept, Sleeps, Holds, Signals, Posts
  <2> HIDE DEF l2
  <2> QED BY <2>1, <2>2, <1>a, <1>b, GoQuiet
<1>12. CASE LookupTail(t)
  <2> DEFINE l2 == [l EXCEPT !.tail = prod[l.prod].headers[l.hdr].tail]
  <2>1. Go(t, "d_entry", l2)
    BY <1>12 DEF LookupTail, Loc
  <2>2. Fits("d_entry", l2, b, z, n) /\ Kept(pc[t], l, "d_entry", l2, b, z)
       /\ program[t] # <<>> /\ "d_entry" # "idle"
    <3>1. pc[t] = "d_tail"
      BY <1>12 DEF LookupTail, Loc, At
    <3> HIDE DEF l, b, z, n
    <3> QED BY <1>b, <3>1, NoLocalsFields DEF Null, Fields, Fits, Typed, Pointing, Permits, Search,
           Waits, Kept, Sleeps, Holds, Signals, Posts
  <2> HIDE DEF l2
  <2> QED BY <2>1, <2>2, <1>a, <1>b, GoQuiet
<1>13. CASE LookupEntry(t)
  <2>1. CASE b
    <3> DEFINE l2 == [l EXCEPT !.slot = SlotFor(l.prod, prod[l.prod].headers[l.hdr], l.tail,
         l.index), !.tail = 0]
    <3>1. Go(t, "b_read", l2)
      BY <1>13, <2>1 DEF LookupEntry, Loc
    <3>2. Fits("b_read", l2, b, z, n) /\ Kept(pc[t], l, "b_read", l2, b, z)
         /\ program[t] # <<>> /\ "b_read" # "idle"
      <4>1. pc[t] = "d_entry"
        BY <1>13, <2>1 DEF LookupEntry, Loc, At
      <4> HIDE DEF l, b, z, n
      <4> QED BY <1>b, <4>1, NoLocalsFields DEF Null, Fields, Fits, Typed, Pointing, Permits, Search,
             Waits, Kept, Sleeps, Holds, Signals, Posts
    <3> HIDE DEF l2
    <3> QED BY <3>1, <3>2, <1>a, <1>b, GoQuiet
  <2>2. CASE ~b
    <3> DEFINE l2 == [l EXCEPT !.entry = Entry(prod[l.prod].headers[l.hdr], SlotFor(l.prod,
         prod[l.prod].headers[l.hdr], l.tail, l.index)), !.hdr = 0, !.tail = 0]
    <3>1. Go(t, "d_read", l2)
      BY <1>13, <2>2 DEF LookupEntry, Loc
    <3>2. Fits("d_read", l2, b, z, n) /\ Kept(pc[t], l, "d_read", l2, b, z)
         /\ program[t] # <<>> /\ "d_read" # "idle"
      <4>1. pc[t] = "d_entry"
        BY <1>13, <2>2 DEF LookupEntry, Loc, At
      <4> HIDE DEF l, b, z, n
      <4> QED BY <1>b, <4>1, NoLocalsFields DEF Null, Fields, Fits, Typed, Pointing, Permits, Search,
             Waits, Kept, Sleeps, Holds, Signals, Posts
    <3> HIDE DEF l2
    <3> QED BY <3>1, <3>2, <1>a, <1>b, GoQuiet
  <2> QED BY <1>13, <2>1, <2>2 DEF LookupEntry, Loc
<1>14. CASE Read(t)
  <2> DEFINE l2 == [l EXCEPT !.blk = prod[l.prod].entries[l.entry].value, !.want = 0,
       !.items = <<elements[prod[l.prod].entries[l.entry].value][Offset(l.index)]>>]
  <2>1. Go(t, "d_empty", l2)
    BY <1>14 DEF Read, Loc
  <2>2. Fits("d_empty", l2, b, z, n) /\ Kept(pc[t], l, "d_empty", l2, b, z)
       /\ program[t] # <<>> /\ "d_empty" # "idle"
    <3>1. pc[t] = "d_read"
      BY <1>14 DEF Read, Loc, At
    <3> HIDE DEF l, b, z, n
    <3> QED BY <1>b, <3>1, NoLocalsFields DEF Null, Fields, Fits, Typed, Pointing, Permits, Search,
           Waits, Kept, Sleeps, Holds, Signals, Posts
  <2> HIDE DEF l2
  <2> QED BY <2>1, <2>2, <1>a, <1>b, GoQuiet
<1>15. CASE SetEmpty(t)
  <2>1. CASE elementsCompletelyDequeued[l.blk] = BlockSize - 1
    <3> DEFINE l2 == l
    <3>1. Go(t, "d_release", l2)
      BY <1>15, <2>1 DEF SetEmpty, Loc
    <3>2. Fits("d_release", l2, b, z, n) /\ Kept(pc[t], l, "d_release", l2, b, z)
         /\ program[t] # <<>> /\ "d_release" # "idle"
      <4>1. pc[t] = "d_empty"
        BY <1>15, <2>1 DEF SetEmpty, Loc, At
      <4> HIDE DEF l, b, z, n
      <4> QED BY <1>b, <4>1, NoLocalsFields DEF Null, Fields, Fits, Typed, Pointing, Permits, Search,
             Waits, Kept, Sleeps, Holds, Signals, Posts
    <3> HIDE DEF l2
    <3> QED BY <3>1, <3>2, <1>a, <1>b, GoQuiet
  <2>2. CASE ~(elementsCompletelyDequeued[l.blk] = BlockSize - 1)
    <3> DEFINE l2 == l
    <3>1. Proceed(t, l2)
      BY <1>15, <2>2 DEF SetEmpty, Loc
    <3>2. /\ Typed(l2, n) /\ ~l2.again /\ (l2.permits > 0 => b) /\ program[t] # <<>>
          /\ l2.prod # Null \/ (l2.permits = 0 /\ l2.want = 0)
          /\ Sleeps(pc[t]) = 0 /\ Holds(pc[t], l, b) = l2.permits
          /\ Signals(pc[t], z) = 0 /\ Posts(pc[t], l) = 0
      <4>1. pc[t] = "d_empty"
        BY <1>15, <2>2 DEF SetEmpty, At
      <4> HIDE DEF l, b, z, n
      <4> QED BY <1>b, <4>1 DEF Sleeps, Holds, Signals, Posts, Null, Fields, Fits, Typed, Pointing,
             Permits, Search, Waits
    <3> HIDE DEF l2
    <3> QED BY <3>1, <3>2, <1>a, ProceedQuiet
  <2> QED BY <1>15, <2>1, <2>2 DEF SetEmpty, Loc
<1>16. CASE Release(t)
  <2> DEFINE l2 == [l EXCEPT !.entry = 0, !.size = 0]
  <2>1. Go(t, "f_add", l2)
    BY <1>16 DEF Release, Loc
  <2>2. Fits("f_add", l2, b, z, n) /\ Kept(pc[t], l, "f_add", l2, b, z) /\ program[t] # <<>>
       /\ "f_add" # "idle"
    <3>1. pc[t] = "d_release"
      BY <1>16 DEF Release, Loc, At
    <3> HIDE DEF l, b, z, n
    <3> QED BY <1>b, <3>1, NoLocalsFields DEF Null, Fields, Fits, Typed, Pointing, Permits, Search,
           Waits, Kept, Sleeps, Holds, Signals, Posts
  <2> HIDE DEF l2
  <2> QED BY <2>1, <2>2, <1>a, <1>b, GoQuiet
<1> QED BY <1>1, <1>2, <1>3, <1>4, <1>5, <1>6, <1>7, <1>8, <1>9, <1>10, <1>11, <1>12, <1>13,
     <1>14, <1>15, <1>16 DEF DequeueStep

(* A bulk dequeue keeps its permits until it claims elements for them. *)
LEMMA BulkDequeueLocal ==
  ASSUME NEW t \in Threads, ControlInv, DataInv, ThreadInv(t), BulkDequeueStep(t)
  PROVE  StepOf(t) /\ KeepsOwing(t)
<1> DEFINE l == lv[t]
           b == Bulk(t)
           z == Size(t)
           n == Len(taken)
<1>a. Len(taken') = n /\ taken' \in Seq(Nat) /\ ControlInv /\ ThreadInv(t) /\ taken \in Seq(Nat)
  BY DEF BulkDequeueStep, BulkScan, BulkCheck, BulkRecheck, BulkOvercommit, BulkRead, SetManyEmpty,
         loads, prodUnchanged, dataUnchanged, history, DataInv, HistoryInv
<1>b. /\ Fits(pc[t], l, b, z, n) /\ (pc[t] # "idle" => program[t] # <<>>)
      /\ z \in Nat /\ z > 0 /\ (z > 1 => b) /\ (~b => z = 1) /\ n \in Nat
  BY SizeType DEF ThreadInv, Size, DataInv, HistoryInv
<1>c. /\ n = Len(prod) /\ producerListTail \in 0..n
      /\ \A p \in 1..n : Sound(prod[p], n)
  BY DEF DataInv, ProducersInv
<1>d. /\ \A p \in 1..n : prod[p].tailIndex \in Indexes /\ prod[p].dequeueOptimisticCount \in Indexes
      /\ producerListTail \in 0..n
  BY <1>c DEF Sound
<1>e. /\ IndexMod \in Nat /\ IndexMod > 0 /\ Indexes \subseteq Nat
      /\ \A i \in Nat : \A j \in Nat : Minus(i, j) \in Indexes
  <2>1. IndexMod \in Nat /\ IndexMod > 0
    BY SizesAssumption
  <2>2. \A i \in Nat : \A j \in Nat : Minus(i, j) \in Indexes
    BY <2>1, ModIndex DEF Minus
  <2> QED BY <2>1, <2>2 DEF Indexes
<1>1. CASE BulkScan(t)
  <2>1. CASE producerListTail = Null
    <3> DEFINE l2 == [l EXCEPT !.prod = producerListTail]
    <3>1. Go(t, "b_scan", l2)
      BY <1>1, <2>1 DEF BulkScan, Loc
    <3>2. Fits("b_scan", l2, b, z, n) /\ Kept(pc[t], l, "b_scan", l2, b, z)
         /\ program[t] # <<>> /\ "b_scan" # "idle"
      <4>1. pc[t] = "b_scan"
        BY <1>1, <2>1 DEF BulkScan, Loc, At
      <4> HIDE DEF l, b, z, n
      <4> QED BY <1>b, <4>1, NoLocalsFields, <1>d DEF Null, Fields, Fits, Typed, Pointing, Permits,
             Search, Waits, Kept, Sleeps, Holds, Signals, Posts
    <3> HIDE DEF l2
    <3> QED BY <3>1, <3>2, <1>a, <1>b, GoQuiet
  <2>2. CASE producerListTail # Null
    <3> DEFINE l2 == [l EXCEPT !.prod = producerListTail]
    <3>1. Go(t, "deq", l2)
      BY <1>1, <2>2 DEF BulkScan, Loc
    <3>2. Fits("deq", l2, b, z, n) /\ Kept(pc[t], l, "deq", l2, b, z) /\ program[t] # <<>>
         /\ "deq" # "idle"
      <4>1. pc[t] = "b_scan" /\ producerListTail # Null
        BY <1>1, <2>2 DEF BulkScan, Loc, At
      <4> HIDE DEF l, b, z, n
      <4> QED BY <1>b, <4>1, NoLocalsFields, <1>d DEF Null, Fields, Fits, Typed, Pointing, Permits,
             Search, Waits, Kept, Sleeps, Holds, Signals, Posts
    <3> HIDE DEF l2
    <3> QED BY <3>1, <3>2, <1>a, <1>b, GoQuiet
  <2> QED BY <1>1, <2>1, <2>2 DEF BulkScan, Loc
<1>2. CASE BulkCheck(t)
  <2> DEFINE free == Minus(prod[l.prod].dequeueOptimisticCount, l.over)
             desired == Minus(l.tail, free)
             want == Least(desired, l.permits)
  <2>0. pc[t] = "d_opt" /\ l.prod \in 1..n
    <3>1. pc[t] = "d_opt"
      BY <1>2 DEF BulkCheck, At
    <3> QED BY <3>1, <1>b DEF Fits, Typed, Pointing, Null
  <2>a. b /\ IF circular_less_than(0, desired)
                THEN Go(t, "d_claim", [l EXCEPT !.tail = 0, !.want = want])
                ELSE NextProducer(t, l)
    BY <1>2 DEF BulkCheck, Loc
  <2>b. want \in 0..l.permits
    <3>1. l.tail \in Indexes /\ l.over \in Indexes /\ l.permits \in Nat
      BY <2>0, <1>b DEF Fits, Search, Typed
    <3>2. free \in Nat
      BY <2>0, <3>1, <1>d, <1>e
    <3> HIDE DEF free
    <3>3. desired \in Nat
      BY <3>1, <3>2, <1>e
    <3> HIDE DEF desired
    <3> QED BY <3>1, <3>3 DEF Least
  <2>1. CASE circular_less_than(0, desired)
    <3>0. Go(t, "d_claim", [l EXCEPT !.tail = 0, !.want = want])
      BY <2>a, <2>1
    <3> HIDE DEF want
    <3> DEFINE l2 == [l EXCEPT !.tail = 0, !.want = want]
    <3>1. Go(t, "d_claim", l2)
      BY <2>0, <2>a, <3>0 DEF Loc
    <3>2. Fits("d_claim", l2, b, z, n) /\ Kept(pc[t], l, "d_claim", l2, b, z)
         /\ program[t] # <<>> /\ "d_claim" # "idle"
      <4>1. pc[t] = "d_opt" /\ b
        BY <2>0, <2>a, <3>0 DEF Loc, At
      <4> HIDE DEF l, b, z, n
      <4> QED BY <1>b, <4>1, NoLocalsFields, <2>b DEF Null, Fields, Fits, Typed, Pointing, Permits,
             Search, Waits, Kept, Sleeps, Holds, Signals, Posts
    <3> HIDE DEF l2
    <3> QED BY <3>1, <3>2, <1>a, <1>b, GoQuiet
  <2>2. CASE ~circular_less_than(0, desired)
    <3>0. NextProducer(t, l)
      BY <2>a, <2>2
    <3>1. /\ Typed(l, n) /\ l.prod # Null /\ program[t] # <<>> /\ b
          /\ Sleeps(pc[t]) = 0 /\ Holds(pc[t], l, b) = l.permits
          /\ Signals(pc[t], z) = 0 /\ Posts(pc[t], l) = 0
      <4>1. pc[t] = "d_opt" /\ b
        BY <2>0, <2>a, <3>0
      <4> HIDE DEF l, b, z, n
      <4> QED BY <1>b, <4>1 DEF Sleeps, Holds, Signals, Posts, Null, Fields, Fits, Typed, Pointing,
             Permits, Search, Waits
    <3> QED BY <2>0, <2>a, <3>0, <3>1, <1>a, NextQuiet
  <2> QED BY <2>1, <2>2
<1>3. CASE BulkRecheck(t)
  <2> DEFINE free == Minus(l.my, l.over)
             left == Minus(prod[l.prod].tailIndex, free)
             actual == IF circular_less_than(0, left) THEN Least(l.want, left) ELSE 0
  <2>0. pc[t] = "d_recheck" /\ l.prod \in 1..n
    <3>1. pc[t] = "d_recheck"
      BY <1>3 DEF BulkRecheck, At
    <3> QED BY <3>1, <1>b DEF Fits, Typed, Pointing, Null
  <2>a. b /\ Go(t, IF actual < l.want THEN "b_over" ELSE "d_head", [l EXCEPT !.my = 0,
       !.over = l.want - actual, !.want = actual])
    BY <1>3 DEF BulkRecheck, Loc
  <2>b. actual \in 0..l.want /\ l.want \in 0..l.permits
    <3>1. l.my \in Indexes /\ l.over \in Indexes /\ l.permits \in Nat /\ l.want \in 0..l.permits
      BY <2>0, <1>b DEF Fits, Search, Typed, Permits
    <3>2. free \in Nat
      BY <3>1, <1>e
    <3> HIDE DEF free
    <3>3. left \in Nat
      BY <2>0, <3>2, <1>d, <1>e
    <3> HIDE DEF left
    <3> QED BY <3>1, <3>3 DEF Least
  <2> HIDE DEF actual
  <2>1. CASE actual < l.want
    <3> DEFINE l2 == [l EXCEPT !.my = 0, !.over = l.want - actual, !.want = actual]
    <3>1. Go(t, "b_over", l2)
      BY <2>0, <2>a, <2>1 DEF Loc
    <3>2. Fits("b_over", l2, b, z, n) /\ Kept(pc[t], l, "b_over", l2, b, z)
         /\ program[t] # <<>> /\ "b_over" # "idle"
      <4>1. pc[t] = "d_recheck" /\ b
        BY <2>0, <2>a, <2>1 DEF Loc, At
      <4> HIDE DEF l, b, z, n
      <4> QED BY <1>b, <4>1, NoLocalsFields, <2>b DEF Null, Fields, Fits, Typed, Pointing, Permits,
             Search, Waits, Kept, Sleeps, Holds, Signals, Posts
    <3> HIDE DEF l2
    <3> QED BY <3>1, <3>2, <1>a, <1>b, GoQuiet
  <2>2. CASE ~(actual < l.want)
    <3> DEFINE l2 == [l EXCEPT !.my = 0, !.over = l.want - actual, !.want = actual]
    <3>1. Go(t, "d_head", l2)
      BY <2>0, <2>a, <2>2 DEF Loc
    <3>2. Fits("d_head", l2, b, z, n) /\ Kept(pc[t], l, "d_head", l2, b, z)
         /\ program[t] # <<>> /\ "d_head" # "idle"
      <4>1. pc[t] = "d_recheck" /\ b
        BY <2>0, <2>a, <2>2 DEF Loc, At
      <4> HIDE DEF l, b, z, n
      <4> QED BY <1>b, <4>1, NoLocalsFields, <2>b DEF Null, Fields, Fits, Typed, Pointing, Permits,
             Search, Waits, Kept, Sleeps, Holds, Signals, Posts
    <3> HIDE DEF l2
    <3> QED BY <3>1, <3>2, <1>a, <1>b, GoQuiet
  <2> QED BY <2>1, <2>2
<1>4. CASE BulkOvercommit(t)
  <2>0. pc[t] = "b_over" /\ l.prod \in 1..n
    <3>1. pc[t] = "b_over"
      BY <1>4 DEF BulkOvercommit, At
    <3> QED BY <3>1, <1>b DEF Fits, Typed, Pointing, Null
  <2>1. CASE l.want = 0
    <3>0. NextProducer(t, l)
      BY <1>4, <2>1 DEF BulkOvercommit, Loc
    <3>1. /\ Typed(l, n) /\ l.prod # Null /\ program[t] # <<>> /\ b
          /\ Sleeps(pc[t]) = 0 /\ Holds(pc[t], l, b) = l.permits
          /\ Signals(pc[t], z) = 0 /\ Posts(pc[t], l) = 0
      <4>1. pc[t] = "b_over"
        BY <2>0, <3>0
      <4> HIDE DEF l, b, z, n
      <4> QED BY <1>b, <4>1 DEF Sleeps, Holds, Signals, Posts, Null, Fields, Fits, Typed, Pointing,
             Permits, Search, Waits
    <3> QED BY <2>0, <3>0, <3>1, <1>a, NextQuiet
  <2>2. CASE l.want # 0
    <3> DEFINE l2 == [l EXCEPT !.over = 0]
    <3>1. Go(t, "d_head", l2)
      BY <1>4, <2>2 DEF BulkOvercommit, Loc
    <3>2. Fits("d_head", l2, b, z, n) /\ Kept(pc[t], l, "d_head", l2, b, z)
         /\ program[t] # <<>> /\ "d_head" # "idle"
      <4>1. pc[t] = "b_over"
        BY <1>4, <2>2 DEF BulkOvercommit, Loc, At
      <4> HIDE DEF l, b, z, n
      <4> QED BY <1>b, <4>1, NoLocalsFields DEF Null, Fields, Fits, Typed, Pointing, Permits, Search,
             Waits, Kept, Sleeps, Holds, Signals, Posts
    <3> HIDE DEF l2
    <3> QED BY <3>1, <3>2, <1>a, <1>b, GoQuiet
  <2> QED BY <2>1, <2>2
<1>5. CASE BulkRead(t)
  <2> DEFINE hd == prod[l.prod].headers[l.hdr]
             e == Entry(hd, l.slot)
             x == prod[l.prod].entries[e].value
             o == Offset(l.index)
             m == Least(l.want, BlockSize - o)
             taking == [i \in 1..m |-> elements[x][o + i - 1]]
             after == (l.slot + 1) % IndexCapacity(hd)
  <2>0. /\ pc[t] = "b_read"
        /\ Go(t, "b_empty", [l EXCEPT !.entry = e, !.blk = x, !.size = m, !.want = l.want - m,
                !.pos = l.pos + m, !.index = Plus(l.index, m), !.slot = after,
                !.items = l.items \o taking])
    BY <1>5 DEF BulkRead, Loc, At
  <2> HIDE DEF e, x, m, taking, after
  <2> DEFINE l2 == [l EXCEPT !.entry = e, !.blk = x, !.size = m, !.want = l.want - m,
       !.pos = l.pos + m, !.index = Plus(l.index, m), !.slot = after,
       !.items = l.items \o taking]
  <2>1. Go(t, "b_empty", l2)
    BY <2>0 DEF Loc
  <2>2. Fits("b_empty", l2, b, z, n) /\ Kept(pc[t], l, "b_empty", l2, b, z)
       /\ program[t] # <<>> /\ "b_empty" # "idle"
    <3>1. pc[t] = "b_read"
      BY <2>0 DEF Loc, At
    <3> HIDE DEF l, b, z, n
    <3> QED BY <1>b, <3>1, NoLocalsFields DEF Null, Fields, Fits, Typed, Pointing, Permits, Search,
           Waits, Kept, Sleeps, Holds, Signals, Posts
  <2> HIDE DEF l2
  <2> QED BY <2>1, <2>2, <1>a, <1>b, GoQuiet
<1>6. CASE SetManyEmpty(t)
  <2>1. CASE elementsCompletelyDequeued[l.blk] + l.size = BlockSize
    <3> DEFINE l2 == l
    <3>1. Go(t, "d_release", l2)
      BY <1>6, <2>1 DEF SetManyEmpty, Loc
    <3>2. Fits("d_release", l2, b, z, n) /\ Kept(pc[t], l, "d_release", l2, b, z)
         /\ program[t] # <<>> /\ "d_release" # "idle"
      <4>1. pc[t] = "b_empty"
        BY <1>6, <2>1 DEF SetManyEmpty, Loc, At
      <4> HIDE DEF l, b, z, n
      <4> QED BY <1>b, <4>1, NoLocalsFields DEF Null, Fields, Fits, Typed, Pointing, Permits, Search,
             Waits, Kept, Sleeps, Holds, Signals, Posts
    <3> HIDE DEF l2
    <3> QED BY <3>1, <3>2, <1>a, <1>b, GoQuiet
  <2>2. CASE ~(elementsCompletelyDequeued[l.blk] + l.size = BlockSize)
    <3> DEFINE l2 == [l EXCEPT !.entry = 0, !.blk = 0, !.size = 0]
    <3>1. Proceed(t, l2)
      BY <1>6, <2>2 DEF SetManyEmpty, Loc
    <3>2. /\ Typed(l2, n) /\ ~l2.again /\ (l2.permits > 0 => b) /\ program[t] # <<>>
          /\ l2.prod # Null \/ (l2.permits = 0 /\ l2.want = 0)
          /\ Sleeps(pc[t]) = 0 /\ Holds(pc[t], l, b) = l2.permits
          /\ Signals(pc[t], z) = 0 /\ Posts(pc[t], l) = 0
      <4>1. pc[t] = "b_empty"
        BY <1>6, <2>2 DEF SetManyEmpty, At
      <4> HIDE DEF l, b, z, n
      <4> QED BY <1>b, <4>1 DEF Sleeps, Holds, Signals, Posts, Null, Fields, Fits, Typed, Pointing,
             Permits, Search, Waits
    <3> HIDE DEF l2
    <3> QED BY <3>1, <3>2, <1>a, ProceedQuiet
  <2> QED BY <1>6, <2>1, <2>2 DEF SetManyEmpty, Loc
<1> QED BY <1>1, <1>2, <1>3, <1>4, <1>5, <1>6 DEF BulkDequeueStep

(* An enqueue with a token that fails returns at once. *)
LEMMA FailsQuiet ==
  ASSUME NEW t \in Threads, ControlInv, DataInv, ThreadInv(t), Return(t),
         Len(taken') = Len(taken), taken' \in Seq(Nat), pc[t] \in PtrLabels
  PROVE  StepOf(t) /\ KeepsOwing(t)
<1> DEFINE l == lv[t]
           b == Bulk(t)
           z == Size(t)
           n == Len(taken)
<1>a. taken' \in Seq(Nat) /\ ControlInv /\ ThreadInv(t) /\ Return(t)
  OBVIOUS
<1>b. Fits(pc[t], l, b, z, n) /\ program[t] # <<>> /\ n \in Nat
  BY DEF ThreadInv, DataInv, HistoryInv
<1>1. Idle(pc[t], l, b, z)
  <2> HIDE DEF l, b, z, n
  <2> QED BY <1>b DEF Null, Fields, Fits, Typed, Pointing, Permits, Search, Waits, Idle, Sleeps, Holds,
                      Signals, Posts
<1> QED BY <1>a, <1>b, <1>1, ReturnQuiet

(* The enqueues with a token owe nothing before they publish. *)
LEMMA TokenLocal ==
  ASSUME NEW t \in Threads, ControlInv, DataInv, ThreadInv(t), TokenStep(t)
  PROVE  StepOf(t) /\ KeepsOwing(t)
<1> DEFINE l == lv[t]
           b == Bulk(t)
           z == Size(t)
           n == Len(taken)
<1>a. Len(taken') = n /\ taken' \in Seq(Nat) /\ ControlInv /\ ThreadInv(t) /\ taken \in Seq(Nat)
  BY DEF TokenStep, TokenEnqueue, TokenReuse, TokenRoom, TokenIndex, TokenInsert, TokenNoBlock,
         TokenReady, TokenFront, SetFlags, loads, prodUnchanged, dataUnchanged, history, DataInv,
         HistoryInv
<1>b. /\ Fits(pc[t], l, b, z, n) /\ (pc[t] # "idle" => program[t] # <<>>)
      /\ z \in Nat /\ z > 0 /\ (z > 1 => b) /\ (~b => z = 1) /\ n \in Nat
  BY SizeType DEF ThreadInv, Size, DataInv, HistoryInv
<1>c. /\ n = Len(prod) /\ producerListTail \in 0..n
      /\ \A p \in 1..n : Sound(prod[p], n)
  BY DEF DataInv, ProducersInv
<1>1. CASE TokenEnqueue(t)
  <2> DEFINE p == TokenProducer(t)
             i == prod[p].tailIndex
             throws == Call(t) \in Throwing /\ Offset(i) # 0
             fit == Base(Plus(i, z - 1)) = Base(Minus(i, 1))
  <2>0. p \in 1..n
    <3>1. DOMAIN prod = 1..n
      BY DEF DataInv, ProducersInv
    <3>2. \E x \in DOMAIN prod : prod[x].token = t
      BY <1>1 DEF TokenEnqueue, valid
    <3> QED BY <3>1, <3>2 DEF TokenProducer
  <2>1. CASE throws
    <3>1. Return(t)
      BY <1>1, <2>1 DEF TokenEnqueue, Loc, Calling
    <3>2. Idle(pc[t], l, b, z) /\ program[t] # <<>>
      <4>1. pc[t] = "idle" /\ program[t] # <<>>
        BY <1>1, <2>1 DEF TokenEnqueue, Loc, At, Calling
      <4> HIDE DEF l, b, z, n
      <4> QED BY <1>b, <4>1, NoLocalsFields DEF Null, Fields, Fits, Typed, Pointing, Permits, Search,
             Waits, Idle, Sleeps, Holds, Signals, Posts
    <3> QED BY <3>1, <3>2, <1>a, <1>b, ReturnQuiet
  <2>2. CASE ~throws /\ fit /\ b
    <3> DEFINE l2 == [NoLocals EXCEPT !.ptr = p]
    <3>1. Go(t, "b_publish", l2)
      BY <1>1, <2>2 DEF TokenEnqueue, Loc, Calling
    <3>2. Fits("b_publish", l2, b, z, n) /\ Kept(pc[t], l, "b_publish", l2, b, z)
         /\ program[t] # <<>> /\ "b_publish" # "idle"
      <4>1. pc[t] = "idle" /\ program[t] # <<>> /\ b
        BY <1>1, <2>2 DEF TokenEnqueue, Loc, At, Calling
      <4> HIDE DEF p, l, b, z, n
      <4> QED BY <1>b, <4>1, NoLocalsFields, <2>0 DEF Null, Fields, Fits, Typed, Pointing, Permits,
             Search, Waits, Kept, Sleeps, Holds, Signals, Posts
    <3> HIDE DEF l2
    <3> QED BY <3>1, <3>2, <1>a, <1>b, GoQuiet
  <2>3. CASE ~throws /\ fit /\ ~b
    <3> DEFINE l2 == [NoLocals EXCEPT !.ptr = p]
    <3>1. Go(t, "e_publish", l2)
      BY <1>1, <2>3 DEF TokenEnqueue, Loc, Calling
    <3>2. Fits("e_publish", l2, b, z, n) /\ Kept(pc[t], l, "e_publish", l2, b, z)
         /\ program[t] # <<>> /\ "e_publish" # "idle"
      <4>1. pc[t] = "idle" /\ program[t] # <<>> /\ ~b
        BY <1>1, <2>3 DEF TokenEnqueue, Loc, At, Calling
      <4> HIDE DEF p, l, b, z, n
      <4> QED BY <1>b, <4>1, NoLocalsFields, <2>0 DEF Null, Fields, Fits, Typed, Pointing, Permits,
             Search, Waits, Kept, Sleeps, Holds, Signals, Posts
    <3> HIDE DEF l2
    <3> QED BY <3>1, <3>2, <1>a, <1>b, GoQuiet
  <2>4. CASE ~throws /\ ~fit
    <3> DEFINE l2 == [[NoLocals EXCEPT !.ptr = p] EXCEPT !.index = Base(Minus(i, 1)),
         !.saved = Saved(p)]
    <3>1. Go(t, "t_block", l2)
      BY <1>1, <2>4 DEF TokenEnqueue, Loc, Calling
    <3>2. Fits("t_block", l2, b, z, n) /\ Kept(pc[t], l, "t_block", l2, b, z)
         /\ program[t] # <<>> /\ "t_block" # "idle"
      <4>1. pc[t] = "idle" /\ program[t] # <<>>
        BY <1>1, <2>4 DEF TokenEnqueue, Loc, At, Calling
      <4> HIDE DEF p, l, b, z, n
      <4> QED BY <1>b, <4>1, NoLocalsFields, <2>0 DEF Null, Fields, Fits, Typed, Pointing, Permits,
             Search, Waits, Kept, Sleeps, Holds, Signals, Posts
    <3> HIDE DEF l2
    <3> QED BY <3>1, <3>2, <1>a, <1>b, GoQuiet
  <2> QED BY <2>1, <2>2, <2>3, <2>4
<1>2. CASE TokenReuse(t)
  <2> DEFINE l2 == [NoLocals EXCEPT !.ptr = l.ptr, !.index = Plus(l.index, BlockSize),
       !.saved = l.saved, !.chain = Append(l.chain, Ahead(prod[l.ptr])), !.rest = l.rest]
  <2>1. Go(t, "t_block", l2)
    BY <1>2 DEF TokenReuse, Loc, Advance
  <2>2. Fits("t_block", l2, b, z, n) /\ Kept(pc[t], l, "t_block", l2, b, z)
       /\ program[t] # <<>> /\ "t_block" # "idle"
    <3>1. pc[t] = "t_block"
      BY <1>2 DEF TokenReuse, Loc, At, Advance
    <3> HIDE DEF l, b, z, n
    <3> QED BY <1>b, <3>1, NoLocalsFields DEF Null, Fields, Fits, Typed, Pointing, Permits, Search,
           Waits, Kept, Sleeps, Holds, Signals, Posts
  <2> HIDE DEF l2
  <2> QED BY <2>1, <2>2, <1>a, <1>b, GoQuiet
<1>3. CASE TokenRoom(t)
  <2>1. CASE ~circular_less_than(prod[l.ptr].headIndex, Plus(l.index, 2 * BlockSize))
    <3>1. Return(t) /\ pc[t] \in PtrLabels
      BY <1>3, <2>1 DEF TokenRoom, Loc, At, Fails
    <3> QED BY <3>1, <1>a, FailsQuiet
  <2>2. CASE ~(~circular_less_than(prod[l.ptr].headIndex, Plus(l.index, 2 * BlockSize)))
       /\ prod[l.ptr].pr_blockIndexSlotsUsed = IndexCapacity(Header(l.ptr))
    <3> DEFINE l2 == [l EXCEPT !.rest = TRUE]
    <3>1. Go(t, "t_index", l2)
      BY <1>3, <2>2 DEF TokenRoom, Loc
    <3>2. Fits("t_index", l2, b, z, n) /\ Kept(pc[t], l, "t_index", l2, b, z)
         /\ program[t] # <<>> /\ "t_index" # "idle"
      <4>1. pc[t] = "t_block"
        BY <1>3, <2>2 DEF TokenRoom, Loc, At
      <4> HIDE DEF l, b, z, n
      <4> QED BY <1>b, <4>1, NoLocalsFields DEF Null, Fields, Fits, Typed, Pointing, Permits, Search,
             Waits, Kept, Sleeps, Holds, Signals, Posts
    <3> HIDE DEF l2
    <3> QED BY <3>1, <3>2, <1>a, <1>b, GoQuiet
  <2>3. CASE ~(~circular_less_than(prod[l.ptr].headIndex, Plus(l.index, 2 * BlockSize)))
       /\ ~(prod[l.ptr].pr_blockIndexSlotsUsed = IndexCapacity(Header(l.ptr)))
    <3> DEFINE l2 == [l EXCEPT !.rest = TRUE]
    <3>1. Go(t, "e_pool", l2)
      BY <1>3, <2>3 DEF TokenRoom, Loc
    <3>2. Fits("e_pool", l2, b, z, n) /\ Kept(pc[t], l, "e_pool", l2, b, z)
         /\ program[t] # <<>> /\ "e_pool" # "idle"
      <4>1. pc[t] = "t_block"
        BY <1>3, <2>3 DEF TokenRoom, Loc, At
      <4> HIDE DEF l, b, z, n
      <4> QED BY <1>b, <4>1, NoLocalsFields DEF Null, Fields, Fits, Typed, Pointing, Permits, Search,
             Waits, Kept, Sleeps, Holds, Signals, Posts
    <3> HIDE DEF l2
    <3> QED BY <3>1, <3>2, <1>a, <1>b, GoQuiet
  <2> QED BY <1>3, <2>1, <2>2, <2>3 DEF TokenRoom, Loc
<1>4. CASE TokenIndex(t)
  <2>1. CASE (blockIndex(l.ptr) < memory.indexes /\ Call(t) \notin TryEnqueues)
    <3> DEFINE l2 == [l EXCEPT !.saved.front = l.saved.used]
    <3>1. Go(t, "e_pool", l2)
      BY <1>4, <2>1 DEF TokenIndex, Loc
    <3>2. Fits("e_pool", l2, b, z, n) /\ Kept(pc[t], l, "e_pool", l2, b, z)
         /\ program[t] # <<>> /\ "e_pool" # "idle"
      <4>1. pc[t] = "t_index"
        BY <1>4, <2>1 DEF TokenIndex, Loc, At
      <4> HIDE DEF l, b, z, n
      <4> QED BY <1>b, <4>1, NoLocalsFields DEF Null, Fields, Fits, Typed, Pointing, Permits, Search,
             Waits, Kept, Sleeps, Holds, Signals, Posts
    <3> HIDE DEF l2
    <3> QED BY <3>1, <3>2, <1>a, <1>b, GoQuiet
  <2>2. CASE ~(blockIndex(l.ptr) < memory.indexes /\ Call(t) \notin TryEnqueues)
    <3>1. Return(t) /\ pc[t] \in PtrLabels
      BY <1>4, <2>2 DEF TokenIndex, Loc, At, Fails
    <3> QED BY <3>1, <1>a, FailsQuiet
  <2> QED BY <1>4, <2>1, <2>2 DEF TokenIndex, Loc
<1>5. CASE TokenInsert(t)
  <2> DEFINE l2 == [NoLocals EXCEPT !.ptr = l.ptr, !.index = Plus(l.index, BlockSize),
       !.saved = l.saved, !.chain = Append(l.chain, l.blk), !.rest = l.rest]
  <2>1. Go(t, "t_block", l2)
    BY <1>5 DEF TokenInsert, Loc, Advance
  <2>2. Fits("t_block", l2, b, z, n) /\ Kept(pc[t], l, "t_block", l2, b, z)
       /\ program[t] # <<>> /\ "t_block" # "idle"
    <3>1. pc[t] = "e_block"
      BY <1>5 DEF TokenInsert, Loc, At, Advance
    <3> HIDE DEF l, b, z, n
    <3> QED BY <1>b, <3>1, NoLocalsFields DEF Null, Fields, Fits, Typed, Pointing, Permits, Search,
           Waits, Kept, Sleeps, Holds, Signals, Posts
  <2> HIDE DEF l2
  <2> QED BY <2>1, <2>2, <1>a, <1>b, GoQuiet
<1>6. CASE TokenNoBlock(t)
  <2>1. Return(t) /\ pc[t] \in PtrLabels
    BY <1>6 DEF TokenNoBlock, Loc, At, Fails
  <2> QED BY <2>1, <1>a, FailsQuiet
<1>7. CASE TokenReady(t)
  <2>1. CASE Call(t) \in Throwing
    <3>1. Return(t) /\ pc[t] \in PtrLabels
      BY <1>7, <2>1 DEF TokenReady, Loc, At, Fails
    <3> QED BY <3>1, <1>a, FailsQuiet
  <2>2. CASE Call(t) \notin Throwing
    <3> DEFINE l2 == [NoLocals EXCEPT !.ptr = l.ptr, !.chain = l.chain]
    <3>1. Go(t, "t_front", l2)
      BY <1>7, <2>2 DEF TokenReady, Loc
    <3>2. Fits("t_front", l2, b, z, n) /\ Kept(pc[t], l, "t_front", l2, b, z)
         /\ program[t] # <<>> /\ "t_front" # "idle"
      <4>1. pc[t] = "t_block"
        BY <1>7, <2>2 DEF TokenReady, Loc, At
      <4> HIDE DEF l, b, z, n
      <4> QED BY <1>b, <4>1, NoLocalsFields DEF Null, Fields, Fits, Typed, Pointing, Permits, Search,
             Waits, Kept, Sleeps, Holds, Signals, Posts
    <3> HIDE DEF l2
    <3> QED BY <3>1, <3>2, <1>a, <1>b, GoQuiet
  <2> QED BY <1>7, <2>1, <2>2 DEF TokenReady, Loc
<1>8. CASE TokenFront(t)
  <2>1. CASE b
    <3> DEFINE l2 == l
    <3>1. Go(t, "b_publish", l2)
      BY <1>8, <2>1 DEF TokenFront, Loc
    <3>2. Fits("b_publish", l2, b, z, n) /\ Kept(pc[t], l, "b_publish", l2, b, z)
         /\ program[t] # <<>> /\ "b_publish" # "idle"
      <4>1. pc[t] = "t_front" /\ b
        BY <1>8, <2>1 DEF TokenFront, Loc, At
      <4> HIDE DEF l, b, z, n
      <4> QED BY <1>b, <4>1, NoLocalsFields DEF Null, Fields, Fits, Typed, Pointing, Permits, Search,
             Waits, Kept, Sleeps, Holds, Signals, Posts
    <3> HIDE DEF l2
    <3> QED BY <3>1, <3>2, <1>a, <1>b, GoQuiet
  <2>2. CASE ~b
    <3> DEFINE l2 == l
    <3>1. Go(t, "e_publish", l2)
      BY <1>8, <2>2 DEF TokenFront, Loc
    <3>2. Fits("e_publish", l2, b, z, n) /\ Kept(pc[t], l, "e_publish", l2, b, z)
         /\ program[t] # <<>> /\ "e_publish" # "idle"
      <4>1. pc[t] = "t_front" /\ ~b
        BY <1>8, <2>2 DEF TokenFront, Loc, At
      <4> HIDE DEF l, b, z, n
      <4> QED BY <1>b, <4>1, NoLocalsFields DEF Null, Fields, Fits, Typed, Pointing, Permits, Search,
             Waits, Kept, Sleeps, Holds, Signals, Posts
    <3> HIDE DEF l2
    <3> QED BY <3>1, <3>2, <1>a, <1>b, GoQuiet
  <2> QED BY <1>8, <2>1, <2>2 DEF TokenFront, Loc
<1>9. CASE SetFlags(t)
  <2> DEFINE l2 == [l EXCEPT !.entry = 0, !.blk = 0, !.size = 0]
  <2>1. Proceed(t, l2)
    BY <1>9 DEF SetFlags, Loc
  <2>2. /\ Typed(l2, n) /\ ~l2.again /\ (l2.permits > 0 => b) /\ program[t] # <<>>
        /\ l2.prod # Null \/ (l2.permits = 0 /\ l2.want = 0)
        /\ Sleeps(pc[t]) = 0 /\ Holds(pc[t], l, b) = l2.permits
        /\ Signals(pc[t], z) = 0 /\ Posts(pc[t], l) = 0
    <3>1. pc[t] \in {"d_empty", "b_empty"}
      BY <1>9 DEF SetFlags, At
    <3> HIDE DEF l, b, z, n
    <3> QED BY <1>b, <3>1 DEF Sleeps, Holds, Signals, Posts, Null, Fields, Fits, Typed, Pointing,
           Permits, Search, Waits
  <2> HIDE DEF l2
  <2> QED BY <2>1, <2>2, <1>a, ProceedQuiet
<1> QED BY <1>1, <1>2, <1>3, <1>4, <1>5, <1>6, <1>7, <1>8, <1>9 DEF TokenStep

(* The element that an enqueue publishes is one it has to signal. *)
LEMMA PublishLocal ==
  ASSUME NEW t \in Threads, ControlInv, DataInv, ThreadInv(t), Publish(t)
  PROVE  StepOf(t) /\ Balanced(t, Size(t))
<1> DEFINE l == lv[t]
           b == Bulk(t)
           z == Size(t)
           n == Len(taken)
<1>a. Len(taken') = n /\ taken' \in Seq(Nat) /\ ControlInv /\ ThreadInv(t) /\ taken \in Seq(Nat)
  BY DEF Publish, prodUnchanged, history, DataInv, HistoryInv
<1>b. /\ m_count \in Int /\ m_sema \in Nat /\ Fits(pc[t], l, b, z, n)
     /\ (pc[t] # "idle" => program[t] # <<>>)
      /\ z \in Nat /\ z > 0 /\ (z > 1 => b) /\ (~b => z = 1) /\ n \in Nat
  BY SizeType DEF ThreadInv, Size, ControlInv, DataInv, HistoryInv
<1>c. /\ n = Len(prod) /\ producerListTail \in 0..n
      /\ \A p \in 1..n : Sound(prod[p], n)
  BY DEF DataInv, ProducersInv
<1>0. Publish(t)
  OBVIOUS
<1> DEFINE l2 == NoLocals
<1>1. Go(t, "signal", l2)
  BY <1>0 DEF Publish, Loc, prodUnchanged
<1>2. Fits("signal", l2, b, z, n) /\ Balance(pc[t], l, "signal", l2, b, z, m_count, m_sema,
     m_count, m_sema, z) /\ program[t] # <<>> /\ "signal" # "idle"
  <2>1. pc[t] = "e_publish"
    BY <1>0 DEF Publish, Loc, At, prodUnchanged
  <2> HIDE DEF l, b, z, n
  <2> QED BY <1>b, <2>1, NoLocalsFields DEF Null, Fields, Fits, Typed, Pointing, Permits, Search,
         Waits, Balance, Below, Sleeps, Holds, Signals, Posts
<1>3. m_count' = m_count /\ m_sema' = m_sema
  BY <1>0 DEF Publish, semVars, Loc, prodUnchanged
<1> HIDE DEF l2
<1> QED BY <1>1, <1>2, <1>3, <1>a, <1>b, GoBalanced

(* So are those of an enqueue_bulk, unless a constructor throws. *)
LEMMA BulkPublishLocal ==
  ASSUME NEW t \in Threads, ControlInv, DataInv, ThreadInv(t), BulkPublish(t)
  PROVE  /\ StepOf(t)
         /\ IF Call(t) \in Throwing THEN Balanced(t, 0) ELSE Balanced(t, Size(t))
<1> DEFINE l == lv[t]
           b == Bulk(t)
           z == Size(t)
           n == Len(taken)
<1>a. Len(taken') = n /\ taken' \in Seq(Nat) /\ ControlInv /\ ThreadInv(t) /\ taken \in Seq(Nat)
  BY DEF BulkPublish, prodUnchanged, history, DataInv, HistoryInv
<1>b. /\ m_count \in Int /\ m_sema \in Nat /\ Fits(pc[t], l, b, z, n)
     /\ (pc[t] # "idle" => program[t] # <<>>)
      /\ z \in Nat /\ z > 0 /\ (z > 1 => b) /\ (~b => z = 1) /\ n \in Nat
  BY SizeType DEF ThreadInv, Size, ControlInv, DataInv, HistoryInv
<1>c. /\ n = Len(prod) /\ producerListTail \in 0..n
      /\ \A p \in 1..n : Sound(prod[p], n)
  BY DEF DataInv, ProducersInv
<1>1. CASE Call(t) \in Throwing
  <2>1. Revert(t, l) /\ pc[t] \in PtrLabels /\ UNCHANGED semVars
    BY <1>1 DEF BulkPublish, Loc, At, prodUnchanged
  <2> QED BY <1>1, <2>1, <1>a, RevertQuiet, QuietBalanced
<1>2. CASE Call(t) \notin Throwing
  <2>a. StepOf(t) /\ Balanced(t, Size(t))
    <3> DEFINE l2 == NoLocals
    <3>1. Go(t, "signal", l2)
      BY <1>2 DEF BulkPublish, Loc, prodUnchanged
    <3>2. Fits("signal", l2, b, z, n) /\ Balance(pc[t], l, "signal", l2, b, z, m_count, m_sema,
         m_count, m_sema, z) /\ program[t] # <<>> /\ "signal" # "idle"
      <4>1. pc[t] = "b_publish"
        BY <1>2 DEF BulkPublish, Loc, At, prodUnchanged
      <4> HIDE DEF l, b, z, n
      <4> QED BY <1>b, <4>1, NoLocalsFields DEF Null, Fields, Fits, Typed, Pointing, Permits, Search,
             Waits, Balance, Below, Sleeps, Holds, Signals, Posts
    <3>3. m_count' = m_count /\ m_sema' = m_sema
      BY <1>2 DEF BulkPublish, semVars, Loc, prodUnchanged
    <3> HIDE DEF l2
    <3> QED BY <3>1, <3>2, <3>3, <1>a, <1>b, GoBalanced
  <2> QED BY <1>2, <2>a
<1> QED BY <1>1, <1>2

(* A dequeue gives its permits for the elements that it claims. *)
LEMMA ClaimLocal ==
  ASSUME NEW t \in Threads, ControlInv, DataInv, ThreadInv(t), DequeueHead(t)
  PROVE  /\ StepOf(t) /\ Balanced(t, -Claimed(t))
         /\ lv[t].prod \in 1..Len(taken) /\ Claimed(t) \in Nat
<1> DEFINE l == lv[t]
           b == Bulk(t)
           z == Size(t)
           n == Len(taken)
<1>a. Len(taken') = n /\ taken' \in Seq(Nat) /\ ControlInv /\ ThreadInv(t) /\ taken \in Seq(Nat)
  <2>0. taken \in Seq(Nat)
    BY DEF DataInv, HistoryInv
  <2>1. taken' = [taken EXCEPT ![l.prod] = taken[l.prod] + Claimed(t)]
    BY DEF DequeueHead, Loc
  <2>2. l.prod \in 1..n /\ Claimed(t) \in Nat
    <3>1. pc[t] = "d_head" /\ Fits(pc[t], l, b, z, n)
      BY DEF DequeueHead, At, ThreadInv
    <3> QED BY <3>1 DEF Fits, Typed, Pointing, Permits, Null, Claimed, Loc
  <2> HIDE DEF l, n
  <2>3. \A x \in 1..n : taken[x] \in Nat
    BY <2>0 DEF n
  <2> QED BY <2>0, <2>1, <2>2, <2>3 DEF n
<1>b. /\ m_count \in Int /\ m_sema \in Nat /\ Fits(pc[t], l, b, z, n)
     /\ (pc[t] # "idle" => program[t] # <<>>)
      /\ z \in Nat /\ z > 0 /\ (z > 1 => b) /\ (~b => z = 1) /\ n \in Nat
  BY SizeType DEF ThreadInv, Size, ControlInv, DataInv, HistoryInv
<1>c. /\ n = Len(prod) /\ producerListTail \in 0..n
      /\ \A p \in 1..n : Sound(prod[p], n)
  BY DEF DataInv, ProducersInv
<1> DEFINE k == Claimed(t)
           p == l.prod
           l1 == [NoLocals EXCEPT !.prod = p, !.index = prod[p].headIndex, !.pos = taken[p] + 1,
                    !.want = k, !.permits = l.permits - l.want, !.items = l.items]
<1>0. pc[t] = "d_head"
  BY DEF DequeueHead, At
<1>1. p \in 1..n /\ k \in Nat /\ (b => k = l.want) /\ (~b => k = 1) /\ (~b => l.want = 0)
  BY <1>0, <1>b DEF Claimed, Loc, Fits, Typed, Pointing, Permits, Null
<1>2. Go(t, "d_index", l1)
  BY DEF DequeueHead, Loc
<1>3. Fits("d_index", l1, b, z, n) /\ program[t] # <<>>
  <2> HIDE DEF l, b, z, n, k
  <2> QED BY <1>0, <1>1, <1>b, NoLocalsFields DEF Null, Fields, Fits, Typed, Pointing, Permits, Search,
         Waits
<1>4. Balance(pc[t], l, "d_index", l1, b, z, m_count, m_sema, m_count, m_sema, -k)
  <2> HIDE DEF b, z, n, k, l
  <2>1. l1.permits = l.permits - l.want /\ l.permits \in Nat /\ l.want \in 0..l.permits
       /\ (l.permits > 0 => b)
    BY <1>0, <1>1, <1>b, NoLocalsFields DEF Fits, Typed, Permits, Fields
  <2> HIDE DEF l1
  <2> QED BY <1>0, <1>1, <1>b, <2>1 DEF Balance, Below, Sleeps, Holds, Signals, Posts
<1>5. m_count' = m_count /\ m_sema' = m_sema
  BY DEF DequeueHead, prodUnchanged, semVars
<1> HIDE DEF l1
<1>6. StepOf(t) /\ Balanced(t, -k)
  BY <1>a, <1>2, <1>3, <1>4, <1>5, GoBalanced
<1> QED BY <1>1, <1>6

(* What the steps of the sub-queues leave alone: whose a producer is. *)
SameOwner(r2, r) == r2.explicit = r.explicit /\ r2.token = r.token /\ r2.inactive = r.inactive
ProducersKept ==
  /\ prod' \in Seq(Elements(prod')) /\ Len(prod') = Len(prod)
  /\ \A p \in 1..Len(prod) : Sound(prod'[p], Len(prod)) /\ SameOwner(prod'[p], prod[p])

(* The fields of a producer. *)
LEMMA ProducerFields ==
  {"explicit", "token", "inactive", "next", "tailIndex", "headIndex", "dequeueOptimisticCount",
   "dequeueOvercommit", "entries", "headers", "tailBlock", "ring", "empty",
   "pr_blockIndexFront", "pr_blockIndexSlotsUsed"} = DOMAIN NewProducer(Null)
BY DEF NewProducer

(* A step that writes one producer, and not its owner. *)
LEMMA ProducerUpdate ==
  ASSUME ProducersInv, NEW p \in 1..Len(prod), NEW r, prod' = [prod EXCEPT ![p] = r],
         Sound(r, Len(prod)), SameOwner(r, prod[p])
  PROVE  ProducersKept
<1>1. DOMAIN prod = 1..Len(prod) /\ Len(prod) \in Nat
  BY DEF ProducersInv
<1>2. DOMAIN prod' = 1..Len(prod) /\ prod' = [i \in 1..Len(prod) |-> prod'[i]]
  BY <1>1
<1>3. prod' \in Seq(Elements(prod')) /\ Len(prod') = Len(prod)
  BY <1>1, <1>2, SeqOfElements
<1>4. ASSUME NEW i \in 1..Len(prod)
      PROVE  Sound(prod'[i], Len(prod)) /\ SameOwner(prod'[i], prod[i])
  <2>1. CASE i = p
    BY <2>1, <1>1
  <2>2. CASE i # p
    <3>1. prod'[i] = prod[i] /\ Sound(prod[i], Len(prod))
      BY <1>1, <2>2 DEF ProducersInv
    <3> QED BY <3>1 DEF SameOwner
  <2> QED BY <2>1, <2>2
<1> QED BY <1>3, <1>4 DEF ProducersKept

(* A step that writes none. *)
LEMMA ProducersUnchanged ==
  ASSUME ProducersInv, UNCHANGED prod
  PROVE  ProducersKept
BY DEF ProducersKept, ProducersInv, SameOwner, Elements

(* enqueue changes its own producer only, and no owner. *)
LEMMA EnqueueData ==
  ASSUME NEW t \in Threads, DataInv, ThreadInv(t), EnqueueStep(t)
  PROVE  ProducersKept
<1> DEFINE l == lv[t]
           n == Len(prod)
<1>a. ProducersInv /\ n \in Nat /\ Fits(pc[t], l, Bulk(t), Size(t), n)
  BY DEF DataInv, HistoryInv, ProducersInv, ThreadInv
<1>b. \A p \in 1..n : Sound(prod[p], n)
  BY DEF DataInv, ProducersInv
<1>c. /\ IndexMod \in Nat /\ IndexMod > 0
      /\ \A i \in Int : \A j \in Int : Plus(i, j) \in Indexes
      /\ Indexes \subseteq Nat
  BY SizesAssumption, ModIndex DEF Plus, Indexes
<1>d. Indexes \subseteq Int
  BY <1>c
<1>1. CASE EnqueueStart(t)
  <2>1. UNCHANGED prod
    BY <1>1 DEF EnqueueStart, loads
  <2> QED BY <2>1, <1>a, ProducersUnchanged
<1>2. CASE InsertEntry(t)
  <2> DEFINE hd == Header(l.ptr)
             newTail == (hd.tail + 1) % IndexCapacity(hd)
             e == Entry(hd, newTail)
             c == IndexCapacity(hd)
  <2>1. CASE prod' = [prod EXCEPT ![l.ptr].entries[e].key = l.index]
    <3> DEFINE r == prod[l.ptr]
                 v0 == [r.entries EXCEPT ![e].key = l.index]
                 r0 == [r EXCEPT !.entries = v0]
    <3>0. pc[t] = "e_entry" /\ l.ptr \in 1..n /\ l.permits \in Nat
      <4>1. pc[t] = "e_entry"
        BY <1>2, <2>1 DEF InsertEntry, At
      <4> QED BY <4>1, <1>a DEF Fits, Typed, Pointing, Null
    <3>1. prod' = [prod EXCEPT ![l.ptr] = r0]
      BY <1>2, <2>1, <1>a, <3>0 DEF ProducersInv
    <3>a. Sound(r, n)
      BY <3>0, <1>b
    <3>2. Sound(r0, n) /\ SameOwner(r0, r)
      <4> HIDE DEF r, n, v0
      <4> QED BY <3>a, ProducerFields DEF Sound, SameOwner
    <3> HIDE DEF r0
    <3> QED BY <3>0, <3>1, <3>2, <1>a, ProducerUpdate, Zenon
  <2>2. CASE prod' = new_block_index(l.ptr)
    <3> DEFINE r == prod[l.ptr]
                 v0 == r.entries \o [i \in 1..c |-> Unused]
                 r0 == [r EXCEPT !.entries = v0]
                 v1 == Append(r.headers, [tail |-> c - 1,
                      index |-> [i \in 1..(2 * c) |-> IF i <= c THEN Entry(hd,
                      (hd.tail + i) % c) ELSE i]])
                 r1 == [r0 EXCEPT !.headers = v1]
    <3>0. pc[t] = "e_entry" /\ l.ptr \in 1..n /\ l.permits \in Nat
      <4>1. pc[t] = "e_entry"
        BY <1>2, <2>2 DEF InsertEntry, At
      <4> QED BY <4>1, <1>a DEF Fits, Typed, Pointing, Null
    <3>1. prod' = [prod EXCEPT ![l.ptr] = r1]
      BY <1>2, <2>2, <1>a, <3>0 DEF new_block_index, ProducersInv
    <3>a. Sound(r, n)
      BY <3>0, <1>b
    <3>2. Sound(r1, n) /\ SameOwner(r1, r)
      <4> HIDE DEF r, n, v0, v1
      <4> QED BY <3>a, ProducerFields DEF Sound, SameOwner
    <3> HIDE DEF r1
    <3> QED BY <3>0, <3>1, <3>2, <1>a, ProducerUpdate, Zenon
  <2>3. CASE UNCHANGED prod
    BY <2>3, <1>a, ProducersUnchanged
  <2> QED BY <1>2, <2>1, <2>2, <2>3 DEF InsertEntry, Loc
<1>3. CASE InsertTail(t)
  <2> DEFINE r == prod[l.ptr]
               v0 == [r.headers EXCEPT ![blockIndex(l.ptr)].tail = l.tail]
               r0 == [r EXCEPT !.headers = v0]
  <2>0. pc[t] = "e_tail" /\ l.ptr \in 1..n /\ l.permits \in Nat
    <3>1. pc[t] = "e_tail"
      BY <1>3 DEF InsertTail, At, SetTail
    <3> QED BY <3>1, <1>a DEF Fits, Typed, Pointing, Null
  <2>1. prod' = [prod EXCEPT ![l.ptr] = r0]
    BY <1>3, <1>a, <2>0 DEF InsertTail, Loc, ProducersInv, SetTail
  <2>a. Sound(r, n)
    BY <2>0, <1>b
  <2>2. Sound(r0, n) /\ SameOwner(r0, r)
    <3> HIDE DEF r, n, v0
    <3> QED BY <2>a, ProducerFields DEF Sound, SameOwner
  <2> HIDE DEF r0
  <2> QED BY <2>0, <2>1, <2>2, <1>a, ProducerUpdate
<1>4. CASE Rewind(t)
  <2> DEFINE r == prod[l.ptr]
               v0 == [r.headers EXCEPT ![blockIndex(l.ptr)].tail = (Header(l.ptr).tail - 1) % IndexCapacity(Header(l.ptr))]
               r0 == [r EXCEPT !.headers = v0]
  <2>0. pc[t] = "e_rewind" /\ l.ptr \in 1..n /\ l.permits \in Nat
    <3>1. pc[t] = "e_rewind"
      BY <1>4 DEF Rewind, At, SetTail
    <3> QED BY <3>1, <1>a DEF Fits, Typed, Pointing, Null
  <2>1. prod' = [prod EXCEPT ![l.ptr] = r0]
    BY <1>4, <1>a, <2>0 DEF Rewind, Loc, ProducersInv, SetTail
  <2>a. Sound(r, n)
    BY <2>0, <1>b
  <2>2. Sound(r0, n) /\ SameOwner(r0, r)
    <3> HIDE DEF r, n, v0
    <3> QED BY <2>a, ProducerFields DEF Sound, SameOwner
  <2> HIDE DEF r0
  <2> QED BY <2>0, <2>1, <2>2, <1>a, ProducerUpdate
<1>5. CASE Unset(t)
  <2> DEFINE r == prod[l.ptr]
               v0 == [r.entries EXCEPT ![l.entry].value = Null]
               r0 == [r EXCEPT !.entries = v0]
  <2>0. pc[t] = "e_unset" /\ l.ptr \in 1..n /\ l.permits \in Nat
    <3>1. pc[t] = "e_unset"
      BY <1>5 DEF Unset, At, SetBlock
    <3> QED BY <3>1, <1>a DEF Fits, Typed, Pointing, Null
  <2>1. prod' = [prod EXCEPT ![l.ptr] = r0]
    BY <1>5, <1>a, <2>0 DEF Unset, Loc, ProducersInv, SetBlock
  <2>a. Sound(r, n)
    BY <2>0, <1>b
  <2>2. Sound(r0, n) /\ SameOwner(r0, r)
    <3> HIDE DEF r, n, v0
    <3> QED BY <2>a, ProducerFields DEF Sound, SameOwner
  <2> HIDE DEF r0
  <2> QED BY <2>0, <2>1, <2>2, <1>a, ProducerUpdate
<1>6. CASE InsertBlock(t)
  <2>1. CASE Call(t) = "enqueue_throws"
    <3>1. UNCHANGED prod
      BY <1>6, <2>1 DEF InsertBlock, loads
    <3> QED BY <3>1, <1>a, ProducersUnchanged
  <2>2. CASE Call(t) # "enqueue_throws"
    <3> DEFINE r == prod[l.ptr]
                 v0 == [r.entries EXCEPT ![l.entry].value = l.blk]
                 r0 == [r EXCEPT !.entries = v0]
                 v1 == l.blk
                 r1 == [r0 EXCEPT !.tailBlock = v1]
    <3>0. pc[t] = "e_block" /\ l.ptr \in 1..n /\ l.permits \in Nat
      <4>1. pc[t] = "e_block"
        BY <1>6, <2>2 DEF InsertBlock, At
      <4> QED BY <4>1, <1>a DEF Fits, Typed, Pointing, Null
    <3>1. prod' = [prod EXCEPT ![l.ptr] = r1]
      BY <1>6, <2>2, <1>a, <3>0 DEF InsertBlock, Loc, ProducersInv
    <3>a. Sound(r, n)
      BY <3>0, <1>b
    <3>2. Sound(r1, n) /\ SameOwner(r1, r)
      <4> HIDE DEF r, n, v0, v1
      <4> QED BY <3>a, ProducerFields DEF Sound, SameOwner
    <3> HIDE DEF r1
    <3> QED BY <3>0, <3>1, <3>2, <1>a, ProducerUpdate
  <2> QED BY <2>1, <2>2
<1>7. CASE Publish(t)
  <2> DEFINE r == prod[l.ptr]
               v0 == Plus(r.tailIndex, 1)
               r0 == [r EXCEPT !.tailIndex = v0]
  <2>0. pc[t] = "e_publish" /\ l.ptr \in 1..n /\ l.permits \in Nat
    <3>1. pc[t] = "e_publish"
      BY <1>7 DEF Publish, At
    <3> QED BY <3>1, <1>a DEF Fits, Typed, Pointing, Null
  <2>1. prod' = [prod EXCEPT ![l.ptr] = r0]
    BY <1>7, <1>a, <2>0 DEF Publish, Loc, ProducersInv
  <2>a. Sound(r, n)
    BY <2>0, <1>b
  <2>b. v0 \in Indexes
    <3>1. r.tailIndex \in Int
      BY <2>a, <1>d DEF Sound
    <3>2. 1 \in Int
      OBVIOUS
    <3> HIDE DEF r
    <3> QED BY <3>1, <3>2, <1>c
  <2>2. Sound(r0, n) /\ SameOwner(r0, r)
    <3> HIDE DEF r, n, v0
    <3> QED BY <2>a, <2>b, ProducerFields DEF Sound, SameOwner
  <2> HIDE DEF r0
  <2> QED BY <2>0, <2>1, <2>2, <1>a, ProducerUpdate
<1> QED BY <1>1, <1>2, <1>3, <1>4, <1>5, <1>6, <1>7 DEF EnqueueStep

(* So does enqueue_bulk. *)
LEMMA BulkEnqueueData ==
  ASSUME NEW t \in Threads, DataInv, ThreadInv(t), BulkEnqueueStep(t)
  PROVE  ProducersKept
<1> DEFINE l == lv[t]
           n == Len(prod)
<1>a. ProducersInv /\ n \in Nat /\ Fits(pc[t], l, Bulk(t), Size(t), n)
  BY DEF DataInv, HistoryInv, ProducersInv, ThreadInv
<1>b. \A p \in 1..n : Sound(prod[p], n)
  BY DEF DataInv, ProducersInv
<1>c. /\ IndexMod \in Nat /\ IndexMod > 0
      /\ \A i \in Int : \A j \in Int : Plus(i, j) \in Indexes
      /\ Indexes \subseteq Nat
  BY SizesAssumption, ModIndex DEF Plus, Indexes
<1>d. Indexes \subseteq Int
  BY <1>c
<1>1. CASE BulkStart(t)
  <2>1. UNCHANGED prod
    BY <1>1 DEF BulkStart, loads
  <2> QED BY <2>1, <1>a, ProducersUnchanged
<1>2. CASE BulkFull(t)
  <2>1. UNCHANGED prod
    BY <1>2 DEF BulkFull, loads
  <2> QED BY <2>1, <1>a, ProducersUnchanged
<1>3. CASE BulkInsertBlock(t)
  <2> DEFINE r == prod[l.ptr]
               v0 == [r.entries EXCEPT ![l.entry].value = l.blk]
               r0 == [r EXCEPT !.entries = v0]
  <2>0. pc[t] = "e_block" /\ l.ptr \in 1..n /\ l.permits \in Nat
    <3>1. pc[t] = "e_block"
      BY <1>3 DEF BulkInsertBlock, At, SetBlock
    <3> QED BY <3>1, <1>a DEF Fits, Typed, Pointing, Null
  <2>1. prod' = [prod EXCEPT ![l.ptr] = r0]
    BY <1>3, <1>a, <2>0 DEF BulkInsertBlock, Loc, ProducersInv, SetBlock
  <2>a. Sound(r, n)
    BY <2>0, <1>b
  <2>2. Sound(r0, n) /\ SameOwner(r0, r)
    <3> HIDE DEF r, n, v0
    <3> QED BY <2>a, ProducerFields DEF Sound, SameOwner
  <2> HIDE DEF r0
  <2> QED BY <2>0, <2>1, <2>2, <1>a, ProducerUpdate
<1>4. CASE BulkPublish(t)
  <2>1. CASE Call(t) \in Throwing
    <3>1. UNCHANGED prod
      BY <1>4, <2>1 DEF BulkPublish, loads
    <3> QED BY <3>1, <1>a, ProducersUnchanged
  <2>2. CASE Call(t) \notin Throwing
    <3> DEFINE r == prod[l.ptr]
        blocks == (IF Offset(r.tailIndex) # 0 THEN <<r.tailBlock>> ELSE <<>>) \o l.chain
                 v0 == Plus(r.tailIndex, BulkSize)
                 r0 == [r EXCEPT !.tailIndex = v0]
                 v1 == blocks[Len(blocks)]
                 r1 == [r0 EXCEPT !.tailBlock = v1]
    <3>0. pc[t] = "b_publish" /\ l.ptr \in 1..n /\ l.permits \in Nat
      <4>1. pc[t] = "b_publish"
        BY <1>4, <2>2 DEF BulkPublish, At
      <4> QED BY <4>1, <1>a DEF Fits, Typed, Pointing, Null
    <3>1. prod' = [prod EXCEPT ![l.ptr] = r1]
      BY <1>4, <2>2, <1>a, <3>0 DEF BulkPublish, Loc, ProducersInv
    <3>a. Sound(r, n)
      BY <3>0, <1>b
    <3>b. v0 \in Indexes
      <4>1. r.tailIndex \in Int
        BY <3>a, <1>d DEF Sound
      <4>2. BulkSize \in Int
        BY SizesAssumption
      <4> HIDE DEF r
      <4> QED BY <4>1, <4>2, <1>c
    <3>2. Sound(r1, n) /\ SameOwner(r1, r)
      <4> HIDE DEF r, n, v0, v1
      <4> QED BY <3>a, <3>b, ProducerFields DEF Sound, SameOwner
    <3> HIDE DEF r1
    <3> QED BY <3>0, <3>1, <3>2, <1>a, ProducerUpdate
  <2> QED BY <2>1, <2>2
<1>5. CASE RevertUnset(t)
  <2> DEFINE r == prod[l.ptr]
      hd == Header(l.ptr)
      index == Plus(Base(Minus(r.tailIndex, 1)), BlockSize * (Len(l.freed) + 1))
      e == Entry(hd, SlotFor(l.ptr, hd, hd.tail, index))
               v0 == [r.entries EXCEPT ![e].value = Null]
               r0 == [r EXCEPT !.entries = v0]
  <2>0. pc[t] = "b_unset" /\ l.ptr \in 1..n /\ l.permits \in Nat
    <3>1. pc[t] = "b_unset"
      BY <1>5 DEF RevertUnset, At, SetBlock
    <3> QED BY <3>1, <1>a DEF Fits, Typed, Pointing, Null
  <2>1. prod' = [prod EXCEPT ![l.ptr] = r0]
    BY <1>5, <1>a, <2>0 DEF RevertUnset, Loc, ProducersInv, SetBlock
  <2>a. Sound(r, n)
    BY <2>0, <1>b
  <2>2. Sound(r0, n) /\ SameOwner(r0, r)
    <3> HIDE DEF r, n, v0
    <3> QED BY <2>a, ProducerFields DEF Sound, SameOwner
  <2> HIDE DEF r0
  <2> QED BY <2>0, <2>1, <2>2, <1>a, ProducerUpdate
<1>6. CASE RevertTail(t)
  <2> DEFINE r == prod[l.ptr]
               v0 == [r.headers EXCEPT ![blockIndex(l.ptr)].tail = (Header(l.ptr).tail - 1) % IndexCapacity(Header(l.ptr))]
               r0 == [r EXCEPT !.headers = v0]
  <2>0. pc[t] = "b_rewind" /\ l.ptr \in 1..n /\ l.permits \in Nat
    <3>1. pc[t] = "b_rewind"
      BY <1>6 DEF RevertTail, At, SetTail
    <3> QED BY <3>1, <1>a DEF Fits, Typed, Pointing, Null
  <2>1. prod' = [prod EXCEPT ![l.ptr] = r0]
    BY <1>6, <1>a, <2>0 DEF RevertTail, Loc, ProducersInv, SetTail
  <2>a. Sound(r, n)
    BY <2>0, <1>b
  <2>2. Sound(r0, n) /\ SameOwner(r0, r)
    <3> HIDE DEF r, n, v0
    <3> QED BY <2>a, ProducerFields DEF Sound, SameOwner
  <2> HIDE DEF r0
  <2> QED BY <2>0, <2>1, <2>2, <1>a, ProducerUpdate
<1> QED BY <1>1, <1>2, <1>3, <1>4, <1>5, <1>6 DEF BulkEnqueueStep

(* A dequeue changes the counters of the producer it takes elements from. *)
LEMMA DequeueData ==
  ASSUME NEW t \in Threads, DataInv, ThreadInv(t), DequeueStep(t)
  PROVE  ProducersKept
<1> DEFINE l == lv[t]
           n == Len(prod)
<1>a. ProducersInv /\ n \in Nat /\ Fits(pc[t], l, Bulk(t), Size(t), n)
  BY DEF DataInv, HistoryInv, ProducersInv, ThreadInv
<1>b. \A p \in 1..n : Sound(prod[p], n)
  BY DEF DataInv, ProducersInv
<1>c. /\ IndexMod \in Nat /\ IndexMod > 0
      /\ \A i \in Int : \A j \in Int : Plus(i, j) \in Indexes
      /\ Indexes \subseteq Nat
  BY SizesAssumption, ModIndex DEF Plus, Indexes
<1>d. Indexes \subseteq Int
  BY <1>c
<1>1. CASE Scan(t)
  <2>1. UNCHANGED prod
    BY <1>1 DEF Scan, loads
  <2> QED BY <2>1, <1>a, ProducersUnchanged
<1>2. CASE Visit(t)
  <2>1. UNCHANGED prod
    BY <1>2 DEF Visit, loads
  <2> QED BY <2>1, <1>a, ProducersUnchanged
<1>3. CASE VisitHead(t)
  <2>1. UNCHANGED prod
    BY <1>3 DEF VisitHead, loads
  <2> QED BY <2>1, <1>a, ProducersUnchanged
<1>4. CASE DequeueTail(t)
  <2>1. UNCHANGED prod
    BY <1>4 DEF DequeueTail, loads
  <2> QED BY <2>1, <1>a, ProducersUnchanged
<1>5. CASE DequeueOvercommit(t)
  <2>1. UNCHANGED prod
    BY <1>5 DEF DequeueOvercommit, loads
  <2> QED BY <2>1, <1>a, ProducersUnchanged
<1>6. CASE DequeueCheck(t)
  <2>1. UNCHANGED prod
    BY <1>6 DEF DequeueCheck, loads
  <2> QED BY <2>1, <1>a, ProducersUnchanged
<1>7. CASE DequeueClaim(t)
  <2> DEFINE r == prod[l.prod]
               v0 == Plus(r.dequeueOptimisticCount, Claimed(t))
               r0 == [r EXCEPT !.dequeueOptimisticCount = v0]
  <2>0. pc[t] = "d_claim" /\ l.prod \in 1..n /\ l.permits \in Nat
    <3>1. pc[t] = "d_claim"
      BY <1>7 DEF DequeueClaim, At
    <3> QED BY <3>1, <1>a DEF Fits, Typed, Pointing, Null
  <2>1. prod' = [prod EXCEPT ![l.prod] = r0]
    BY <1>7, <1>a, <2>0 DEF DequeueClaim, Loc, ProducersInv
  <2>a. Sound(r, n)
    BY <2>0, <1>b
  <2>b. v0 \in Indexes
    <3>1. r.dequeueOptimisticCount \in Int
      BY <2>a, <1>d DEF Sound
    <3>2. Claimed(t) \in Int
      BY <2>0, <1>a DEF Fits, Permits, Claimed, Loc
    <3> HIDE DEF r
    <3> QED BY <3>1, <3>2, <1>c
  <2>2. Sound(r0, n) /\ SameOwner(r0, r)
    <3> HIDE DEF r, n, v0
    <3> QED BY <2>a, <2>b, ProducerFields DEF Sound, SameOwner
  <2> HIDE DEF r0
  <2> QED BY <2>0, <2>1, <2>2, <1>a, ProducerUpdate
<1>8. CASE DequeueRecheck(t)
  <2>1. UNCHANGED prod
    BY <1>8 DEF DequeueRecheck, loads
  <2> QED BY <2>1, <1>a, ProducersUnchanged
<1>9. CASE DequeueUndo(t)
  <2> DEFINE r == prod[l.prod]
               v0 == Plus(r.dequeueOvercommit, 1)
               r0 == [r EXCEPT !.dequeueOvercommit = v0]
  <2>0. pc[t] = "d_undo" /\ l.prod \in 1..n /\ l.permits \in Nat
    <3>1. pc[t] = "d_undo"
      BY <1>9 DEF DequeueUndo, At
    <3> QED BY <3>1, <1>a DEF Fits, Typed, Pointing, Null
  <2>1. prod' = [prod EXCEPT ![l.prod] = r0]
    BY <1>9, <1>a, <2>0 DEF DequeueUndo, Loc, ProducersInv
  <2>a. Sound(r, n)
    BY <2>0, <1>b
  <2>b. v0 \in Indexes
    <3>1. r.dequeueOvercommit \in Int
      BY <2>a, <1>d DEF Sound
    <3>2. 1 \in Int
      OBVIOUS
    <3> HIDE DEF r
    <3> QED BY <3>1, <3>2, <1>c
  <2>2. Sound(r0, n) /\ SameOwner(r0, r)
    <3> HIDE DEF r, n, v0
    <3> QED BY <2>a, <2>b, ProducerFields DEF Sound, SameOwner
  <2> HIDE DEF r0
  <2> QED BY <2>0, <2>1, <2>2, <1>a, ProducerUpdate
<1>10. CASE DequeueFailed(t)
  <2>1. UNCHANGED prod
    BY <1>10 DEF DequeueFailed, loads
  <2> QED BY <2>1, <1>a, ProducersUnchanged
<1>11. CASE DequeueHead(t)
  <2> DEFINE r == prod[l.prod]
               v0 == Plus(r.headIndex, Claimed(t))
               r0 == [r EXCEPT !.headIndex = v0]
  <2>0. pc[t] = "d_head" /\ l.prod \in 1..n /\ l.permits \in Nat
    <3>1. pc[t] = "d_head"
      BY <1>11 DEF DequeueHead, At
    <3> QED BY <3>1, <1>a DEF Fits, Typed, Pointing, Null
  <2>1. prod' = [prod EXCEPT ![l.prod] = r0]
    BY <1>11, <1>a, <2>0 DEF DequeueHead, Loc, ProducersInv
  <2>a. Sound(r, n)
    BY <2>0, <1>b
  <2>b. v0 \in Indexes
    <3>1. r.headIndex \in Int
      BY <2>a, <1>d DEF Sound
    <3>2. Claimed(t) \in Int
      BY <2>0, <1>a DEF Fits, Permits, Claimed, Loc
    <3> HIDE DEF r
    <3> QED BY <3>1, <3>2, <1>c
  <2>2. Sound(r0, n) /\ SameOwner(r0, r)
    <3> HIDE DEF r, n, v0
    <3> QED BY <2>a, <2>b, ProducerFields DEF Sound, SameOwner
  <2> HIDE DEF r0
  <2> QED BY <2>0, <2>1, <2>2, <1>a, ProducerUpdate
<1>12. CASE LookupHeader(t)
  <2>1. UNCHANGED prod
    BY <1>12 DEF LookupHeader, loads
  <2> QED BY <2>1, <1>a, ProducersUnchanged
<1>13. CASE LookupTail(t)
  <2>1. UNCHANGED prod
    BY <1>13 DEF LookupTail, loads
  <2> QED BY <2>1, <1>a, ProducersUnchanged
<1>14. CASE LookupEntry(t)
  <2>1. UNCHANGED prod
    BY <1>14 DEF LookupEntry, loads
  <2> QED BY <2>1, <1>a, ProducersUnchanged
<1>15. CASE Read(t)
  <2>1. UNCHANGED prod
    BY <1>15 DEF Read, loads
  <2> QED BY <2>1, <1>a, ProducersUnchanged
<1>16. CASE SetEmpty(t)
  <2>1. UNCHANGED prod
    BY <1>16 DEF SetEmpty, loads
  <2> QED BY <2>1, <1>a, ProducersUnchanged
<1>17. CASE Release(t)
  <2> DEFINE r == prod[l.prod]
               v0 == [r.entries EXCEPT ![l.entry].value = Null]
               r0 == [r EXCEPT !.entries = v0]
  <2>0. pc[t] = "d_release" /\ l.prod \in 1..n /\ l.permits \in Nat
    <3>1. pc[t] = "d_release"
      BY <1>17 DEF Release, At, SetBlock
    <3> QED BY <3>1, <1>a DEF Fits, Typed, Pointing, Null
  <2>1. prod' = [prod EXCEPT ![l.prod] = r0]
    BY <1>17, <1>a, <2>0 DEF Release, Loc, ProducersInv, SetBlock
  <2>a. Sound(r, n)
    BY <2>0, <1>b
  <2>2. Sound(r0, n) /\ SameOwner(r0, r)
    <3> HIDE DEF r, n, v0
    <3> QED BY <2>a, ProducerFields DEF Sound, SameOwner
  <2> HIDE DEF r0
  <2> QED BY <2>0, <2>1, <2>2, <1>a, ProducerUpdate
<1> QED BY <1>1, <1>2, <1>3, <1>4, <1>5, <1>6, <1>7, <1>8, <1>9, <1>10, <1>11, <1>12, <1>13,
     <1>14, <1>15, <1>16, <1>17 DEF DequeueStep

(* So does a bulk dequeue. *)
LEMMA BulkDequeueData ==
  ASSUME NEW t \in Threads, DataInv, ThreadInv(t), BulkDequeueStep(t)
  PROVE  ProducersKept
<1> DEFINE l == lv[t]
           n == Len(prod)
<1>a. ProducersInv /\ n \in Nat /\ Fits(pc[t], l, Bulk(t), Size(t), n)
  BY DEF DataInv, HistoryInv, ProducersInv, ThreadInv
<1>b. \A p \in 1..n : Sound(prod[p], n)
  BY DEF DataInv, ProducersInv
<1>c. /\ IndexMod \in Nat /\ IndexMod > 0
      /\ \A i \in Int : \A j \in Int : Plus(i, j) \in Indexes
      /\ Indexes \subseteq Nat
  BY SizesAssumption, ModIndex DEF Plus, Indexes
<1>d. Indexes \subseteq Int
  BY <1>c
<1>1. CASE BulkScan(t)
  <2>1. UNCHANGED prod
    BY <1>1 DEF BulkScan, loads
  <2> QED BY <2>1, <1>a, ProducersUnchanged
<1>2. CASE BulkCheck(t)
  <2>1. UNCHANGED prod
    BY <1>2 DEF BulkCheck, loads
  <2> QED BY <2>1, <1>a, ProducersUnchanged
<1>3. CASE BulkRecheck(t)
  <2>1. UNCHANGED prod
    BY <1>3 DEF BulkRecheck, loads
  <2> QED BY <2>1, <1>a, ProducersUnchanged
<1>4. CASE BulkOvercommit(t)
  <2> DEFINE r == prod[l.prod]
               v0 == Plus(r.dequeueOvercommit, l.over)
               r0 == [r EXCEPT !.dequeueOvercommit = v0]
  <2>0. pc[t] = "b_over" /\ l.prod \in 1..n /\ l.permits \in Nat
    <3>1. pc[t] = "b_over"
      BY <1>4 DEF BulkOvercommit, At
    <3> QED BY <3>1, <1>a DEF Fits, Typed, Pointing, Null
  <2>1. prod' = [prod EXCEPT ![l.prod] = r0]
    BY <1>4, <1>a, <2>0 DEF BulkOvercommit, Loc, ProducersInv
  <2>a. Sound(r, n)
    BY <2>0, <1>b
  <2>b. v0 \in Indexes
    <3>1. r.dequeueOvercommit \in Int
      BY <2>a, <1>d DEF Sound
    <3>2. l.over \in Int
      BY <2>0, <1>a DEF Fits, Search
    <3> HIDE DEF r
    <3> QED BY <3>1, <3>2, <1>c
  <2>2. Sound(r0, n) /\ SameOwner(r0, r)
    <3> HIDE DEF r, n, v0
    <3> QED BY <2>a, <2>b, ProducerFields DEF Sound, SameOwner
  <2> HIDE DEF r0
  <2> QED BY <2>0, <2>1, <2>2, <1>a, ProducerUpdate
<1>5. CASE BulkRead(t)
  <2>1. UNCHANGED prod
    BY <1>5 DEF BulkRead, loads
  <2> QED BY <2>1, <1>a, ProducersUnchanged
<1>6. CASE SetManyEmpty(t)
  <2>1. UNCHANGED prod
    BY <1>6 DEF SetManyEmpty, loads
  <2> QED BY <2>1, <1>a, ProducersUnchanged
<1> QED BY <1>1, <1>2, <1>3, <1>4, <1>5, <1>6 DEF BulkDequeueStep

(* The pieces of an enqueue with a token change no owner. *)
LEMMA WithEntrySound ==
  ASSUME NEW r, NEW n, Sound(r, n), NEW p, NEW index, NEW x
  PROVE  Sound(WithEntry(p, r, index, x), n) /\ SameOwner(WithEntry(p, r, index, x), r)
<1> DEFINE v0 == [r.entries EXCEPT ![Entry(Header(p), r.pr_blockIndexFront)] = [key |-> index,
     value |-> x]]
           v1 == (r.pr_blockIndexFront + 1) % IndexCapacity(Header(p))
           r0 == [r EXCEPT !.entries = v0]
           r1 == [r0 EXCEPT !.pr_blockIndexFront = v1]
<1>1. Sound(r0, n) /\ SameOwner(r0, r)
  <2> HIDE DEF v0
  <2> QED BY ProducerFields DEF Sound, SameOwner
<1>2. Sound(r1, n) /\ SameOwner(r1, r)
  <2> HIDE DEF v0, v1
  <2> QED BY ProducerFields DEF Sound, SameOwner
<1>3. WithEntry(p, r, index, x) = r1
  BY ProducerFields DEF WithEntry, Sound
<1> QED BY <1>2, <1>3

(* The steps of ExplicitProducer write the producer of their token. *)
LEMMA AdvanceKept ==
  ASSUME NEW t \in Threads, ProducersInv, NEW r, NEW x, Advance(t, r, x),
       lv[t].ptr \in 1..Len(prod),
         Sound(r, Len(prod)), SameOwner(r, prod[lv[t].ptr])
  PROVE  ProducersKept
<1> DEFINE p == lv[t].ptr
           n == Len(prod)
           index == Plus(lv[t].index, BlockSize)
           r1 == IF Bulk(t) THEN WithEntry(p, r, index, x) ELSE reset_empty(r, x)
<1>1. Sound(reset_empty(r, x), n) /\ SameOwner(reset_empty(r, x), r)
  <2> DEFINE v == [r.empty EXCEPT ![x] = {}]
  <2>1. reset_empty(r, x) = [r EXCEPT !.empty = v]
    BY ProducerFields DEF reset_empty, Sound
  <2> HIDE DEF v
  <2> QED BY <2>1, ProducerFields DEF Sound, SameOwner
<1>2. Sound(r1, n) /\ SameOwner(r1, r)
  BY <1>1, WithEntrySound
<1>3. prod' = [prod EXCEPT ![p] = r1]
  BY DEF Advance, Loc
<1> HIDE DEF r1
<1>4. SameOwner(r1, prod[p])
  BY <1>2 DEF SameOwner
<1> QED BY <1>2, <1>3, <1>4, ProducerUpdate

(* An enqueue that fails puts its own producer back as it was. *)
LEMMA FailsKept ==
  ASSUME NEW t \in Threads, ProducersInv, Fails(t), lv[t].ptr \in 1..Len(prod)
  PROVE  ProducersKept
<1> DEFINE p == lv[t].ptr
           n == Len(prod)
           r == prod[p]
           r1 == Reverted(r, lv[t])
<1>1. Sound(r, n)
  BY DEF ProducersInv
<1>2. Sound(r1, n) /\ SameOwner(r1, r)
  <2> DEFINE v0 == lv[t].saved.front
             v1 == lv[t].saved.used
             v2 == IF lv[t].saved.block = Null THEN firstAllocatedBlock(lv[t]) ELSE lv[t].saved.block
  <2>1. r1 = [[[r EXCEPT !.pr_blockIndexFront = v0] EXCEPT !.pr_blockIndexSlotsUsed = v1] EXCEPT !.tailBlock = v2]
    BY <1>1, ProducerFields DEF Reverted, Sound
  <2> HIDE DEF v0, v1, v2, r, r1
  <2> QED BY <1>1, <2>1, ProducerFields DEF Sound, SameOwner
<1>3. prod' = [prod EXCEPT ![p] = r1]
  BY DEF Fails, Loc
<1> HIDE DEF r1
<1> QED BY <1>2, <1>3, ProducerUpdate

(* The enqueues with a token change no owner. *)
LEMMA TokenData ==
  ASSUME NEW t \in Threads, DataInv, ThreadInv(t), TokenStep(t)
  PROVE  ProducersKept
<1> DEFINE l == lv[t]
           n == Len(prod)
<1>a. ProducersInv /\ n \in Nat /\ Fits(pc[t], l, Bulk(t), Size(t), n)
  BY DEF DataInv, HistoryInv, ProducersInv, ThreadInv
<1>b. \A p \in 1..n : Sound(prod[p], n)
  BY DEF DataInv, ProducersInv
<1>c. /\ IndexMod \in Nat /\ IndexMod > 0
      /\ \A i \in Int : \A j \in Int : Plus(i, j) \in Indexes
      /\ Indexes \subseteq Nat
  BY SizesAssumption, ModIndex DEF Plus, Indexes
<1>d. Indexes \subseteq Int
  BY <1>c
<1>1. CASE TokenEnqueue(t)
  <2>1. UNCHANGED prod
    BY <1>1 DEF TokenEnqueue, loads
  <2> QED BY <2>1, <1>a, ProducersUnchanged
<1>2. CASE TokenReuse(t)
  <2> DEFINE r == prod[l.ptr]
             v0 == Ahead(r)
             r0 == [r EXCEPT !.tailBlock = v0]
  <2>0. pc[t] = "t_block" /\ l.ptr \in 1..n /\ l.permits \in Nat
    <3>1. pc[t] = "t_block"
      BY <1>2 DEF TokenReuse, At
    <3> QED BY <3>1, <1>a DEF Fits, Typed, Pointing, Null
  <2>1. Sound(r, n)
    BY <2>0, <1>b
  <2>2. Advance(t, r0, Ahead(r))
    <3>1. Advance(t, [r EXCEPT !.tailBlock = Ahead(r)], Ahead(r))
      BY <1>2 DEF TokenReuse, Loc
    <3>2. [r EXCEPT !.tailBlock = Ahead(r)] = r0
      BY <2>1, ProducerFields DEF Sound
    <3> QED BY <3>1, <3>2
  <2>3. Sound(r0, n) /\ SameOwner(r0, r)
    <3> HIDE DEF r, n, v0
    <3> QED BY <2>1, ProducerFields DEF Sound, SameOwner
  <2> HIDE DEF r0
  <2> QED BY <2>0, <2>2, <2>3, <1>a, AdvanceKept
<1>3. CASE TokenRoom(t)
  <2>1. CASE ~circular_less_than(prod[l.ptr].headIndex, Plus(l.index, 2 * BlockSize))
    <3>0. pc[t] = "t_block" /\ l.ptr \in 1..n /\ l.permits \in Nat
      <4>1. pc[t] = "t_block"
        BY <1>3, <2>1 DEF TokenRoom, At
      <4> QED BY <4>1, <1>a DEF Fits, Typed, Pointing, Null
    <3>1. Fails(t)
      BY <1>3, <2>1 DEF TokenRoom, Loc
    <3> QED BY <3>0, <3>1, <1>a, FailsKept
  <2>2. CASE ~(~circular_less_than(prod[l.ptr].headIndex, Plus(l.index, 2 * BlockSize)))
    <3>1. UNCHANGED prod
      BY <1>3, <2>2 DEF TokenRoom, loads, Loc
    <3> QED BY <3>1, <1>a, ProducersUnchanged
  <2> QED BY <2>1, <2>2
<1>4. CASE TokenIndex(t)
  <2>1. CASE (blockIndex(l.ptr) < memory.indexes /\ Call(t) \notin TryEnqueues)
    <3> DEFINE r == prod[l.ptr]
               hd == Header(l.ptr)
               c == IndexCapacity(hd)
               used == r.pr_blockIndexSlotsUsed
               old(i) == r.entries[Entry(hd, (r.pr_blockIndexFront - used + i - 1) % c)]
               v0 == r.entries \o [i \in 1..(2 * c) |-> IF i <= used THEN old(i) ELSE Unused]
               v1 == Append(r.headers, [tail |-> l.saved.used - 1,
                    index |-> [i \in 1..(2 * c) |-> Len(r.entries) + i]])
               r1 == [[[r EXCEPT !.entries = v0] EXCEPT !.headers = v1] EXCEPT !.pr_blockIndexFront = used]
    <3>0. pc[t] = "t_index" /\ l.ptr \in 1..n /\ l.permits \in Nat
      <4>1. pc[t] = "t_index"
        BY <1>4 DEF TokenIndex, At
      <4> QED BY <4>1, <1>a DEF Fits, Typed, Pointing, Null
    <3>1. Sound(r, n)
      BY <3>0, <1>b
    <3>2. LargerIndex(l.ptr, l.saved.used) = r1
      BY <3>1, ProducerFields DEF LargerIndex, Sound
    <3>3. prod' = [prod EXCEPT ![l.ptr] = r1]
      BY <1>4, <2>1, <3>2 DEF TokenIndex, Loc
    <3>4. Sound(r1, n) /\ SameOwner(r1, r)
      <4> HIDE DEF r, n, used, v0, v1
      <4> QED BY <3>1, ProducerFields DEF Sound, SameOwner
    <3> HIDE DEF r1
    <3> QED BY <3>0, <3>3, <3>4, <1>a, ProducerUpdate
  <2>2. CASE ~(blockIndex(l.ptr) < memory.indexes /\ Call(t) \notin TryEnqueues)
    <3>0. pc[t] = "t_index" /\ l.ptr \in 1..n /\ l.permits \in Nat
      <4>1. pc[t] = "t_index"
        BY <1>4, <2>2 DEF TokenIndex, At
      <4> QED BY <4>1, <1>a DEF Fits, Typed, Pointing, Null
    <3>1. Fails(t)
      BY <1>4, <2>2 DEF TokenIndex, Loc
    <3> QED BY <3>0, <3>1, <1>a, FailsKept
  <2> QED BY <2>1, <2>2
<1>5. CASE TokenInsert(t)
  <2> DEFINE r == prod[l.ptr]
             v0 == InsertInRing(r, l.blk)
             r0 == [r EXCEPT !.ring = v0]
             v1 == l.blk
             r1 == [r0 EXCEPT !.tailBlock = v1]
             v2 == [r.empty EXCEPT ![l.blk] = AllEmpty]
             r2 == [r1 EXCEPT !.empty = v2]
             v3 == r.pr_blockIndexSlotsUsed + 1
             r3 == [r2 EXCEPT !.pr_blockIndexSlotsUsed = v3]
  <2>0. pc[t] = "e_block" /\ l.ptr \in 1..n /\ l.permits \in Nat
    <3>1. pc[t] = "e_block"
      BY <1>5 DEF TokenInsert, At
    <3> QED BY <3>1, <1>a DEF Fits, Typed, Pointing, Null
  <2>1. Sound(r, n)
    BY <2>0, <1>b
  <2>2. Advance(t, r3, l.blk)
    <3>1. Advance(t, [r EXCEPT !.ring = InsertInRing(r, l.blk), !.tailBlock = l.blk,
         !.empty[l.blk] = AllEmpty, !.pr_blockIndexSlotsUsed = @ + 1], l.blk)
      BY <1>5 DEF TokenInsert, Loc
    <3>2. [r EXCEPT !.ring = InsertInRing(r, l.blk), !.tailBlock = l.blk,
         !.empty[l.blk] = AllEmpty, !.pr_blockIndexSlotsUsed = @ + 1] = r3
      BY <2>1, ProducerFields DEF Sound
    <3> QED BY <3>1, <3>2
  <2>3. Sound(r3, n) /\ SameOwner(r3, r)
    <3> HIDE DEF r, n, v0, v1, v2, v3
    <3> QED BY <2>1, ProducerFields DEF Sound, SameOwner
  <2> HIDE DEF r3
  <2> QED BY <2>0, <2>2, <2>3, <1>a, AdvanceKept
<1>6. CASE TokenNoBlock(t)
  <2>0. pc[t] = "e_rewind" /\ l.ptr \in 1..n /\ l.permits \in Nat
    <3>1. pc[t] = "e_rewind"
      BY <1>6 DEF TokenNoBlock, At
    <3> QED BY <3>1, <1>a DEF Fits, Typed, Pointing, Null
  <2>1. Fails(t)
    BY <1>6 DEF TokenNoBlock, Loc
  <2> QED BY <2>0, <2>1, <1>a, FailsKept
<1>7. CASE TokenReady(t)
  <2> DEFINE r == prod[l.ptr]
             cleared == [x \in Blocks |-> IF \E i \in DOMAIN l.chain : l.chain[i] = x THEN {} ELSE r.empty[x]]
             r1 == IF Bulk(t) THEN [[r EXCEPT !.empty = cleared] EXCEPT !.tailBlock = l.saved.block]
                   ELSE WithEntry(l.ptr, r, l.index, r.tailBlock)
  <2>0. pc[t] = "t_block" /\ l.ptr \in 1..n /\ l.permits \in Nat
    <3>1. pc[t] = "t_block"
      BY <1>7 DEF TokenReady, At
    <3> QED BY <3>1, <1>a DEF Fits, Typed, Pointing, Null
  <2>1. Sound(r, n)
    BY <2>0, <1>b
  <2>2. CASE Call(t) \in Throwing
    <3>1. Fails(t)
      BY <1>7, <2>2 DEF TokenReady, Loc
    <3> QED BY <2>0, <3>1, <1>a, FailsKept
  <2>3. CASE Call(t) \notin Throwing
    <3>1. [r EXCEPT !.empty = cleared,
         !.tailBlock = l.saved.block] = [[r EXCEPT !.empty = cleared] EXCEPT !.tailBlock = l.saved.block]
      BY <2>1, ProducerFields DEF Sound
    <3>2. prod' = [prod EXCEPT ![l.ptr] = r1]
      BY <1>7, <2>3, <3>1 DEF TokenReady, Loc
    <3>3. Sound(r1, n) /\ SameOwner(r1, r)
      <4>1. Sound([[r EXCEPT !.empty = cleared] EXCEPT !.tailBlock = l.saved.block], n)
             /\ SameOwner([[r EXCEPT !.empty = cleared] EXCEPT !.tailBlock = l.saved.block], r)
        <5> HIDE DEF r, n, cleared
        <5> QED BY <2>1, ProducerFields DEF Sound, SameOwner
      <4>2. Sound(WithEntry(l.ptr, r, l.index, r.tailBlock), n)
             /\ SameOwner(WithEntry(l.ptr, r, l.index, r.tailBlock), r)
        BY <2>1, WithEntrySound
      <4> HIDE DEF r, cleared
      <4> QED BY <4>1, <4>2
    <3> HIDE DEF r1
    <3> QED BY <2>0, <3>2, <3>3, <1>a, ProducerUpdate
  <2> QED BY <2>2, <2>3
<1>8. CASE TokenFront(t)
  <2> DEFINE r == prod[l.ptr]
               v0 == [r.headers EXCEPT ![blockIndex(l.ptr)].tail = (prod[l.ptr].pr_blockIndexFront - 1) % IndexCapacity(Header(l.ptr))]
               r0 == [r EXCEPT !.headers = v0]
  <2>0. pc[t] = "t_front" /\ l.ptr \in 1..n /\ l.permits \in Nat
    <3>1. pc[t] = "t_front"
      BY <1>8 DEF TokenFront, At, SetTail
    <3> QED BY <3>1, <1>a DEF Fits, Typed, Pointing, Null
  <2>1. prod' = [prod EXCEPT ![l.ptr] = r0]
    BY <1>8, <1>a, <2>0 DEF TokenFront, Loc, ProducersInv, SetTail
  <2>a. Sound(r, n)
    BY <2>0, <1>b
  <2>2. Sound(r0, n) /\ SameOwner(r0, r)
    <3> HIDE DEF r, n, v0
    <3> QED BY <2>a, ProducerFields DEF Sound, SameOwner
  <2> HIDE DEF r0
  <2> QED BY <2>0, <2>1, <2>2, <1>a, ProducerUpdate
<1>9. CASE SetFlags(t)
  <2> DEFINE r == prod[l.prod]
      k == IF Bulk(t) THEN l.size ELSE 1
      o == Offset(IF Bulk(t) THEN Minus(l.index, k) ELSE l.index)
               v0 == [r.empty EXCEPT ![l.blk] = @ \cup o..(o + k - 1)]
               r0 == [r EXCEPT !.empty = v0]
  <2>0. pc[t] \in {"d_empty", "b_empty"} /\ l.prod \in 1..n /\ l.permits \in Nat
    <3>1. pc[t] \in {"d_empty", "b_empty"}
      BY <1>9 DEF SetFlags, At
    <3> QED BY <3>1, <1>a DEF Fits, Typed, Pointing, Null
  <2>1. prod' = [prod EXCEPT ![l.prod] = r0]
    BY <1>9, <1>a, <2>0 DEF SetFlags, Loc, ProducersInv
  <2>a. Sound(r, n)
    BY <2>0, <1>b
  <2>2. Sound(r0, n) /\ SameOwner(r0, r)
    <3> HIDE DEF r, n, v0
    <3> QED BY <2>a, ProducerFields DEF Sound, SameOwner
  <2> HIDE DEF r0
  <2> QED BY <2>0, <2>1, <2>2, <1>a, ProducerUpdate
<1> QED BY <1>1, <1>2, <1>3, <1>4, <1>5, <1>6, <1>7, <1>8, <1>9 DEF TokenStep

(* The invariants of the data survive what leaves the tables alone and keeps the producers. *)
LEMMA KeptData ==
  ASSUME DataInv, ProducersKept, UNCHANGED <<producerListTail, tables>>,
         HistoryInv', Len(taken') = Len(taken)
  PROVE  DataInv'
<1>1. ProducersInv'
  BY DEF DataInv, ProducersInv, ProducersKept
<1>2. DOMAIN prod' = DOMAIN prod
  BY DEF DataInv, ProducersInv, ProducersKept
<1>3. TablesInv'
  BY <1>2 DEF DataInv, TablesInv
<1> QED BY <1>1, <1>3 DEF DataInv

(* A slot that a thread takes leads to the producer it has. *)
LEMMA ClaimData ==
  ASSUME NEW t \in Threads, DataInv, NEW expected, Claim(t, expected), lv[t].ptr \in DOMAIN prod,
         UNCHANGED prod
  PROVE  TablesInv'
<1> DEFINE m == lv[t].main
           s == lv[t].slot
           new == [key |-> t, value |-> lv[t].ptr]
<1>1. tables' = [tables EXCEPT ![m] = [tables[m] EXCEPT ![s] = new]]
  BY DEF Claim, Loc
<1>2. DOMAIN tables = 1..Len(tables) /\ Len(tables) \in Nat
  BY DEF DataInv, TablesInv
<1>3. DOMAIN tables' = 1..Len(tables) /\ tables' = [k \in 1..Len(tables) |-> tables'[k]]
  BY <1>1, <1>2
<1>4. tables' \in Seq(Elements(tables')) /\ Len(tables') = Len(tables)
  BY <1>2, <1>3, SeqOfElements
<1>5. ASSUME NEW k \in DOMAIN tables', NEW i \in DOMAIN tables'[k]
      PROVE  /\ DOMAIN tables'[k][i] = {"key", "value"}
             /\ tables'[k][i].key \in Threads => tables'[k][i].value \in DOMAIN prod'
  <2>1. k \in DOMAIN tables /\ DOMAIN tables'[k] = DOMAIN tables[k]
    BY <1>1, <1>2, <1>3
  <2>2. tables'[k][i] = tables[k][i] \/ tables'[k][i] = new
    BY <1>1, <1>2, <2>1
  <2>3. DOMAIN new = {"key", "value"} /\ new.value \in DOMAIN prod'
    OBVIOUS
  <2>4. /\ DOMAIN tables[k][i] = {"key", "value"}
        /\ tables[k][i].key \in Threads => tables[k][i].value \in DOMAIN prod'
    BY <2>1 DEF DataInv, TablesInv
  <2> HIDE DEF new
  <2> QED BY <2>2, <2>3, <2>4
<1> QED BY <1>4, <1>5 DEF TablesInv

(* A new table is empty. *)
LEMMA TableData ==
  ASSUME DataInv, NEW c, tables' = Append(tables, EmptyTable(c)), UNCHANGED prod
  PROVE  TablesInv' /\ Len(tables') = Len(tables) + 1
<1> DEFINE x == EmptyTable(c)
<1>1. tables \in Seq(Elements(tables)) /\ tables' = Append(tables, x)
  BY DEF DataInv, TablesInv
<1> HIDE DEF x
<1>2. /\ DOMAIN tables' = 1..(Len(tables) + 1) /\ Len(tables') = Len(tables) + 1
      /\ tables'[Len(tables) + 1] = EmptyTable(c) /\ Len(tables) \in Nat
      /\ \A k \in 1..Len(tables) : tables'[k] = tables[k]
  BY <1>1, AppendFacts DEF x
<1>3. tables' \in Seq(Elements(tables'))
  BY <1>1, AppendFacts
<1>4. ASSUME NEW k \in DOMAIN tables', NEW i \in DOMAIN tables'[k]
      PROVE  /\ DOMAIN tables'[k][i] = {"key", "value"}
             /\ tables'[k][i].key \in Threads => tables'[k][i].value \in DOMAIN prod'
  <2>1. CASE k \in 1..Len(tables)
    <3>1. k \in DOMAIN tables
      BY <2>1 DEF DataInv, TablesInv
    <3> QED BY <1>2, <2>1, <3>1 DEF DataInv, TablesInv
  <2>2. CASE k = Len(tables) + 1
    <3>1. tables'[k][i] = [key |-> Free, value |-> Null]
      BY <1>2, <2>2 DEF EmptyTable
    <3> QED BY <3>1, ThreadsAssumption
  <2> QED BY <1>2, <2>1, <2>2
<1> QED BY <1>2, <1>3, <1>4 DEF TablesInv

(* A thread that ends leaves its slots to others. *)
LEMMA ExitData ==
  ASSUME NEW t \in Threads, DataInv, ExitTable(t)
  PROVE  /\ TablesInv' /\ Len(tables') = Len(tables) /\ DOMAIN tables' = DOMAIN tables
         /\ \A k \in DOMAIN tables :
              /\ DOMAIN tables'[k] = DOMAIN tables[k]
              /\ \A i \in DOMAIN tables[k] :
                   \/ tables'[k][i] = tables[k][i] /\ (k = lv[t].main => tables[k][i].key # t)
                   \/ tables'[k][i].key = Reusable /\ tables[k][i].key = t
<1> DEFINE m == lv[t].main
           old == tables[m]
           new == [i \in DOMAIN old |-> IF old[i].key = t THEN [old[i] EXCEPT !.key = Reusable] ELSE old[i]]
<1>1. tables' = [tables EXCEPT ![m] = new] /\ UNCHANGED prod
  BY DEF ExitTable, Loc, prodVars
<1>2. DOMAIN tables = 1..Len(tables) /\ Len(tables) \in Nat
  BY DEF DataInv, TablesInv
<1>3. DOMAIN tables' = 1..Len(tables) /\ tables' = [k \in 1..Len(tables) |-> tables'[k]]
  BY <1>1, <1>2
<1>4. tables' \in Seq(Elements(tables')) /\ Len(tables') = Len(tables)
  BY <1>2, <1>3, SeqOfElements
<1>5. ASSUME NEW k \in DOMAIN tables
      PROVE  /\ DOMAIN tables'[k] = DOMAIN tables[k]
             /\ \A i \in DOMAIN tables[k] :
                  /\ DOMAIN tables'[k][i] = {"key", "value"}
                  /\ \/ tables'[k][i] = tables[k][i] /\ (k = m => tables[k][i].key # t)
                     \/ tables'[k][i].key = Reusable /\ tables[k][i].key = t
  <2>0. \A i \in DOMAIN tables[k] : DOMAIN tables[k][i] = {"key", "value"}
    BY DEF DataInv, TablesInv
  <2>1. CASE k # m
    BY <1>1, <1>2, <2>0, <2>1
  <2>2. CASE k = m
    <3>1. tables'[k] = new
      BY <1>1, <2>2
    <3>2. ASSUME NEW i \in DOMAIN old, old[i].key = t
          PROVE  new[i].key = Reusable /\ DOMAIN new[i] = {"key", "value"}
      BY <2>0, <2>2, <3>2
    <3>3. ASSUME NEW i \in DOMAIN old, old[i].key # t
          PROVE  new[i] = old[i]
      BY <3>3
    <3>4. DOMAIN new = DOMAIN old
      OBVIOUS
    <3> HIDE DEF new
    <3> QED BY <2>0, <2>2, <3>1, <3>2, <3>3, <3>4
  <2> QED BY <2>1, <2>2
<1>6. TablesInv'
  <2>1. ASSUME NEW k \in DOMAIN tables', NEW i \in DOMAIN tables'[k]
        PROVE  /\ DOMAIN tables'[k][i] = {"key", "value"}
               /\ tables'[k][i].key \in Threads => tables'[k][i].value \in DOMAIN prod'
    <3>1. k \in DOMAIN tables /\ i \in DOMAIN tables[k]
      BY <1>2, <1>3, <1>5
    <3> QED BY <1>1, <1>5, <3>1, ThreadsAssumption DEF DataInv, TablesInv
  <2> QED BY <1>4, <2>1 DEF TablesInv
<1> QED BY <1>2, <1>3, <1>4, <1>5, <1>6

(* What a thread does to a producer besides: it takes it over, gives it up or links it. *)
LEMMA ProducerSound ==
  ASSUME ProducersInv, NEW p \in 1..Len(prod), NEW r, prod' = [prod EXCEPT ![p] = r], Sound(r, Len(prod)),
         Len(taken') = Len(taken), producerListTail' \in 0..Len(prod)
  PROVE  ProducersInv' /\ DOMAIN prod' = DOMAIN prod
<1>1. DOMAIN prod = 1..Len(prod) /\ Len(prod) \in Nat
  BY DEF ProducersInv
<1>2. DOMAIN prod' = 1..Len(prod) /\ prod' = [i \in 1..Len(prod) |-> prod'[i]]
  BY <1>1
<1>3. prod' \in Seq(Elements(prod')) /\ Len(prod') = Len(prod)
  BY <1>1, <1>2, SeqOfElements
<1>4. ASSUME NEW i \in 1..Len(prod)
      PROVE  Sound(prod'[i], Len(prod))
  <2>1. CASE i = p
    BY <2>1, <1>1
  <2>2. CASE i # p
    BY <1>1, <2>2 DEF ProducersInv
  <2> QED BY <2>1, <2>2
<1> QED BY <1>1, <1>2, <1>3, <1>4 DEF ProducersInv

(* Changing the owner, or the link in the list, leaves a producer sound. *)
LEMMA SoundOwner ==
  ASSUME NEW r, NEW n, Sound(r, n), NEW v, NEW w \in 0..n
  PROVE  /\ Sound([r EXCEPT !.inactive = v], n) /\ Sound([r EXCEPT !.token = v], n)
         /\ Sound([r EXCEPT !.next = w], n)
BY ProducerFields DEF Sound

(* So does changing both parts of the owner. *)
LEMMA SoundTwice ==
  ASSUME NEW r, NEW n, Sound(r, n), NEW v, NEW w
  PROVE  /\ Sound([r EXCEPT !.inactive = v, !.token = w], n)
         /\ Sound([r EXCEPT !.token = v, !.inactive = w], n)
BY ProducerFields DEF Sound

(* The slots still lead to producers when there are more of these. *)
LEMMA TablesKept ==
  ASSUME TablesInv, UNCHANGED tables, DOMAIN prod \subseteq DOMAIN prod'
  PROVE  TablesInv'
BY DEF TablesInv

(* A new producer is empty. *)
LEMMA CreateData ==
  ASSUME NEW t \in Threads, DataInv, CreateProducer(t)
  PROVE  /\ DataInv'
         /\ \/ Len(taken') = Len(taken) /\ UNCHANGED <<prod, log, taken>>
            \/ /\ Len(taken') = Len(taken) + 1
               /\ taken' = Append(taken, 0) /\ log' = Append(log, <<>>)
               /\ prod' = Append(prod, IF ForToken(t) THEN NewExplicitProducer(producerListTail)
                                       ELSE NewProducer(producerListTail))
<1>0. ProducersInv /\ HistoryInv /\ TablesInv /\ UNCHANGED <<producerListTail, tables>>
  BY DEF DataInv, CreateProducer
<1>1. CASE UNCHANGED <<prod, log, taken>>
  <2>1. ProducersInv' /\ HistoryInv' /\ TablesInv'
    BY <1>0, <1>1 DEF ProducersInv, HistoryInv, TablesInv, Elements
  <2> QED BY <1>1, <2>1 DEF DataInv
<1>2. ASSUME NEW x, prod' = Append(prod, x),
             x \in {NewExplicitProducer(producerListTail), NewProducer(producerListTail)},
             log' = Append(log, <<>>), taken' = Append(taken, 0)
      PROVE  DataInv' /\ Len(taken') = Len(taken) + 1
  <2> DEFINE n == Len(prod)
  <2>1. /\ n \in Nat /\ Len(prod') = n + 1 /\ DOMAIN prod = 1..n /\ DOMAIN prod' = 1..(n + 1)
        /\ prod'[n + 1] = x /\ (\A k \in 1..n : prod'[k] = prod[k]) /\ prod' \in Seq(Elements(prod'))
    BY <1>0, <1>2, AppendFacts DEF ProducersInv
  <2>2. /\ HistoryInv' /\ Len(taken') = Len(taken) + 1
    <3>1. <<>> \in Seq(Items) /\ 0 \in Nat
      OBVIOUS
    <3>2. ASSUME NEW S, NEW s \in Seq(S), NEW y \in S
          PROVE  Append(s, y) \in Seq(S) /\ Len(Append(s, y)) = Len(s) + 1
      OBVIOUS
    <3> QED BY <1>0, <1>2, <3>1, <3>2 DEF HistoryInv
  <2>3. Sound(x, n + 1)
    <3>1. 0 \in Indexes
      BY SizesAssumption DEF Indexes
    <3>2. producerListTail \in 0..(n + 1)
      BY <1>0, <2>1 DEF ProducersInv
    <3>3. ASSUME NEW w PROVE DOMAIN NewProducer(w) = DOMAIN NewProducer(Null)
                             /\ DOMAIN NewExplicitProducer(w) = DOMAIN NewProducer(Null)
      BY DEF NewProducer, NewExplicitProducer
    <3>4. ASSUME NEW w
          PROVE /\ NewProducer(w).next = w /\ NewExplicitProducer(w).next = w
                /\ NewProducer(w).tailIndex = 0 /\ NewExplicitProducer(w).tailIndex = 0
                /\ NewProducer(w).headIndex = 0 /\ NewExplicitProducer(w).headIndex = 0
                /\ NewProducer(w).dequeueOptimisticCount = 0 /\ NewExplicitProducer(w).dequeueOptimisticCount = 0
                /\ NewProducer(w).dequeueOvercommit = 0 /\ NewExplicitProducer(w).dequeueOvercommit = 0
      BY DEF NewProducer, NewExplicitProducer
    <3> QED BY <1>2, <3>1, <3>2, <3>3, <3>4 DEF Sound
  <2>4. ASSUME NEW p \in 1..(n + 1)
        PROVE  Sound(prod'[p], n + 1)
    <3>1. CASE p \in 1..n
      <4>1. Sound(prod[p], n)
        BY <1>0, <3>1 DEF ProducersInv
      <4>2. 0..n \subseteq 0..(n + 1)
        BY <2>1
      <4> QED BY <2>1, <3>1, <4>1, <4>2 DEF Sound
    <3>2. CASE p = n + 1
      BY <2>1, <2>3, <3>2
    <3> QED BY <2>1, <3>1, <3>2
  <2>5. ProducersInv'
    <3>1. producerListTail' \in 0..(n + 1) /\ Len(taken') = n + 1
      BY <1>0, <2>1, <2>2 DEF ProducersInv
    <3> HIDE DEF n
    <3> QED BY <2>1, <2>4, <3>1 DEF ProducersInv
  <2>6. TablesInv'
    BY <1>0, <2>1, TablesKept
  <2> QED BY <2>2, <2>5, <2>6 DEF DataInv
<1> QED BY <1>1, <1>2 DEF CreateProducer

(* The other steps of the hash change neither the elements nor how many producers there are. *)
LEMMA HashData ==
  ASSUME NEW t \in Threads, DataInv, ThreadInv(t), HashStep(t), ~CreateProducer(t)
  PROVE  DataInv' /\ UNCHANGED <<log, taken>>
<1>0. UNCHANGED <<log, taken>>
  BY DEF HashStep, Lookup, Copy, CopyReusable, CountSelf, Full, Resize, Clear, Reload, Recycle, Walk,
         PushProducer, InsertReusable, InsertFree, Uncount, Exit, ExitTable, ExitProducer, DropToken,
         history
<1> SUFFICES DataInv'
  BY <1>0
<1>1. ProducersInv /\ HistoryInv /\ TablesInv /\ HistoryInv' /\ Len(taken') = Len(taken)
  BY <1>0 DEF DataInv, HistoryInv
<1> DEFINE n == Len(prod)
           p == lv[t].ptr
<1>2. /\ n \in Nat /\ DOMAIN prod = 1..n /\ producerListTail \in 0..n /\ n = Len(taken)
      /\ \A i \in 1..n : Sound(prod[i], n)
  BY <1>1 DEF ProducersInv
<1>3. pc[t] \in {"h_copy", "h_copy2", "h_reuse", "h_empty", "h_walk", "h_push", "x_inactive"} => p \in 1..n
  BY <1>2 DEF ThreadInv, Fits, Typed, Pointing, Null
<1>4. ASSUME UNCHANGED <<prod, producerListTail>>, TablesInv'
      PROVE  DataInv'
  BY <1>1, <1>4 DEF DataInv, ProducersInv, Elements
<1>5. ASSUME UNCHANGED tables, DOMAIN prod' = DOMAIN prod, ProducersInv'
      PROVE  DataInv'
  BY <1>1, <1>5, TablesKept DEF DataInv
<1>a. ASSUME UNCHANGED <<prod, producerListTail, tables>>
      PROVE  DataInv'
  BY <1>1, <1>4, <1>a, TablesKept
<1>b. ASSUME NEW e, Claim(t, e), UNCHANGED <<prod, producerListTail>>, p \in 1..n
      PROVE  DataInv'
  BY <1>2, <1>4, <1>b, ClaimData
<1> HIDE DEF n, p
<1>6. CASE Lookup(t) \/ CountSelf(t) \/ Full(t) \/ Clear(t) \/ Reload(t) \/ Recycle(t) \/ Uncount(t) \/ Exit(t)
  BY <1>6, <1>a DEF Lookup, CountSelf, Full, Clear, Reload, Recycle, Uncount, Exit, prodVars, hashVars
<1>7. CASE Copy(t) \/ CopyReusable(t) \/ InsertReusable(t) \/ InsertFree(t)
  BY <1>7, <1>a, <1>b, <1>3 DEF Copy, CopyReusable, InsertReusable, InsertFree, prodVars, At
<1>8. CASE Resize(t)
  <2>1. UNCHANGED <<prod, producerListTail>>
    BY <1>8 DEF Resize, prodVars
  <2>2. UNCHANGED tables \/ \E c : tables' = Append(tables, EmptyTable(c))
    BY <1>8 DEF Resize
  <2> QED BY <1>4, <1>a, <2>1, <2>2, TableData
<1>9. CASE ExitTable(t)
  BY <1>4, <1>9, ExitData DEF ExitTable, prodVars
<1>10. CASE Walk(t)
  <2>1. p \in 1..n /\ UNCHANGED <<producerListTail, tables>> /\ lv[t].ptr = p
    BY <1>3, <1>10 DEF Walk, hashVars, At, p
  <2>2. CASE UNCHANGED prod
    BY <1>a, <2>1, <2>2
  <2>3. CASE prod' = [prod EXCEPT ![p].inactive = FALSE, ![p].token = TokenOf(t)]
    <3> DEFINE r == [prod[p] EXCEPT !.inactive = FALSE, !.token = TokenOf(t)]
    <3>1. prod' = [prod EXCEPT ![p] = r]
      BY <1>2, <2>1, <2>3
    <3>2. Sound(r, n)
      BY <1>2, <2>1, SoundTwice, Zenon
    <3> HIDE DEF r
    <3> QED BY <1>1, <1>2, <1>5, <2>1, <3>1, <3>2, ProducerSound DEF n
  <2> QED BY <1>10, <2>1, <2>2, <2>3 DEF Walk, Loc
<1>11. CASE PushProducer(t)
  <2>1. p \in 1..n /\ UNCHANGED tables /\ lv[t].ptr = p
    BY <1>3, <1>11 DEF PushProducer, hashVars, At, p
  <2>2. CASE producerListTail' = p /\ prod' = [prod EXCEPT ![p].token = TokenOf(t)]
    <3> DEFINE r == [prod[p] EXCEPT !.token = TokenOf(t)]
    <3>1. prod' = [prod EXCEPT ![p] = r]
      BY <1>2, <2>1, <2>2
    <3>2. Sound(r, n)
      BY <1>2, <2>1, SoundOwner
    <3>3. producerListTail' \in 0..n
      BY <1>2, <2>1, <2>2
    <3> HIDE DEF r
    <3> QED BY <1>1, <1>2, <1>5, <2>1, <3>1, <3>2, <3>3, ProducerSound DEF n
  <2>3. CASE UNCHANGED producerListTail /\ prod' = [prod EXCEPT ![p].next = producerListTail]
    <3> DEFINE r == [prod[p] EXCEPT !.next = producerListTail]
    <3>1. prod' = [prod EXCEPT ![p] = r]
      BY <1>2, <2>1, <2>3
    <3>2. Sound(r, n)
      BY <1>2, <2>1, SoundOwner
    <3> HIDE DEF r
    <3> QED BY <1>1, <1>2, <1>5, <2>1, <2>3, <3>1, <3>2, ProducerSound DEF n
  <2> QED BY <1>11, <2>1, <2>2, <2>3 DEF PushProducer, Loc
<1>12. CASE ExitProducer(t)
  <2> DEFINE r == [prod[p] EXCEPT !.inactive = TRUE]
  <2>1. p \in 1..n /\ UNCHANGED <<producerListTail, tables>> /\ prod' = [prod EXCEPT ![p] = r]
    BY <1>2, <1>3, <1>12 DEF ExitProducer, hashVars, At, Loc, p
  <2>2. Sound(r, n)
    BY <1>2, <2>1, SoundOwner
  <2> HIDE DEF r
  <2> QED BY <1>1, <1>2, <1>5, <2>1, <2>2, ProducerSound DEF n
<1>13. CASE DropToken(t)
  <2>1. /\ UNCHANGED <<producerListTail, tables>>
        /\ prod' = [q \in 1..n |-> IF prod[q].token = t
                      THEN [prod[q] EXCEPT !.token = Free, !.inactive = TRUE] ELSE prod[q]]
    BY <1>2, <1>13, Zenon DEF DropToken, hashVars
  <2>2. DOMAIN prod' = 1..n /\ prod' = [i \in 1..n |-> prod'[i]]
    BY <2>1, Zenon
  <2>3. prod' \in Seq(Elements(prod')) /\ Len(prod') = n
    BY <1>2, <2>2, SeqOfElements
  <2>4. ASSUME NEW q \in 1..n PROVE Sound(prod'[q], n)
    <3> DEFINE r == [prod[q] EXCEPT !.token = Free, !.inactive = TRUE]
    <3>1. Sound(r, n) /\ Sound(prod[q], n)
      BY <1>2, SoundTwice, Zenon
    <3>2. prod'[q] = r \/ prod'[q] = prod[q]
      BY <2>1, Zenon
    <3> HIDE DEF r
    <3> QED BY <3>1, <3>2
  <2>5. ProducersInv'
    BY <1>1, <1>2, <2>1, <2>3, <2>4, Zenon DEF ProducersInv
  <2> QED BY <1>2, <1>5, <2>1, <2>2, <2>5, Zenon
<1> QED BY <1>6, <1>7, <1>8, <1>9, <1>10, <1>11, <1>12, <1>13 DEF HashStep

-----------------------------------------------------------------------------
(* The elements that nobody has claimed *)

(* The history of the elements, producer by producer. *)
LEMMA UnclaimedType ==
  ASSUME HistoryInv
  PROVE  /\ Unclaimed \in Int /\ IsFiniteSet(1..Len(log)) /\ DOMAIN log = 1..Len(log) /\ DOMAIN taken = 1..Len(log)
         /\ Len(log) \in Nat /\ \A p \in 1..Len(log) : log[p] \in Seq(Items) /\ taken[p] \in Nat
<1> DEFINE D == 1..Len(log)
           f == [p \in D |-> 1..Len(log[p])]
           g == [p \in D |-> 1..taken[p]]
<1>1. /\ DOMAIN log = D /\ DOMAIN taken = D /\ Len(log) \in Nat
      /\ \A p \in D : log[p] \in Seq(Items) /\ taken[p] \in Nat
  BY DEF HistoryInv
<1>2. IsFiniteSet(D)
  BY <1>1, IntervalSize
<1>3. \A p \in D : Len(log[p]) \in Nat
  BY <1>1
<1>4. \A p \in D : IsFiniteSet(f[p]) /\ IsFiniteSet(g[p])
  BY <1>1, <1>3, IntervalSize
<1>5. DOMAIN f = D /\ DOMAIN g = D
  OBVIOUS
<1> HIDE DEF f, g, D
<1>6. Total(f) \in Nat /\ Total(g) \in Nat
  BY <1>2, <1>4, <1>5, PairsFinite
<1>7. Unclaimed = Total(f) - Total(g)
  BY <1>1 DEF Unclaimed, f, g
<1> QED BY <1>1, <1>2, <1>6, <1>7 DEF D

(* Elements enter one producer. *)
LEMMA ElementsEnter ==
  ASSUME HistoryInv, NEW p, p \in 1..Len(taken), NEW s, s \in Seq(Items), NEW d \in Nat,
         Len(s) = Len(log[p]) + d, log' = [log EXCEPT ![p] = s], UNCHANGED taken
  PROVE  HistoryInv' /\ Unclaimed' = Unclaimed + d
<1> DEFINE D == 1..Len(log)
           F == [k \in D |-> 1..Len(log[k])]
           G == [k \in D |-> 1..Len(log'[k])]
           T == Total([k \in D |-> 1..taken[k]])
<1>1. /\ DOMAIN log = D /\ DOMAIN taken = D /\ IsFiniteSet(D) /\ p \in D /\ Len(log) \in Nat
      /\ (\A k \in D : log[k] \in Seq(Items) /\ taken[k] \in Nat) /\ Len(taken) = Len(log)
  BY UnclaimedType DEF HistoryInv
<1>2. /\ log' \in Seq(Seq(Items)) /\ Len(log') = Len(log) /\ DOMAIN log' = D
      /\ (\A k \in D \ {p} : log'[k] = log[k]) /\ log'[p] = s
  BY <1>1 DEF HistoryInv
<1>3. HistoryInv'
  BY <1>1, <1>2 DEF HistoryInv
<1>4. /\ DOMAIN F = D /\ DOMAIN G = D /\ F[p] = 1..Len(log[p]) /\ G[p] = 1..(Len(log[p]) + d)
      /\ (\A k \in D : IsFiniteSet(F[k])) /\ (\A k \in D \ {p} : G[k] = F[k]) /\ Len(log[p]) \in Nat
  <2>1. \A k \in D : Len(log[k]) \in Nat
    BY <1>1
  <2> QED BY <1>1, <1>2, <2>1, IntervalSize
<1> DEFINE a == Len(log[p])
           b == (Len(log[p]) + d)
<1>5. Total(F) \in Nat /\ Total(G) \in Nat /\ Total(G) + a = Total(F) + b
  <2>1. /\ IsFiniteSet(D) /\ p \in D /\ DOMAIN F = D /\ DOMAIN G = D /\ a \in Nat /\ b \in Nat
        /\ F[p] = 1..a /\ G[p] = 1..b
        /\ (\A k \in D : IsFiniteSet(F[k])) /\ (\A k \in D \ {p} : G[k] = F[k])
    BY <1>1, <1>4
  <2> HIDE DEF F, G, D, a, b
  <2> QED BY ONLY <2>1, SizesUpdate
<1>7. Unclaimed = Total(F) - T /\ Unclaimed' = Total(G) - T
  BY <1>1, <1>2 DEF Unclaimed
<1>8. T \in Int
  <2>1. Unclaimed \in Int
    BY UnclaimedType
  <2>2. \A k \in D : IsFiniteSet(1..taken[k])
    BY <1>1, IntervalSize
  <2> DEFINE h == [k \in D |-> 1..taken[k]]
  <2>3. DOMAIN h = D /\ \A k \in D : IsFiniteSet(h[k])
    BY <2>2
  <2> HIDE DEF h, D
  <2>4. Total(h) \in Nat
    BY <1>1, <2>3, PairsFinite
  <2> QED BY <2>4 DEF h
<1>9. a \in Nat /\ b = a + d
  BY <1>4
<1> HIDE DEF F, G, T, a, b
<1>10. Unclaimed' = Unclaimed + d
  BY ONLY <1>5, <1>7, <1>8, <1>9, d \in Nat
<1> QED BY <1>3, <1>10

(* A consumer claims elements of one producer. *)
LEMMA ElementsClaimed ==
  ASSUME HistoryInv, NEW p, p \in 1..Len(taken), NEW d \in Nat,
         taken' = [taken EXCEPT ![p] = @ + d], UNCHANGED log
  PROVE  HistoryInv' /\ Unclaimed' = Unclaimed + (-d) /\ Len(taken') = Len(taken)
<1> DEFINE D == 1..Len(log)
           F == [k \in D |-> 1..taken[k]]
           G == [k \in D |-> 1..taken'[k]]
           T == Total([k \in D |-> 1..Len(log[k])])
<1>1. /\ DOMAIN log = D /\ DOMAIN taken = D /\ IsFiniteSet(D) /\ p \in D /\ Len(log) \in Nat
      /\ (\A k \in D : log[k] \in Seq(Items) /\ taken[k] \in Nat) /\ Len(taken) = Len(log)
  BY UnclaimedType DEF HistoryInv
<1>2. /\ taken' \in Seq(Nat) /\ Len(taken') = Len(taken) /\ DOMAIN taken' = D
      /\ (\A k \in D \ {p} : taken'[k] = taken[k]) /\ taken'[p] = taken[p] + d
  BY <1>1 DEF HistoryInv
<1>3. HistoryInv'
  BY <1>1, <1>2 DEF HistoryInv
<1>4. /\ DOMAIN F = D /\ DOMAIN G = D /\ F[p] = 1..taken[p] /\ G[p] = 1..(taken[p] + d)
      /\ (\A k \in D : IsFiniteSet(F[k])) /\ (\A k \in D \ {p} : G[k] = F[k]) /\ taken[p] \in Nat
  <2>1. \A k \in D : taken[k] \in Nat
    BY <1>1
  <2> QED BY <1>1, <1>2, <2>1, IntervalSize
<1> DEFINE a == taken[p]
           b == (taken[p] + d)
<1>5. Total(F) \in Nat /\ Total(G) \in Nat /\ Total(G) + a = Total(F) + b
  <2>1. /\ IsFiniteSet(D) /\ p \in D /\ DOMAIN F = D /\ DOMAIN G = D /\ a \in Nat /\ b \in Nat
        /\ F[p] = 1..a /\ G[p] = 1..b
        /\ (\A k \in D : IsFiniteSet(F[k])) /\ (\A k \in D \ {p} : G[k] = F[k])
    BY <1>1, <1>4
  <2> HIDE DEF F, G, D, a, b
  <2> QED BY ONLY <2>1, SizesUpdate
<1>7. Unclaimed = T - Total(F) /\ Unclaimed' = T - Total(G)
  BY <1>1, <1>2 DEF Unclaimed
<1>8. T \in Int
  <2> DEFINE h == [k \in D |-> 1..Len(log[k])]
  <2>1. \A k \in D : Len(log[k]) \in Nat
    BY <1>1
  <2>3. DOMAIN h = D /\ \A k \in D : IsFiniteSet(h[k])
    BY <2>1, IntervalSize
  <2> HIDE DEF h, D
  <2>4. Total(h) \in Nat
    BY <1>1, <2>3, PairsFinite
  <2> QED BY <2>4 DEF h
<1>9. a \in Nat /\ b = a + d
  BY <1>4
<1> HIDE DEF F, G, T, a, b
<1>10. Unclaimed' = Unclaimed + (-d)
  BY ONLY <1>5, <1>7, <1>8, <1>9, d \in Nat
<1> QED BY <1>2, <1>3, <1>10

(* A new producer has none. *)
LEMMA ElementsNone ==
  ASSUME HistoryInv, log' = Append(log, <<>>), taken' = Append(taken, 0)
  PROVE  Unclaimed' = Unclaimed
<1> DEFINE n == Len(log)
           F == [k \in DOMAIN log |-> 1..Len(log[k])]
           G == [k \in DOMAIN taken |-> 1..taken[k]]
           F2 == [k \in DOMAIN log' |-> 1..Len(log'[k])]
           G2 == [k \in DOMAIN taken' |-> 1..taken'[k]]
<1>1. /\ n \in Nat /\ DOMAIN log = 1..n /\ DOMAIN log' = 1..(n + 1) /\ log'[n + 1] = <<>>
      /\ \A k \in 1..n : log'[k] = log[k]
  <2>1. log \in Seq(Elements(log))
    <3>1. DOMAIN log = 1..n /\ log = [k \in 1..n |-> log[k]] /\ n \in Nat
      BY DEF HistoryInv
    <3> HIDE DEF n
    <3> QED BY <3>1, SeqOfElements
  <2> QED BY <2>1, AppendFacts
<1>2. /\ DOMAIN taken = 1..n /\ DOMAIN taken' = 1..(n + 1) /\ taken'[n + 1] = 0
      /\ \A k \in 1..n : taken'[k] = taken[k]
  BY DEF HistoryInv
<1>3. 1..Len(<<>>) = {} /\ 1..0 = {}
  OBVIOUS
<1>4. /\ DOMAIN F \subseteq DOMAIN F2 /\ (\A k \in DOMAIN F : F2[k] = F[k])
      /\ \A k \in DOMAIN F2 \ DOMAIN F : F2[k] = {}
  BY <1>1, <1>3
<1>5. /\ DOMAIN G \subseteq DOMAIN G2 /\ (\A k \in DOMAIN G : G2[k] = G[k])
      /\ \A k \in DOMAIN G2 \ DOMAIN G : G2[k] = {}
  BY <1>1, <1>2, <1>3
<1> HIDE DEF F, G, F2, G2
<1>6. Total(F2) = Total(F) /\ Total(G2) = Total(G)
  BY <1>4, <1>5, TotalExtend
<1> QED BY <1>6 DEF Unclaimed, F, G, F2, G2

-----------------------------------------------------------------------------
(* Every step *)

(* What a step of t may change besides its own control. *)
Effect(t) ==
  /\ StepOf(t) /\ DataInv' /\ Len(taken') >= Len(taken) /\ m_count' \in Int /\ m_sema' \in Nat
  /\ \E d \in Int : Balanced(t, d) /\ Unclaimed' = Unclaimed + d

(* Most steps neither move permits nor elements. *)
LEMMA QuietEffect ==
  ASSUME NEW t \in Threads, ControlInv, DataInv, ThreadInv(t), StepOf(t), KeepsOwing(t), ProducersKept,
         UNCHANGED <<semVars, producerListTail, tables, log, taken>>
  PROVE  Effect(t)
<1>1. HistoryInv' /\ Len(taken') = Len(taken) /\ Len(taken) \in Nat
  BY DEF DataInv, HistoryInv
<1>2. DataInv'
  BY <1>1, KeptData
<1>3. Balanced(t, 0)
  BY QuietBalanced
<1>4. m_count' \in Int /\ m_sema' \in Nat
  BY DEF ControlInv, semVars
<1>5. Unclaimed' = Unclaimed + 0 /\ 0 \in Int
  <2>1. Unclaimed' = Unclaimed /\ Unclaimed \in Int
    BY UnclaimedType DEF DataInv, Unclaimed
  <2> QED BY <2>1
<1>6. Len(taken') >= Len(taken)
  BY <1>1
<1> HIDE DEF Balanced
<1> QED BY <1>2, <1>3, <1>4, <1>5, <1>6 DEF Effect

(* The semaphore moves permits and wake-ups, and no elements (lightweightsemaphore.h:278-419). *)
LEMMA SemaphoreEffect ==
  ASSUME NEW t \in Threads, ControlInv, DataInv, ThreadInv(t), SemaphoreStep(t)
  PROVE  Effect(t)
<1>1. UNCHANGED <<prod, producerListTail, tables, log, taken>>
  BY DEF SemaphoreStep, TryWaitLoad, TryWaitCAS, SpinLoad, SpinCAS, FetchSub, Sleep, Timeout,
         AdjustLoad, TrySema, Restore, Signal, Post, semUnchanged, prodVars, hashVars, history
<1>2. HistoryInv' /\ Len(taken') = Len(taken) /\ taken \in Seq(Nat) /\ Len(taken) \in Nat
  BY <1>1 DEF DataInv, HistoryInv
<1>3. DataInv'
  BY <1>1, <1>2, KeptData, ProducersUnchanged DEF DataInv
<1>4. StepOf(t) /\ Balanced(t, 0)
  BY <1>2, SemaphoreLocal
<1>5. m_count' \in Int /\ m_sema' \in Nat
  <2>0. m_count \in Int /\ m_sema \in Nat /\ Size(t) \in Nat
    BY SizeType DEF ControlInv
  <2>1. CASE UNCHANGED semVars
    BY <2>0, <2>1 DEF semVars
  <2>2. CASE TryWaitCAS(t)
    <3>1. lv[t].old \in Int /\ lv[t].permits \in Nat
      BY <2>2 DEF TryWaitCAS, At, ThreadInv, Fits, Waits, Typed
    <3> QED BY <2>0, <2>2, <3>1 DEF TryWaitCAS, Loc, Least
  <2>3. CASE SpinCAS(t)
    <3>1. lv[t].old \in Int
      BY <2>3 DEF SpinCAS, At, ThreadInv, Fits, Waits
    <3> QED BY <2>0, <2>3, <3>1 DEF SpinCAS, Loc, Least
  <2>4. CASE FetchSub(t) \/ Sleep(t) \/ TrySema(t) \/ Restore(t) \/ Signal(t)
    BY <2>0, <2>4 DEF FetchSub, Sleep, TrySema, Restore, Signal
  <2>5. CASE Post(t)
    <3>1. lv[t].size \in Nat
      BY <2>5 DEF Post, At, ThreadInv, Fits, Waits
    <3> QED BY <2>0, <2>5, <3>1 DEF Post, Loc
  <2>6. CASE TryWaitLoad(t) \/ SpinLoad(t) \/ Timeout(t) \/ AdjustLoad(t)
    BY <2>1, <2>6 DEF TryWaitLoad, SpinLoad, Timeout, AdjustLoad
  <2> QED BY <2>2, <2>3, <2>4, <2>5, <2>6 DEF SemaphoreStep
<1>6. Unclaimed' = Unclaimed + 0 /\ 0 \in Int
  <2>1. Unclaimed' = Unclaimed /\ Unclaimed \in Int
    BY <1>1, UnclaimedType DEF DataInv, Unclaimed
  <2> QED BY <2>1
<1>7. Len(taken') >= Len(taken)
  BY <1>2
<1> QED BY <1>3, <1>4, <1>5, <1>6, <1>7 DEF Effect

(* The free list moves none of these. *)
LEMMA FreeListEffect ==
  ASSUME NEW t \in Threads, ControlInv, DataInv, ThreadInv(t), FreeListStep(t)
  PROVE  Effect(t)
<1>1. UNCHANGED <<semVars, prod, producerListTail, tables, log, taken>>
  BY Zenon DEF FreeListStep, PoolLoad, PoolTake, GetHead, GetRefs, GetRef, GetNext, GetCAS, GetDone,
         GetUnref, CreateBlock, AddBlock, AddLoad, AddLink, AddPush, AddRetry, freeUnchanged,
         addUnchanged, prodVars, hashVars, history
<1> QED BY <1>1, FreeListLocal, ProducersUnchanged, QuietEffect DEF DataInv

(* Neither do the hash tables and the list of producers, but a producer may be new. *)
LEMMA HashEffect ==
  ASSUME NEW t \in Threads, ControlInv, DataInv, ThreadInv(t), HashStep(t)
  PROVE  Effect(t)
<1>1. UNCHANGED semVars
  BY DEF HashStep, Lookup, Copy, CopyReusable, CountSelf, Full, Resize, Clear, Reload, Recycle, Walk,
         CreateProducer, PushProducer, InsertReusable, InsertFree, Uncount, Exit, ExitTable,
         ExitProducer, DropToken, hashUnchanged
<1>2. StepOf(t) /\ KeepsOwing(t)
  BY CreateLocal, HashLocal
<1>3. Balanced(t, 0)
  BY <1>1, <1>2, QuietBalanced
<1>4. Len(taken) \in Nat /\ Unclaimed \in Int /\ HistoryInv
  BY UnclaimedType DEF DataInv, HistoryInv
<1>5. DataInv' /\ Len(taken') >= Len(taken) /\ Unclaimed' = Unclaimed
  <2>1. CASE CreateProducer(t)
    <3>1. CASE UNCHANGED <<prod, log, taken>>
      BY <1>4, <2>1, <3>1, CreateData DEF Unclaimed
    <3>2. CASE Len(taken') = Len(taken) + 1 /\ taken' = Append(taken, 0) /\ log' = Append(log, <<>>)
      BY <1>4, <2>1, <3>2, CreateData, ElementsNone
    <3> QED BY <2>1, <3>1, <3>2, CreateData
  <2>2. CASE ~CreateProducer(t)
    <3>1. DataInv' /\ UNCHANGED <<log, taken>>
      BY <2>2, HashData
    <3> QED BY <1>4, <3>1 DEF Unclaimed
  <2> QED BY <2>1, <2>2
<1>6. m_count' \in Int /\ m_sema' \in Nat
  BY <1>1 DEF ControlInv, semVars
<1>7. Unclaimed' = Unclaimed + 0 /\ 0 \in Int
  BY <1>4, <1>5
<1> QED BY <1>2, <1>3, <1>5, <1>6, <1>7 DEF Effect

(* Nor does an enqueue before it publishes its element. *)
LEMMA EnqueueEffect ==
  ASSUME NEW t \in Threads, ControlInv, DataInv, ThreadInv(t), EnqueueStep(t), ~Publish(t)
  PROVE  Effect(t)
<1>1. UNCHANGED <<semVars, producerListTail, tables, log, taken>>
  BY DEF EnqueueStep, EnqueueStart, InsertEntry, InsertTail, Rewind, Unset, InsertBlock, prodUnchanged,
         dataUnchanged, hashVars, history
<1>2. ProducersKept
  BY EnqueueData
<1> QED BY <1>1, <1>2, EnqueueLocal, QuietEffect

(* Nor does a bulk enqueue before it publishes. *)
LEMMA BulkEnqueueEffect ==
  ASSUME NEW t \in Threads, ControlInv, DataInv, ThreadInv(t), BulkEnqueueStep(t), ~BulkPublish(t)
  PROVE  Effect(t)
<1>1. UNCHANGED <<semVars, producerListTail, tables, log, taken>>
  BY DEF BulkEnqueueStep, BulkStart, BulkFull, BulkInsertBlock, RevertUnset, RevertTail, loads,
         prodUnchanged, dataUnchanged, hashVars, history
<1>2. ProducersKept
  BY BulkEnqueueData
<1> QED BY <1>1, <1>2, BulkEnqueueLocal, QuietEffect

(* Nor does a dequeue but at its claim. *)
LEMMA DequeueEffect ==
  ASSUME NEW t \in Threads, ControlInv, DataInv, ThreadInv(t), DequeueStep(t), ~DequeueHead(t)
  PROVE  Effect(t)
<1>1. UNCHANGED <<semVars, producerListTail, tables, log, taken>>
  BY DEF DequeueStep, Scan, Visit, VisitHead, DequeueTail, DequeueOvercommit, DequeueCheck,
         DequeueClaim, DequeueRecheck, DequeueUndo, DequeueFailed, LookupHeader, LookupTail,
         LookupEntry, Read, SetEmpty, Release, loads, prodUnchanged, dataUnchanged, hashVars, history
<1>2. ProducersKept
  BY DequeueData
<1> QED BY <1>1, <1>2, DequeueLocal, QuietEffect

(* Nor does a bulk dequeue but at its claim. *)
LEMMA BulkDequeueEffect ==
  ASSUME NEW t \in Threads, ControlInv, DataInv, ThreadInv(t), BulkDequeueStep(t)
  PROVE  Effect(t)
<1>1. UNCHANGED <<semVars, producerListTail, tables, log, taken>>
  BY DEF BulkDequeueStep, BulkScan, BulkCheck, BulkRecheck, BulkOvercommit, BulkRead, SetManyEmpty,
         loads, prodUnchanged, dataUnchanged, hashVars, history
<1>2. ProducersKept
  BY BulkDequeueData
<1> QED BY <1>1, <1>2, BulkDequeueLocal, QuietEffect

(* Nor do the steps that are of a token alone. *)
LEMMA TokenEffect ==
  ASSUME NEW t \in Threads, ControlInv, DataInv, ThreadInv(t), TokenStep(t)
  PROVE  Effect(t)
<1>1. UNCHANGED <<semVars, producerListTail, tables, log, taken>>
  BY DEF TokenStep, TokenEnqueue, TokenReuse, TokenRoom, TokenIndex, TokenInsert, TokenNoBlock,
         TokenReady, TokenFront, SetFlags, loads, prodUnchanged, dataUnchanged, hashVars, history
<1>2. ProducersKept
  BY TokenData
<1> QED BY <1>1, <1>2, TokenLocal, QuietEffect

(* A step that moves elements. *)
LEMMA LoudEffect ==
  ASSUME NEW t \in Threads, ControlInv, DataInv, StepOf(t), ProducersKept, HistoryInv', NEW d \in Int,
         Balanced(t, d), Unclaimed' = Unclaimed + d, Len(taken') = Len(taken),
         UNCHANGED <<semVars, producerListTail, tables>>
  PROVE  Effect(t)
<1>1. DataInv'
  BY KeptData
<1>2. m_count' \in Int /\ m_sema' \in Nat
  BY DEF ControlInv, semVars
<1>3. Len(taken') >= Len(taken)
  BY DEF DataInv, HistoryInv
<1> QED BY <1>1, <1>2, <1>3 DEF Effect

(* The new tailIndex makes one element available, for which the thread owes a signal. *)
LEMMA PublishEffect ==
  ASSUME NEW t \in Threads, ControlInv, DataInv, ThreadInv(t), Publish(t)
  PROVE  Effect(t)
<1> DEFINE p == lv[t].ptr
           item == <<t, Len(program[t]), 0>>
           s == Append(log[p], item)
<1>1. /\ UNCHANGED <<semVars, producerListTail, tables, taken>> /\ log' = [log EXCEPT ![p] = s]
  BY DEF Publish, prodUnchanged, hashVars, Loc
<1>2. StepOf(t) /\ Balanced(t, Size(t)) /\ ProducersKept
  <2>1. EnqueueStep(t)
    BY DEF EnqueueStep
  <2> QED BY <2>1, PublishLocal, EnqueueData
<1>3. p \in 1..Len(taken) /\ Size(t) = 1 /\ HistoryInv
  <2>1. pc[t] = "e_publish"
    BY DEF Publish, At
  <2>2. p \in 1..Len(taken) /\ ~Bulk(t)
    BY <2>1 DEF ThreadInv, Fits, Typed, Pointing, Permits, Null
  <2> QED BY <2>2 DEF DataInv, Size
<1>4. log[p] \in Seq(Items) /\ item \in Items
  BY <1>3, UnclaimedType DEF HistoryInv, ControlInv, Items
<1>5. s \in Seq(Items) /\ Len(s) = Len(log[p]) + 1
  <2> HIDE DEF item, p
  <2> QED BY <1>4
<1> HIDE DEF s, p, item
<1>6. HistoryInv' /\ Unclaimed' = Unclaimed + 1
  BY <1>1, <1>3, <1>5, ElementsEnter
<1>7. Len(taken') = Len(taken) /\ 1 \in Int
  BY <1>1
<1> QED BY <1>1, <1>2, <1>3, <1>6, <1>7, LoudEffect

(* The new tailIndex of a bulk enqueue makes all its elements available, for which it owes one signal. *)
LEMMA BulkPublishEffect ==
  ASSUME NEW t \in Threads, ControlInv, DataInv, ThreadInv(t), BulkPublish(t)
  PROVE  Effect(t)
<1> DEFINE p == lv[t].ptr
           items == [k \in 1..BulkSize |-> <<t, Len(program[t]), k - 1>>]
           s == log[p] \o items
<1>1. UNCHANGED <<semVars, producerListTail, tables, taken>>
  BY DEF BulkPublish, prodUnchanged, hashVars
<1>2. StepOf(t) /\ ProducersKept
  <2>1. BulkEnqueueStep(t)
    BY DEF BulkEnqueueStep
  <2> QED BY <2>1, BulkPublishLocal, BulkEnqueueData
<1>3. HistoryInv /\ Len(taken') = Len(taken) /\ Unclaimed \in Int
  BY <1>1, UnclaimedType DEF DataInv
<1>4. CASE Call(t) \in Throwing
  <2>1. UNCHANGED log /\ Balanced(t, 0)
    BY <1>4, BulkPublishLocal DEF BulkPublish
  <2>2. HistoryInv' /\ Unclaimed' = Unclaimed + 0 /\ 0 \in Int
    BY <1>1, <1>3, <2>1 DEF HistoryInv, Unclaimed
  <2> QED BY <1>1, <1>2, <1>3, <2>1, <2>2, LoudEffect
<1>5. CASE Call(t) \notin Throwing
  <2>1. log' = [log EXCEPT ![p] = s]
    BY <1>5 DEF BulkPublish, Loc
  <2>2. Balanced(t, Size(t))
    BY <1>5, BulkPublishLocal
  <2>3. p \in 1..Len(taken) /\ Size(t) = BulkSize /\ BulkSize \in Nat
    <3>1. pc[t] = "b_publish"
      BY DEF BulkPublish, At
    <3>2. p \in 1..Len(taken) /\ Bulk(t)
      BY <3>1 DEF ThreadInv, Fits, Typed, Pointing, Permits, Null
    <3> QED BY <3>2, SizesAssumption DEF Size
  <2>4. log[p] \in Seq(Items)
    BY <1>3, <2>3, UnclaimedType DEF HistoryInv
  <2>5. items \in Seq(Items) /\ Len(items) = BulkSize
    <3>1. \A k \in 1..BulkSize : <<t, Len(program[t]), k - 1>> \in Items
      BY <2>3 DEF ControlInv, Items
    <3> QED BY <2>3, <3>1
  <2>6. s \in Seq(Items) /\ Len(s) = Len(log[p]) + BulkSize
    <3> HIDE DEF items, p
    <3> QED BY <2>4, <2>5
  <2> HIDE DEF s, p, items
  <2>7. HistoryInv' /\ Unclaimed' = Unclaimed + BulkSize
    BY <1>1, <1>3, <2>1, <2>3, <2>6, ElementsEnter
  <2>8. BulkSize \in Int
    BY <2>3
  <2> QED BY <1>1, <1>2, <1>3, <2>2, <2>3, <2>7, <2>8, LoudEffect
<1> QED BY <1>4, <1>5

(* Who claims elements gives up as many of its permits. *)
LEMMA ClaimEffect ==
  ASSUME NEW t \in Threads, ControlInv, DataInv, ThreadInv(t), DequeueHead(t)
  PROVE  Effect(t)
<1> DEFINE p == lv[t].prod
           n == Claimed(t)
<1>1. UNCHANGED <<semVars, producerListTail, tables, log>> /\ taken' = [taken EXCEPT ![p] = @ + n]
  BY DEF DequeueHead, prodUnchanged, hashVars, Loc
<1>2. StepOf(t) /\ Balanced(t, -n) /\ p \in 1..Len(taken) /\ n \in Nat /\ ProducersKept /\ HistoryInv
  <2>1. DequeueStep(t)
    BY DEF DequeueStep
  <2> QED BY <2>1, ClaimLocal, DequeueData DEF DataInv
<1> HIDE DEF p, n
<1>3. HistoryInv' /\ Unclaimed' = Unclaimed + (-n) /\ Len(taken') = Len(taken)
  BY <1>1, <1>2, ElementsClaimed
<1>4. -n \in Int
  BY <1>2
<1> QED BY <1>1, <1>2, <1>3, <1>4, LoudEffect

(* So every step of a thread has an effect of this kind. *)
LEMMA StepEffect ==
  ASSUME NEW t \in Threads, ControlInv, DataInv, ThreadInv(t), Step(t)
  PROVE  Effect(t)
BY SemaphoreEffect, FreeListEffect, HashEffect, EnqueueEffect, BulkEnqueueEffect, DequeueEffect,
   BulkDequeueEffect, TokenEffect, PublishEffect, BulkPublishEffect, ClaimEffect DEF Step

-----------------------------------------------------------------------------
(* The sums over the threads *)

(* What the threads owe, in the terms of the two properties. *)
LEMMA OwingSizes ==
  ASSUME NEW u \in Threads, ThreadInv(u)
  PROVE  /\ Held(u) = Owing(u)[2] /\ Unsignalled(u) = Owing(u)[3] /\ Unposted(u) = Owing(u)[4]
         /\ Owing(u)[1] = (IF pc[u] \in Asleep THEN 1 ELSE 0)
         /\ Owing(u)[2] \in Nat /\ Owing(u)[3] \in Nat /\ Owing(u)[4] \in Nat
<1>1. /\ Owing(u)[1] = Sleeps(pc[u]) /\ Owing(u)[2] = Holds(pc[u], lv[u], Bulk(u))
      /\ Owing(u)[3] = Signals(pc[u], Size(u)) /\ Owing(u)[4] = Posts(pc[u], lv[u])
  BY DEF Owing
<1>2. lv[u].permits \in Nat /\ Size(u) \in Nat /\ (pc[u] = "s_post" => lv[u].size \in Nat)
  BY SizeType DEF ThreadInv, Fits, Typed, Waits
<1> QED BY <1>1, <1>2 DEF Held, Unsignalled, Unposted, Sleeps, Holds, Signals, Posts

(* The same of the next state. *)
LEMMA OwingSizesNext ==
  ASSUME NEW u \in Threads, ThreadInv(u)'
  PROVE  /\ Held(u)' = Owing(u)'[2] /\ Unsignalled(u)' = Owing(u)'[3] /\ Unposted(u)' = Owing(u)'[4]
         /\ Owing(u)'[1] = (IF pc'[u] \in Asleep THEN 1 ELSE 0)
         /\ Owing(u)'[2] \in Nat /\ Owing(u)'[3] \in Nat /\ Owing(u)'[4] \in Nat
<1>1. /\ Owing(u)'[1] = Sleeps(pc'[u]) /\ Owing(u)'[2] = Holds(pc'[u], lv'[u], Bulk(u)')
      /\ Owing(u)'[3] = Signals(pc'[u], Size(u)') /\ Owing(u)'[4] = Posts(pc'[u], lv'[u])
  BY DEF Owing
<1>2. lv'[u].permits \in Nat /\ Size(u)' \in Nat /\ (pc'[u] = "s_post" => lv'[u].size \in Nat)
  BY SizesAssumption DEF ThreadInv, Fits, Typed, Waits, Size
<1> QED BY <1>1, <1>2 DEF Held, Unsignalled, Unposted, Sleeps, Holds, Signals, Posts

(* A step of t changes in each sum what t owes. *)
LEMMA SumsStep ==
  ASSUME NEW t \in Threads, \A u \in Threads : ThreadInv(u), StepOf(t)
  PROVE  /\ Sleepers' + Owing(t)[1] = Sleepers + Owing(t)'[1] /\ Sleepers \in Nat /\ Sleepers' \in Nat
         /\ Sum(Held)' + Owing(t)[2] = Sum(Held) + Owing(t)'[2] /\ Sum(Held) \in Nat /\ Sum(Held)' \in Nat
         /\ Sum(Unsignalled)' + Owing(t)[3] = Sum(Unsignalled) + Owing(t)'[3]
         /\ Sum(Unsignalled) \in Nat /\ Sum(Unsignalled)' \in Nat
         /\ Sum(Unposted)' + Owing(t)[4] = Sum(Unposted) + Owing(t)'[4]
         /\ Sum(Unposted) \in Nat /\ Sum(Unposted)' \in Nat
<1>1. /\ \A u \in Threads \ {t} : pc'[u] = pc[u] /\ lv'[u] = lv[u] /\ program'[u] = program[u]
      /\ ThreadInv(t) /\ ThreadInv(t)' /\ IsFiniteSet(Threads)
  BY ThreadsAssumption DEF StepOf, Others
<1>2. \A u \in Threads \ {t} : /\ Held(u)' = Held(u) /\ Unsignalled(u)' = Unsignalled(u)
                               /\ Unposted(u)' = Unposted(u)
  BY <1>1 DEF Held, Unsignalled, Unposted, Bulk, Size, Call
<1>3. \A u \in Threads : /\ Held(u) \in Nat /\ Unsignalled(u) \in Nat /\ Unposted(u) \in Nat
  BY OwingSizes
<1>4. /\ Held(t)' = Owing(t)'[2] /\ Unsignalled(t)' = Owing(t)'[3] /\ Unposted(t)' = Owing(t)'[4]
      /\ Owing(t)'[2] \in Nat /\ Owing(t)'[3] \in Nat /\ Owing(t)'[4] \in Nat
      /\ Owing(t)'[1] = (IF pc'[t] \in Asleep THEN 1 ELSE 0)
  BY <1>1, OwingSizesNext
<1>5. /\ Held(t) = Owing(t)[2] /\ Unsignalled(t) = Owing(t)[3] /\ Unposted(t) = Owing(t)[4]
      /\ Owing(t)[2] \in Nat /\ Owing(t)[3] \in Nat /\ Owing(t)[4] \in Nat
      /\ Owing(t)[1] = (IF pc[t] \in Asleep THEN 1 ELSE 0)
  BY <1>1, OwingSizes
<1>6. Sleepers' + Owing(t)[1] = Sleepers + Owing(t)'[1] /\ Sleepers \in Nat /\ Sleepers' \in Nat
  <2> DEFINE S == {u \in Threads : pc[u] \in Asleep}
             R == {u \in Threads : pc'[u] \in Asleep}
             out == IF t \in S THEN 1 ELSE 0
             in == IF t \in R THEN 1 ELSE 0
  <2>1. IsFiniteSet(S)
    BY <1>1, FS_Subset
  <2>2. \A y : y # t => (y \in R <=> y \in S)
    BY <1>1
  <2>3. Owing(t)[1] = out /\ Owing(t)'[1] = in
    BY <1>4, <1>5
  <2>4. Sleepers = Cardinality(S) /\ Sleepers' = Cardinality(R)
    BY DEF Sleepers
  <2> HIDE DEF S, R
  <2>5. Cardinality(S) \in Nat /\ Cardinality(R) \in Nat /\ Cardinality(R) + out = Cardinality(S) + in
    BY ONLY <2>1, <2>2, MemberUpdate
  <2> QED BY ONLY <2>3, <2>4, <2>5
<1>7. /\ Sum(Held)' + Owing(t)[2] = Sum(Held) + Owing(t)'[2]
      /\ Sum(Held) \in Nat /\ Sum(Held)' \in Nat
  <2> DEFINE F == [u \in Threads |-> 1..Held(u)]
             G == [u \in Threads |-> 1..Held(u)']
             a == Owing(t)[2]
             b == Owing(t)'[2]
  <2>1. \A u \in Threads : IsFiniteSet(1..Held(u))
    BY <1>3, IntervalSize
  <2>2. /\ DOMAIN F = Threads /\ DOMAIN G = Threads /\ F[t] = 1..a /\ G[t] = 1..b /\ a \in Nat /\ b \in Nat
        /\ (\A u \in Threads : IsFiniteSet(F[u])) /\ (\A u \in Threads \ {t} : G[u] = F[u])
    BY <1>2, <1>4, <1>5, <2>1
  <2>3. Sum(Held) = Total(F) /\ Sum(Held)' = Total(G)
    BY DEF Sum
  <2> HIDE DEF F, G, a, b
  <2>4. Total(F) \in Nat /\ Total(G) \in Nat /\ Total(G) + a = Total(F) + b
    BY ONLY <1>1, <2>2, SizesUpdate
  <2> QED BY <2>3, <2>4 DEF a, b
<1>8. /\ Sum(Unsignalled)' + Owing(t)[3] = Sum(Unsignalled) + Owing(t)'[3]
      /\ Sum(Unsignalled) \in Nat /\ Sum(Unsignalled)' \in Nat
  <2> DEFINE F == [u \in Threads |-> 1..Unsignalled(u)]
             G == [u \in Threads |-> 1..Unsignalled(u)']
             a == Owing(t)[3]
             b == Owing(t)'[3]
  <2>1. \A u \in Threads : IsFiniteSet(1..Unsignalled(u))
    BY <1>3, IntervalSize
  <2>2. /\ DOMAIN F = Threads /\ DOMAIN G = Threads /\ F[t] = 1..a /\ G[t] = 1..b /\ a \in Nat /\ b \in Nat
        /\ (\A u \in Threads : IsFiniteSet(F[u])) /\ (\A u \in Threads \ {t} : G[u] = F[u])
    BY <1>2, <1>4, <1>5, <2>1
  <2>3. Sum(Unsignalled) = Total(F) /\ Sum(Unsignalled)' = Total(G)
    BY DEF Sum
  <2> HIDE DEF F, G, a, b
  <2>4. Total(F) \in Nat /\ Total(G) \in Nat /\ Total(G) + a = Total(F) + b
    BY ONLY <1>1, <2>2, SizesUpdate
  <2> QED BY <2>3, <2>4 DEF a, b
<1>9. /\ Sum(Unposted)' + Owing(t)[4] = Sum(Unposted) + Owing(t)'[4]
      /\ Sum(Unposted) \in Nat /\ Sum(Unposted)' \in Nat
  <2> DEFINE F == [u \in Threads |-> 1..Unposted(u)]
             G == [u \in Threads |-> 1..Unposted(u)']
             a == Owing(t)[4]
             b == Owing(t)'[4]
  <2>1. \A u \in Threads : IsFiniteSet(1..Unposted(u))
    BY <1>3, IntervalSize
  <2>2. /\ DOMAIN F = Threads /\ DOMAIN G = Threads /\ F[t] = 1..a /\ G[t] = 1..b /\ a \in Nat /\ b \in Nat
        /\ (\A u \in Threads : IsFiniteSet(F[u])) /\ (\A u \in Threads \ {t} : G[u] = F[u])
    BY <1>2, <1>4, <1>5, <2>1
  <2>3. Sum(Unposted) = Total(F) /\ Sum(Unposted)' = Total(G)
    BY DEF Sum
  <2> HIDE DEF F, G, a, b
  <2>4. Total(F) \in Nat /\ Total(G) \in Nat /\ Total(G) + a = Total(F) + b
    BY ONLY <1>1, <2>2, SizesUpdate
  <2> QED BY <2>3, <2>4 DEF a, b
<1> QED BY <1>6, <1>7, <1>8, <1>9

-----------------------------------------------------------------------------
(* The invariant *)

QueueInv ==
  /\ ControlInv /\ DataInv /\ \A t \in Threads : ThreadInv(t)
  /\ PermitsAreElements /\ WakeupsMatchSleepers

(* More producers do not disturb the other threads. *)
LEMMA OtherThreads ==
  ASSUME NEW t \in Threads, NEW u \in Threads \ {t}, ThreadInv(u), Others(t), HistoryInv, HistoryInv',
         Len(taken') >= Len(taken)
  PROVE  ThreadInv(u)'
<1> DEFINE l == lv[u]
           n == Len(taken)
           m == Len(taken')
<1>1. pc'[u] = pc[u] /\ lv'[u] = l /\ program'[u] = program[u] /\ Bulk(u)' = Bulk(u) /\ Size(u)' = Size(u)
  BY DEF Others, Bulk, Size, Call
<1>2. n \in Nat /\ m \in Nat /\ m >= n
  BY DEF HistoryInv
<1>3. Fits(pc[u], l, Bulk(u), Size(u), n)
  BY DEF ThreadInv
<1> HIDE DEF n, m, l
<1>4. 0..n \subseteq 0..m
  BY <1>2
<1>5. Fits(pc[u], l, Bulk(u), Size(u), m)
  BY <1>3, <1>4 DEF Fits, Typed
<1> QED BY <1>1, <1>5 DEF ThreadInv, l, m

(* A queue begins with no permits, no elements and no sleepers. *)
LEMMA QueueInit == Init => QueueInv
<1> SUFFICES ASSUME Init PROVE QueueInv
  OBVIOUS
<1>1. PICK w \in Workloads : program = w.calls
  BY DEF Init
<1>2. ControlInv
  BY <1>1, ThreadsAssumption DEF ControlInv, Init
<1>3. DataInv
  <2>1. ProducersInv
    BY DEF Init, ProducersInv, Elements, Null
  <2>2. HistoryInv
    BY DEF Init, HistoryInv
  <2>3. TablesInv
    <3> DEFINE x == EmptyTable(HashSize)
    <3>1. tables = <<x>> /\ DOMAIN tables = {1} /\ tables[1] = x
      BY DEF Init
    <3>2. tables \in Seq(Elements(tables))
      <4>1. DOMAIN tables = 1..1 /\ tables = [i \in 1..1 |-> tables[i]] /\ 1 \in Nat
        BY <3>1
      <4> QED BY <4>1, SeqOfElements
    <3>3. \A i \in DOMAIN x : x[i] = [key |-> Free, value |-> Null]
      BY DEF EmptyTable
    <3> HIDE DEF x
    <3> QED BY <3>1, <3>2, <3>3, ThreadsAssumption DEF TablesInv
  <2> QED BY <2>1, <2>2, <2>3 DEF DataInv
<1>4. ASSUME NEW t \in Threads PROVE ThreadInv(t) /\ Owing(t) = <<0, 0, 0, 0>>
  <2>1. pc[t] = "idle" /\ lv[t] = NoLocals /\ Len(taken) = 0 /\ Bulk(t) \in BOOLEAN
    BY DEF Init, Bulk
  <2>2. Fits("idle", NoLocals, Bulk(t), Size(t), 0) /\ Idle("idle", NoLocals, Bulk(t), Size(t))
    BY <2>1, IdleFits
  <2> QED BY <2>1, <2>2 DEF ThreadInv, Owing, Idle
<1>5. \A t \in Threads : Held(t) = 0 /\ Unsignalled(t) = 0 /\ Unposted(t) = 0
  BY <1>4, OwingSizes
<1>6. Sum(Held) = 0 /\ Sum(Unsignalled) = 0 /\ Sum(Unposted) = 0
  <2>0. 1..0 = {}
    OBVIOUS
  <2>1. Total([t \in Threads |-> 1..Held(t)]) = 0
    BY <1>5, <2>0, TotalEmpty
  <2>2. Total([t \in Threads |-> 1..Unsignalled(t)]) = 0
    BY <1>5, <2>0, TotalEmpty
  <2>3. Total([t \in Threads |-> 1..Unposted(t)]) = 0
    BY <1>5, <2>0, TotalEmpty
  <2> QED BY <2>1, <2>2, <2>3 DEF Sum
<1>7. Sleepers = 0
  <2>1. {t \in Threads : pc[t] \in Asleep} = {}
    BY DEF Init
  <2> QED BY <2>1, FS_EmptySet DEF Sleepers
<1>8. Unclaimed = 0
  <2>1. DOMAIN log = {} /\ DOMAIN taken = {}
    BY DEF Init
  <2>2. Total([p \in DOMAIN log |-> 1..Len(log[p])]) = 0 /\ Total([p \in DOMAIN taken |-> 1..taken[p]]) = 0
    BY <2>1, TotalEmpty
  <2> QED BY <2>2 DEF Unclaimed
<1>9. m_count = 0 /\ m_sema = 0
  BY DEF Init
<1>10. PermitsAreElements /\ WakeupsMatchSleepers
  BY <1>6, <1>7, <1>8, <1>9 DEF PermitsAreElements, WakeupsMatchSleepers
<1> QED BY <1>2, <1>3, <1>4, <1>10 DEF QueueInv

(* A step changes both sides of each equation by the same amount. *)
LEMMA QueueStep ==
  ASSUME NEW t \in Threads, QueueInv, Step(t)
  PROVE  QueueInv'
<1>1. ControlInv /\ DataInv /\ (\A u \in Threads : ThreadInv(u))
  BY DEF QueueInv
<1>2. Effect(t)
  BY <1>1, StepEffect
<1>3. StepOf(t) /\ DataInv' /\ Len(taken') >= Len(taken) /\ m_count' \in Int /\ m_sema' \in Nat
  BY <1>2 DEF Effect
<1>4. ControlInv'
  BY <1>3 DEF StepOf, Others, ControlInv
<1>5. ASSUME NEW u \in Threads PROVE ThreadInv(u)'
  <2>1. CASE u = t
    BY <1>3, <2>1 DEF StepOf
  <2>2. CASE u # t
    BY <1>1, <1>3, <2>2, OtherThreads DEF StepOf, DataInv
  <2> QED BY <2>1, <2>2
<1>6. PICK d \in Int : Balanced(t, d) /\ Unclaimed' = Unclaimed + d
  BY <1>2 DEF Effect
<1> DEFINE a1 == Owing(t)[1]
           a2 == Owing(t)[2]
           a3 == Owing(t)[3]
           a4 == Owing(t)[4]
           b1 == Owing(t)'[1]
           b2 == Owing(t)'[2]
           b3 == Owing(t)'[3]
           b4 == Owing(t)'[4]
           h1 == Sum(Held)
           h2 == Sum(Held)'
           u1 == Sum(Unsignalled)
           u2 == Sum(Unsignalled)'
           p1 == Sum(Unposted)
           p2 == Sum(Unposted)'
<1>7. /\ a1 \in Int /\ a2 \in Int /\ a3 \in Int /\ a4 \in Int
      /\ b1 \in Int /\ b2 \in Int /\ b3 \in Int /\ b4 \in Int
  <2>1. a2 \in Nat /\ a3 \in Nat /\ a4 \in Nat /\ a1 \in Int
    BY <1>1, OwingSizes
  <2>2. b2 \in Nat /\ b3 \in Nat /\ b4 \in Nat /\ b1 \in Int
    BY <1>5, OwingSizesNext
  <2> HIDE DEF a1, a2, a3, a4, b1, b2, b3, b4
  <2> QED BY <2>1, <2>2
<1>8. /\ m_count' + b1 + b2 + b3 = m_count + a1 + a2 + a3 + d
      /\ m_sema' + b4 + Below(m_count') + a1 = m_sema + a4 + Below(m_count) + b1
  BY <1>6 DEF Balanced
<1>9. /\ Sleepers' + a1 = Sleepers + b1 /\ Sleepers \in Nat /\ Sleepers' \in Nat
      /\ h2 + a2 = h1 + b2 /\ h1 \in Nat /\ h2 \in Nat
      /\ u2 + a3 = u1 + b3
      /\ u1 \in Nat /\ u2 \in Nat
      /\ p2 + a4 = p1 + b4
      /\ p1 \in Nat /\ p2 \in Nat
  BY <1>1, <1>3, SumsStep
<1>10. m_count \in Int /\ m_sema \in Int /\ m_count' \in Int /\ m_sema' \in Int
  BY <1>1, <1>3 DEF ControlInv
<1>11. Unclaimed \in Int /\ m_count + Sleepers + h1 + u1 = Unclaimed
  BY <1>1, UnclaimedType DEF QueueInv, PermitsAreElements, DataInv
<1>12. m_sema + p1 + Below(m_count) = Sleepers
  BY <1>10 DEF QueueInv, WakeupsMatchSleepers, Below
<1>13. Below(m_count) \in Int /\ Below(m_count') \in Int
  BY <1>10 DEF Below
<1> HIDE DEF a1, a2, a3, a4, b1, b2, b3, b4, h1, h2, u1, u2, p1, p2
<1>14. m_count' + Sleepers' + h2 + u2 = Unclaimed'
  <2>3. PICK c \in Int : c = m_count'
    BY <1>10
  <2>4. PICK s \in Int, q \in Int : s = Sleepers /\ q = Sleepers'
    BY <1>9
  <2>5. PICK i1 \in Int, i2 \in Int, i3 \in Int : i1 = a1 /\ i2 = a2 /\ i3 = a3
    BY <1>7
  <2>6. PICK j1 \in Int, j2 \in Int, j3 \in Int : j1 = b1 /\ j2 = b2 /\ j3 = b3
    BY <1>7
  <2>7. c + j1 + j2 + j3 = m_count + i1 + i2 + i3 + d
    BY <1>8, <2>3, <2>5, <2>6
  <2>8. q + i1 = s + j1 /\ h2 + i2 = h1 + j2 /\ u2 + i3 = u1 + j3
    BY <1>9, <2>4, <2>5, <2>6
  <2>9. h1 \in Int /\ h2 \in Int /\ u1 \in Int /\ u2 \in Int
    BY <1>9
  <2>10. m_count + s + h1 + u1 = Unclaimed /\ Unclaimed \in Int
    BY <1>11, <2>4
  <2>11. c + q + h2 + u2 = Unclaimed + d
    BY ONLY <1>10, <2>9, <2>10, <2>7, <2>8
  <2> QED BY <1>6, <2>3, <2>4, <2>11
<1>15. m_sema' + p2 + Below(m_count') = Sleepers'
  <2>1. PICK v \in Int : v = m_sema'
    BY <1>10
  <2>2. PICK s \in Int, q \in Int : s = Sleepers /\ q = Sleepers'
    BY <1>9
  <2>3. PICK w \in Int, x \in Int : w = Below(m_count) /\ x = Below(m_count')
    BY <1>13
  <2>4. PICK i1 \in Int, i4 \in Int, j1 \in Int, j4 \in Int : i1 = a1 /\ i4 = a4 /\ j1 = b1 /\ j4 = b4
    BY <1>7
  <2>5. v + j4 + x + i1 = m_sema + i4 + w + j1
    BY <1>8, <2>1, <2>3, <2>4
  <2>6. q + i1 = s + j1 /\ p2 + i4 = p1 + j4 /\ p1 \in Int /\ p2 \in Int
    <3>1. Sleepers' + a1 = Sleepers + b1 /\ p2 + a4 = p1 + b4 /\ p1 \in Nat /\ p2 \in Nat
      BY <1>9
    <3>2. q + i1 = s + j1 /\ p2 + i4 = p1 + j4
      BY <2>2, <2>4, <3>1, Zenon
    <3> QED BY <3>1, <3>2
  <2>7. m_sema + p1 + w = s
    BY <1>12, <2>2, <2>3
  <2>8. v + p2 + x = q
    BY ONLY <1>10, <2>6, <2>5, <2>7
  <2> QED BY <2>1, <2>2, <2>3, <2>8
<1>16. PermitsAreElements'
  BY <1>14 DEF PermitsAreElements, h2, u2
<1>17. WakeupsMatchSleepers'
  BY <1>10, <1>15 DEF WakeupsMatchSleepers, Below, p2
<1> QED BY <1>3, <1>4, <1>5, <1>16, <1>17 DEF QueueInv

(* The destructor, and a queue at rest, leave all of this alone. *)
LEMMA QueueStutter ==
  ASSUME QueueInv, UNCHANGED <<control, semVars, prodVars, hashVars, history>>
  PROVE  QueueInv'
<1>1. /\ UNCHANGED <<program, pc, lv, m_count, m_sema>> /\ UNCHANGED <<prod, producerListTail>>
      /\ UNCHANGED <<tables, log, taken>>
  BY DEF control, semVars, prodVars, hashVars, history
<1>2. ControlInv'
  BY <1>1 DEF QueueInv, ControlInv
<1>3. DataInv'
  BY <1>1 DEF QueueInv, DataInv, ProducersInv, HistoryInv, TablesInv, Elements
<1>4. \A t \in Threads : ThreadInv(t)'
  BY <1>1 DEF QueueInv, ThreadInv, Bulk, Size, Call
<1>5. \A t \in Threads : Held(t)' = Held(t) /\ Unsignalled(t)' = Unsignalled(t) /\ Unposted(t)' = Unposted(t)
  BY <1>1 DEF Held, Unsignalled, Unposted, Bulk, Size, Call
<1>6. Sum(Held)' = Sum(Held) /\ Sum(Unsignalled)' = Sum(Unsignalled) /\ Sum(Unposted)' = Sum(Unposted)
  BY <1>5 DEF Sum
<1>7. Sleepers' = Sleepers /\ Unclaimed' = Unclaimed
  BY <1>1 DEF Sleepers, Unclaimed
<1>8. PermitsAreElements' /\ WakeupsMatchSleepers'
  BY <1>1, <1>6, <1>7 DEF QueueInv, PermitsAreElements, WakeupsMatchSleepers
<1> QED BY <1>2, <1>3, <1>4, <1>8 DEF QueueInv

(* Every step keeps the invariant. *)
LEMMA QueueNext == QueueInv /\ [Next]_vars => QueueInv'
<1> SUFFICES ASSUME QueueInv, [Next]_vars PROVE QueueInv'
  OBVIOUS
<1>1. CASE \E t \in Threads : Step(t)
  BY <1>1, QueueStep
<1>2. CASE Destroy
  BY <1>2, QueueStutter DEF Destroy
<1>3. CASE UNCHANGED vars
  BY <1>3, QueueStutter DEF vars
<1> QED BY <1>1, <1>2, <1>3 DEF Next, Done

(* QueueInv is an inductive invariant of the queue. *)
LEMMA QueueInvariant == Spec => []QueueInv
BY QueueInit, QueueNext, PTL DEF Spec

(* Every permit is an element that was published and that nobody has claimed, for any number of threads, *)
(* calls and producers (blockingconcurrentqueue.h:150-157, :420-429). *)
THEOREM PermitsTheorem == Spec => []PermitsAreElements
<1>1. QueueInv => PermitsAreElements
  BY DEF QueueInv
<1> QED BY <1>1, QueueInvariant, PTL

(* A wake-up is posted for exactly the sleepers that m_count no longer counts. *)
THEOREM WakeupsTheorem == Spec => []WakeupsMatchSleepers
<1>1. QueueInv => WakeupsMatchSleepers
  BY DEF QueueInv
<1> QED BY <1>1, QueueInvariant, PTL

-----------------------------------------------------------------------------
(* Whose the producers are *)

Seeking == {"h_count", "h_full", "h_resize", "h_clear", "h_reload", "h_recycle"}
Choosing == {"h_walk", "h_create"}
USE DEF Obtaining, Seeking, Choosing

(* The three ways in which a producer is a thread's. *)
InTable(u, p) ==
  \E k \in DOMAIN tables : \E i \in DOMAIN tables[k] : tables[k][i].key = u /\ tables[k][i].value = p
OfToken(u, p) == p \in DOMAIN prod /\ prod[p].token = u
InHand(u, p) == pc[u] \in Obtaining /\ lv[u].ptr = p

(* The tables after the m-th have no slot of u. *)
NoSlotAbove(u, m) ==
  \A k \in DOMAIN tables : k > m => \A i \in DOMAIN tables[k] : tables[k][i].key # u

(* A thread looks for a producer only while it has none of that kind; a thread that ends *)
(* goes from the last table to the first. *)
Stage(t) ==
  /\ pc[t] \in Seeking => ~ForToken(t) /\ NoSlotAbove(t, 0)
  /\ pc[t] \in Choosing => IF ForToken(t) THEN ~valid(t) ELSE NoSlotAbove(t, 0)
  /\ pc[t] \in Obtaining \ {"h_push"} => ~ForToken(t)
  /\ pc[t] = "x_clear" => lv[t].main \in 1..Len(tables) /\ NoSlotAbove(t, lv[t].main)
  /\ pc[t] = "x_inactive" => NoSlotAbove(t, 0)

(* The tables lead to ImplicitProducers, tokens have ExplicitProducers. *)
Kinds(t) ==
  /\ \A k \in DOMAIN tables : \A i \in DOMAIN tables[k] :
       tables[k][i].key = t => prod[tables[k][i].value].explicit = FALSE
  /\ \A p \in DOMAIN prod : prod[p].token = t => prod[p].explicit = TRUE
  /\ pc[t] \in Obtaining => prod[lv[t].ptr].explicit = ForToken(t)

OwnInv ==
  /\ OneProducerPerThread
  /\ \A t \in Threads : Owned(t) \subseteq DOMAIN prod /\ Kinds(t) /\ Stage(t)

(* Owned is these three ways together. *)
LEMMA OwnedMeaning ==
  ASSUME NEW t
  PROVE  /\ \A p : p \in Owned(t) <=> InTable(t, p) \/ OfToken(t, p) \/ InHand(t, p)
         /\ \A p : p \in Owned(t)' <=> InTable(t, p)' \/ OfToken(t, p)' \/ InHand(t, p)'
<1>1. ASSUME NEW p PROVE p \in Owned(t) <=> InTable(t, p) \/ OfToken(t, p) \/ InHand(t, p)
  <2> DEFINE W == UNION {{tables[k][i].value : i \in Slots(k, t)} : k \in DOMAIN tables}
             T == {x \in DOMAIN prod : prod[x].token = t}
             H == IF pc[t] \in Obtaining THEN {lv[t].ptr} ELSE {}
  <2>1. p \in W <=> InTable(t, p)
    BY DEF Slots, InTable
  <2>2. (p \in T <=> OfToken(t, p)) /\ (p \in H <=> InHand(t, p))
    BY DEF OfToken, InHand
  <2>3. Owned(t) = W \cup T \cup H
    BY Zenon DEF Owned
  <2> HIDE DEF W, T, H
  <2> QED BY <2>1, <2>2, <2>3
<1>2. ASSUME NEW p PROVE p \in Owned(t)' <=> InTable(t, p)' \/ OfToken(t, p)' \/ InHand(t, p)'
  <2> DEFINE W == UNION {{tables'[k][i].value : i \in Slots(k, t)'} : k \in DOMAIN tables'}
             T == {x \in DOMAIN prod' : prod'[x].token = t}
             H == IF pc'[t] \in Obtaining THEN {lv'[t].ptr} ELSE {}
  <2>1. p \in W <=> InTable(t, p)'
    BY DEF Slots, InTable
  <2>2. (p \in T <=> OfToken(t, p)') /\ (p \in H <=> InHand(t, p)')
    BY DEF OfToken, InHand
  <2>3. Owned(t)' = W \cup T \cup H
    BY Zenon DEF Owned
  <2> HIDE DEF W, T, H
  <2> QED BY <2>1, <2>2, <2>3
<1> QED BY <1>1, <1>2

(* Every slot that u has after the step, it had before. *)
SlotsKept(u) ==
  \A k \in DOMAIN tables' : \A i \in DOMAIN tables'[k] :
    tables'[k][i].key = u =>
      k \in DOMAIN tables /\ i \in DOMAIN tables[k] /\ tables[k][i] = tables'[k][i]

(* So the tables lead u to no other producers than before. *)
LEMMA SlotsFrame ==
  ASSUME NEW u, SlotsKept(u)
  PROVE  /\ \A p : InTable(u, p)' => InTable(u, p)
         /\ \A m : NoSlotAbove(u, m) => NoSlotAbove(u, m)'
BY DEF SlotsKept, InTable, NoSlotAbove

(* No step changes the kind of a producer, the slots of other threads or their tokens. *)
OthersKept(t) ==
  /\ Len(tables') >= Len(tables)
  /\ \A u \in Threads \ {t} : SlotsKept(u)
  /\ \A p \in DOMAIN prod : p \in DOMAIN prod' /\ prod'[p].explicit = prod[p].explicit
  /\ \A u \in Threads \ {t} : \A p : OfToken(u, p)' => OfToken(u, p)

(* The producer in the hands of a thread exists. *)
LEMMA HandPtr ==
  ASSUME NEW u \in Threads, ThreadInv(u), DataInv, pc[u] \in Obtaining \cup {"h_walk"}
  PROVE  lv[u].ptr \in DOMAIN prod
<1>1. DOMAIN prod = 1..Len(prod) /\ Len(prod) = Len(taken) /\ Len(prod) \in Nat
  BY DEF DataInv, ProducersInv
<1>2. lv[u].ptr \in 0..Len(taken) /\ lv[u].ptr # 0
  BY DEF ThreadInv, Fits, Typed, Pointing, Null
<1> QED BY <1>1, <1>2

(* Under this, the threads that do not step keep what they have. *)
LEMMA OthersOwn ==
  ASSUME NEW t \in Threads, NEW u \in Threads \ {t}, DataInv, DataInv', ThreadInv(u), Others(t),
         OthersKept(t),
         Kinds(u), Stage(u)
  PROVE  Owned(u)' \subseteq Owned(u) /\ Kinds(u)' /\ Stage(u)'
<1>1. /\ pc'[u] = pc[u] /\ lv'[u] = lv[u] /\ ForToken(u)' = ForToken(u) /\ SlotsKept(u)
      /\ Len(tables') >= Len(tables) /\ Len(tables) \in Nat /\ Len(tables') \in Nat
      /\ \A p \in DOMAIN prod : p \in DOMAIN prod' /\ prod'[p].explicit = prod[p].explicit
      /\ \A p : OfToken(u, p)' => OfToken(u, p)
  BY DEF Others, OthersKept, ForToken, Call, DataInv, TablesInv
<1>2. /\ \A p : InTable(u, p)' => InTable(u, p)
      /\ \A m : NoSlotAbove(u, m) => NoSlotAbove(u, m)'
  BY <1>1, SlotsFrame
<1>3. \A p : InHand(u, p)' => InHand(u, p)
  BY <1>1 DEF InHand
<1>4. Owned(u)' \subseteq Owned(u)
  BY <1>1, <1>2, <1>3, OwnedMeaning
<1>5. Kinds(u)'
  <2>1. ASSUME NEW k \in DOMAIN tables', NEW i \in DOMAIN tables'[k], tables'[k][i].key = u
        PROVE  prod'[tables'[k][i].value].explicit = FALSE
    <3>1. k \in DOMAIN tables /\ i \in DOMAIN tables[k] /\ tables[k][i] = tables'[k][i]
      BY <1>1, <2>1 DEF SlotsKept
    <3>2. tables[k][i].value \in DOMAIN prod /\ prod[tables[k][i].value].explicit = FALSE
      BY <2>1, <3>1 DEF DataInv, TablesInv, Kinds
    <3> QED BY <1>1, <3>1, <3>2
  <2>2. ASSUME NEW p \in DOMAIN prod', prod'[p].token = u
        PROVE  prod'[p].explicit = TRUE
    <3>1. p \in DOMAIN prod /\ prod[p].token = u
      BY <1>1, <2>2 DEF OfToken
    <3> QED BY <1>1, <3>1 DEF Kinds
  <2>3. pc[u] \in Obtaining => prod'[lv[u].ptr].explicit = ForToken(u)
    BY <1>1, HandPtr DEF Kinds
  <2>4. pc'[u] \in Obtaining => prod'[lv'[u].ptr].explicit = ForToken(u)'
    BY <1>1, <2>3
  <2> QED BY <2>1, <2>2, <2>4 DEF Kinds
<1>6. ~valid(u) => ~valid(u)'
  BY <1>1 DEF valid, OfToken
<1>7. lv[u].main \in 1..Len(tables) => lv[u].main \in 1..Len(tables')
  BY <1>1
<1>8. Stage(u)'
  BY <1>1, <1>2, <1>6, <1>7 DEF Stage
<1> QED BY <1>4, <1>5, <1>8

(* A step of t that gives nobody a producer leaves every producer one thread's. *)
LEMMA OwnKept ==
  ASSUME NEW t \in Threads, DataInv, DataInv', \A u \in Threads : ThreadInv(u), OwnInv, Others(t),
         OthersKept(t),
         Owned(t)' \subseteq Owned(t), Kinds(t)', Stage(t)',
         \A u \in Threads : \A p \in Owned(u)' : ~prod'[p].inactive
  PROVE  OwnInv'
<1>1. \A u \in Threads : Owned(u)' \subseteq Owned(u) /\ Kinds(u)' /\ Stage(u)'
  BY OthersOwn DEF OwnInv
<1>2. \A u \in Threads : \A p \in Owned(u) :
        p \in DOMAIN prod /\ p \in DOMAIN prod' /\ prod'[p].explicit = prod[p].explicit
  BY DEF OwnInv, OthersKept
<1>3. OneProducerPerThread'
  <2>1. OneProducerPerThread
    BY DEF OwnInv
  <2>2. ASSUME NEW u \in Threads, NEW p \in Owned(u)', NEW r \in Owned(u)',
               prod'[p].explicit = prod'[r].explicit
        PROVE  p = r
    BY <1>1, <1>2, <2>1, <2>2 DEF OneProducerPerThread
  <2>3. ASSUME NEW u \in Threads, NEW v \in Threads \ {u} PROVE Owned(u)' \cap Owned(v)' = {}
    BY <1>1, <2>1 DEF OneProducerPerThread
  <2> QED BY <2>2, <2>3 DEF OneProducerPerThread
<1> QED BY <1>1, <1>2, <1>3 DEF OwnInv

(* So does one that gives t a producer q that is nobody's, when t has none of its kind. *)
LEMMA OwnGained ==
  ASSUME NEW t \in Threads, DataInv, DataInv', \A u \in Threads : ThreadInv(u), OwnInv, Others(t),
         OthersKept(t),
         NEW q, q \in DOMAIN prod', Owned(t)' \subseteq Owned(t) \cup {q}, Kinds(t)', Stage(t)',
         \A u \in Threads : q \notin Owned(u),
         \A r \in Owned(t) : prod'[r].explicit # prod'[q].explicit,
         \A p \in DOMAIN prod \ {q} : prod'[p].inactive = prod[p].inactive, ~prod'[q].inactive
  PROVE  OwnInv'
<1>1. \A u \in Threads \ {t} : Owned(u)' \subseteq Owned(u) /\ Kinds(u)' /\ Stage(u)'
  BY OthersOwn DEF OwnInv
<1>2. \A u \in Threads : \A p \in Owned(u) :
        p \in DOMAIN prod /\ p \in DOMAIN prod' /\ prod'[p].explicit = prod[p].explicit /\ p # q
  BY DEF OwnInv, OthersKept
<1>3. OneProducerPerThread'
  <2>1. OneProducerPerThread
    BY DEF OwnInv
  <2>2. ASSUME NEW u \in Threads, NEW p \in Owned(u)', NEW r \in Owned(u)',
               prod'[p].explicit = prod'[r].explicit
        PROVE  p = r
    <3>1. CASE p \in Owned(u) /\ r \in Owned(u)
      BY <1>2, <2>1, <2>2, <3>1 DEF OneProducerPerThread
    <3>2. CASE u = t /\ p = q /\ r = q
      BY <3>2
    <3>3. CASE u = t /\ p = q /\ r \in Owned(t)
      BY <2>2, <3>3
    <3>4. CASE u = t /\ r = q /\ p \in Owned(t)
      BY <2>2, <3>4
    <3> QED BY <1>1, <3>1, <3>2, <3>3, <3>4
  <2>3. ASSUME NEW u \in Threads, NEW v \in Threads \ {u} PROVE Owned(u)' \cap Owned(v)' = {}
    <3>1. Owned(u) \cap Owned(v) = {}
      BY <2>1 DEF OneProducerPerThread
    <3>2. q \notin Owned(u) /\ q \notin Owned(v)
      OBVIOUS
    <3>3. Owned(u)' \subseteq Owned(u) \/ Owned(v)' \subseteq Owned(v)
      BY <1>1
    <3>4. Owned(u)' \subseteq Owned(u) \cup {q} /\ Owned(v)' \subseteq Owned(v) \cup {q}
      BY <1>1
    <3> QED BY <3>1, <3>2, <3>3, <3>4
  <2>4. ASSUME NEW u \in Threads, NEW p \in Owned(u)' PROVE ~prod'[p].inactive
    <3>1. CASE p = q
      BY <3>1
    <3>2. CASE p # q
      <4>1. p \in Owned(u)
        BY <1>1, <3>2
      <4>2. ~prod[p].inactive /\ prod'[p].inactive = prod[p].inactive
        BY <1>2, <2>1, <4>1 DEF OneProducerPerThread
      <4> QED BY <4>2
    <3> QED BY <3>1, <3>2
  <2> QED BY <2>2, <2>3, <2>4 DEF OneProducerPerThread
<1>4. \A u \in Threads : Owned(u)' \subseteq DOMAIN prod'
  BY <1>1, <1>2
<1> QED BY <1>1, <1>3, <1>4 DEF OwnInv

OwnersKept ==
  DOMAIN prod' = DOMAIN prod /\ \A p \in DOMAIN prod : SameOwner(prod'[p], prod[p])

(* A step that changes no owner, and after which t has in hand at most what was its own. *)
LEMMA LocalOwn ==
  ASSUME NEW t \in Threads, DataInv, DataInv', \A u \in Threads : ThreadInv(u), OwnInv, Others(t),
         Len(tables') >= Len(tables), \A u \in Threads : SlotsKept(u), OwnersKept, Stage(t)',
         pc'[t] \in Obtaining => lv'[t].ptr \in Owned(t) /\ prod[lv'[t].ptr].explicit = ForToken(t)'
  PROVE  OwnInv'
<1>1. \A p \in DOMAIN prod : /\ p \in DOMAIN prod' /\ prod'[p].explicit = prod[p].explicit
                             /\ prod'[p].token = prod[p].token /\ prod'[p].inactive = prod[p].inactive
  BY DEF OwnersKept, SameOwner
<1>2. \A u : \A p : OfToken(u, p)' => OfToken(u, p)
  BY <1>1 DEF OfToken, OwnersKept
<1>3. OthersKept(t)
  BY <1>1, <1>2 DEF OthersKept
<1>4. Owned(t) \subseteq DOMAIN prod /\ Kinds(t)
  BY DEF OwnInv
<1>5. Owned(t)' \subseteq Owned(t)
  <2>1. \A p : InTable(t, p)' => InTable(t, p)
    BY SlotsFrame
  <2>2. \A p : InHand(t, p)' => p \in Owned(t)
    BY DEF InHand
  <2> QED BY <1>2, <2>1, <2>2, OwnedMeaning
<1>6. Kinds(t)'
  <2>1. ASSUME NEW k \in DOMAIN tables', NEW i \in DOMAIN tables'[k], tables'[k][i].key = t
        PROVE  prod'[tables'[k][i].value].explicit = FALSE
    <3>1. k \in DOMAIN tables /\ i \in DOMAIN tables[k] /\ tables[k][i] = tables'[k][i]
      BY <2>1 DEF SlotsKept
    <3>2. tables[k][i].value \in DOMAIN prod /\ prod[tables[k][i].value].explicit = FALSE
      BY <1>4, <2>1, <3>1 DEF DataInv, TablesInv, Kinds
    <3> QED BY <1>1, <3>1, <3>2
  <2>2. ASSUME NEW p \in DOMAIN prod', prod'[p].token = t
        PROVE  prod'[p].explicit = TRUE
    <3>1. p \in DOMAIN prod /\ prod[p].token = t
      BY <1>1, <2>2 DEF OwnersKept
    <3> QED BY <1>1, <1>4, <3>1 DEF Kinds
  <2>3. pc'[t] \in Obtaining => prod'[lv'[t].ptr].explicit = ForToken(t)'
    <3>1. pc'[t] \in Obtaining => lv'[t].ptr \in DOMAIN prod /\ prod[lv'[t].ptr].explicit = ForToken(t)'
      BY <1>4
    <3> QED BY <1>1, <3>1
  <2> QED BY <2>1, <2>2, <2>3 DEF Kinds
<1>7. ASSUME NEW u \in Threads, NEW p \in Owned(u)' PROVE ~prod'[p].inactive
  <2>1. p \in Owned(u)
    BY <1>3, <1>5, OthersOwn DEF OwnInv
  <2>2. p \in DOMAIN prod /\ ~prod[p].inactive
    BY <2>1 DEF OwnInv, OneProducerPerThread
  <2> QED BY <1>1, <2>2
<1> QED BY <1>3, <1>5, <1>6, <1>7, OwnKept

(* The other parts of the queue do not touch the tables, nor the owners, and never go back to *)
(* the hash. *)
HashLabels == Obtaining \cup Seeking \cup Choosing
(* Such a step leaves every producer to its owner. *)
LEMMA AwayOwn ==
  ASSUME NEW t \in Threads, DataInv, DataInv', \A u \in Threads : ThreadInv(u), OwnInv, Others(t),
         UNCHANGED tables, ProducersKept, pc'[t] \notin HashLabels
  PROVE  OwnInv'
<1>1. Len(tables') >= Len(tables) /\ \A u \in Threads : SlotsKept(u)
  BY DEF DataInv, TablesInv, SlotsKept
<1>2. OwnersKept
  BY DEF OwnersKept, ProducersKept, DataInv, ProducersInv
<1>3. Stage(t)'
  BY DEF Stage, HashLabels
<1> QED BY <1>1, <1>2, <1>3, LocalOwn DEF HashLabels

(* After a block is obtained the thread goes on with its enqueue or dequeue. *)
LEMMA ProceedAway ==
  ASSUME NEW t \in Threads, ControlInv, NEW l, Proceed(t, l)
  PROVE  pc'[t] \notin HashLabels
BY DEF ControlInv, Proceed, NextProducer, Go, Return, HashLabels

(* The semaphore leads to the search of producers, or out of the call. *)
LEMMA SemaphoreAway ==
  ASSUME NEW t \in Threads, ControlInv, SemaphoreStep(t)
  PROVE  pc'[t] \notin HashLabels
BY DEF ControlInv, SemaphoreStep, TryWaitLoad, TryWaitCAS, SpinLoad, SpinCAS, FetchSub, Sleep, Timeout,
       AdjustLoad, TrySema, Restore, Signal, Post, Acquired, First, Go, Return, HashLabels

(* The free list leads back to its caller. *)
LEMMA FreeListAway ==
  ASSUME NEW t \in Threads, ControlInv, FreeListStep(t)
  PROVE  pc'[t] \notin HashLabels
<1>1. CASE \/ PoolLoad(t) \/ PoolTake(t) \/ GetHead(t) \/ GetRefs(t) \/ GetRef(t) \/ GetNext(t)
           \/ GetCAS(t) \/ GetDone(t) \/ GetUnref(t) \/ CreateBlock(t) \/ AddLoad(t) \/ AddLink(t)
  BY <1>1 DEF ControlInv, PoolLoad, PoolTake, GetHead, GetRefs, GetRef, GetNext, GetCAS, GetDone,
              GetUnref, CreateBlock, AddLoad, AddLink, GetLabel, Go, HashLabels
<1>2. Deliver(t) => pc'[t] \notin HashLabels
  BY ProceedAway DEF Deliver
<1>3. Added(t) => pc'[t] \notin HashLabels
  BY <1>2 DEF ControlInv, Added, GetLabel, Go, HashLabels
<1>4. CASE AddBlock(t) \/ AddPush(t) \/ AddRetry(t)
  BY <1>2, <1>3, <1>4 DEF ControlInv, AddBlock, Add, AddPush, AddRetry, Go, HashLabels
<1> QED BY <1>1, <1>4 DEF FreeListStep

(* An enqueue has its producer and looks for no other. *)
LEMMA EnqueueAway ==
  ASSUME NEW t \in Threads, ControlInv, EnqueueStep(t)
  PROVE  pc'[t] \notin HashLabels
<1>1. CASE EnqueueStart(t)
  BY <1>1 DEF ControlInv, EnqueueStart, Go, Return, At, control, HashLabels
<1>2. CASE InsertEntry(t)
  BY <1>2, Zenon DEF ControlInv, InsertEntry, Revert, Go, Return, At, control, HashLabels
<1>3. CASE InsertTail(t) \/ Rewind(t) \/ Unset(t)
  BY <1>3 DEF ControlInv, InsertTail, Rewind, Unset, Revert, Go, Return, HashLabels
<1>4. CASE InsertBlock(t)
  BY <1>4 DEF ControlInv, InsertBlock, Revert, Go, Return, HashLabels
<1>5. CASE Publish(t)
  BY <1>5 DEF ControlInv, Publish, Go, HashLabels
<1> QED BY <1>1, <1>2, <1>3, <1>4, <1>5 DEF EnqueueStep

(* Nor does a bulk enqueue. *)
LEMMA BulkEnqueueAway ==
  ASSUME NEW t \in Threads, ControlInv, BulkEnqueueStep(t)
  PROVE  pc'[t] \notin HashLabels
<1>1. CASE BulkStart(t)
  BY <1>1 DEF ControlInv, BulkStart, Go, HashLabels
<1>2. CASE BulkFull(t)
  BY <1>2 DEF ControlInv, BulkFull, Go, Revert, Return, HashLabels
<1>3. CASE BulkInsertBlock(t)
  BY <1>3 DEF ControlInv, BulkInsertBlock, Go, Revert, Return, HashLabels
<1>4. CASE BulkPublish(t)
  BY <1>4, Zenon DEF ControlInv, BulkPublish, Revert, Go, Return, HashLabels
<1>5. CASE RevertUnset(t) \/ RevertTail(t)
  BY <1>5 DEF ControlInv, RevertUnset, RevertTail, Revert, Go, Return, HashLabels
<1> QED BY <1>1, <1>2, <1>3, <1>4, <1>5 DEF BulkEnqueueStep

(* A dequeue goes through the list of producers, not through the tables. *)
LEMMA DequeueAway ==
  ASSUME NEW t \in Threads, ControlInv, DequeueStep(t)
  PROVE  pc'[t] \notin HashLabels
<1>1. CASE Scan(t) \/ Visit(t) \/ VisitHead(t)
  BY <1>1 DEF ControlInv, Scan, Visit, VisitHead, Go, HashLabels
<1>2. CASE DequeueTail(t) \/ DequeueOvercommit(t) \/ DequeueCheck(t)
  BY <1>2 DEF ControlInv, DequeueTail, DequeueOvercommit, DequeueCheck, Go, HashLabels
<1>3. CASE DequeueClaim(t) \/ DequeueRecheck(t)
  BY <1>3 DEF ControlInv, DequeueClaim, DequeueRecheck, Go, HashLabels
<1>4. CASE DequeueUndo(t) \/ DequeueFailed(t) \/ DequeueHead(t)
  BY <1>4 DEF ControlInv, DequeueUndo, DequeueFailed, DequeueHead, Go, HashLabels
<1>5. CASE LookupHeader(t) \/ LookupTail(t)
  BY <1>5 DEF ControlInv, LookupHeader, LookupTail, Go, HashLabels
<1>6. CASE LookupEntry(t) \/ Read(t)
  BY <1>6, Zenon DEF ControlInv, LookupEntry, Read, Go, HashLabels
<1>7. CASE SetEmpty(t) \/ Release(t)
  BY <1>7, ProceedAway DEF ControlInv, SetEmpty, Release, Go, HashLabels
<1> QED BY <1>1, <1>2, <1>3, <1>4, <1>5, <1>6, <1>7 DEF DequeueStep

(* So does a bulk dequeue. *)
LEMMA BulkDequeueAway ==
  ASSUME NEW t \in Threads, ControlInv, BulkDequeueStep(t)
  PROVE  pc'[t] \notin HashLabels
<1>1. CASE BulkScan(t)
  BY <1>1 DEF ControlInv, BulkScan, NextProducer, Go, HashLabels
<1>2. CASE BulkCheck(t) \/ BulkRecheck(t)
  BY <1>2 DEF ControlInv, BulkCheck, BulkRecheck, NextProducer, Go, HashLabels
<1>3. CASE BulkOvercommit(t)
  BY <1>3 DEF ControlInv, BulkOvercommit, NextProducer, Go, HashLabels
<1>4. CASE BulkRead(t)
  BY <1>4, Zenon DEF ControlInv, BulkRead, Go, HashLabels
<1>5. CASE SetManyEmpty(t)
  BY <1>5, ProceedAway DEF ControlInv, SetManyEmpty, Go, HashLabels
<1> QED BY <1>1, <1>2, <1>3, <1>4, <1>5 DEF BulkDequeueStep

(* An enqueue with a token uses the producer of the token. *)
LEMMA TokenAway ==
  ASSUME NEW t \in Threads, ControlInv, TokenStep(t)
  PROVE  pc'[t] \notin HashLabels
BY ProceedAway DEF ControlInv, TokenStep, TokenEnqueue, TokenReuse, TokenRoom, TokenIndex, TokenInsert,
                   TokenNoBlock, TokenReady, TokenFront, SetFlags, Fails, Advance, Go, Return, HashLabels

(* So none of the other parts moves a producer from one thread to another. *)
LEMMA PartsOwn ==
  ASSUME NEW t \in Threads, ControlInv, DataInv, DataInv', \A u \in Threads : ThreadInv(u), OwnInv,
         Others(t),
         \/ SemaphoreStep(t) \/ FreeListStep(t) \/ EnqueueStep(t) \/ DequeueStep(t)
         \/ BulkEnqueueStep(t) \/ BulkDequeueStep(t) \/ TokenStep(t)
  PROVE  OwnInv'
<1>0. ThreadInv(t) /\ ProducersInv
  BY DEF DataInv
<1>1. CASE SemaphoreStep(t)
  <2>1. UNCHANGED <<prod, tables>>
    BY <1>1 DEF SemaphoreStep, TryWaitLoad, TryWaitCAS, SpinLoad, SpinCAS, FetchSub, Sleep, Timeout,
                AdjustLoad, TrySema, Restore, Signal, Post, semUnchanged, prodVars, hashVars
  <2> QED BY <1>0, <1>1, <2>1, SemaphoreAway, ProducersUnchanged, AwayOwn
<1>2. CASE FreeListStep(t)
  <2>1. UNCHANGED <<prod, tables>>
    BY <1>2 DEF FreeListStep, PoolLoad, PoolTake, GetHead, GetRefs, GetRef, GetNext, GetCAS, GetDone,
                GetUnref, CreateBlock, AddBlock, AddLoad, AddLink, AddPush, AddRetry, freeUnchanged,
                addUnchanged, prodVars, hashVars
  <2> QED BY <1>0, <1>2, <2>1, FreeListAway, ProducersUnchanged, AwayOwn
<1>3. CASE EnqueueStep(t)
  <2>1. UNCHANGED tables
    BY <1>3 DEF EnqueueStep, EnqueueStart, InsertEntry, InsertTail, Rewind, Unset, InsertBlock,
                Publish, prodUnchanged, hashVars
  <2> QED BY <1>0, <1>3, <2>1, EnqueueAway, EnqueueData, AwayOwn
<1>4. CASE BulkEnqueueStep(t)
  <2>1. UNCHANGED tables
    BY <1>4 DEF BulkEnqueueStep, BulkStart, BulkFull, BulkInsertBlock, BulkPublish, RevertUnset,
                RevertTail, loads, prodUnchanged, hashVars
  <2> QED BY <1>0, <1>4, <2>1, BulkEnqueueAway, BulkEnqueueData, AwayOwn
<1>5. CASE DequeueStep(t)
  <2>1. UNCHANGED tables
    BY <1>5 DEF DequeueStep, Scan, Visit, VisitHead, DequeueTail, DequeueOvercommit, DequeueCheck,
                DequeueClaim, DequeueRecheck, DequeueUndo, DequeueFailed, DequeueHead, LookupHeader,
                LookupTail, LookupEntry, Read, SetEmpty, Release, loads, prodUnchanged, hashVars
  <2> QED BY <1>0, <1>5, <2>1, DequeueAway, DequeueData, AwayOwn
<1>6. CASE BulkDequeueStep(t)
  <2>1. UNCHANGED tables
    BY <1>6 DEF BulkDequeueStep, BulkScan, BulkCheck, BulkRecheck, BulkOvercommit, BulkRead,
                SetManyEmpty, loads, prodUnchanged, hashVars
  <2> QED BY <1>0, <1>6, <2>1, BulkDequeueAway, BulkDequeueData, AwayOwn
<1>7. CASE TokenStep(t)
  <2>1. UNCHANGED tables
    BY <1>7 DEF TokenStep, TokenEnqueue, TokenReuse, TokenRoom, TokenIndex, TokenInsert, TokenNoBlock,
                TokenReady, TokenFront, SetFlags, loads, prodUnchanged, hashVars
  <2> QED BY <1>0, <1>7, <2>1, TokenAway, TokenData, AwayOwn
<1> QED BY <1>1, <1>2, <1>3, <1>4, <1>5, <1>6, <1>7

(* What a lookup finds is the thread's own. *)
LEMMA FoundOwned ==
  ASSUME NEW t \in Threads, DataInv, OwnInv, Holding(t) # {}
  PROVE  /\ Found(Newest(Holding(t)), t) \in Owned(t)
         /\ prod[Found(Newest(Holding(t)), t)].explicit = FALSE
<1> DEFINE k == Newest(Holding(t))
           i == CHOOSE j \in Slots(k, t) : TRUE
<1>1. Holding(t) \subseteq 1..Len(tables) /\ Len(tables) \in Nat
  BY DEF DataInv, TablesInv, Holding
<1>2. k \in Holding(t)
  BY <1>1, MaxMember
<1> HIDE DEF k
<1>3. Slots(k, t) # {} /\ k \in DOMAIN tables
  BY <1>2 DEF Holding
<1>4. i \in Slots(k, t)
  BY <1>3
<1> HIDE DEF i
<1>5. i \in DOMAIN tables[k] /\ tables[k][i].key = t
  BY <1>4 DEF Slots
<1>6. Found(k, t) = tables[k][i].value
  BY DEF Found, i
<1>7. InTable(t, Found(k, t)) /\ prod[Found(k, t)].explicit = FALSE
  BY <1>3, <1>5, <1>6 DEF InTable, OwnInv, Kinds
<1> QED BY <1>7, OwnedMeaning DEF k

(* A step that changes neither the tables nor the producers. *)
LEMMA PlainOwn ==
  ASSUME NEW t \in Threads, DataInv, DataInv', \A u \in Threads : ThreadInv(u), OwnInv, Others(t),
         UNCHANGED <<tables, prod>>, Stage(t)',
         pc'[t] \in Obtaining => lv'[t].ptr \in Owned(t) /\ prod[lv'[t].ptr].explicit = ForToken(t)'
  PROVE  OwnInv'
<1>1. Len(tables') >= Len(tables) /\ \A u \in Threads : SlotsKept(u)
  BY DEF DataInv, TablesInv, SlotsKept
<1>2. OwnersKept
  BY DEF OwnersKept, SameOwner
<1> QED BY <1>1, <1>2, LocalOwn

(* The producer in hand. *)
LEMMA HandOwned ==
  ASSUME NEW t \in Threads, OwnInv, pc[t] \in Obtaining
  PROVE  lv[t].ptr \in Owned(t) /\ prod[lv[t].ptr].explicit = ForToken(t)
<1>1. InHand(t, lv[t].ptr)
  BY DEF InHand
<1>2. prod[lv[t].ptr].explicit = ForToken(t)
  BY DEF OwnInv, Kinds
<1> QED BY <1>1, <1>2, OwnedMeaning

(* A thread that goes on with, or without, the producer it has in hand. *)
LEMMA SameHand ==
  ASSUME NEW t \in Threads, ControlInv, DataInv, DataInv', \A u \in Threads : ThreadInv(u), OwnInv,
         Others(t),
         NEW label, NEW l, Go(t, label, l), UNCHANGED <<tables, prod>>,
         pc[t] \in Obtaining \ {"h_push", "x_clear", "x_inactive"},
         label \in Obtaining \ {"h_push", "x_clear", "x_inactive"}, l.ptr = lv[t].ptr
  PROVE  OwnInv'
<1>1. pc'[t] = label /\ lv'[t] = l /\ ForToken(t)' = ForToken(t)
  BY GoOthers DEF ForToken
<1>2. lv[t].ptr \in Owned(t) /\ prod[lv[t].ptr].explicit = ForToken(t)
  BY HandOwned
<1>3. ~ForToken(t)
  BY DEF OwnInv, Stage
<1>4. Stage(t)'
  BY <1>1, <1>3 DEF Stage
<1> QED BY <1>1, <1>2, <1>4, PlainOwn

(* A thread that looks for a producer has none in hand. *)
LEMMA NoHand ==
  ASSUME NEW t \in Threads, ControlInv, DataInv, DataInv', \A u \in Threads : ThreadInv(u), OwnInv,
         Others(t),
         NEW label, NEW l, Go(t, label, l), UNCHANGED <<tables, prod>>,
         label \in Seeking \cup Choosing, ~ForToken(t), NoSlotAbove(t, 0)
  PROVE  OwnInv'
<1>1. pc'[t] = label /\ lv'[t] = l /\ ForToken(t)' = ForToken(t)
  BY GoOthers DEF ForToken
<1>2. NoSlotAbove(t, 0)'
  BY DEF NoSlotAbove
<1>3. Stage(t)' /\ pc'[t] \notin Obtaining
  BY <1>1, <1>2 DEF Stage
<1> QED BY <1>3, PlainOwn

(* A call that ends without a producer of its own. *)
LEMMA ReturnOwn ==
  ASSUME NEW t \in Threads, ControlInv, DataInv, DataInv', \A u \in Threads : ThreadInv(u), OwnInv,
         Others(t),
         Return(t), UNCHANGED <<tables, prod>>
  PROVE  OwnInv'
<1>1. pc'[t] = "idle"
  BY DEF Return, ControlInv
<1>2. Stage(t)'
  BY <1>1 DEF Stage
<1> QED BY <1>1, <1>2, PlainOwn

(* A thread takes a slot for the producer it has in hand. *)
LEMMA ClaimOwn ==
  ASSUME NEW t \in Threads, ControlInv, DataInv, DataInv', \A u \in Threads : ThreadInv(u), OwnInv,
         Others(t),
         NEW expected, Claim(t, expected), NEW label, NEW l, Go(t, label, l), UNCHANGED prod,
         pc[t] \in {"h_copy", "h_copy2", "h_reuse", "h_empty"}, label \in {"enqueue", "h_uncount"},
         l.ptr = lv[t].ptr
  PROVE  OwnInv'
<1> DEFINE m == lv[t].main
           s == lv[t].slot
           q == lv[t].ptr
           new == [key |-> t, value |-> q]
<1>1. pc'[t] = label /\ lv'[t] = l /\ ForToken(t)' = ForToken(t)
  BY GoOthers DEF ForToken
<1>2. q \in Owned(t) /\ q \in DOMAIN prod /\ prod[q].explicit = FALSE /\ ~ForToken(t)
  BY HandOwned DEF OwnInv, Stage
<1>3. tables' = [tables EXCEPT ![m] = [tables[m] EXCEPT ![s] = new]] /\ DOMAIN tables = 1..Len(tables)
      /\ Len(tables) \in Nat
  BY DEF Claim, Loc, DataInv, TablesInv
<1>4. DOMAIN tables' = DOMAIN tables /\ Len(tables') = Len(tables)
  BY <1>3 DEF DataInv, TablesInv
<1>5. ASSUME NEW k \in DOMAIN tables', NEW i \in DOMAIN tables'[k]
      PROVE  /\ k \in DOMAIN tables /\ i \in DOMAIN tables[k]
             /\ tables'[k][i] = tables[k][i] \/ tables'[k][i] = new
  BY <1>3
<1>6. new.key = t /\ new.value = q
  OBVIOUS
<1> HIDE DEF new, q
<1>7. ASSUME NEW u, u # t PROVE SlotsKept(u)
  BY <1>5, <1>6, <1>7 DEF SlotsKept
<1>8. OthersKept(t)
  BY <1>3, <1>4, <1>7 DEF OthersKept, OfToken
<1>9. Owned(t)' \subseteq Owned(t)
  <2>1. \A p : InTable(t, p)' => InTable(t, p) \/ p = q
    BY <1>5, <1>6 DEF InTable
  <2>2. \A p : OfToken(t, p)' => OfToken(t, p)
    BY DEF OfToken
  <2>3. \A p : InHand(t, p)' => p = q
    BY <1>1 DEF InHand, q
  <2> QED BY <1>2, <2>1, <2>2, <2>3, OwnedMeaning
<1>10. Kinds(t)'
  <2>1. ASSUME NEW k \in DOMAIN tables', NEW i \in DOMAIN tables'[k], tables'[k][i].key = t
        PROVE  prod'[tables'[k][i].value].explicit = FALSE
    BY <1>2, <1>5, <1>6, <2>1 DEF OwnInv, Kinds
  <2>2. \A p \in DOMAIN prod' : prod'[p].token = t => prod'[p].explicit = TRUE
    BY DEF OwnInv, Kinds
  <2>3. prod'[lv'[t].ptr].explicit = ForToken(t)'
    <3>1. ForToken(t) = FALSE
      BY <1>2 DEF ForToken
    <3>2. lv'[t].ptr = q /\ prod' = prod
      BY <1>1 DEF q
    <3> QED BY <1>1, <1>2, <3>1, <3>2
  <2> QED BY <2>1, <2>2, <2>3 DEF Kinds
<1>11. Stage(t)'
  BY <1>1, <1>2 DEF Stage
<1>12. ASSUME NEW u \in Threads, NEW p \in Owned(u)' PROVE ~prod'[p].inactive
  <2>1. p \in Owned(u)
    BY <1>8, <1>9, OthersOwn DEF OwnInv
  <2> QED BY <2>1 DEF OwnInv, OneProducerPerThread
<1> QED BY <1>8, <1>9, <1>10, <1>11, <1>12, OwnKept

(* What t's locals keep when one of them changes. *)
LEMMA PtrKept ==
  ASSUME NEW t \in Threads, ThreadInv(t), NEW x
  PROVE  /\ [lv[t] EXCEPT !.slot = x].ptr = lv[t].ptr /\ [lv[t] EXCEPT !.main = x].ptr = lv[t].ptr
         /\ [lv[t] EXCEPT !.ptr = x].ptr = x /\ [lv[t] EXCEPT !.main = x].main = x
         /\ [NoLocals EXCEPT !.ptr = x].ptr = x
BY NoLocalsFields DEF ThreadInv, Fits, Typed, Fields

(* Looking a producer up, copying its slot to a newer table, claiming a free slot for it, and the steps *)
(* of get_or_add_implicit_producer that only read (concurrentqueue.h:3388-3534). *)
LEMMA HashPlainOwn ==
  ASSUME NEW t \in Threads, ControlInv, DataInv, DataInv', \A u \in Threads : ThreadInv(u), OwnInv,
         Others(t),
         \/ Lookup(t) \/ Copy(t) \/ CopyReusable(t) \/ CountSelf(t) \/ Full(t) \/ Clear(t) \/ Reload(t)
         \/ Recycle(t) \/ InsertReusable(t) \/ InsertFree(t) \/ Uncount(t) \/ Exit(t)
  PROVE  OwnInv'
<1>0. ThreadInv(t) /\ Stage(t)
  BY DEF OwnInv
<1>1. CASE Lookup(t)
  <2>1. UNCHANGED <<tables, prod>> /\ Call(t) \in Enqueues /\ pc[t] = "idle"
    BY <1>1 DEF Lookup, Calling, hashVars, prodVars
  <2>2. ForToken(t) = FALSE
    BY <2>1 DEF ForToken, Enqueues, BulkEnqueues
  <2>3. CASE Holding(t) = {}
    <3>1. NoSlotAbove(t, 0)
      BY <2>3 DEF Holding, Slots, NoSlotAbove
    <3>2. \E l : Go(t, "h_count", l)
      BY <1>1, <2>3 DEF Lookup
    <3> QED BY <2>1, <2>2, <3>1, <3>2, NoHand
  <2>4. CASE Holding(t) # {}
    <3> DEFINE q == Found(Newest(Holding(t)), t)
    <3>1. q \in Owned(t) /\ prod[q].explicit = FALSE
      BY <2>4, FoundOwned
    <3>2. PICK label \in {"enqueue", "h_copy"}, l \in {[NoLocals EXCEPT !.ptr = q],
            [NoLocals EXCEPT !.main = Len(tables), !.ptr = q, !.slot = Home(Len(tables), t)]} : Go(t, label, l)
      BY <1>1, <2>4 DEF Lookup
    <3> HIDE DEF q
    <3>3. l.ptr = q
      BY <3>2, NoLocalsFields DEF Fields
    <3>4. pc'[t] = label /\ lv'[t] = l /\ ForToken(t)' = FALSE
      BY <2>2, <3>2, GoOthers DEF ForToken
    <3>5. Stage(t)'
      BY <3>2, <3>4 DEF Stage
    <3> QED BY <2>1, <3>1, <3>3, <3>4, <3>5, PlainOwn
  <2> QED BY <2>3, <2>4
<1>2. CASE Copy(t) \/ CopyReusable(t) \/ InsertReusable(t) \/ InsertFree(t)
  <2>1. UNCHANGED prod /\ pc[t] \in {"h_copy", "h_copy2", "h_reuse", "h_empty"}
    BY <1>2 DEF Copy, CopyReusable, InsertReusable, InsertFree, prodVars, At
  <2>2. \/ /\ Claim(t, Free) \/ Claim(t, Reusable)
           /\ Ready(t) \/ Go(t, "h_uncount", lv[t])
        \/ /\ UNCHANGED tables
           /\ \/ \E label \in {"h_copy2", "h_empty"} : Go(t, label, lv[t])
              \/ \E label \in {"h_copy", "h_reuse"} : \E x : Go(t, label, [lv[t] EXCEPT !.slot = x])
    BY <1>2 DEF Copy, CopyReusable, InsertReusable, InsertFree, Loc
  <2>3. Ready(t) => Go(t, "enqueue", [NoLocals EXCEPT !.ptr = lv[t].ptr])
    BY DEF Ready, Loc
  <2>4. [NoLocals EXCEPT !.ptr = lv[t].ptr].ptr = lv[t].ptr
        /\ \A x : [lv[t] EXCEPT !.slot = x].ptr = lv[t].ptr
    BY <1>0, PtrKept
  <2>5. CASE (Claim(t, Free) \/ Claim(t, Reusable)) /\ (Ready(t) \/ Go(t, "h_uncount", lv[t]))
    <3>1. PICK expected : Claim(t, expected)
      BY <2>5
    <3>2. PICK label, l : label \in {"enqueue", "h_uncount"} /\ Go(t, label, l) /\ l.ptr = lv[t].ptr
      BY <2>3, <2>4, <2>5
    <3> QED BY <2>1, <3>1, <3>2, ClaimOwn
  <2>6. CASE UNCHANGED tables /\ \E label \in {"h_copy2", "h_empty"} : Go(t, label, lv[t])
    BY <2>1, <2>6, SameHand
  <2>7. CASE UNCHANGED tables
             /\ \E label \in {"h_copy", "h_reuse"} : \E x : Go(t, label, [lv[t] EXCEPT !.slot = x])
    <3>1. PICK label \in {"h_copy", "h_reuse"} : \E x : Go(t, label, [lv[t] EXCEPT !.slot = x])
      BY <2>7
    <3>2. PICK x : Go(t, label, [lv[t] EXCEPT !.slot = x])
      BY <3>1
    <3> DEFINE l == [lv[t] EXCEPT !.slot = x]
    <3>3. Go(t, label, l) /\ l.ptr = lv[t].ptr /\ UNCHANGED <<tables, prod>>
      BY <2>1, <2>4, <2>7, <3>2
    <3> HIDE DEF l
    <3> QED BY <2>1, <3>3, SameHand
  <2> QED BY <2>2, <2>5, <2>6, <2>7
<1>3. CASE CountSelf(t) \/ Full(t) \/ Clear(t) \/ Reload(t)
  <2>1. UNCHANGED <<tables, prod>> /\ pc[t] \in Seeking
    BY <1>3 DEF CountSelf, Full, Clear, Reload, prodVars, hashVars, At
  <2>2. Return(t) \/ \E label \in Seeking : \E l : Go(t, label, l)
    BY <1>3 DEF CountSelf, Full, Clear, Reload, Room
  <2>3. ~ForToken(t) /\ NoSlotAbove(t, 0)
    BY <1>0, <2>1 DEF Stage
  <2> QED BY <2>1, <2>2, <2>3, ReturnOwn, NoHand
<1>4. CASE Recycle(t)
  <2>1. UNCHANGED <<tables, prod>> /\ \E label \in Choosing : \E l : Go(t, label, l)
    BY <1>4 DEF Recycle, prodVars, hashVars
  <2>2. PICK label \in Choosing : \E l : Go(t, label, l)
    BY <2>1
  <2>3. PICK l : Go(t, label, l)
    BY <2>2
  <2>4. pc'[t] = label /\ ForToken(t)' = ForToken(t)
    BY <2>3, GoOthers DEF ForToken
  <2>5. CASE pc[t] = "h_recycle"
    <3>1. ~ForToken(t) /\ NoSlotAbove(t, 0)
      BY <1>0, <2>5 DEF Stage
    <3> QED BY <2>1, <2>3, <3>1, NoHand
  <2>6. CASE Call(t) = "token" /\ ~valid(t)
    <3>1. ForToken(t)' /\ ~valid(t)'
      BY <2>1, <2>4, <2>6 DEF ForToken, valid
    <3>2. Stage(t)' /\ pc'[t] \notin Obtaining
      BY <2>4, <3>1 DEF Stage
    <3> QED BY <2>1, <3>2, PlainOwn
  <2> QED BY <1>4, <2>5, <2>6 DEF Recycle, At, Calling
<1>5. CASE Uncount(t)
  <2>1. UNCHANGED <<tables, prod>> /\ pc[t] = "h_uncount" /\ Go(t, "enqueue", [NoLocals EXCEPT !.ptr = lv[t].ptr])
    BY <1>5 DEF Uncount, Ready, Loc, prodVars, At
  <2>2. [NoLocals EXCEPT !.ptr = lv[t].ptr].ptr = lv[t].ptr
    BY <1>0, PtrKept
  <2> QED BY <2>1, <2>2, SameHand
<1>6. CASE Exit(t)
  <2>1. UNCHANGED <<tables, prod>> /\ Call(t) = "exit"
    BY <1>6 DEF Exit, Calling, hashVars, prodVars
  <2>2. CASE Holding(t) = {}
    BY <1>6, <2>1, <2>2, ReturnOwn DEF Exit
  <2>3. CASE Holding(t) # {}
    <3>0. PICK n \in Nat : n = Len(tables) /\ DOMAIN tables = 1..n
      BY DEF DataInv, TablesInv
    <3> DEFINE q == Found(Newest(Holding(t)), t)
               l == [NoLocals EXCEPT !.main = n, !.ptr = q]
    <3>1. q \in Owned(t) /\ prod[q].explicit = FALSE
      BY <2>3, FoundOwned
    <3>2. Go(t, "x_clear", l)
      BY <1>6, <2>3, <3>0 DEF Exit
    <3>3. l.ptr = q /\ l.main = n
      BY NoLocalsFields DEF Fields
    <3>4. pc'[t] = "x_clear" /\ lv'[t] = l /\ ForToken(t)' = FALSE
      <4>1. ForToken(t) = FALSE
        BY <2>1 DEF ForToken
      <4> HIDE DEF l
      <4> QED BY <3>2, <4>1, GoOthers DEF ForToken
    <3>5. n \in 1..Len(tables') /\ NoSlotAbove(t, n)'
      <4>1. n # 0
        BY <2>3, <3>0 DEF Holding
      <4>2. n \in 1..n /\ \A k \in 1..n : ~(k > n)
        BY <4>1
      <4>3. Len(tables') = n /\ DOMAIN tables' = 1..n
        BY <2>1, <3>0
      <4> QED BY <4>2, <4>3 DEF NoSlotAbove
    <3> HIDE DEF l, q
    <3>6. lv'[t].main = n
      BY <3>3, <3>4
    <3>7. Stage(t)'
      BY <3>4, <3>5, <3>6 DEF Stage
    <3>8. lv'[t].ptr = q
      BY <3>3, <3>4
    <3> QED BY <2>1, <3>1, <3>4, <3>7, <3>8, PlainOwn
  <2> QED BY <2>2, <2>3
<1> QED BY <1>1, <1>2, <1>3, <1>4, <1>5, <1>6

(* A new table has no slots of any thread (concurrentqueue.h:3466-3484). *)
LEMMA ResizeOwn ==
  ASSUME NEW t \in Threads, ControlInv, DataInv, DataInv', \A u \in Threads : ThreadInv(u), OwnInv,
         Others(t),
         Resize(t)
  PROVE  OwnInv'
<1>1. UNCHANGED prod /\ pc[t] = "h_resize" /\ \E l : Go(t, "h_clear", l)
  BY DEF Resize, prodVars, At
<1>2. ~ForToken(t) /\ NoSlotAbove(t, 0)
  BY <1>1 DEF OwnInv, Stage
<1>3. CASE UNCHANGED tables
  BY <1>1, <1>2, <1>3, NoHand
<1>4. CASE \E c : tables' = Append(tables, EmptyTable(c))
  <2>1. PICK c : tables' = Append(tables, EmptyTable(c))
    BY <1>4
  <2> DEFINE x == EmptyTable(c)
  <2>2. tables \in Seq(Elements(tables)) /\ tables' = Append(tables, x)
    BY <2>1 DEF DataInv, TablesInv
  <2>3. \A i \in DOMAIN x : x[i].key = Free
    BY DEF EmptyTable
  <2> HIDE DEF x
  <2>4. /\ DOMAIN tables' = 1..(Len(tables) + 1) /\ Len(tables') = Len(tables) + 1
        /\ tables'[Len(tables) + 1] = x /\ Len(tables) \in Nat /\ DOMAIN tables = 1..Len(tables)
        /\ \A k \in 1..Len(tables) : tables'[k] = tables[k]
    BY <2>2, AppendFacts
  <2>5. ASSUME NEW u \in Threads PROVE SlotsKept(u)
    <3>1. ASSUME NEW k \in DOMAIN tables', NEW i \in DOMAIN tables'[k], tables'[k][i].key = u
          PROVE  k \in DOMAIN tables /\ i \in DOMAIN tables[k] /\ tables[k][i] = tables'[k][i]
      <4>1. u # Free
        BY ThreadsAssumption
      <4>2. k # Len(tables) + 1
        BY <2>3, <2>4, <3>1, <4>1
      <4>3. k \in 1..Len(tables)
        BY <2>4, <4>2
      <4> QED BY <2>4, <4>3
    <3> QED BY <3>1 DEF SlotsKept
  <2>6. Len(tables') >= Len(tables)
    BY <2>4
  <2>7. OwnersKept
    BY <1>1 DEF OwnersKept, SameOwner
  <2>8. pc'[t] = "h_clear" /\ ForToken(t)' = ForToken(t)
    BY <1>1, GoOthers DEF ForToken
  <2>9. NoSlotAbove(t, 0)'
    BY <1>2, <2>5, SlotsFrame
  <2>10. Stage(t)'
    BY <1>2, <2>8, <2>9 DEF Stage
  <2> QED BY <2>5, <2>6, <2>7, <2>8, <2>10, LocalOwn
<1> QED BY <1>3, <1>4 DEF Resize

(* A thread that ends gives up its slots in one table after the other. *)
LEMMA ExitTableOwn ==
  ASSUME NEW t \in Threads, ControlInv, DataInv, DataInv', \A u \in Threads : ThreadInv(u), OwnInv,
         Others(t),
         ExitTable(t)
  PROVE  OwnInv'
<1>1. PICK m : m = lv[t].main
  OBVIOUS
<1>2. PICK n \in Nat : n = Len(tables) /\ DOMAIN tables = 1..n
  BY DEF DataInv, TablesInv
<1> DEFINE l == [lv[t] EXCEPT !.main = m - 1]
           label == IF m = 1 THEN "x_inactive" ELSE "x_clear"
<1>3. UNCHANGED prod /\ pc[t] = "x_clear" /\ Go(t, label, l)
  BY <1>1 DEF ExitTable, prodVars, At, Loc
<1>4. l.ptr = lv[t].ptr /\ l.main = m - 1
  BY <1>1, PtrKept
<1> HIDE DEF l
<1>5. pc'[t] = label /\ lv'[t] = l /\ ForToken(t)' = ForToken(t)
  BY <1>3, GoOthers DEF ForToken
<1>6. m \in 1..n /\ NoSlotAbove(t, m) /\ ForToken(t) = FALSE
  BY <1>1, <1>2, <1>3 DEF OwnInv, Stage, ForToken
<1>7. /\ Len(tables') = n /\ DOMAIN tables' = 1..n
      /\ \A k \in 1..n : /\ DOMAIN tables'[k] = DOMAIN tables[k]
                         /\ \A i \in DOMAIN tables[k] :
                              \/ tables'[k][i] = tables[k][i] /\ (k = m => tables[k][i].key # t)
                              \/ tables'[k][i].key = Reusable /\ tables[k][i].key = t
  BY <1>1, <1>2, ExitData
<1>8. ASSUME NEW u \in Threads PROVE SlotsKept(u)
  <2>1. u # Reusable
    BY ThreadsAssumption
  <2> QED BY <1>2, <1>7, <2>1 DEF SlotsKept
<1>9. NoSlotAbove(t, m - 1)'
  <2>1. ASSUME NEW k \in 1..n, k > m - 1, NEW i \in DOMAIN tables'[k] PROVE tables'[k][i].key # t
    <3>1. k = m \/ k > m
      BY <1>6, <2>1
    <3>2. t # Reusable
      BY ThreadsAssumption
    <3> QED BY <1>2, <1>6, <1>7, <2>1, <3>1, <3>2 DEF NoSlotAbove
  <2> QED BY <1>7, <2>1 DEF NoSlotAbove
<1>10. Stage(t)'
  <2>1. CASE m = 1
    <3>1. NoSlotAbove(t, 0)' /\ pc'[t] = "x_inactive"
      BY <1>5, <1>9, <2>1
    <3> QED BY <1>5, <1>6, <3>1 DEF Stage
  <2>2. CASE m # 1
    <3>1. pc'[t] = "x_clear" /\ lv'[t].main = m - 1
      BY <1>4, <1>5, <2>2
    <3>2. m - 1 \in 1..Len(tables')
      BY <1>6, <1>7, <2>2
    <3> QED BY <1>5, <1>6, <1>9, <3>1, <3>2 DEF Stage
  <2> QED BY <2>1, <2>2
<1>11. OwnersKept /\ Len(tables') >= Len(tables)
  BY <1>2, <1>3, <1>7 DEF OwnersKept, SameOwner
<1>12. lv'[t].ptr \in Owned(t) /\ prod[lv'[t].ptr].explicit = ForToken(t)'
  BY <1>3, <1>4, <1>5, HandOwned
<1> QED BY <1>8, <1>10, <1>11, <1>12, LocalOwn

(* Who looks for a producer has at most one of the other kind. *)
LEMMA OtherKind ==
  ASSUME NEW t \in Threads, DataInv, OwnInv, pc[t] \in Choosing, NEW p \in Owned(t)
  PROVE  prod[p].explicit = (~ForToken(t))
<1>1. InTable(t, p) \/ OfToken(t, p)
  BY OwnedMeaning DEF InHand
<1>2. (InTable(t, p) => prod[p].explicit = FALSE) /\ (OfToken(t, p) => prod[p].explicit = TRUE)
  BY DEF InTable, OfToken, OwnInv, Kinds
<1>3. IF ForToken(t) THEN ~valid(t) ELSE NoSlotAbove(t, 0)
  BY DEF OwnInv, Stage
<1>4. CASE ForToken(t)
  <2>1. ~OfToken(t, p)
    BY <1>3, <1>4 DEF valid, OfToken
  <2>2. (~ForToken(t)) = FALSE
    BY <1>4
  <2> QED BY <1>1, <1>2, <2>1, <2>2
<1>5. CASE ~ForToken(t)
  <2>1. DOMAIN tables = 1..Len(tables) /\ Len(tables) \in Nat
    BY DEF DataInv, TablesInv
  <2>2. ~InTable(t, p)
    BY <1>3, <1>5, <2>1 DEF InTable, NoSlotAbove
  <2>3. (~ForToken(t)) = TRUE
    BY <1>5
  <2> QED BY <1>1, <1>2, <2>2, <2>3
<1> QED BY <1>4, <1>5

(* A producer is taken for a token, or for the thread itself. *)
LEMMA TokenKind ==
  ASSUME NEW t
  PROVE  (TokenOf(t) = t /\ ForToken(t) = TRUE) \/ (TokenOf(t) = Free /\ ForToken(t) = FALSE)
<1>1. CASE ForToken(t)
  <2>1. TokenOf(t) = t
    BY <1>1 DEF TokenOf
  <2>2. ForToken(t) = TRUE
    BY <1>1 DEF ForToken
  <2> QED BY <2>1, <2>2
<1>2. CASE ~ForToken(t)
  BY <1>2 DEF TokenOf, ForToken
<1> QED BY <1>1, <1>2, Zenon

(* A producer that is inactive is nobody's. *)
LEMMA WalkOwn ==
  ASSUME NEW t \in Threads, ControlInv, DataInv, DataInv', \A u \in Threads : ThreadInv(u), OwnInv,
         Others(t),
         Walk(t)
  PROVE  OwnInv'
<1> DEFINE q == lv[t].ptr
<1>1. UNCHANGED tables /\ pc[t] = "h_walk" /\ q \in DOMAIN prod /\ ThreadInv(t)
  BY HandPtr DEF Walk, hashVars, At
<1>2. IF ForToken(t) THEN ~valid(t) ELSE NoSlotAbove(t, 0)
  BY <1>1 DEF OwnInv, Stage
<1>3. CASE UNCHANGED prod /\ \E label \in Choosing : \E l : Go(t, label, l)
  <2>1. PICK label \in Choosing : \E l : Go(t, label, l)
    BY <1>3
  <2>2. pc'[t] = label /\ ForToken(t)' = ForToken(t)
    BY <2>1, GoOthers DEF ForToken
  <2>3. valid(t)' = valid(t) /\ (NoSlotAbove(t, 0) => NoSlotAbove(t, 0)')
    BY <1>1, <1>3 DEF valid, NoSlotAbove
  <2>4. Stage(t)'
    BY <1>2, <2>2, <2>3 DEF Stage
  <2> QED BY <1>1, <1>3, <2>2, <2>4, PlainOwn
<1>4. CASE /\ prod[q].inactive /\ prod[q].explicit = ForToken(t)
           /\ prod' = [prod EXCEPT ![q].inactive = FALSE, ![q].token = TokenOf(t)]
           /\ Obtained(t)
  <2> DEFINE r == [prod[q] EXCEPT !.inactive = FALSE, !.token = TokenOf(t)]
  <2>1. DOMAIN prod' = DOMAIN prod /\ prod'[q] = r /\ \A p \in DOMAIN prod \ {q} : prod'[p] = prod[p]
    BY <1>1, <1>4
  <2>2. r.explicit = prod[q].explicit /\ r.token = TokenOf(t) /\ r.inactive = FALSE
    <3>1. Sound(prod[q], Len(prod))
      BY <1>1 DEF DataInv, ProducersInv
    <3> QED BY <3>1, ProducerFields DEF Sound
  <2> HIDE DEF r
  <2>3. \A u \in Threads : q \notin Owned(u)
    BY <1>4 DEF OwnInv, OneProducerPerThread
  <2>4. /\ pc'[t] = "idle" \/ (pc'[t] = "h_reuse" /\ lv'[t].ptr = q /\ ForToken(t)' = FALSE /\ ForToken(t) = FALSE)
    <3>1. CASE ForToken(t)
      BY <1>4, <3>1 DEF Obtained, Return, ControlInv
    <3>2. CASE ~ForToken(t)
      <4> DEFINE l == [lv[t] EXCEPT !.slot = Home(lv[t].main, t)]
      <4>1. Go(t, "h_reuse", l) /\ l.ptr = q
        BY <1>1, <1>4, <3>2, PtrKept DEF Obtained, Loc
      <4> HIDE DEF l
      <4> QED BY <3>2, <4>1, GoOthers DEF ForToken
    <3> QED BY <3>1, <3>2
  <2>5. (TokenOf(t) = t /\ ForToken(t) = TRUE) \/ (TokenOf(t) = Free /\ ForToken(t) = FALSE)
    BY TokenKind
  <2>6. Free \notin Threads
    BY ThreadsAssumption
  <2>7. OthersKept(t)
    <3>1. \A u \in Threads \ {t} : SlotsKept(u)
      BY <1>1 DEF SlotsKept
    <3>2. Len(tables') >= Len(tables)
      BY <1>1 DEF DataInv, TablesInv
    <3>3. \A p \in DOMAIN prod : p \in DOMAIN prod' /\ prod'[p].explicit = prod[p].explicit
      BY <2>1, <2>2
    <3>4. \A u \in Threads \ {t} : \A p : OfToken(u, p)' => OfToken(u, p)
      BY <2>1, <2>2, <2>5, <2>6 DEF OfToken
    <3> QED BY <3>1, <3>2, <3>3, <3>4 DEF OthersKept
  <2>8. Owned(t)' \subseteq Owned(t) \cup {q}
    <3>1. \A p : InTable(t, p)' => InTable(t, p)
      BY <1>1 DEF InTable
    <3>2. \A p : OfToken(t, p)' => OfToken(t, p) \/ p = q
      BY <2>1 DEF OfToken
    <3>3. \A p : InHand(t, p)' => p = q
      BY <2>4 DEF InHand
    <3> QED BY <3>1, <3>2, <3>3, OwnedMeaning
  <2>9. Kinds(t)'
    <3>1. Kinds(t)
      BY DEF OwnInv
    <3>2. ASSUME NEW k \in DOMAIN tables', NEW i \in DOMAIN tables'[k], tables'[k][i].key = t
          PROVE  prod'[tables'[k][i].value].explicit = FALSE
      <4>1. tables[k][i].value \in DOMAIN prod /\ prod[tables[k][i].value].explicit = FALSE
        BY <1>1, <3>1, <3>2 DEF Kinds, DataInv, TablesInv
      <4> QED BY <1>1, <2>7, <4>1 DEF OthersKept
    <3>3. ASSUME NEW p \in DOMAIN prod', prod'[p].token = t
          PROVE  prod'[p].explicit = TRUE
      <4>1. CASE p = q
        BY <1>4, <2>1, <2>2, <2>5, <2>6, <3>3, <4>1
      <4>2. CASE p # q
        BY <2>1, <3>1, <3>3, <4>2 DEF Kinds
      <4> QED BY <4>1, <4>2
    <3>4. pc'[t] \in Obtaining => prod'[lv'[t].ptr].explicit = ForToken(t)'
      BY <1>4, <2>1, <2>2, <2>4
    <3> QED BY <3>2, <3>3, <3>4 DEF Kinds
  <2>10. Stage(t)'
    BY <2>4 DEF Stage
  <2>11. \A p \in Owned(t) : prod'[p].explicit # prod'[q].explicit
    <3>1. prod'[q].explicit = ForToken(t)
      BY <1>4, <2>1, <2>2
    <3>2. ASSUME NEW p \in Owned(t) PROVE prod'[p].explicit = (~ForToken(t))
      <4>1. p \in DOMAIN prod /\ prod'[p].explicit = prod[p].explicit
        BY <2>7 DEF OwnInv, OthersKept
      <4> QED BY <1>1, <4>1, OtherKind
    <3> QED BY <2>5, <3>1, <3>2
  <2>12. ~prod'[q].inactive /\ \A p \in DOMAIN prod \ {q} : prod'[p].inactive = prod[p].inactive
    BY <2>1, <2>2
  <2> HIDE DEF q
  <2> QED BY <1>1, <2>1, <2>3, <2>7, <2>8, <2>9, <2>10, <2>11, <2>12, OwnGained
<1> QED BY <1>3, <1>4 DEF Walk, Loc

(* So is a new one. *)
LEMMA CreateOwn ==
  ASSUME NEW t \in Threads, ControlInv, DataInv, DataInv', \A u \in Threads : ThreadInv(u), OwnInv,
         Others(t),
         CreateProducer(t)
  PROVE  OwnInv'
<1>1. UNCHANGED tables /\ pc[t] = "h_create" /\ ThreadInv(t)
  BY DEF CreateProducer, At
<1>2. CASE UNCHANGED prod /\ Return(t)
  BY <1>1, <1>2, ReturnOwn
<1>3. CASE /\ prod' = Append(prod, IF ForToken(t) THEN NewExplicitProducer(producerListTail)
                                   ELSE NewProducer(producerListTail))
           /\ Go(t, "h_push", [lv[t] EXCEPT !.ptr = Len(prod) + 1])
  <2>1. PICK n \in Nat : n = Len(prod) /\ DOMAIN prod = 1..n
    BY DEF DataInv, ProducersInv
  <2> DEFINE x == IF ForToken(t) THEN NewExplicitProducer(producerListTail) ELSE NewProducer(producerListTail)
             q == n + 1
             l == [lv[t] EXCEPT !.ptr = q]
  <2>2. x.explicit = ForToken(t) /\ x.token = Free /\ x.inactive = FALSE
    <3>1. CASE ForToken(t)
      <4>1. x.explicit = TRUE /\ x.token = Free /\ x.inactive = FALSE
        BY <3>1 DEF NewExplicitProducer, NewProducer
      <4> QED BY <4>1, TokenKind, <3>1
    <3>2. CASE ~ForToken(t)
      <4>1. x.explicit = FALSE /\ x.token = Free /\ x.inactive = FALSE
        BY <3>2 DEF NewProducer
      <4> QED BY <4>1, TokenKind, <3>2
    <3> QED BY <3>1, <3>2
  <2>3. prod \in Seq(Elements(prod)) /\ prod' = Append(prod, x)
    BY <1>3 DEF DataInv, ProducersInv
  <2> HIDE DEF x
  <2>4. DOMAIN prod' = 1..q /\ prod'[q] = x /\ \A p \in 1..n : prod'[p] = prod[p]
    BY <2>1, <2>3, AppendFacts
  <2>5. Go(t, "h_push", l) /\ l.ptr = q
    BY <1>1, <1>3, <2>1, PtrKept
  <2> HIDE DEF l
  <2>6. pc'[t] = "h_push" /\ lv'[t].ptr = q /\ ForToken(t)' = ForToken(t)
    BY <2>5, GoOthers DEF ForToken
  <2>7. q \in DOMAIN prod' /\ q \notin DOMAIN prod /\ DOMAIN prod \subseteq DOMAIN prod'
        /\ \A p \in DOMAIN prod' : p = q \/ p \in DOMAIN prod
    BY <2>1, <2>4
  <2>8. \A p \in DOMAIN prod : prod'[p] = prod[p]
    BY <2>1, <2>4
  <2>9. Free \notin Threads
    BY ThreadsAssumption
  <2> HIDE DEF q
  <2>10. OthersKept(t)
    <3>1. \A u \in Threads \ {t} : SlotsKept(u)
      BY <1>1 DEF SlotsKept
    <3>2. Len(tables') >= Len(tables)
      BY <1>1 DEF DataInv, TablesInv
    <3>3. \A u \in Threads \ {t} : \A p : OfToken(u, p)' => OfToken(u, p)
      BY <2>2, <2>4, <2>7, <2>8, <2>9 DEF OfToken
    <3> QED BY <2>7, <2>8, <3>1, <3>2, <3>3 DEF OthersKept
  <2>11. Owned(t)' \subseteq Owned(t) \cup {q}
    <3>1. \A p : InTable(t, p)' => InTable(t, p)
      BY <1>1 DEF InTable
    <3>2. \A p : OfToken(t, p)' => OfToken(t, p) \/ p = q
      BY <2>7, <2>8 DEF OfToken
    <3>3. \A p : InHand(t, p)' => p = q
      BY <2>6 DEF InHand
    <3> QED BY <3>1, <3>2, <3>3, OwnedMeaning
  <2>12. Kinds(t)'
    <3>1. Kinds(t)
      BY DEF OwnInv
    <3>2. ASSUME NEW k \in DOMAIN tables', NEW i \in DOMAIN tables'[k], tables'[k][i].key = t
          PROVE  prod'[tables'[k][i].value].explicit = FALSE
      <4>1. tables[k][i].value \in DOMAIN prod /\ prod[tables[k][i].value].explicit = FALSE
        BY <1>1, <3>1, <3>2 DEF Kinds, DataInv, TablesInv
      <4> QED BY <1>1, <2>8, <4>1
    <3>3. ASSUME NEW p \in DOMAIN prod', prod'[p].token = t
          PROVE  prod'[p].explicit = TRUE
      <4>1. p # q
        BY <2>2, <2>4, <2>9, <3>3
      <4> QED BY <2>7, <2>8, <3>1, <3>3, <4>1 DEF Kinds
    <3>4. prod'[lv'[t].ptr].explicit = ForToken(t)'
      BY <2>2, <2>4, <2>6
    <3> QED BY <3>2, <3>3, <3>4 DEF Kinds
  <2>13. Stage(t)'
    BY <2>6 DEF Stage
  <2>14. \A p \in Owned(t) : prod'[p].explicit # prod'[q].explicit
    <3>1. prod'[q].explicit = ForToken(t)
      BY <2>2, <2>4
    <3>2. ASSUME NEW p \in Owned(t) PROVE prod'[p].explicit = (~ForToken(t))
      <4>1. prod'[p].explicit = prod[p].explicit
        BY <2>8 DEF OwnInv
      <4> QED BY <1>1, <4>1, OtherKind
    <3> QED BY <3>1, <3>2, TokenKind
  <2>15. \A u \in Threads : q \notin Owned(u)
    BY <2>7 DEF OwnInv
  <2>16. ~prod'[q].inactive /\ \A p \in DOMAIN prod \ {q} : prod'[p].inactive = prod[p].inactive
    BY <2>2, <2>4, <2>8
  <2> QED BY <2>7, <2>10, <2>11, <2>12, <2>13, <2>14, <2>15, <2>16, OwnGained
<1> QED BY <1>2, <1>3 DEF CreateProducer, Loc

(* The new producer is in the list: its thread goes on to look for a slot, or its token is complete. *)
LEMMA PushOwn ==
  ASSUME NEW t \in Threads, ControlInv, DataInv, DataInv', \A u \in Threads : ThreadInv(u), OwnInv,
         Others(t),
         PushProducer(t)
  PROVE  OwnInv'
<1> DEFINE q == lv[t].ptr
<1>1. UNCHANGED tables /\ pc[t] = "h_push" /\ q \in DOMAIN prod /\ ThreadInv(t)
  BY HandPtr DEF PushProducer, hashVars, At
<1>2. q \in Owned(t) /\ prod[q].explicit = ForToken(t)
  BY <1>1, HandOwned
<1>a. Len(tables') >= Len(tables) /\ \A u \in Threads : SlotsKept(u)
  BY <1>1 DEF DataInv, TablesInv, SlotsKept
<1>b. \A r \in {prod[q]} : DOMAIN r = DOMAIN NewProducer(Null)
  <2>1. Sound(prod[q], Len(prod))
    BY <1>1 DEF DataInv, ProducersInv
  <2> QED BY <2>1 DEF Sound
<1>3. CASE UNCHANGED control /\ prod' = [prod EXCEPT ![q].next = producerListTail]
  <2> DEFINE r == [prod[q] EXCEPT !.next = producerListTail]
  <2>1. DOMAIN prod' = DOMAIN prod /\ prod'[q] = r /\ \A p \in DOMAIN prod \ {q} : prod'[p] = prod[p]
    BY <1>1, <1>3
  <2>2. SameOwner(r, prod[q])
    BY <1>b, ProducerFields DEF SameOwner
  <2> HIDE DEF r
  <2>3. OwnersKept
    BY <2>1, <2>2 DEF OwnersKept, SameOwner
  <2>4. pc'[t] = "h_push" /\ lv'[t].ptr = q /\ ForToken(t)' = ForToken(t)
    BY <1>1, <1>3 DEF control, ForToken, Call
  <2>5. Stage(t)'
    BY <2>4 DEF Stage
  <2> QED BY <1>2, <1>a, <2>3, <2>4, <2>5, LocalOwn
<1>4. CASE Obtained(t) /\ prod' = [prod EXCEPT ![q].token = TokenOf(t)]
  <2> DEFINE r == [prod[q] EXCEPT !.token = TokenOf(t)]
  <2>1. DOMAIN prod' = DOMAIN prod /\ prod'[q] = r /\ \A p \in DOMAIN prod \ {q} : prod'[p] = prod[p]
    BY <1>1, <1>4
  <2>2. r.explicit = prod[q].explicit /\ r.token = TokenOf(t) /\ r.inactive = prod[q].inactive
    BY <1>b, ProducerFields
  <2> HIDE DEF r
  <2>4. pc'[t] = "idle" \/ (pc'[t] = "h_reuse" /\ lv'[t].ptr = q /\ ForToken(t)' = FALSE /\ ForToken(t) = FALSE)
    <3>1. CASE ForToken(t)
      BY <1>4, <3>1 DEF Obtained, Return, ControlInv
    <3>2. CASE ~ForToken(t)
      <4> DEFINE l == [lv[t] EXCEPT !.slot = Home(lv[t].main, t)]
      <4>1. Go(t, "h_reuse", l) /\ l.ptr = q
        BY <1>1, <1>4, <3>2, PtrKept DEF Obtained, Loc
      <4> HIDE DEF l
      <4> QED BY <3>2, <4>1, GoOthers DEF ForToken
    <3> QED BY <3>1, <3>2
  <2>5. (TokenOf(t) = t /\ ForToken(t) = TRUE) \/ (TokenOf(t) = Free /\ ForToken(t) = FALSE)
    BY TokenKind
  <2>6. Free \notin Threads
    BY ThreadsAssumption
  <2>7. OthersKept(t)
    <3>1. \A p \in DOMAIN prod : p \in DOMAIN prod' /\ prod'[p].explicit = prod[p].explicit
      BY <2>1, <2>2
    <3>2. \A u \in Threads \ {t} : \A p : OfToken(u, p)' => OfToken(u, p)
      BY <2>1, <2>2, <2>5, <2>6 DEF OfToken
    <3> QED BY <1>a, <3>1, <3>2 DEF OthersKept
  <2>8. Owned(t)' \subseteq Owned(t)
    <3>1. \A p : InTable(t, p)' => InTable(t, p)
      BY <1>1 DEF InTable
    <3>2. \A p : OfToken(t, p)' => OfToken(t, p) \/ p = q
      BY <2>1 DEF OfToken
    <3>3. \A p : InHand(t, p)' => p = q
      BY <2>4 DEF InHand
    <3> QED BY <1>2, <3>1, <3>2, <3>3, OwnedMeaning
  <2>9. Kinds(t)'
    <3>1. Kinds(t)
      BY DEF OwnInv
    <3>2. ASSUME NEW k \in DOMAIN tables', NEW i \in DOMAIN tables'[k], tables'[k][i].key = t
          PROVE  prod'[tables'[k][i].value].explicit = FALSE
      <4>1. tables[k][i].value \in DOMAIN prod /\ prod[tables[k][i].value].explicit = FALSE
        BY <1>1, <3>1, <3>2 DEF Kinds, DataInv, TablesInv
      <4> QED BY <1>1, <2>7, <4>1 DEF OthersKept
    <3>3. ASSUME NEW p \in DOMAIN prod', prod'[p].token = t
          PROVE  prod'[p].explicit = TRUE
      <4>1. CASE p = q
        BY <1>2, <2>1, <2>2, <2>5, <2>6, <3>3, <4>1
      <4>2. CASE p # q
        BY <2>1, <3>1, <3>3, <4>2 DEF Kinds
      <4> QED BY <4>1, <4>2
    <3>4. pc'[t] \in Obtaining => prod'[lv'[t].ptr].explicit = ForToken(t)'
      BY <1>2, <2>1, <2>2, <2>4
    <3> QED BY <3>2, <3>3, <3>4 DEF Kinds
  <2>10. Stage(t)'
    BY <2>4 DEF Stage
  <2>11. ASSUME NEW u \in Threads, NEW p \in Owned(u)' PROVE ~prod'[p].inactive
    <3>1. p \in Owned(u)
      BY <2>7, <2>8, OthersOwn DEF OwnInv
    <3>2. p \in DOMAIN prod /\ ~prod[p].inactive
      BY <3>1 DEF OwnInv, OneProducerPerThread
    <3> QED BY <2>1, <2>2, <3>2
  <2> HIDE DEF q
  <2> QED BY <2>7, <2>8, <2>9, <2>10, <2>11, OwnKept
<1> QED BY <1>3, <1>4 DEF PushProducer, Loc

(* A thread that has ended leaves its producer to others. *)
LEMMA ExitProducerOwn ==
  ASSUME NEW t \in Threads, ControlInv, DataInv, DataInv', \A u \in Threads : ThreadInv(u), OwnInv,
         Others(t),
         ExitProducer(t)
  PROVE  OwnInv'
<1>1. PICK q : q = lv[t].ptr
  OBVIOUS
<1>2. /\ UNCHANGED tables /\ pc[t] = "x_inactive" /\ q \in DOMAIN prod
      /\ prod' = [prod EXCEPT ![q].inactive = TRUE] /\ Return(t)
  BY <1>1, HandPtr DEF ExitProducer, hashVars, At, Loc
<1>3. q \in Owned(t) /\ prod[q].explicit = FALSE /\ NoSlotAbove(t, 0) /\ Kinds(t)
  <2>1. ForToken(t) = FALSE /\ NoSlotAbove(t, 0) /\ Kinds(t)
    BY <1>2 DEF OwnInv, Stage, ForToken
  <2> QED BY <1>1, <1>2, <2>1, HandOwned
<1>4. pc'[t] = "idle"
  BY <1>2 DEF Return, ControlInv
<1>5. /\ DOMAIN prod' = DOMAIN prod
      /\ \A p \in DOMAIN prod : /\ prod'[p].explicit = prod[p].explicit /\ prod'[p].token = prod[p].token
                                /\ p # q => prod'[p].inactive = prod[p].inactive
  <2> DEFINE r == [prod[q] EXCEPT !.inactive = TRUE]
  <2>1. DOMAIN prod' = DOMAIN prod /\ prod'[q] = r /\ \A p \in DOMAIN prod \ {q} : prod'[p] = prod[p]
    BY <1>2
  <2>2. DOMAIN prod[q] = DOMAIN NewProducer(Null)
    BY <1>2 DEF DataInv, ProducersInv, Sound
  <2>3. r.explicit = prod[q].explicit /\ r.token = prod[q].token
    BY <2>2, ProducerFields
  <2> HIDE DEF r
  <2> QED BY <2>1, <2>3
<1>6. OthersKept(t)
  <2>1. Len(tables') >= Len(tables) /\ \A u \in Threads : SlotsKept(u)
    BY <1>2 DEF DataInv, TablesInv, SlotsKept
  <2>2. \A u : \A p : OfToken(u, p)' => OfToken(u, p)
    BY <1>5 DEF OfToken
  <2> QED BY <1>5, <2>1, <2>2 DEF OthersKept
<1>7. \A p : p \in Owned(t)' => OfToken(t, p)
  <2>1. \A p : ~InTable(t, p)'
    <3>1. \A k \in DOMAIN tables : k > 0
      BY DEF DataInv, TablesInv
    <3> QED BY <1>2, <1>3, <3>1 DEF InTable, NoSlotAbove
  <2>2. \A p : ~InHand(t, p)'
    BY <1>4 DEF InHand
  <2>3. \A p : OfToken(t, p)' => OfToken(t, p)
    BY <1>5 DEF OfToken
  <2> QED BY <2>1, <2>2, <2>3, OwnedMeaning
<1>8. Owned(t)' \subseteq Owned(t) /\ q \notin Owned(t)'
  <2>1. ~OfToken(t, q)
    BY <1>3 DEF OfToken, Kinds
  <2> QED BY <1>7, <2>1, OwnedMeaning
<1>9. Kinds(t)'
  <2>1. ASSUME NEW k \in DOMAIN tables', NEW i \in DOMAIN tables'[k], tables'[k][i].key = t
        PROVE  prod'[tables'[k][i].value].explicit = FALSE
    <3>1. tables[k][i].value \in DOMAIN prod /\ prod[tables[k][i].value].explicit = FALSE
      BY <1>2, <1>3, <2>1 DEF Kinds, DataInv, TablesInv
    <3> QED BY <1>2, <1>5, <3>1
  <2>2. \A p \in DOMAIN prod' : prod'[p].token = t => prod'[p].explicit = TRUE
    BY <1>3, <1>5 DEF Kinds
  <2> QED BY <1>4, <2>1, <2>2 DEF Kinds
<1>10. Stage(t)'
  BY <1>4 DEF Stage
<1>11. ASSUME NEW u \in Threads, NEW p \in Owned(u)' PROVE ~prod'[p].inactive
  <2>1. p \in Owned(u) /\ p # q
    <3>1. CASE u = t
      BY <1>8, <3>1
    <3>2. CASE u # t
      <4>1. p \in Owned(u)
        BY <1>6, <3>2, OthersOwn DEF OwnInv
      <4>2. Owned(u) \cap Owned(t) = {}
        BY <3>2 DEF OwnInv, OneProducerPerThread
      <4> QED BY <1>3, <4>1, <4>2
    <3> QED BY <3>1, <3>2
  <2>2. p \in DOMAIN prod /\ ~prod[p].inactive
    BY <2>1 DEF OwnInv, OneProducerPerThread
  <2> QED BY <1>5, <2>1, <2>2
<1> QED BY <1>6, <1>8, <1>9, <1>10, <1>11, OwnKept

(* So does a token. *)
LEMMA DropTokenOwn ==
  ASSUME NEW t \in Threads, ControlInv, DataInv, DataInv', \A u \in Threads : ThreadInv(u), OwnInv,
         Others(t),
         DropToken(t)
  PROVE  OwnInv'
<1>1. /\ UNCHANGED tables /\ pc[t] = "idle" /\ Return(t)
      /\ prod' = [p \in DOMAIN prod |-> IF prod[p].token = t
                    THEN [prod[p] EXCEPT !.token = Free, !.inactive = TRUE] ELSE prod[p]]
  BY Zenon DEF DropToken, hashVars, Calling
<1>2. Free \notin Threads
  BY ThreadsAssumption
<1>3. pc'[t] = "idle"
  BY <1>1, Zenon DEF Return, ControlInv
<1>4. /\ DOMAIN prod' = DOMAIN prod
      /\ \A p \in DOMAIN prod : /\ prod'[p].explicit = prod[p].explicit
                                /\ prod[p].token = t => prod'[p].token = Free
                                /\ prod[p].token # t => prod'[p] = prod[p]
  <2>1. ASSUME NEW p \in DOMAIN prod, prod[p].token = t
        PROVE  prod'[p].explicit = prod[p].explicit /\ prod'[p].token = Free
    <3> DEFINE r == [prod[p] EXCEPT !.token = Free, !.inactive = TRUE]
    <3>1. prod'[p] = r
      BY <1>1, <2>1, Zenon
    <3>2. DOMAIN prod[p] = DOMAIN NewProducer(Null)
      BY DEF DataInv, ProducersInv, Sound
    <3>3. r.explicit = prod[p].explicit /\ r.token = Free
      BY <3>2, ProducerFields
    <3> HIDE DEF r
    <3> QED BY <3>1, <3>3
  <2>2. \A p \in DOMAIN prod : prod[p].token # t => prod'[p] = prod[p]
    BY <1>1, Zenon
  <2>3. DOMAIN prod' = DOMAIN prod
    BY <1>1, Zenon
  <2> QED BY <2>1, <2>2, <2>3
<1>5. Kinds(t)
  BY DEF OwnInv
<1>6. \A u \in Threads : \A p : OfToken(u, p)' => OfToken(u, p) /\ u # t
  BY <1>2, <1>4 DEF OfToken
<1>7. OthersKept(t)
  <2>1. Len(tables') >= Len(tables) /\ \A u \in Threads : SlotsKept(u)
    <3>1. UNCHANGED tables
      BY <1>1, Zenon
    <3> QED BY <3>1 DEF DataInv, TablesInv, SlotsKept
  <2> QED BY <1>4, <1>6, <2>1 DEF OthersKept
<1>8. \A p : p \in Owned(t)' => InTable(t, p)
  <2>1. \A p : InTable(t, p)' => InTable(t, p)
    BY <1>1, Zenon DEF InTable
  <2>2. \A p : ~InHand(t, p)'
    BY <1>3 DEF InHand
  <2> QED BY <1>6, <2>1, <2>2, OwnedMeaning
<1>9. Owned(t)' \subseteq Owned(t)
  BY <1>8, OwnedMeaning
<1>10. Kinds(t)'
  <2>1. ASSUME NEW k \in DOMAIN tables', NEW i \in DOMAIN tables'[k], tables'[k][i].key = t
        PROVE  prod'[tables'[k][i].value].explicit = FALSE
    <3>1. tables[k][i].value \in DOMAIN prod /\ prod[tables[k][i].value].explicit = FALSE
      BY <1>1, <1>5, <2>1, Zenon DEF Kinds, DataInv, TablesInv
    <3> QED BY <1>1, <1>4, <3>1, Zenon
  <2>2. \A p \in DOMAIN prod' : prod'[p].token # t
    BY <1>2, <1>4
  <2> QED BY <1>3, <2>1, <2>2 DEF Kinds
<1>11. Stage(t)'
  BY <1>3 DEF Stage
<1>12. ASSUME NEW u \in Threads, NEW p \in Owned(u)' PROVE ~prod'[p].inactive
  <2>1. p \in Owned(u)
    BY <1>7, <1>9, OthersOwn DEF OwnInv
  <2>2. p \in DOMAIN prod /\ ~prod[p].inactive
    BY <2>1 DEF OwnInv, OneProducerPerThread
  <2>3. prod[p].token # t
    <3>1. CASE u = t
      <4>1. prod[p].explicit = FALSE
        BY <1>5, <1>8, <3>1 DEF InTable, Kinds
      <4> QED BY <1>5, <2>2, <4>1 DEF Kinds
    <3>2. CASE u # t
      <4>1. Owned(u) \cap Owned(t) = {}
        BY <3>2 DEF OwnInv, OneProducerPerThread
      <4>2. ~OfToken(t, p)
        BY <2>1, <4>1, OwnedMeaning
      <4> QED BY <2>2, <4>2 DEF OfToken
    <3> QED BY <3>1, <3>2
  <2> QED BY <1>4, <2>2, <2>3
<1> QED BY <1>7, <1>9, <1>10, <1>11, <1>12, OwnKept

(* Every step of a thread keeps the owners apart. *)
LEMMA OwnStep ==
  ASSUME NEW t \in Threads, QueueInv, OwnInv, Step(t)
  PROVE  OwnInv'
<1>1. ControlInv /\ DataInv /\ (\A u \in Threads : ThreadInv(u))
  BY DEF QueueInv
<1>2. Others(t) /\ DataInv'
  BY <1>1, StepEffect DEF Effect, StepOf
<1>3. CASE HashStep(t)
  BY <1>1, <1>2, <1>3, HashPlainOwn, ResizeOwn, WalkOwn, CreateOwn, PushOwn, ExitTableOwn, ExitProducerOwn,
     DropTokenOwn DEF HashStep
<1>4. CASE ~HashStep(t)
  BY <1>1, <1>2, <1>4, PartsOwn DEF Step
<1> QED BY <1>3, <1>4

(* A queue begins with no producers. *)
LEMMA OwnInit == Init => OwnInv
<1> SUFFICES ASSUME Init PROVE OwnInv
  OBVIOUS
<1>1. DOMAIN prod = {} /\ \A t \in Threads : pc[t] = "idle"
  BY DEF Init
<1>2. \A k \in DOMAIN tables : \A i \in DOMAIN tables[k] : tables[k][i].key = Free
  <2> DEFINE x == EmptyTable(HashSize)
  <2>1. tables = <<x>> /\ DOMAIN tables = {1} /\ tables[1] = x
    BY DEF Init
  <2>2. \A i \in DOMAIN x : x[i].key = Free
    BY DEF EmptyTable
  <2> HIDE DEF x
  <2> QED BY <2>1, <2>2
<1>3. Free \notin Threads
  BY ThreadsAssumption
<1>4. ASSUME NEW t \in Threads PROVE Owned(t) = {} /\ Kinds(t) /\ Stage(t)
  <2>1. \A p : ~InTable(t, p) /\ ~OfToken(t, p) /\ ~InHand(t, p)
    BY <1>1, <1>2, <1>3 DEF InTable, OfToken, InHand
  <2>2. Owned(t) = {}
    BY <2>1, OwnedMeaning
  <2>3. Kinds(t) /\ Stage(t)
    BY <1>1, <1>2, <1>3 DEF Kinds, Stage
  <2> QED BY <2>2, <2>3
<1> QED BY <1>4 DEF OwnInv, OneProducerPerThread

(* The destructor, and a queue at rest, move no producer. *)
LEMMA OwnStutter ==
  ASSUME OwnInv, UNCHANGED <<control, prodVars, hashVars>>
  PROVE  OwnInv'
<1>1. UNCHANGED <<program, pc, lv, prod, tables>>
  BY DEF control, prodVars, hashVars
<1>2. ASSUME NEW t \in Threads PROVE Owned(t)' = Owned(t) /\ Kinds(t)' = Kinds(t) /\ Stage(t)' = Stage(t)
  <2>1. \A p : /\ InTable(t, p)' <=> InTable(t, p)
               /\ OfToken(t, p)' <=> OfToken(t, p)
               /\ InHand(t, p)' <=> InHand(t, p)
    BY <1>1 DEF InTable, OfToken, InHand
  <2>2. Owned(t)' = Owned(t)
    BY <2>1, OwnedMeaning
  <2>3. Kinds(t)' = Kinds(t) /\ Stage(t)' = Stage(t)
    BY <1>1 DEF Kinds, Stage, ForToken, Call, valid, NoSlotAbove
  <2> QED BY <2>2, <2>3
<1>3. OneProducerPerThread'
  BY <1>1, <1>2 DEF OwnInv, OneProducerPerThread
<1> QED BY <1>1, <1>2, <1>3 DEF OwnInv

(* Every step keeps the invariant of the owners, given QueueInv. *)
LEMMA OwnNext == QueueInv /\ OwnInv /\ [Next]_vars => OwnInv'
<1> SUFFICES ASSUME QueueInv, OwnInv, [Next]_vars PROVE OwnInv'
  OBVIOUS
<1>1. CASE \E t \in Threads : Step(t)
  BY <1>1, OwnStep
<1>2. CASE Destroy
  BY <1>2, OwnStutter DEF Destroy
<1>3. CASE UNCHANGED vars
  BY <1>3, OwnStutter DEF vars
<1> QED BY <1>1, <1>2, <1>3 DEF Next, Done

(* OwnInv is an invariant of the queue. *)
LEMMA OwnInvariant == Spec => []OwnInv
BY OwnInit, OwnNext, QueueInvariant, PTL DEF Spec

(* However the threads that look up, take over, create and leave producers interleave, a producer is in the *)
(* hands of one thread or token, which has no other of its kind, and is not up for reuse *)
(* (concurrentqueue.h:3227-3245, :3388-3572). *)
THEOREM OneProducerTheorem == Spec => []OneProducerPerThread
<1>1. OwnInv => OneProducerPerThread
  BY DEF OwnInv
<1> QED BY <1>1, OwnInvariant, PTL
=============================================================================
