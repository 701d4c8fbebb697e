--------------------------- MODULE DispatchProofs ---------------------------
(***************************************************************************)
(* Proofs about db/db_dispatch.c for any number of workers, any queue size *)
(* and any sequence of scans.                                              *)
(***************************************************************************)
EXTENDS Dispatch, Searches, FiniteSetTheorems

\* Joining goes through the workers in order and passes one only once it left
\* its loop, which it never re-enters; a worker that waits has an empty queue
\* because every push wakes all of them under the same mutex.
IInv ==
  /\ DOMAIN head = Workers
  /\ state \in [Workers -> {"ready", "waiting", "executing", "exited"}]
  /\ joined \in 0 .. NWorkers
  /\ \A w \in Workers : w < joined => state[w] = "exited"
  /\ master = "destroyed" => joined = NWorkers
  /\ NoSleepOnWork

LEMMA WokenType ==
  ASSUME state \in [Workers -> {"ready", "waiting", "executing", "exited"}]
  PROVE  /\ Woken \in [Workers -> {"ready", "executing", "exited"}]
         /\ \A w \in Workers : state[w] = "exited" => Woken[w] = "exited"
BY DEF Woken

LEMMA IInvInit == Init => IInv
BY WorkersAssumption, SizesAssumption
   DEF Init, IInv, Workers, Slots, NoSleepOnWork, IsEmpty

LEMMA IInvNext == IInv /\ [Next]_vars => IInv'
<1> SUFFICES ASSUME IInv, [Next]_vars PROVE IInv'
  OBVIOUS
<1> USE DEF IInv
<1>1. ASSUME NEW r \in Requests, ParallelScan(r)
      PROVE  IInv'
  <2>1. /\ state' \in [Workers -> {"ready", "executing", "exited"}]
        /\ \A w \in Workers : state[w] = "exited" => state'[w] = "exited"
    BY <1>1, WokenType DEF ParallelScan
  <2>2. NoSleepOnWork'
    BY <2>1 DEF NoSleepOnWork
  <2> QED BY <1>1, <2>1, <2>2 DEF ParallelScan
<1>2. ASSUME NEW w \in Workers, Leave(w)
      PROVE  IInv'
  <2>1. NoSleepOnWork'
    BY <1>2 DEF Leave, NoSleepOnWork, IsEmpty
  <2> QED BY <1>2, <2>1 DEF Leave
<1>3. ASSUME NEW w \in Workers, Wait(w)
      PROVE  IInv'
  <2>1. NoSleepOnWork'
    BY <1>3 DEF Wait, NoSleepOnWork, IsEmpty
  <2> QED BY <1>3, <2>1 DEF Wait
<1>4. ASSUME NEW w \in Workers, Pop(w)
      PROVE  IInv'
  <2>1. NoSleepOnWork'
    BY <1>4 DEF Pop, NoSleepOnWork, IsEmpty
  <2> QED BY <1>4, <2>1 DEF Pop
<1>5. ASSUME NEW w \in Workers, Execute(w)
      PROVE  IInv'
  <2>1. NoSleepOnWork'
    BY <1>5 DEF Execute, NoSleepOnWork, IsEmpty
  <2> QED BY <1>5, <2>1 DEF Execute
<1>6. ASSUME NEW w \in Workers, SpuriousWakeup(w)
      PROVE  IInv'
  <2>1. NoSleepOnWork'
    BY <1>6 DEF SpuriousWakeup, NoSleepOnWork, IsEmpty
  <2> QED BY <1>6, <2>1 DEF SpuriousWakeup
<1>7. CASE Shutdown
  <2>1. /\ state' \in [Workers -> {"ready", "executing", "exited"}]
        /\ \A w \in Workers : state[w] = "exited" => state'[w] = "exited"
    BY <1>7, WokenType DEF Shutdown
  <2>2. NoSleepOnWork'
    BY <2>1 DEF NoSleepOnWork
  <2> QED BY <1>7, <2>1, <2>2 DEF Shutdown
<1>8. CASE Join
  <2>1. \A w \in Workers : w < joined + 1 => w < joined \/ w = joined
    BY WorkersAssumption DEF Workers
  <2>2. NoSleepOnWork'
    BY <1>8 DEF Join, NoSleepOnWork, IsEmpty
  <2> QED BY <1>8, <2>1, <2>2, WorkersAssumption DEF Join
<1>9. CASE Destroy
  BY <1>9 DEF Destroy, NoSleepOnWork, IsEmpty
<1>10. CASE UNCHANGED vars
  BY <1>10 DEF vars, NoSleepOnWork, IsEmpty
<1> QED BY <1>1, <1>2, <1>3, <1>4, <1>5, <1>6, <1>7, <1>8, <1>9, <1>10 DEF Next, Worker

LEMMA IInvAlways == Spec => []IInv
<1> QED BY IInvInit, IInvNext, PTL DEF Spec

\* The lock and the condition variable are destroyed only after every worker
\* thread has left its loop.
THEOREM DispatchDestroyedLast == Spec => []DestroyedLast
<1>1. IInv => DestroyedLast
  BY WorkersAssumption DEF IInv, DestroyedLast, Workers
<1> QED BY <1>1, IInvAlways, PTL

\* No wakeup is lost: a worker asleep on the condition variable has no work.
THEOREM DispatchNoSleepOnWork == Spec => []NoSleepOnWork
<1>1. IInv => NoSleepOnWork
  BY DEF IInv
<1> QED BY <1>1, IInvAlways, PTL

-----------------------------------------------------------------------------
(* Units are kept.                                                         *)

Tasks == [scan : Nat, start : Nat, end : Nat]
Types ==
  /\ head \in [Workers -> Slots] /\ tail \in [Workers -> Slots]
  /\ slots \in [Workers -> [Slots -> Tasks]] /\ task \in [Workers -> Tasks]
  /\ state \in [Workers -> {"ready", "waiting", "executing", "exited"}]
  /\ scans \in Seq(Requests)

UnitsOf(s, r) == {TaskOf(s, r, n) : n \in 0 .. NTasks(r) - 1}

\* The units submitted are those of the scans so far, and those done are among them.
SubmittedSound ==
  /\ \A t : t \in submitted <=> \E s \in DOMAIN scans : t \in UnitsOf(s, scans[s])
  /\ done \subseteq submitted

\* Queues and workers hold different units, none of which is done.
QueuedSound ==
  /\ \A w \in Workers : \A i \in Queued(w) : slots[w][i] \in submitted \ done
  /\ \A w, v \in Workers : \A i \in Queued(w), j \in Queued(v) :
        slots[w][i] = slots[v][j] => w = v /\ i = j
ExecutingSound ==
  /\ \A w \in Workers : state[w] = "executing" => task[w] \in submitted \ done
  /\ \A w, v \in Workers : state[w] = "executing" /\ state[v] = "executing"
                            /\ task[w] = task[v] => w = v
  /\ \A w, v \in Workers : \A i \in Queued(v) :
        state[w] = "executing" => task[w] # slots[v][i]

Placed(t) == \/ t \in done
             \/ \E w \in Workers : state[w] = "executing" /\ task[w] = t
             \/ \E w \in Workers : \E i \in Queued(w) : slots[w][i] = t
AllPlaced == ~overflowed => \A t \in submitted : Placed(t)

UInv == Types /\ SubmittedSound /\ QueuedSound /\ ExecutingSound /\ AllPlaced

-----------------------------------------------------------------------------
(* The ring.                                                               *)

QueuedIn(h, t) == IF h <= t THEN h .. t - 1 ELSE Slots \ (t .. h - 1)
Hits(t, n, i) == {m \in 0 .. n - 1 : (t + m) % QueueSize = i}
Given(ring, t, n, units, i) == \E m \in Hits(t, n, i) : Pushed(ring, t, n, units)[i] = units[m]
Landed(h, t, n, m) == \E i \in QueuedIn(h, (t + n) % QueueSize) : Hits(t, n, i) = {m}

LEMMA SizeFacts ==
  /\ QueueSize \in Nat /\ QueueSize > 1 /\ NWorkers \in Nat /\ NWorkers > 0
  /\ PagesPerTask \in Nat /\ PagesPerTask > 0
BY WorkersAssumption, SizesAssumption

LEMMA InRing ==
  \A x \in Nat : x < 2 * QueueSize =>
     x % QueueSize = IF x < QueueSize THEN x ELSE x - QueueSize
BY SizesAssumption, RingStep

LEMMA QueuedFits ==
  ASSUME NEW h \in Slots, NEW t \in Slots
  PROVE  /\ QueuedIn(h, t) \in SUBSET Slots /\ IsFiniteSet(QueuedIn(h, t))
         /\ Cardinality(QueuedIn(h, t)) = IF h <= t THEN t - h ELSE t - h + QueueSize
<1> USE SizeFacts
<1>0. h \in Nat /\ t \in Nat /\ h < QueueSize /\ t < QueueSize
  BY DEF Slots
<1>1. CASE h <= t
  <2>1. Cardinality(h .. t - 1) = t - h /\ IsFiniteSet(h .. t - 1)
    <3>1. h \in Int /\ t - 1 \in Int /\ (h > t - 1 => h = t)
      BY <1>0, <1>1
    <3>2. /\ IsFiniteSet(h .. t - 1)
          /\ Cardinality(h .. t - 1) = IF h > t - 1 THEN 0 ELSE t - 1 - h + 1
      BY <3>1, FS_Interval, Zenon
    <3> QED BY <1>0, <1>1, <3>1, <3>2
  <2>2. h .. t - 1 \in SUBSET Slots
    BY <1>0 DEF Slots
  <2> QED BY <1>1, <2>1, <2>2 DEF QueuedIn
<1>2. CASE ~ (h <= t)
  <2>1. IsFiniteSet(Slots) /\ Cardinality(Slots) = QueueSize
    BY FS_Interval DEF Slots
  <2>2. Cardinality(t .. h - 1) = h - t /\ IsFiniteSet(t .. h - 1)
    <3>1. t \in Int /\ h - 1 \in Int /\ ~ (t > h - 1)
      BY <1>0, <1>2
    <3>2. /\ IsFiniteSet(t .. h - 1)
          /\ Cardinality(t .. h - 1) = IF t > h - 1 THEN 0 ELSE h - 1 - t + 1
      BY <3>1, FS_Interval, Zenon
    <3> QED BY <1>0, <1>2, <3>2
  <2>3. Slots \cap (t .. h - 1) = t .. h - 1
    BY <1>0 DEF Slots
  <2>4. /\ IsFiniteSet(Slots \ (t .. h - 1))
        /\ Cardinality(Slots \ (t .. h - 1)) = Cardinality(Slots) - Cardinality(t .. h - 1)
    BY <2>1, <2>3, FS_Difference
  <2> QED BY <1>0, <1>2, <2>1, <2>2, <2>4 DEF QueuedIn
<1> QED BY <1>1, <1>2

\* What a pop leaves in the queue.
LEMMA PoppedQueue ==
  ASSUME NEW h \in Slots, NEW t \in Slots, h # t
  PROVE  /\ (h + 1) % QueueSize \in Slots /\ h \in QueuedIn(h, t)
         /\ QueuedIn((h + 1) % QueueSize, t) = QueuedIn(h, t) \ {h}
<1> USE SizeFacts
<1>1. (h + 1) % QueueSize = IF h + 1 < QueueSize THEN h + 1 ELSE 0
  <2> DEFINE x == h + 1
  <2>1. x \in Nat /\ x < 2 * QueueSize /\ (x < QueueSize \/ x = QueueSize)
    BY DEF Slots
  <2> HIDE DEF x
  <2>2. x % QueueSize = IF x < QueueSize THEN x ELSE x - QueueSize
    BY <2>1, InRing
  <2>3. x % QueueSize = IF x < QueueSize THEN x ELSE 0
    BY <2>1, <2>2
  <2> QED BY <2>3 DEF x
<1> QED BY <1>1 DEF QueuedIn, Slots

\* The slot of the m-th push.
LEMMA HitSlot ==
  ASSUME NEW t \in Slots, NEW n \in Nat, n < QueueSize, NEW i \in Slots, NEW m \in 0 .. n - 1
  PROVE  m \in Hits(t, n, i) <=> t + m = i \/ t + m = i + QueueSize
<1>1. (t + m) % QueueSize = IF t + m < QueueSize THEN t + m ELSE t + m - QueueSize
  <2> DEFINE x == t + m
  <2>1. x \in Nat /\ x < 2 * QueueSize
    BY SizeFacts DEF Slots
  <2> HIDE DEF x
  <2>2. x % QueueSize = IF x < QueueSize THEN x ELSE x - QueueSize
    BY <2>1, InRing
  <2> QED BY <2>2, SizeFacts DEF x, Slots
<1> QED BY <1>1, SizeFacts DEF Hits, Slots

\* A full turn writes every slot.
LEMMA FullTurn ==
  ASSUME NEW t \in Slots, NEW n \in Nat, n >= QueueSize, NEW i \in Slots
  PROVE  Hits(t, n, i) # {}
<1> DEFINE m == IF i >= t THEN i - t ELSE i - t + QueueSize
<1>1. m \in 0 .. n - 1 /\ t + m \in Nat /\ t + m < 2 * QueueSize
      /\ (t + m = i \/ t + m = i + QueueSize)
  BY SizeFacts DEF Slots
<1>2. (t + m) % QueueSize = i
  BY <1>1, SizeFacts, InRing DEF Slots
<1> QED BY <1>1, <1>2 DEF Hits

\* A slot keeps what it has, or holds one of the units pushed into it.
LEMMA PushedElsewhere ==
  ASSUME NEW ring, NEW t, NEW n \in Nat, NEW units, NEW i \in Slots, Hits(t, n, i) = {}
  PROVE  Pushed(ring, t, n, units)[i] = ring[i]
BY DEF Hits, Pushed

LEMMA PushedAt ==
  ASSUME NEW ring, NEW t, NEW n \in Nat, NEW units, NEW i \in Slots, Hits(t, n, i) # {}
  PROVE  Given(ring, t, n, units, i)
<1> DEFINE S == {n - m : m \in Hits(t, n, i)}
           last == CHOOSE m \in Hits(t, n, i) : \A l \in Hits(t, n, i) : l <= m
<1>1. S \in SUBSET Nat /\ S # {}
  BY DEF Hits
<1>2. FirstOf(S) \in S /\ \A j \in S : FirstOf(S) <= j
  BY <1>1, LeastElement
<1>3. PICK m \in Hits(t, n, i) : FirstOf(S) = n - m
  BY <1>2
<1>4. \A l \in Hits(t, n, i) : l <= m
  <2> TAKE l \in Hits(t, n, i)
  <2>1. n - m <= n - l
    BY <1>2, <1>3
  <2> QED BY <2>1 DEF Hits
<1>5. last \in Hits(t, n, i)
  BY <1>4
<1>6. Pushed(ring, t, n, units)[i] = units[last]
  BY DEF Hits, Pushed
<1> QED BY <1>5, <1>6 DEF Given

\* Whatever was pushed, a queued slot that was not written was queued before.
LEMMA PushKeepsOrWrites ==
  ASSUME NEW h \in Slots, NEW t \in Slots, NEW n \in Nat,
         NEW i \in QueuedIn(h, (t + n) % QueueSize), Hits(t, n, i) = {}
  PROVE  i \in QueuedIn(h, t)
<1> USE SizeFacts
<1>0. (t + n) % QueueSize \in Slots
  <2>1. PICK q \in Nat, r \in 0 .. QueueSize - 1 : (t + n) % QueueSize = r
    <3>1. t + n \in Nat
      BY DEF Slots
    <3> QED BY <3>1, Division
  <2> QED BY <2>1 DEF Slots
<1>1. i \in Slots
  BY <1>0, QueuedFits
<1>2. n < QueueSize
  BY <1>1, FullTurn
<1>3. \A m \in 0 .. n - 1 : ~ (t + m = i \/ t + m = i + QueueSize)
  BY <1>1, <1>2, HitSlot
<1>4. (t + n) % QueueSize = IF t + n < QueueSize THEN t + n ELSE t + n - QueueSize
  <2> DEFINE x == t + n
  <2>1. x \in Nat /\ x < 2 * QueueSize
    BY <1>2 DEF Slots
  <2> HIDE DEF x
  <2>2. x % QueueSize = IF x < QueueSize THEN x ELSE x - QueueSize
    BY <2>1, InRing
  <2> QED BY <2>2, SizeFacts DEF x, Slots
<1>5. ~ (t <= i /\ i < t + n) /\ ~ (t <= i + QueueSize /\ i + QueueSize < t + n)
  <2>0. i \in Nat /\ t \in Nat
    BY <1>1 DEF Slots
  <2>1. ASSUME t <= i, i < t + n PROVE FALSE
    <3>1. i - t \in 0 .. n - 1 /\ t + (i - t) = i
      BY <2>0, <2>1
    <3> QED BY <1>3, <3>1
  <2>2. ASSUME t <= i + QueueSize, i + QueueSize < t + n PROVE FALSE
    <3>1. i + QueueSize - t \in 0 .. n - 1 /\ t + (i + QueueSize - t) = i + QueueSize
      BY <2>0, <2>2
    <3> QED BY <1>3, <3>1
  <2> QED BY <2>1, <2>2
<1> QED BY <1>1, <1>2, <1>4, <1>5 DEF QueuedIn, Slots

\* With a slot to spare nothing queued is overwritten and all that is pushed is queued.
LEMMA PushWithRoom ==
  ASSUME NEW h \in Slots, NEW t \in Slots, NEW n \in Nat,
         Cardinality(QueuedIn(h, t)) + n < QueueSize
  PROVE  /\ \A i \in QueuedIn(h, t) : i \in QueuedIn(h, (t + n) % QueueSize) /\ Hits(t, n, i) = {}
         /\ \A m \in 0 .. n - 1 : Landed(h, t, n, m)
<1> USE SizeFacts
<1>0. h \in Nat /\ t \in Nat /\ h < QueueSize /\ t < QueueSize
  BY DEF Slots
<1>1. (IF h <= t THEN t - h ELSE t - h + QueueSize) + n < QueueSize
  BY QueuedFits
<1>2. n < QueueSize
  BY <1>0, <1>1
<1>3. (t + n) % QueueSize = IF t + n < QueueSize THEN t + n ELSE t + n - QueueSize
  <2> DEFINE x == t + n
  <2>1. x \in Nat /\ x < 2 * QueueSize
    BY <1>0, <1>2
  <2> HIDE DEF x
  <2>2. x % QueueSize = IF x < QueueSize THEN x ELSE x - QueueSize
    BY <2>1, InRing
  <2> QED BY <2>2, SizeFacts DEF x, Slots
<1>4. ASSUME NEW i \in QueuedIn(h, t)
      PROVE  i \in QueuedIn(h, (t + n) % QueueSize) /\ Hits(t, n, i) = {}
  <2>1. i \in Slots
    BY QueuedFits
  <2>2. \A m \in 0 .. n - 1 : ~ (t + m = i \/ t + m = i + QueueSize)
    BY <1>0, <1>1, <2>1 DEF QueuedIn, Slots
  <2>3. Hits(t, n, i) = {}
    <3>1. \A m \in 0 .. n - 1 : m \notin Hits(t, n, i)
      BY <1>2, <2>1, <2>2, HitSlot
    <3> QED BY <3>1 DEF Hits
  <2>4. i \in QueuedIn(h, (t + n) % QueueSize)
    BY <1>0, <1>1, <1>3, <2>1 DEF QueuedIn, Slots
  <2> QED BY <2>3, <2>4
<1>5. ASSUME NEW m \in 0 .. n - 1
      PROVE  Landed(h, t, n, m)
  <2> DEFINE i == IF t + m < QueueSize THEN t + m ELSE t + m - QueueSize
  <2>1. i \in Slots /\ (t + m = i \/ t + m = i + QueueSize)
    BY <1>0, <1>2 DEF Slots
  <2>2. i \in QueuedIn(h, (t + n) % QueueSize)
    BY <1>0, <1>1, <1>3, SMTT(30) DEF QueuedIn, Slots
  <2>3. Hits(t, n, i) = {m}
    <3>1. \A l \in 0 .. n - 1 : l \in Hits(t, n, i) <=> l = m
      <4> TAKE l \in 0 .. n - 1
      <4>1. l \in Hits(t, n, i) <=> t + l = i \/ t + l = i + QueueSize
        BY <1>2, <2>1, HitSlot
      <4> QED BY <1>0, <1>2, <2>1, <4>1 DEF Slots
    <3> QED BY <3>1 DEF Hits
  <2> QED BY <2>2, <2>3 DEF Landed
<1> QED BY <1>4, <1>5

-----------------------------------------------------------------------------
(* The units of a scan and how they are dealt.                             *)

LEMMA RequestFacts ==
  ASSUME NEW r \in Requests
  PROVE  /\ r.root \in Nat /\ r.total \in Nat /\ NTasks(r) \in Nat
         /\ \A s, n \in Nat : TaskOf(s, r, n) \in Tasks /\ TaskOf(s, r, n).scan = s
         /\ \A s, n, m \in Nat : TaskOf(s, r, n) = TaskOf(s, r, m) => n = m
<1> USE SizeFacts
<1>1. r.root \in Nat /\ r.total \in Nat
  BY RequestsAssumption
<1>2. NTasks(r) \in Nat
  <2>1. CASE r.root >= r.total
    BY <2>1 DEF NTasks
  <2>2. CASE ~ (r.root >= r.total)
    <3> DEFINE x == r.total - r.root + PagesPerTask - 1
    <3>1. x \in Nat
      BY <1>1, <2>2
    <3> HIDE DEF x
    <3>2. x \div PagesPerTask \in Nat
      BY <3>1, Division
    <3> QED BY <2>2, <3>2 DEF NTasks, x
  <2> QED BY <2>1, <2>2
<1>3. ASSUME NEW s \in Nat, NEW n \in Nat
      PROVE  TaskOf(s, r, n) \in Tasks /\ TaskOf(s, r, n).scan = s
  <2>1. n * PagesPerTask \in Nat
    OBVIOUS
  <2> QED BY <1>1, <2>1 DEF TaskOf, Tasks
<1>4. ASSUME NEW s \in Nat, NEW n \in Nat, NEW m \in Nat, TaskOf(s, r, n) = TaskOf(s, r, m)
      PROVE  n = m
  <2>1. n * PagesPerTask \in Nat /\ m * PagesPerTask \in Nat
    OBVIOUS
  <2>2. r.root + n * PagesPerTask = r.root + m * PagesPerTask
    BY <1>4 DEF TaskOf
  <2>3. /\ n < m => n * PagesPerTask + PagesPerTask <= m * PagesPerTask
        /\ m < n => m * PagesPerTask + PagesPerTask <= n * PagesPerTask
    BY MultipleStep
  <2> QED BY <1>1, <2>1, <2>2, <2>3
<1> QED BY <1>1, <1>2, <1>3, <1>4

\* Dealing round robin: every number has one worker and one turn.
LEMMA NthFacts ==
  /\ \A w \in Workers, m \in Nat : /\ Nth(w, m) \in Nat
                                   /\ Nth(w, m) % NWorkers = w
                                   /\ m <= Nth(w, m)
  /\ \A w, v \in Workers, m, l \in Nat : Nth(w, m) = Nth(v, l) => w = v /\ m = l
  /\ \A w \in Workers, m, l \in Nat : m < l => Nth(w, m) < Nth(w, l)
  /\ \A n \in Nat : \E w \in Workers, m \in Nat : n = Nth(w, m) /\ n % NWorkers = w
<1> USE SizeFacts
<1>1. ASSUME NEW w \in Workers, NEW m \in Nat
      PROVE  /\ Nth(w, m) \in Nat /\ Nth(w, m) % NWorkers = w /\ Nth(w, m) \div NWorkers = m
             /\ m <= Nth(w, m)
  <2>1. m * NWorkers \in Nat /\ m <= m * NWorkers
    OBVIOUS
  <2> QED BY <2>1, QuotientRest DEF Nth, Workers
<1>2. \A w, v \in Workers, m, l \in Nat : Nth(w, m) = Nth(v, l) => w = v /\ m = l
  BY <1>1
<1>3. ASSUME NEW w \in Workers, NEW m \in Nat, NEW l \in Nat, m < l
      PROVE  Nth(w, m) < Nth(w, l)
  <2>1. m * NWorkers \in Nat /\ l * NWorkers \in Nat /\ m * NWorkers + NWorkers <= l * NWorkers
    BY <1>3, MultipleStep
  <2> QED BY <2>1 DEF Nth, Workers
<1>4. \A n \in Nat : \E w \in Workers, m \in Nat : n = Nth(w, m) /\ n % NWorkers = w
  <2> TAKE n \in Nat
  <2>1. PICK q \in Nat, x \in 0 .. NWorkers - 1 : n = x + q * NWorkers /\ n % NWorkers = x
    BY Division, SMTT(30)
  <2> QED BY <2>1 DEF Nth, Workers
<1> QED BY <1>1, <1>2, <1>3, <1>4

\* The m-th unit of a worker's share exists exactly for m below the share's size.
LEMMA ShareSize ==
  ASSUME NEW r \in Requests, NEW w \in Workers
  PROVE  /\ Cardinality(Share(r, w)) \in Nat
         /\ \A m \in Nat : m < Cardinality(Share(r, w)) <=> Nth(w, m) < NTasks(r)
<1> DEFINE N == NTasks(r)
           Past == {m \in Nat : Nth(w, m) >= N}
           k == FirstOf(Past)
<1>1. N \in Nat
  BY RequestFacts
<1>2. Past \in SUBSET Nat /\ Past # {}
  <2>1. Nth(w, N) >= N /\ Nth(w, N) \in Nat
    BY <1>1, NthFacts
  <2> QED BY <1>1, <2>1
<1>3. k \in Past /\ \A m \in Past : k <= m
  <2> HIDE DEF Past
  <2> QED BY <1>2, LeastElement
<1>4. \A m \in Nat : m < k <=> Nth(w, m) < N
  <2> TAKE m \in Nat
  <2>1. Nth(w, m) \in Nat /\ Nth(w, k) \in Nat /\ Nth(w, k) >= N /\ k \in Nat
    BY <1>3, NthFacts
  <2>2. m < k => Nth(w, m) < N
    BY <1>1, <1>3, <2>1
  <2>3. k < m => Nth(w, k) < Nth(w, m)
    BY <2>1, NthFacts
  <2> HIDE DEF N, k
  <2> QED BY <1>1, <2>1, <2>2, <2>3
<1>5. k \in Nat
  BY <1>3
<1> DEFINE f == [m \in 0 .. k - 1 |-> Nth(w, m)]
<1> HIDE DEF k
<1>6. f \in Bijection(0 .. k - 1, Share(r, w))
  <2>1. \A m \in 0 .. k - 1 : Nth(w, m) \in Share(r, w)
    <3> TAKE m \in 0 .. k - 1
    <3>1. m \in Nat /\ m < k
      BY <1>5
    <3>2. Nth(w, m) \in Nat /\ Nth(w, m) % NWorkers = w /\ Nth(w, m) < N
      BY <1>4, <3>1, NthFacts
    <3> QED BY <1>1, <3>2 DEF Share
  <2>2. \A m, l \in 0 .. k - 1 : Nth(w, m) = Nth(w, l) => m = l
    BY <1>5, NthFacts
  <2>3. \A n \in Share(r, w) : \E m \in 0 .. k - 1 : Nth(w, m) = n
    <3> TAKE n \in Share(r, w)
    <3>1. n \in Nat /\ n < N /\ n % NWorkers = w
      BY <1>1 DEF Share
    <3>2. PICK v \in Workers, m \in Nat : n = Nth(v, m) /\ n % NWorkers = v
      BY <3>1, NthFacts
    <3> QED BY <1>4, <1>5, <3>1, <3>2
  <2>4. f \in [0 .. k - 1 -> Share(r, w)]
    BY <2>1
  <2>5. \A m \in 0 .. k - 1 : f[m] = Nth(w, m)
    OBVIOUS
  <2> HIDE DEF f
  <2>6. f \in Injection(0 .. k - 1, Share(r, w))
    BY <2>2, <2>4, <2>5 DEF Injection, IsInjective
  <2>7. f \in Surjection(0 .. k - 1, Share(r, w))
    BY <2>3, <2>4, <2>5 DEF Surjection
  <2> QED BY <2>6, <2>7 DEF Bijection
<1>7. IsFiniteSet(0 .. k - 1) /\ Cardinality(0 .. k - 1) = k
  <2>1. 0 \in Int /\ k - 1 \in Int
    BY <1>5
  <2>2. /\ IsFiniteSet(0 .. k - 1)
        /\ Cardinality(0 .. k - 1) = IF 0 > k - 1 THEN 0 ELSE k - 1 - 0 + 1
    BY <2>1, FS_Interval, Zenon
  <2> QED BY <1>5, <2>2
<1>8. Cardinality(Share(r, w)) = k
  <2>1. ExistsBijection(0 .. k - 1, Share(r, w))
    BY <1>6 DEF ExistsBijection
  <2> QED BY <1>7, <2>1, FS_Bijection
<1> QED BY <1>4, <1>5, <1>8

-----------------------------------------------------------------------------
(* The invariant is inductive.                                             *)

LEMMA UInvInit == Init => UInv
<1> SUFFICES ASSUME Init PROVE UInv
  OBVIOUS
<1> USE SizeFacts DEF Init
<1>1. NoTask \in Tasks
  BY DEF NoTask, Tasks
<1>2. Types
  BY <1>1 DEF Types, Slots, Workers
<1>3. \A w \in Workers : Queued(w) = {} /\ state[w] # "executing"
  BY DEF Queued, Workers
<1>4. SubmittedSound
  BY DEF SubmittedSound
<1> QED BY <1>2, <1>3, <1>4 DEF UInv, QueuedSound, ExecutingSound, AllPlaced

\* A step that moves no unit.
LEMMA UInvKept ==
  ASSUME UInv,
         UNCHANGED <<slots, head, tail, task, scans, submitted, done, overflowed>>,
         state' \in [Workers -> {"ready", "waiting", "executing", "exited"}],
         \A w \in Workers : state'[w] = "executing" <=> state[w] = "executing"
  PROVE  UInv'
<1>1. \A w \in Workers : Queued(w)' = Queued(w)
  BY DEF Queued
<1>2. Types'
  BY DEF UInv, Types
<1>3. SubmittedSound'
  BY DEF UInv, SubmittedSound
<1>4. QueuedSound'
  BY <1>1 DEF UInv, QueuedSound
<1>5. ExecutingSound'
  BY <1>1 DEF UInv, ExecutingSound
<1>6. \A t : Placed(t) => Placed(t)'
  BY <1>1 DEF Placed
<1>7. AllPlaced'
  BY <1>6 DEF UInv, AllPlaced
<1> QED BY <1>2, <1>3, <1>4, <1>5, <1>7 DEF UInv

LEMMA UInvPop ==
  ASSUME UInv, NEW x \in Workers, Pop(x)
  PROVE  UInv'
<1> USE DEF UInv
<1>0. head \in [Workers -> Slots] /\ tail \in [Workers -> Slots] /\ head[x] # tail[x]
  BY DEF Types, Pop, IsEmpty
<1>1. /\ head'[x] = (head[x] + 1) % QueueSize /\ head'[x] \in Slots
      /\ \A w \in Workers \ {x} : head'[w] = head[w]
      /\ head[x] \in Queued(x) /\ Queued(x)' = Queued(x) \ {head[x]}
      /\ \A w \in Workers \ {x} : Queued(w)' = Queued(w)
  <2>1. /\ (head[x] + 1) % QueueSize \in Slots /\ head[x] \in QueuedIn(head[x], tail[x])
        /\ QueuedIn((head[x] + 1) % QueueSize, tail[x])
             = QueuedIn(head[x], tail[x]) \ {head[x]}
    BY <1>0, PoppedQueue
  <2>2. /\ head'[x] = (head[x] + 1) % QueueSize /\ tail' = tail
        /\ \A w \in Workers \ {x} : head'[w] = head[w]
    BY <1>0 DEF Pop
  <2>3. \A w \in Workers : Queued(w) = QueuedIn(head[w], tail[w])
                           /\ Queued(w)' = QueuedIn(head'[w], tail'[w])
    BY DEF Queued, QueuedIn
  <2> QED BY <2>1, <2>2, <2>3
<1>2. \A w \in Workers : Queued(w)' \subseteq Queued(w)
  BY <1>1
<1>3. /\ slots' = slots /\ tail' = tail /\ submitted' = submitted /\ done' = done
      /\ scans' = scans /\ overflowed' = overflowed
      /\ task'[x] = slots[x][head[x]] /\ state'[x] = "executing" /\ state[x] = "ready"
      /\ \A w \in Workers \ {x} : task'[w] = task[w] /\ state'[w] = state[w]
  BY DEF Pop, Types
<1>4. Types'
  <2>1. head' \in [Workers -> Slots]
    BY <1>0, <1>1 DEF Pop
  <2>2. slots[x][head[x]] \in Tasks
    BY <1>0 DEF Types
  <2>3. task' \in [Workers -> Tasks]
    BY <2>2 DEF Types, Pop
  <2>4. state' \in [Workers -> {"ready", "waiting", "executing", "exited"}]
    BY DEF Types, Pop
  <2> QED BY <1>3, <2>1, <2>3, <2>4 DEF Types
<1>5. SubmittedSound'
  BY <1>3 DEF SubmittedSound
<1>6. QueuedSound'
  BY <1>2, <1>3 DEF QueuedSound
<1>7. ExecutingSound'
  <2>1. \A w \in Workers : state'[w] = "executing" => task'[w] \in submitted' \ done'
    BY <1>1, <1>3 DEF ExecutingSound, QueuedSound
  <2>2. \A w \in Workers \ {x} : state'[w] = "executing" => task'[w] # task'[x]
    BY <1>1, <1>3 DEF ExecutingSound
  <2>3. \A w, v \in Workers : state'[w] = "executing" /\ state'[v] = "executing"
                              /\ task'[w] = task'[v] => w = v
    BY <1>3, <2>2 DEF ExecutingSound
  <2>4. \A w, v \in Workers : \A i \in Queued(v)' :
           state'[w] = "executing" => task'[w] # slots'[v][i]
    <3> TAKE w, v \in Workers
    <3> TAKE i \in Queued(v)'
    <3>1. CASE w = x
      <4>1. i \in Queued(v) /\ (v = x => i # head[x])
        BY <1>1, <1>2
      <4> QED BY <1>1, <1>3, <3>1, <4>1 DEF QueuedSound
    <3>2. CASE w # x
      BY <1>2, <1>3, <3>2 DEF ExecutingSound
    <3> QED BY <3>1, <3>2
  <2> QED BY <2>1, <2>3, <2>4 DEF ExecutingSound
<1>8. AllPlaced'
  <2>1. ASSUME NEW t, Placed(t) PROVE Placed(t)'
    <3>1. CASE t \in done
      BY <1>3, <3>1 DEF Placed
    <3>2. CASE \E w \in Workers : state[w] = "executing" /\ task[w] = t
      BY <1>3, <3>2 DEF Placed
    <3>3. CASE \E w \in Workers : \E i \in Queued(w) : slots[w][i] = t
      <4>1. PICK w \in Workers : \E i \in Queued(w) : slots[w][i] = t
        BY <3>3
      <4>2. PICK i \in Queued(w) : slots[w][i] = t
        BY <4>1
      <4>3. CASE w = x /\ i = head[x]
        BY <1>3, <4>2, <4>3 DEF Placed
      <4>4. CASE ~ (w = x /\ i = head[x])
        <5>1. i \in Queued(w)'
          BY <1>1, <4>4
        <5> QED BY <1>3, <4>2, <5>1 DEF Placed
      <4> QED BY <4>3, <4>4
    <3> QED BY <2>1, <3>1, <3>2, <3>3 DEF Placed
  <2> QED BY <1>3, <2>1 DEF AllPlaced
<1> QED BY <1>4, <1>5, <1>6, <1>7, <1>8

LEMMA UInvExecute ==
  ASSUME UInv, NEW x \in Workers, Execute(x)
  PROVE  UInv'
<1> USE DEF UInv
<1>1. \A w \in Workers : Queued(w)' = Queued(w)
  BY DEF Queued, Execute
<1>2. /\ slots' = slots /\ submitted' = submitted /\ scans' = scans /\ overflowed' = overflowed
      /\ head' = head /\ tail' = tail /\ done' = done \cup {task[x]}
      /\ state[x] = "executing" /\ state'[x] = "ready"
      /\ \A w \in Workers \ {x} : task'[w] = task[w] /\ state'[w] = state[w]
  BY DEF Execute, Types
<1>3. Types'
  <2>1. NoTask \in Tasks
    BY DEF NoTask, Tasks
  <2>2. task' \in [Workers -> Tasks]
    BY <2>1 DEF Execute, Types
  <2>3. state' \in [Workers -> {"ready", "waiting", "executing", "exited"}]
    BY DEF Types, Execute
  <2> QED BY <1>2, <2>2, <2>3 DEF Types
<1>4. SubmittedSound'
  BY <1>2 DEF SubmittedSound, ExecutingSound
<1>5. QueuedSound'
  BY <1>1, <1>2 DEF QueuedSound, ExecutingSound
<1>6. ExecutingSound'
  BY <1>1, <1>2 DEF ExecutingSound
<1>7. AllPlaced'
  <2>1. ASSUME NEW t, Placed(t) PROVE Placed(t)'
    BY <1>1, <1>2, <2>1 DEF Placed
  <2> QED BY <1>2, <2>1 DEF AllPlaced
<1> QED BY <1>3, <1>4, <1>5, <1>6, <1>7

\* What a scan leaves queued: a unit that was queued in the same slot, or a new unit, and
\* no unit of the scan is given twice.
LEMMA ScanQueues ==
  ASSUME Types, NEW r \in Requests, ParallelScan(r)
  PROVE  /\ \A w \in Workers : \A i \in Queued(w)' :
              \/ i \in Queued(w) /\ slots'[w][i] = slots[w][i]
              \/ \E m \in Nat : /\ m \in Hits(tail[w], Cardinality(Share(r, w)), i)
                                /\ Nth(w, m) < NTasks(r)
                                /\ slots'[w][i] = TaskOf(Len(scans) + 1, r, Nth(w, m))
         /\ Types'
<1> DEFINE size(w) == Cardinality(Share(r, w))
           s == Len(scans) + 1
           units(w) == [m \in 0 .. size(w) - 1 |-> TaskOf(Len(scans'), r, Nth(w, m))]
<1>1. s \in Nat /\ Len(scans') = s /\ scans' \in Seq(Requests)
  BY DEF Types, ParallelScan
<1>2. \A w \in Workers : size(w) \in Nat /\ \A m \in Nat : m < size(w) <=> Nth(w, m) < NTasks(r)
  BY ShareSize
<1>3. \A w \in Workers : /\ slots'[w] = Pushed(slots[w], tail[w], size(w), units(w))
                         /\ tail'[w] = (tail[w] + size(w)) % QueueSize
                         /\ head'[w] = head[w] /\ head[w] \in Slots /\ tail[w] \in Slots
  BY DEF ParallelScan, Types
<1>4. \A w \in Workers : \A m \in 0 .. size(w) - 1 : units(w)[m] = TaskOf(s, r, Nth(w, m))
  BY <1>1
<1> HIDE DEF size, s, units
<1>5. ASSUME NEW w \in Workers, NEW i \in Slots
      PROVE  \/ Hits(tail[w], size(w), i) = {} /\ slots'[w][i] = slots[w][i]
             \/ \E m \in Nat : /\ m \in Hits(tail[w], size(w), i)
                               /\ Nth(w, m) < NTasks(r)
                               /\ slots'[w][i] = TaskOf(s, r, Nth(w, m))
  <2>1. size(w) \in Nat
    BY <1>2
  <2>2. CASE Hits(tail[w], size(w), i) = {}
    <3>1. Pushed(slots[w], tail[w], size(w), units(w))[i] = slots[w][i]
      BY <2>1, <2>2, PushedElsewhere
    <3> QED BY <1>3, <2>2, <3>1
  <2>3. CASE Hits(tail[w], size(w), i) # {}
    <3>1. PICK m \in Hits(tail[w], size(w), i) :
             Pushed(slots[w], tail[w], size(w), units(w))[i] = units(w)[m]
      <4>1. Given(slots[w], tail[w], size(w), units(w), i)
        BY <2>1, <2>3, PushedAt
      <4> QED BY <4>1 DEF Given
    <3>2. m \in 0 .. size(w) - 1
      BY DEF Hits
    <3>3. m \in Nat /\ Nth(w, m) < NTasks(r)
      BY <1>2, <2>1, <3>2
    <3> QED BY <1>3, <1>4, <3>1, <3>2, <3>3
  <2> QED BY <2>2, <2>3
<1>6. \A w \in Workers : Queued(w)' = QueuedIn(head[w], (tail[w] + size(w)) % QueueSize)
                         /\ Queued(w) = QueuedIn(head[w], tail[w])
  BY <1>3 DEF Queued, QueuedIn
<1>7. \A w \in Workers : tail'[w] \in Slots
  <2> TAKE w \in Workers
  <2> DEFINE x == tail[w] + size(w)
  <2>1. x \in Nat
    BY <1>2, <1>3, SizeFacts DEF Slots
  <2> HIDE DEF x
  <2>2. PICK q \in Nat, y \in 0 .. QueueSize - 1 : x % QueueSize = y
    BY <2>1, SizesAssumption, Division
  <2> QED BY <1>3, <2>2 DEF Slots, x
<1>8. ASSUME NEW w \in Workers, NEW i \in Queued(w)'
      PROVE  \/ i \in Queued(w) /\ slots'[w][i] = slots[w][i]
             \/ \E m \in Nat : /\ m \in Hits(tail[w], size(w), i)
                               /\ Nth(w, m) < NTasks(r)
                               /\ slots'[w][i] = TaskOf(s, r, Nth(w, m))
  <2>1. i \in QueuedIn(head[w], (tail[w] + size(w)) % QueueSize)
    BY <1>6, <1>8
  <2>2. i \in Slots
    BY <1>3, <1>7, <2>1, QueuedFits
  <2>3. Hits(tail[w], size(w), i) = {} => i \in QueuedIn(head[w], tail[w])
    BY <1>2, <1>3, <2>1, PushKeepsOrWrites
  <2> QED BY <1>5, <1>6, <2>2, <2>3
<1>9. Types'
  <2>1. tail' \in [Workers -> Slots]
    BY <1>7 DEF ParallelScan
  <2>2. \A w \in Workers : \A i \in Slots : slots'[w][i] \in Tasks
    <3> TAKE w \in Workers
    <3> TAKE i \in Slots
    <3>1. slots[w][i] \in Tasks
      BY DEF Types
    <3>2. \A m \in Nat : TaskOf(s, r, Nth(w, m)) \in Tasks
      BY <1>1, NthFacts, RequestFacts
    <3> QED BY <1>5, <3>1, <3>2
  <2>3. \A w \in Workers : slots'[w] = [i \in Slots |-> slots'[w][i]]
    <3> TAKE w \in Workers
    <3>1. Pushed(slots[w], tail[w], size(w), units(w))
            = [i \in Slots |-> Pushed(slots[w], tail[w], size(w), units(w))[i]]
      BY DEF Pushed
    <3> QED BY <1>3, <3>1
  <2>4. \A w \in Workers : slots'[w] \in [Slots -> Tasks]
    BY <2>2, <2>3
  <2>5. slots' = [w \in Workers |-> slots'[w]]
    BY DEF ParallelScan
  <2>6. slots' \in [Workers -> [Slots -> Tasks]]
    BY <2>4, <2>5
  <2>7. state' \in [Workers -> {"ready", "waiting", "executing", "exited"}]
    BY DEF ParallelScan, Woken, Types
  <2> QED BY <1>1, <2>1, <2>6, <2>7 DEF Types, ParallelScan
<1> QED BY <1>8, <1>9 DEF size, s

LEMMA UInvScan ==
  ASSUME UInv, NEW r \in Requests, ParallelScan(r)
  PROVE  UInv'
<1> USE DEF UInv
<1> DEFINE s == Len(scans) + 1
           size(w) == Cardinality(Share(r, w))
           New(w, i, m) == /\ m \in Hits(tail[w], size(w), i)
                           /\ Nth(w, m) < NTasks(r)
                           /\ slots'[w][i] = TaskOf(s, r, Nth(w, m))
<1>1. /\ s \in Nat /\ scans' = Append(scans, r) /\ DOMAIN scans' = DOMAIN scans \cup {s}
      /\ s \notin DOMAIN scans /\ DOMAIN scans \subseteq Nat /\ scans'[s] = r
      /\ \A a \in DOMAIN scans : scans'[a] = scans[a] /\ scans[a] \in Requests
  BY DEF Types, ParallelScan
<1>2. /\ submitted' = submitted \cup UnitsOf(s, r) /\ done' = done /\ task' = task
      /\ \A w \in Workers : state'[w] = "executing" <=> state[w] = "executing"
  <2>1. Len(scans') = s
    BY DEF Types, ParallelScan
  <2>2. \A w \in Workers : state'[w] = "executing" <=> state[w] = "executing"
    BY DEF ParallelScan, Woken
  <2> QED BY <2>1, <2>2 DEF ParallelScan, UnitsOf
<1>3. Types' /\ \A w \in Workers : \A i \in Queued(w)' :
        (i \in Queued(w) /\ slots'[w][i] = slots[w][i]) \/ \E m \in Nat : New(w, i, m)
  BY ScanQueues
<1>4. \A t \in submitted : t.scan # s /\ t \notin UnitsOf(s, r)
  <2> TAKE t \in submitted
  <2>1. PICK a \in DOMAIN scans : t \in UnitsOf(a, scans[a])
    BY DEF SubmittedSound
  <2>2. PICK n \in 0 .. NTasks(scans[a]) - 1 : t = TaskOf(a, scans[a], n)
    BY <2>1 DEF UnitsOf
  <2>3. n \in Nat /\ t.scan = a
    BY <1>1, <2>2, RequestFacts
  <2>4. \A u \in UnitsOf(s, r) : u.scan = s
    <3>1. \A l \in 0 .. NTasks(r) - 1 : l \in Nat /\ TaskOf(s, r, l).scan = s
      BY <1>1, RequestFacts
    <3> QED BY <3>1 DEF UnitsOf
  <2> QED BY <1>1, <2>3, <2>4
<1>5. ASSUME NEW w \in Workers, NEW m \in Nat, Nth(w, m) < NTasks(r)
      PROVE  TaskOf(s, r, Nth(w, m)) \in UnitsOf(s, r)
  <2>1. Nth(w, m) \in 0 .. NTasks(r) - 1
    BY <1>5, NthFacts, RequestFacts
  <2> QED BY <2>1 DEF UnitsOf
<1>6. SubmittedSound'
  <2>1. ASSUME NEW t
        PROVE  t \in submitted' <=> \E a \in DOMAIN scans' : t \in UnitsOf(a, scans'[a])
    <3>1. t \in submitted <=> \E a \in DOMAIN scans : t \in UnitsOf(a, scans[a])
      BY DEF SubmittedSound
    <3> HIDE DEF s
    <3> QED BY <1>1, <1>2, <3>1
  <2>2. done' \subseteq submitted'
    BY <1>2 DEF SubmittedSound
  <2> QED BY <2>1, <2>2 DEF SubmittedSound
<1> HIDE DEF New, s
<1>7. QueuedSound'
  <2>1. \A w \in Workers : \A i \in Queued(w)' : slots'[w][i] \in submitted' \ done'
    <3> TAKE w \in Workers
    <3> TAKE i \in Queued(w)'
    <3>1. CASE i \in Queued(w) /\ slots'[w][i] = slots[w][i]
      BY <1>2, <3>1 DEF QueuedSound
    <3>2. ASSUME NEW m \in Nat, New(w, i, m) PROVE slots'[w][i] \in submitted' \ done'
      <4>1. slots'[w][i] \in UnitsOf(s, r)
        BY <1>5, <3>2 DEF New
      <4> QED BY <1>2, <1>4, <4>1 DEF SubmittedSound
    <3> QED BY <1>3, <3>1, <3>2
  <2>2. ASSUME NEW w \in Workers, NEW v \in Workers,
               NEW i \in Queued(w)', NEW j \in Queued(v)', slots'[w][i] = slots'[v][j]
        PROVE  w = v /\ i = j
    <3>1. ASSUME NEW m \in Nat, New(w, i, m), NEW l \in Nat, New(v, j, l)
          PROVE  w = v /\ i = j
      <4>1. TaskOf(s, r, Nth(w, m)) = TaskOf(s, r, Nth(v, l))
        BY <2>2, <3>1 DEF New
      <4>0. Nth(w, m) \in Nat /\ Nth(v, l) \in Nat
        BY NthFacts
      <4>2. Nth(w, m) = Nth(v, l)
        BY <1>1, <4>0, <4>1, RequestFacts
      <4>4. w = v /\ m = l
        BY <4>2, NthFacts
      <4>3. (tail[w] + m) % QueueSize = i /\ (tail[v] + l) % QueueSize = j
        BY <3>1 DEF New, Hits
      <4> QED BY <4>3, <4>4
    <3>2. ASSUME NEW a \in Workers, NEW b \in Workers, NEW k \in Queued(a), NEW l, NEW m \in Nat,
                 slots'[a][k] = slots[a][k], New(b, l, m)
          PROVE  slots'[a][k] # slots'[b][l]
      <4>1. slots'[a][k] \in submitted
        BY <3>2 DEF QueuedSound
      <4>2. slots'[b][l] \in UnitsOf(s, r)
        BY <1>5, <3>2 DEF New
      <4> QED BY <1>4, <4>1, <4>2
    <3>3. CASE i \in Queued(w) /\ slots'[w][i] = slots[w][i]
      <4>1. j \in Queued(v) /\ slots'[v][j] = slots[v][j]
        BY <1>3, <2>2, <3>2, <3>3
      <4>2. slots[w][i] = slots[v][j]
        BY <2>2, <3>3, <4>1
      <4> QED BY <3>3, <4>1, <4>2 DEF QueuedSound
    <3>4. ASSUME NEW m \in Nat, New(w, i, m) PROVE w = v /\ i = j
      <4>1. ~ (j \in Queued(v) /\ slots'[v][j] = slots[v][j])
        BY <2>2, <3>2, <3>4
      <4> QED BY <1>3, <3>1, <3>4, <4>1
    <3> QED BY <1>3, <3>3, <3>4
  <2> QED BY <2>1, <2>2 DEF QueuedSound
<1>8. ExecutingSound'
  <2>1. \A w, v \in Workers : \A i \in Queued(v)' :
           state'[w] = "executing" => task'[w] # slots'[v][i]
    <3> TAKE w, v \in Workers
    <3> TAKE i \in Queued(v)'
    <3>1. CASE i \in Queued(v) /\ slots'[v][i] = slots[v][i]
      BY <1>2, <3>1 DEF ExecutingSound
    <3>2. ASSUME NEW m \in Nat, New(v, i, m), state'[w] = "executing"
          PROVE  task'[w] # slots'[v][i]
      <4>1. slots'[v][i] \in UnitsOf(s, r)
        BY <1>5, <3>2 DEF New
      <4> QED BY <1>2, <1>4, <3>2, <4>1 DEF ExecutingSound
    <3> QED BY <1>3, <3>1, <3>2
  <2>2. /\ \A w \in Workers : state'[w] = "executing" => task'[w] \in submitted' \ done'
        /\ \A w, v \in Workers : state'[w] = "executing" /\ state'[v] = "executing"
                                 /\ task'[w] = task'[v] => w = v
    BY <1>2 DEF ExecutingSound
  <2> QED BY <2>1, <2>2 DEF ExecutingSound
<1>9. ASSUME ~ overflowed', NEW t \in submitted' PROVE Placed(t)'
  <2>0. /\ ~ overflowed
        /\ \A w \in Workers : ~ (Cardinality(Queued(w)) + size(w) >= QueueSize)
    BY <1>9 DEF ParallelScan
  <2>1. \A w \in Workers :
          /\ head[w] \in Slots /\ tail[w] \in Slots /\ size(w) \in Nat
          /\ Queued(w) = QueuedIn(head[w], tail[w])
          /\ Queued(w)' = QueuedIn(head[w], (tail[w] + size(w)) % QueueSize)
    <3>1. \A w \in Workers : head'[w] = head[w] /\ tail'[w] = (tail[w] + size(w)) % QueueSize
      BY DEF ParallelScan
    <3>2. \A w \in Workers : head[w] \in Slots /\ tail[w] \in Slots /\ size(w) \in Nat
      BY ShareSize DEF Types
    <3> QED BY <3>1, <3>2 DEF Queued, QueuedIn
  <2>2. \A w \in Workers : Cardinality(QueuedIn(head[w], tail[w])) + size(w) < QueueSize
    <3> TAKE w \in Workers
    <3>1. Cardinality(Queued(w)) \in Nat
      BY <2>1, QueuedFits, FS_CardinalityType
    <3> QED BY <2>0, <2>1, <3>1, SizeFacts
  <2> DEFINE units(w) == [m \in 0 .. size(w) - 1 |-> TaskOf(Len(scans'), r, Nth(w, m))]
  <2>3. \A w \in Workers : slots'[w] = Pushed(slots[w], tail[w], size(w), units(w))
    BY DEF ParallelScan
  <2>4. \A w \in Workers : \A m \in 0 .. size(w) - 1 : units(w)[m] = TaskOf(s, r, Nth(w, m))
    BY DEF s, Types, ParallelScan
  <2> HIDE DEF units, size
  <2>5. CASE t \in submitted
    <3>1. Placed(t)
      BY <2>0, <2>5 DEF AllPlaced
    <3>2. CASE t \in done \/ \E w \in Workers : state[w] = "executing" /\ task[w] = t
      BY <1>2, <3>2 DEF Placed
    <3>3. CASE \E w \in Workers : \E i \in Queued(w) : slots[w][i] = t
      <4>1. PICK w \in Workers : \E i \in Queued(w) : slots[w][i] = t
        BY <3>3
      <4>2. PICK i \in Queued(w) : slots[w][i] = t
        BY <4>1
      <4>3. i \in Queued(w)' /\ Hits(tail[w], size(w), i) = {} /\ i \in Slots
        BY <2>1, <2>2, PushWithRoom, QueuedFits
      <4>5. size(w) \in Nat
        BY <2>1
      <4>6. Pushed(slots[w], tail[w], size(w), units(w))[i] = slots[w][i]
        BY <4>3, <4>5, PushedElsewhere
      <4>4. slots'[w][i] = slots[w][i]
        BY <2>3, <4>6
      <4> QED BY <4>2, <4>3, <4>4 DEF Placed
    <3> QED BY <3>1, <3>2, <3>3 DEF Placed
  <2>6. CASE t \in UnitsOf(s, r)
    <3>1. PICK n \in 0 .. NTasks(r) - 1 : t = TaskOf(s, r, n)
      BY <2>6 DEF UnitsOf
    <3>2. n \in Nat /\ n < NTasks(r)
      BY <3>1, RequestFacts
    <3>3. PICK w \in Workers, m \in Nat : n = Nth(w, m)
      BY <3>2, NthFacts
    <3>4. m \in 0 .. size(w) - 1
      BY <2>1, <3>2, <3>3, ShareSize DEF size
    <3>9. /\ head[w] \in Slots /\ tail[w] \in Slots /\ size(w) \in Nat
          /\ Cardinality(QueuedIn(head[w], tail[w])) + size(w) < QueueSize
      BY <2>1, <2>2
    <3>10. Landed(head[w], tail[w], size(w), m)
      BY <3>4, <3>9, PushWithRoom
    <3>5. PICK i \in Queued(w)' : Hits(tail[w], size(w), i) = {m}
      BY <2>1, <3>10 DEF Landed
    <3>6. i \in Slots
      BY <1>3, QueuedFits DEF Types, Queued, QueuedIn
    <3>7. Pushed(slots[w], tail[w], size(w), units(w))[i] = units(w)[m]
      <4>1. \E l \in Hits(tail[w], size(w), i) :
               Pushed(slots[w], tail[w], size(w), units(w))[i] = units(w)[l]
        <5>1. Hits(tail[w], size(w), i) # {}
          BY <3>5
        <5>2. Given(slots[w], tail[w], size(w), units(w), i)
          BY <3>9, <3>6, <5>1, PushedAt
        <5> QED BY <5>2 DEF Given
      <4> QED BY <3>5, <4>1
    <3>8. slots'[w][i] = t
      BY <2>3, <2>4, <3>1, <3>3, <3>4, <3>7
    <3> QED BY <3>8 DEF Placed
  <2> QED BY <1>2, <1>9, <2>5, <2>6
<1> QED BY <1>3, <1>6, <1>7, <1>8, <1>9 DEF AllPlaced

LEMMA UInvNext == UInv /\ [Next]_vars => UInv'
<1> SUFFICES ASSUME UInv, [Next]_vars PROVE UInv'
  OBVIOUS
<1>0. state \in [Workers -> {"ready", "waiting", "executing", "exited"}]
  BY DEF UInv, Types
<1>1. ASSUME NEW w \in Workers, Leave(w) PROVE UInv'
  BY <1>0, <1>1, UInvKept DEF Leave
<1>2. ASSUME NEW w \in Workers, Wait(w) PROVE UInv'
  BY <1>0, <1>2, UInvKept DEF Wait
<1>3. ASSUME NEW w \in Workers, SpuriousWakeup(w) PROVE UInv'
  BY <1>0, <1>3, UInvKept DEF SpuriousWakeup
<1>4. CASE Shutdown
  <2>1. /\ Woken \in [Workers -> {"ready", "waiting", "executing", "exited"}]
        /\ \A w \in Workers : Woken[w] = "executing" <=> state[w] = "executing"
    BY <1>0 DEF Woken
  <2> QED BY <1>4, <2>1, UInvKept DEF Shutdown
<1>5. CASE Join
  BY <1>0, <1>5, UInvKept DEF Join
<1>6. CASE Destroy
  BY <1>0, <1>6, UInvKept DEF Destroy
<1>7. CASE UNCHANGED vars
  BY <1>0, <1>7, UInvKept DEF vars
<1> QED BY <1>1, <1>2, <1>3, <1>4, <1>5, <1>6, <1>7, UInvScan, UInvPop, UInvExecute
        DEF Next, Worker

LEMMA UInvAlways == Spec => []UInv
<1> QED BY UInvInit, UInvNext, PTL DEF Spec

LEMMA AtMostOne ==
  ASSUME NEW S, \A x, y \in S : x = y
  PROVE  Cardinality(S) \in Nat /\ Cardinality(S) <= 1
<1>1. CASE S = {}
  <2>1. Cardinality(S) = 0
    BY <1>1, FS_EmptySet
  <2> QED BY <2>1
<1>2. CASE S # {}
  <2>1. PICK x \in S : S = {x}
    BY <1>2
  <2>2. Cardinality(S) = 1
    BY <2>1, FS_Singleton
  <2> QED BY <2>2
<1> QED BY <1>1, <1>2

LEMMA OnlyOnePlace == UInv => OnePlace
<1> SUFFICES ASSUME UInv, NEW t \in submitted PROVE Cardinality(Places(t)) <= 1
  BY DEF OnePlace
<1> USE DEF UInv
<1> DEFINE QueuedAt(p) == \E w \in Workers : \E i \in Queued(w) : p = <<w, i>> /\ slots[w][i] = t
           HeldBy(p) == \E w \in Workers : p = <<w, -1>> /\ state[w] = "executing" /\ task[w] = t
           Done(p) == p = <<-1, -1>> /\ t \in done
<1>1. \A p \in Places(t) : QueuedAt(p) \/ HeldBy(p) \/ Done(p)
  <2>1. ASSUME NEW p \in Workers \X Slots, p[2] \in Queued(p[1]), slots[p[1]][p[2]] = t
        PROVE  QueuedAt(p)
    <3>1. p[1] \in Workers /\ p = <<p[1], p[2]>>
      OBVIOUS
    <3> QED BY <2>1, <3>1
  <2>2. ASSUME NEW w \in {v \in Workers : state[v] = "executing" /\ task[v] = t}
        PROVE  HeldBy(<<w, -1>>)
    OBVIOUS
  <2>3. \A p \in {<<-1, -1>>} : t \in done => Done(p)
    OBVIOUS
  <2> HIDE DEF QueuedAt, HeldBy, Done
  <2>4. \A p \in {q \in Workers \X Slots : q[2] \in Queued(q[1]) /\ slots[q[1]][q[2]] = t} :
           QueuedAt(p)
    BY <2>1
  <2>5. \A p \in {<<w, -1>> : w \in {v \in Workers : state[v] = "executing" /\ task[v] = t}} :
           HeldBy(p)
    BY <2>2
  <2>6. \A p \in (IF t \in done THEN {<<-1, -1>>} ELSE {}) : Done(p)
    BY <2>3
  <2> QED BY <2>4, <2>5, <2>6 DEF Places
<1>2. \A p, q : QueuedAt(p) /\ QueuedAt(q) => p = q
  BY DEF QueuedSound
<1>3. \A p, q : HeldBy(p) /\ HeldBy(q) => p = q
  BY DEF ExecutingSound
<1>4. \A p, q : Done(p) /\ Done(q) => p = q
  OBVIOUS
<1>5. \A p, q : ~ (QueuedAt(p) /\ HeldBy(q))
  BY DEF ExecutingSound
<1>6. \A p, q : ~ (QueuedAt(p) /\ Done(q))
  BY DEF QueuedSound
<1>7. \A p, q : ~ (HeldBy(p) /\ Done(q))
  BY DEF ExecutingSound
<1> HIDE DEF QueuedAt, HeldBy, Done
<1>8. \A p, q \in Places(t) : p = q
  BY <1>1, <1>2, <1>3, <1>4, <1>5, <1>6, <1>7
<1> QED BY <1>8, AtMostOne

LEMMA NoUnitLost == UInv => NothingLost
<1> SUFFICES ASSUME UInv, ~ overflowed, NEW t \in submitted PROVE Places(t) # {}
  BY DEF NothingLost, InPlace
<1> USE DEF UInv
<1>1. Placed(t)
  BY DEF AllPlaced
<1>2. CASE t \in done
  BY <1>2 DEF Places
<1>3. ASSUME NEW w \in Workers, state[w] = "executing", task[w] = t
      PROVE  Places(t) # {}
  <2>1. <<w, -1>> \in Places(t)
    BY <1>3 DEF Places
  <2> QED BY <2>1
<1>4. ASSUME NEW w \in Workers, NEW i \in Queued(w), slots[w][i] = t
      PROVE  Places(t) # {}
  <2>1. i \in Slots
    BY QueuedFits DEF Types, Queued, QueuedIn
  <2>2. <<w, i>> \in Places(t)
    BY <1>4, <2>1 DEF Places
  <2> QED BY <2>2
<1> QED BY <1>1, <1>2, <1>3, <1>4 DEF Placed

\* Every page of a range lies in one unit of it.
LEMMA UnitOfPage ==
  ASSUME NEW r \in Requests, NEW s \in Nat, NEW p \in r.root .. r.total - 1
  PROVE  \E n \in 0 .. NTasks(r) - 1 :
           \A m \in Nat : TaskOf(s, r, m).start <= p /\ p < TaskOf(s, r, m).end <=> m = n
<1> USE SizeFacts
<1>1. /\ r.root \in Nat /\ r.total \in Nat /\ p \in Nat /\ r.root <= p /\ p < r.total
      /\ NTasks(r) \in Nat
  BY RequestFacts
<1>2. PICK n \in Nat, x \in 0 .. PagesPerTask - 1 : p - r.root = x + n * PagesPerTask
  <2> DEFINE d == p - r.root
  <2>1. d \in Nat
    BY <1>1
  <2> HIDE DEF d
  <2>2. PICK n \in Nat, x \in 0 .. PagesPerTask - 1 :
           d = x + n * PagesPerTask /\ d % PagesPerTask = x /\ d \div PagesPerTask = n
    BY <2>1, Division
  <2> QED BY <2>2 DEF d
<1>3. PICK q \in Nat, y \in 0 .. PagesPerTask - 1 :
        /\ r.total - r.root + PagesPerTask - 1 = y + q * PagesPerTask
        /\ (r.total - r.root + PagesPerTask - 1) \div PagesPerTask = q
  <2> DEFINE d == r.total - r.root + PagesPerTask - 1
  <2>1. d \in Nat
    BY <1>1
  <2> HIDE DEF d
  <2>2. \E q \in Nat, y \in 0 .. PagesPerTask - 1 :
           d = y + q * PagesPerTask /\ d \div PagesPerTask = q
    BY <2>1, Division
  <2> QED BY <2>2 DEF d
<1>4. NTasks(r) = q
  BY <1>1, <1>3 DEF NTasks
<1>5. n < q
  <2>1. n * PagesPerTask \in Nat /\ q * PagesPerTask \in Nat
    OBVIOUS
  <2>2. n * PagesPerTask < q * PagesPerTask
    BY <1>1, <1>2, <1>3, <2>1
  <2>3. q < n => q * PagesPerTask + PagesPerTask <= n * PagesPerTask
    BY MultipleStep
  <2>4. q # n
    BY <2>1, <2>2
  <2> QED BY <2>1, <2>2, <2>3, <2>4
<1>6. ASSUME NEW m \in Nat
      PROVE  TaskOf(s, r, m).start <= p /\ p < TaskOf(s, r, m).end <=> m = n
  <2>1. n * PagesPerTask \in Nat /\ m * PagesPerTask \in Nat
    OBVIOUS
  <2>2. /\ n < m => n * PagesPerTask + PagesPerTask <= m * PagesPerTask
        /\ m < n => m * PagesPerTask + PagesPerTask <= n * PagesPerTask
    BY MultipleStep
  <2>3. /\ TaskOf(s, r, m).start = r.root + m * PagesPerTask
        /\ p < TaskOf(s, r, m).end <=> p < r.root + m * PagesPerTask + PagesPerTask
    BY <1>1, <2>1 DEF TaskOf
  <2>4. p = r.root + x + n * PagesPerTask
    BY <1>1, <1>2, <2>1
  <2>5. m # n => ~ (TaskOf(s, r, m).start <= p /\ p < TaskOf(s, r, m).end)
    BY <1>1, <2>1, <2>2, <2>3, <2>4
  <2>6. m = n => TaskOf(s, r, m).start <= p /\ p < TaskOf(s, r, m).end
    BY <1>1, <2>1, <2>3, <2>4
  <2> QED BY <2>5, <2>6
<1> QED BY <1>4, <1>5, <1>6

LEMMA ScansPartitioned == UInv => ScanPartitioned
<1> SUFFICES ASSUME UInv, NEW s \in DOMAIN scans, NEW p \in scans[s].root .. scans[s].total - 1
             PROVE  Cardinality({u \in submitted : u.scan = s /\ u.start <= p /\ p < u.end}) = 1
  BY DEF ScanPartitioned
<1> USE DEF UInv
<1>1. \A a \in DOMAIN scans : a \in Nat /\ scans[a] \in Requests
  BY DEF Types
<1>2. PICK n \in 0 .. NTasks(scans[s]) - 1 : \A m \in Nat :
         TaskOf(s, scans[s], m).start <= p /\ p < TaskOf(s, scans[s], m).end <=> m = n
  BY <1>1, UnitOfPage
<1>3. n \in Nat /\ TaskOf(s, scans[s], n).scan = s
  BY <1>1, RequestFacts
<1>4. TaskOf(s, scans[s], n) \in submitted
  BY DEF SubmittedSound, UnitsOf
<1>5. ASSUME NEW u \in submitted, u.scan = s, u.start <= p, p < u.end
      PROVE  u = TaskOf(s, scans[s], n)
  <2>1. PICK a \in DOMAIN scans : u \in UnitsOf(a, scans[a])
    BY DEF SubmittedSound
  <2>2. PICK m \in 0 .. NTasks(scans[a]) - 1 : u = TaskOf(a, scans[a], m)
    BY <2>1 DEF UnitsOf
  <2>3. m \in Nat /\ u.scan = a
    BY <1>1, <2>2, RequestFacts, SMTT(30)
  <2> QED BY <1>2, <1>5, <2>2, <2>3
<1>6. {u \in submitted : u.scan = s /\ u.start <= p /\ p < u.end} = {TaskOf(s, scans[s], n)}
  BY <1>2, <1>3, <1>4, <1>5
<1> QED BY <1>6, FS_Singleton

\* The units of a scan partition its page range, and each of them is, from its submission
\* on, in one place: queued once, or held by one worker, or done; none is lost unless a
\* ring was given more than it has room for.
THEOREM DispatchUnitsKept == Spec => []UnitsKept
<1>1. UInv => UnitsKept
  BY OnlyOnePlace, NoUnitLost, ScansPartitioned DEF UnitsKept
<1> QED BY <1>1, UInvAlways, PTL
=============================================================================
