------------------------------ MODULE Dispatch ------------------------------
(***************************************************************************)
(* db/db_dispatch.c: the worker pool that scans page ranges in parallel.   *)
(* One mutex and one condition variable guard a ring of tasks per worker;  *)
(* every section the mutex protects is one action here.                    *)
(***************************************************************************)
EXTENDS Integers, Sequences, FiniteSets

CONSTANTS NWorkers,      \* threadCount, at least one
          QueueSize,     \* WLD_TASK_QUEUE_SIZE
          PagesPerTask,  \* WLD_PAGES_PER_TASK
          Requests,      \* bound: the [root, total] page ranges callers scan
          MaxScans       \* bound: calls of db_dispatch_parallel_scan

ASSUME WorkersAssumption == NWorkers \in Nat \ {0}
ASSUME SizesAssumption == QueueSize \in Nat \ {0, 1} /\ PagesPerTask \in Nat \ {0}
ASSUME RequestsAssumption == \A r \in Requests : r.root \in Nat /\ r.total \in Nat
ASSUME ScansAssumption == MaxScans \in Nat

Workers == 0 .. NWorkers - 1
Slots == 0 .. QueueSize - 1
NoTask == [scan |-> 0, start |-> 0, end |-> 0]

VARIABLES slots,      \* localQueue of every worker
          head, tail, \* queueHead, queueTail
          state,      \* where each worker thread is
          task,       \* the task it has popped
          isShutdown,
          master,     \* the thread that scans, shuts down, joins, destroys
          joined,     \* workers already joined
          scans,      \* the page ranges submitted so far
          submitted,  \* every task that was ever distributed
          done,       \* every task that was executed
          overflowed  \* a ring was given more than it has room for

vars == <<slots, head, tail, state, task, isShutdown, master, joined, scans,
          submitted, done, overflowed>>

-----------------------------------------------------------------------------

\* The work units of a scan: the n-th covers PagesPerTask pages, the last what
\* is left of the range.
NTasks(r) == IF r.root >= r.total THEN 0
             ELSE (r.total - r.root + PagesPerTask - 1) \div PagesPerTask
TaskOf(s, r, n) ==
  LET first == r.root + n * PagesPerTask
      last == first + PagesPerTask
  IN  [scan |-> s, start |-> first, end |-> IF last > r.total THEN r.total ELSE last]

\* Round robin: worker w receives the tasks w, w + NWorkers, ... of the scan.
Share(r, w) == {n \in 0 .. NTasks(r) - 1 : n % NWorkers = w}
Nth(w, m) == w + m * NWorkers

\* mutant: tail is advanced before the slot is written
PushedAhead(ring, t, n, units) ==
  [i \in Slots |->
     LET hits == {m \in 0 .. n - 1 : (t + 1 + m) % QueueSize = i}
     IN  IF hits = {} THEN ring[i] ELSE units[CHOOSE m \in hits : \A l \in hits : l <= m]]

\* The ring after n pushes of units[0], units[1], ...: nothing tests whether it is full,
\* so a slot holds the last task pushed into it.
Pushed(ring, t, n, units) ==
  [i \in Slots |->
     LET hits == {m \in 0 .. n - 1 : (t + m) % QueueSize = i}
     IN  IF hits = {} THEN ring[i] ELSE units[CHOOSE m \in hits : \A l \in hits : l <= m]]

Queued(w) == IF head[w] <= tail[w] THEN head[w] .. tail[w] - 1
             ELSE Slots \ (tail[w] .. head[w] - 1)
IsEmpty(w) == head[w] = tail[w]

\* mutant: pthread_cond_signal instead, and one of the waiting workers wakes
WokenOne ==
  LET waiting == {w \in Workers : state[w] = "waiting"}
  IN  IF waiting = {} THEN state
      ELSE [state EXCEPT ![CHOOSE w \in waiting : \A v \in waiting : w <= v] = "ready"]

\* pthread_cond_broadcast: every waiting worker will contend for the mutex.
Woken == [w \in Workers |-> IF state[w] = "waiting" THEN "ready" ELSE state[w]]

-----------------------------------------------------------------------------
\* db_dispatch_init
Init == /\ slots = [w \in Workers |-> [i \in Slots |-> NoTask]]
        /\ head = [w \in Workers |-> 0] /\ tail = [w \in Workers |-> 0]
        /\ state = [w \in Workers |-> "ready"]
        /\ task = [w \in Workers |-> NoTask]
        /\ isShutdown = FALSE /\ master = "idle" /\ joined = 0
        /\ scans = <<>> /\ submitted = {} /\ done = {} /\ overflowed = FALSE

\* db_dispatch_parallel_scan
ParallelScan(r) ==
  /\ master = "idle" /\ Len(scans) < MaxScans
  /\ scans' = Append(scans, r)
  /\ LET size(w) == Cardinality(Share(r, w))
     IN  /\ slots' = [w \in Workers |->
                        Pushed(slots[w], tail[w], size(w),
                               [m \in 0 .. size(w) - 1 |-> TaskOf(Len(scans'), r, Nth(w, m))])]
         /\ tail' = [w \in Workers |-> (tail[w] + size(w)) % QueueSize]
         /\ overflowed' = (overflowed \/ \E w \in Workers :
                             Cardinality(Queued(w)) + size(w) >= QueueSize)
  /\ submitted' = submitted \cup {TaskOf(Len(scans'), r, n) : n \in 0 .. NTasks(r) - 1}
  /\ state' = Woken
  /\ UNCHANGED <<head, task, isShutdown, master, joined, done>>

\* worker_loop, the locked part: leave at shutdown, else wait, else pop.
Leave(w) ==
  /\ state[w] = "ready" /\ isShutdown
  /\ state' = [state EXCEPT ![w] = "exited"]
  /\ UNCHANGED <<slots, head, tail, task, isShutdown, master, joined, scans, submitted,
                 done, overflowed>>

Wait(w) ==
  /\ state[w] = "ready" /\ ~isShutdown /\ IsEmpty(w)
  /\ state' = [state EXCEPT ![w] = "waiting"]
  /\ UNCHANGED <<slots, head, tail, task, isShutdown, master, joined, scans, submitted,
                 done, overflowed>>

Pop(w) ==
  /\ state[w] = "ready" /\ ~isShutdown /\ ~IsEmpty(w)
  /\ task' = [task EXCEPT ![w] = slots[w][head[w]]]
  /\ head' = [head EXCEPT ![w] = (@ + 1) % QueueSize]
  /\ state' = [state EXCEPT ![w] = "executing"]
  /\ UNCHANGED <<slots, tail, isShutdown, master, joined, scans, submitted,
                 done, overflowed>>

\* worker_loop, outside the mutex: run the task and come back for the next.
Execute(w) ==
  /\ state[w] = "executing"
  /\ done' = done \cup {task[w]}
  /\ task' = [task EXCEPT ![w] = NoTask]
  /\ state' = [state EXCEPT ![w] = "ready"]
  /\ UNCHANGED <<slots, head, tail, isShutdown, master, joined, scans, submitted, overflowed>>

\* pthread_cond_wait may return although nobody signalled.
SpuriousWakeup(w) ==
  /\ state[w] = "waiting"
  /\ state' = [state EXCEPT ![w] = "ready"]
  /\ UNCHANGED <<slots, head, tail, task, isShutdown, master, joined, scans, submitted,
                 done, overflowed>>

\* mutants: nobody is woken; a worker that still runs counts as joined
ShutdownQuiet ==
  /\ master = "idle"
  /\ master' = "joining" /\ isShutdown' = TRUE
  /\ UNCHANGED <<slots, head, tail, state, task, joined, scans, submitted, done, overflowed>>
JoinAny ==
  /\ master = "joining" /\ joined < NWorkers
  /\ joined' = joined + 1
  /\ UNCHANGED <<slots, head, tail, state, task, isShutdown, master, scans, submitted, done,
                 overflowed>>

\* db_dispatch_shutdown: announce it, join the workers in order, destroy.
Shutdown ==
  /\ master = "idle"
  /\ master' = "joining" /\ isShutdown' = TRUE
  /\ state' = Woken
  /\ UNCHANGED <<slots, head, tail, task, joined, scans, submitted,
                 done, overflowed>>

Join ==
  /\ master = "joining" /\ joined < NWorkers /\ state[joined] = "exited"
  /\ joined' = joined + 1
  /\ UNCHANGED <<slots, head, tail, state, task, isShutdown, master, scans, submitted, done, overflowed>>

Destroy ==
  /\ master = "joining" /\ joined = NWorkers
  /\ master' = "destroyed"
  /\ UNCHANGED <<slots, head, tail, state, task, isShutdown, joined, scans, submitted,
                 done, overflowed>>

Worker(w) == Leave(w) \/ Wait(w) \/ Pop(w) \/ Execute(w)

Next == \/ \E r \in Requests : ParallelScan(r)
        \/ \E w \in Workers : Worker(w) \/ SpuriousWakeup(w)
        \/ Shutdown \/ Join \/ Destroy

Spec == Init /\ [][Next]_vars

\* The kernel schedules every runnable thread; nobody has to call the API.
FairSpec == Spec /\ WF_vars(Join) /\ WF_vars(Destroy)
                 /\ \A w \in Workers : WF_vars(Worker(w))
-----------------------------------------------------------------------------
TypeOK ==
  /\ head \in [Workers -> Slots] /\ tail \in [Workers -> Slots]
  /\ state \in [Workers -> {"ready", "waiting", "executing", "exited"}]
  /\ isShutdown \in BOOLEAN /\ master \in {"idle", "joining", "destroyed"}
  /\ joined \in 0 .. NWorkers /\ overflowed \in BOOLEAN

\* When the mutex and the condition variable are destroyed no worker can touch
\* them any more: every thread is past its loop (and so it was joined).
DestroyedLast == master = "destroyed" => \A w \in Workers : state[w] = "exited"

\* A work unit is in one place: queued once, or held by one worker, or done.
\* No unit is run twice, whatever the rings wrap over.
Places(t) == {p \in Workers \X Slots : p[2] \in Queued(p[1]) /\ slots[p[1]][p[2]] = t}
             \cup {<<w, -1>> : w \in {v \in Workers : state[v] = "executing" /\ task[v] = t}}
             \cup (IF t \in done THEN {<<-1, -1>>} ELSE {})
OnePlace == \A t \in submitted : Cardinality(Places(t)) <= 1

\* Every page range handed to db_dispatch_parallel_scan stays with the pool: each
\* of its units is queued, being executed, or executed, as long as every ring had
\* a slot to spare for what it was given.
InPlace == \A t \in submitted : Places(t) # {}
NothingLost == ~overflowed => InPlace

\* The units of a scan leave out no page of its range and overlap in none.
ScanPartitioned ==
  \A s \in DOMAIN scans : \A p \in scans[s].root .. scans[s].total - 1 :
     Cardinality({u \in submitted : u.scan = s /\ u.start <= p /\ p < u.end}) = 1

\* Whatever the rings wrap over, the units of a scan partition its range, and each of
\* them is in exactly one place from its submission on.
UnitsKept == OnePlace /\ NothingLost /\ ScanPartitioned

\* A worker never sleeps on work of its own: when it waits its queue is empty.
NoSleepOnWork == \A w \in Workers : state[w] = "waiting" => IsEmpty(w)

\* Every scan is executed to its last unit, unless the pool is shut down or a
\* ring was overrun.
ScansComplete == submitted # done ~> (submitted = done \/ isShutdown \/ overflowed)

\* db_dispatch_shutdown returns: no worker sleeps through it or is joined twice.
ShutdownReturns == isShutdown ~> master = "destroyed"
=============================================================================
