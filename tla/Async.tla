------------------------------- MODULE Async -------------------------------
(***************************************************************************)
(* What a program waits for: the futures and wait groups of                *)
(* src/vm/vm_async_core.c and src/lib/lib_async_orchestrator.c, the timing *)
(* wheel of src/lib/lib_timer.c, and the event loop of                     *)
(* src/web/wld_event_loop.c over the reactor of src/sys/sys_event_reactor.c. *)
(* The three do not touch each other's state; FutureNext, TimerNext and    *)
(* EventNext are the operations of each.                                   *)
(***************************************************************************)
EXTENDS Naturals, Sequences, FiniteSets

CONSTANTS Futures,       \* the futures a program makes
          Lists,         \* argument lists of all(): of futures and of plain values
          MaxGroups,     \* bound: calls of all() and race()
          TimerSlots,    \* WLD_TIMER_SLOTS
          Delays,        \* delays in ticks of WLD_TIMER_RESOLUTION_MS
          MaxTimers,     \* bound: timer nodes made
          MaxCount,      \* how many continuations a call of lib_timer_process takes
          MaxNow,        \* bound: the clock
          Descriptors,   \* file descriptors, ordered: the kernel reports the smallest first
          Harvest,       \* maxEvents, 128 in db_event_loop_step
          MaxRegistrations  \* bound: calls of db_event_loop_register

ASSUME AsyncAssumption == /\ TimerSlots \in Nat \ {0} /\ MaxCount \in Nat \ {0}
                          /\ Harvest \in Nat \ {0} /\ Delays \subseteq Nat
                          /\ \A list \in Lists : list \in Seq({list[i] : i \in DOMAIN list})

VARIABLES future,     \* per future: status, groupOwner, waiter
          groups,     \* the wait groups, oldest first
          resumed,    \* per group: how often its caller was resumed (history)
          pulses      \* futures whose waiter was sent a resumption pulse

futureVars == <<future, groups, resumed, pulses>>

NoGroup == 0
PendingFuture == [status |-> "pending", groupOwner |-> NoGroup, waiter |-> FALSE]

FutureInit == /\ future = [f \in Futures |-> PendingFuture]     \* walia_future_new
              /\ groups = <<>> /\ resumed = <<>> /\ pulses = <<>>

\* walia_waitgroup_notify: how far the count falls, and whether the caller is resumed.
\* The results never grow beyond the empty list: walia_list_set ignores their indices.
Remaining(g) == IF groups[g].mode = "race" THEN 0 ELSE groups[g].pendingCount - 1
Completes(g) == IF groups[g].mode = "race" THEN groups[g].pendingCount > 0
                ELSE groups[g].pendingCount = 1

walia_future_resolve(f) ==
  LET g == future[f].groupOwner
  IN  /\ future[f].status = "pending"
      /\ future' = [future EXCEPT ![f].status = "resolved"]
      /\ groups' = IF g = NoGroup THEN groups
                   ELSE [groups EXCEPT ![g].pendingCount = Remaining(g)]
      /\ resumed' = IF g # NoGroup /\ Completes(g) THEN [resumed EXCEPT ![g] = @ + 1] ELSE resumed
      /\ pulses' = IF future[f].waiter THEN Append(pulses, f) ELSE pulses

\* A failure reaches the waiter of the future, never its group.
walia_future_fail(f) ==
  /\ future[f].status = "pending"
  /\ future' = [future EXCEPT ![f].status = "faulted"]
  /\ pulses' = IF future[f].waiter THEN Append(pulses, f) ELSE pulses
  /\ UNCHANGED <<groups, resumed>>

walia_future_add_waiter(f) == /\ ~future[f].waiter
                              /\ future' = [future EXCEPT ![f].waiter = TRUE]
                              /\ UNCHANGED <<groups, resumed, pulses>>

ElementsOf(list) == {list[i] : i \in DOMAIN list} \cap Futures

\* native_async_all, which native_async_race calls without changing the mode: the
\* count is the length of the list, and every future in it, of whatever status,
\* forgets its earlier group (walia_future_add_group_waiter).
native_async_all(list) ==
  /\ Len(groups) < MaxGroups
  /\ groups' = Append(groups, [mode |-> "all", pendingCount |-> Len(list), list |-> list,
                 fresh |-> \A f \in ElementsOf(list) : future[f].status = "pending"])
  /\ resumed' = Append(resumed, 0)
  /\ future' = [f \in Futures |-> IF f \in ElementsOf(list)
                                  THEN [future[f] EXCEPT !.groupOwner = Len(groups) + 1]
                                  ELSE future[f]]
  /\ UNCHANGED pulses

FutureNext == \/ \E f \in Futures : \/ walia_future_resolve(f) \/ walia_future_fail(f)
                                    \/ walia_future_add_waiter(f)
              \/ \E list \in Lists : native_async_all(list)

\* The groups the two calls serve: lists of distinct futures, all pending when the
\* call was made and none given to a later call.
WellFormed(g) == /\ groups[g].fresh
                 /\ \A i, j \in DOMAIN groups[g].list : i # j => groups[g].list[i] # groups[g].list[j]
                 /\ \A i \in DOMAIN groups[g].list :
                      /\ groups[g].list[i] \in Futures
                      /\ future[groups[g].list[i]].groupOwner = g

\* The caller of a well-formed all() is resumed exactly when its last element has
\* resolved, and only once; an element that fails leaves it waiting. Whatever
\* the list, no caller is resumed twice.
JoinsExact ==
  \A g \in DOMAIN groups :
    /\ resumed[g] <= 1
    /\ WellFormed(g) /\ groups[g].list # <<>> =>
         (resumed[g] = 1 <=> \A f \in ElementsOf(groups[g].list) : future[f].status = "resolved")

-----------------------------------------------------------------------------
VARIABLES now,        \* get_now_ms
          wheel,      \* buckets, each the number of its first node, and currentTick
          nodes,      \* the timer nodes in the order they were made
          process,    \* the locals of lib_timer_process
          fires,      \* per node: how often its continuation was handed out (history)
          lostTimers,    \* nodes that fell out of their bucket (history)
          cut         \* a call stopped at maxCount (history)

timerVars == <<now, wheel, nodes, process, fires, lostTimers, cut>>

NoNode == 0
IdleProcess == [running |-> FALSE, now |-> 0, count |-> 0, node |-> NoNode, prev |-> NoNode]
SlotOf(tick) == tick % TimerSlots

\* lib_timer_init
TimerInit == /\ now = 0 /\ nodes = <<>> /\ fires = <<>> /\ lostTimers = {} /\ cut = FALSE
             /\ wheel = [buckets |-> [s \in 0 .. TimerSlots - 1 |-> NoNode], currentTick |-> 0]
             /\ process = IdleProcess

\* The new node becomes the head of its bucket.
Added(buckets, made, delay, isInterval) ==
  LET expires == now + delay
  IN  [buckets |-> [buckets EXCEPT ![SlotOf(expires)] = Len(made) + 1],
       nodes |-> Append(made, [expireTime |-> expires, isInterval |-> isInterval,
                               intervalMs |-> delay, next |-> buckets[SlotOf(expires)]])]

lib_timer_add(delay, isInterval) ==
  LET added == Added(wheel.buckets, nodes, delay, isInterval)
  IN  /\ ~process.running /\ Len(nodes) < MaxTimers
      /\ wheel' = [wheel EXCEPT !.buckets = added.buckets]
      /\ nodes' = added.nodes
      /\ fires' = Append(fires, 0)
      /\ UNCHANGED <<now, process, lostTimers, cut>>

\* lib_timer_process reads the clock once.
ProcessBegin == /\ ~process.running /\ wheel.currentTick <= now
                /\ process' = [running |-> TRUE, now |-> now, count |-> 0, prev |-> NoNode,
                               node |-> wheel.buckets[SlotOf(wheel.currentTick)]]
                /\ UNCHANGED <<now, wheel, nodes, fires, lostTimers, cut>>

\* A node that is not due is passed over.
PassOver == /\ process.running /\ process.node # NoNode /\ process.count < MaxCount
            /\ nodes[process.node].expireTime > process.now
            /\ process' = [process EXCEPT !.prev = process.node, !.node = nodes[process.node].next]
            /\ UNCHANGED <<now, wheel, nodes, fires, lostTimers, cut>>

\* mutant: the bucket forgets the nodes before the one that expired
Unlinked(slot, expired) ==
  [nodes |-> nodes, buckets |-> [wheel.buckets EXCEPT ![slot] = nodes[expired].next]]

\* The node leaves the bucket: through prev when there is one, else through the head.
Detached(slot, expired) ==
  IF process.prev # NoNode
  THEN [nodes |-> [nodes EXCEPT ![process.prev].next = nodes[expired].next],
        buckets |-> wheel.buckets]
  ELSE [nodes |-> nodes, buckets |-> [wheel.buckets EXCEPT ![slot] = nodes[expired].next]]

\* A due node is handed out; an interval timer is added again, with the clock of now,
\* possibly to this very bucket, before a prev that stays NULL.
Expire ==
  LET slot == SlotOf(wheel.currentTick)
      expired == process.node
      rest == Detached(slot, expired)
      again == IF nodes[expired].isInterval
               THEN Added(rest.buckets, rest.nodes, nodes[expired].intervalMs, TRUE)
               ELSE rest
  IN  /\ process.running /\ expired # NoNode /\ process.count < MaxCount
      /\ nodes[expired].expireTime <= process.now
      /\ nodes[expired].isInterval => Len(nodes) < MaxTimers
      /\ nodes' = again.nodes
      /\ wheel' = [wheel EXCEPT !.buckets = again.buckets]
      /\ fires' = [i \in DOMAIN again.nodes |-> IF i = expired THEN fires[i] + 1
                                                ELSE IF i \in DOMAIN fires THEN fires[i] ELSE 0]
      \* the head is not the node scanned: unlinking without a prev drops it
      /\ lostTimers' = IF process.prev = NoNode /\ wheel.buckets[slot] # expired
                    THEN lostTimers \cup {wheel.buckets[slot]} ELSE lostTimers
      /\ process' = [process EXCEPT !.node = nodes[expired].next, !.count = @ + 1]
      /\ UNCHANGED <<now, cut>>

\* The bucket is done, or the room for continuations is: the tick advances either
\* way, and the call ends when it has caught up or the room is used.
Advance ==
  LET next == wheel.currentTick + 1
      goesOn == next <= process.now /\ process.count < MaxCount
  IN  /\ process.running /\ (process.node = NoNode \/ process.count = MaxCount)
      /\ wheel' = [wheel EXCEPT !.currentTick = next]
      /\ process' = IF goesOn THEN [process EXCEPT !.prev = NoNode,
                                                   !.node = wheel.buckets[SlotOf(next)]]
                    ELSE IdleProcess
      /\ cut' = (cut \/ process.count = MaxCount)
      /\ UNCHANGED <<now, nodes, fires, lostTimers>>

ClockTicks == now < MaxNow /\ now' = now + 1
              /\ UNCHANGED <<wheel, nodes, process, fires, lostTimers, cut>>

TimerNext == \/ \E delay \in Delays, isInterval \in BOOLEAN : lib_timer_add(delay, isInterval)
             \/ ProcessBegin \/ PassOver \/ Expire \/ Advance \/ ClockTicks

\* The nodes of a bucket, following the links: those of every set that holds the first
\* and, with a node, the one after it.
Chain(slot) ==
  {n \in DOMAIN nodes : \A s \in SUBSET DOMAIN nodes :
     /\ wheel.buckets[slot] \in s \cup {NoNode}
     /\ \A i \in s : nodes[i].next \in s \cup {NoNode}
     => n \in s}

\* A timer that has not fired can still be found: it is linked into the bucket
\* of its expiry, unless it was dropped by a second expiry at the head of the
\* bucket it was just added to. No timer fires twice.
\* And once a call has caught up without being cut short, every timer that was due
\* has fired, if its delay was not zero.
TimersFire ==
  /\ \A n \in DOMAIN nodes :
       /\ fires[n] <= 1
       /\ fires[n] = 0 /\ n \notin lostTimers => n \in Chain(SlotOf(nodes[n].expireTime))
  /\ ~cut /\ ~process.running =>
       \A n \in DOMAIN nodes :
         nodes[n].intervalMs > 0 /\ n \notin lostTimers /\ nodes[n].expireTime < wheel.currentTick
           => fires[n] = 1

-----------------------------------------------------------------------------
VARIABLES use_uring,  \* which substrate sys_event_reactor_init found
          interest,   \* the epoll set: per descriptor what it is watched for
          edges,      \* descriptors the kernel has an event for
          waiting,    \* continuationMap: the keys fd:type
          accepted,   \* keys whose registration returned SER_OK (history)
          woken,      \* keys whose event happened since they were registered (history)
          overflowed, \* keys whose event was harvested beyond maxEvents (history)
          registrations

eventVars == <<use_uring, interest, edges, waiting, accepted, woken, overflowed, registrations>>

EventTypes == {"read", "write"}
Unwatched == "none"

\* db_event_loop_init, sys_event_reactor_init
EventInit == /\ use_uring \in BOOLEAN
             /\ interest = [fd \in Descriptors |-> Unwatched]
             /\ edges = {} /\ waiting = {} /\ accepted = {} /\ woken = {} /\ overflowed = {}
             /\ registrations = 0

\* sys_event_reactor_add: a descriptor that is already watched is refused (EEXIST).
Adds(fd) == ~use_uring /\ interest[fd] = Unwatched
SerOk(fd) == use_uring \/ interest[fd] = Unwatched

\* db_event_loop_register: the continuation is stored before the reactor is asked.
\* A descriptor may be ready already, which epoll reports at the next poll.
db_event_loop_register(fd, type, ready) ==
  /\ registrations < MaxRegistrations /\ registrations' = registrations + 1
  /\ waiting' = waiting \cup {<<fd, type>>}
  /\ interest' = IF Adds(fd) THEN [interest EXCEPT ![fd] = type] ELSE interest
  /\ edges' = IF Adds(fd) /\ ready THEN edges \cup {fd} ELSE edges
  /\ accepted' = IF SerOk(fd) THEN accepted \cup {<<fd, type>>} ELSE accepted \ {<<fd, type>>}
  /\ woken' = IF Adds(fd) /\ ready THEN woken \cup {<<fd, type>>} ELSE woken \ {<<fd, type>>}
  /\ overflowed' = overflowed \ {<<fd, type>>}
  /\ UNCHANGED use_uring

\* The descriptor becomes ready for what it is watched for: an edge.
Ready(fd) == /\ interest[fd] # Unwatched /\ fd \notin edges
             /\ edges' = edges \cup {fd}
             /\ woken' = woken \cup {<<fd, interest[fd]>>}
             /\ UNCHANGED <<use_uring, interest, waiting, accepted, overflowed, registrations>>

\* A closed descriptor leaves the epoll set; the map keeps its continuation.
Hup(fd) == /\ interest[fd] # Unwatched
              /\ interest' = [interest EXCEPT ![fd] = Unwatched]
              /\ edges' = edges \ {fd}
              /\ accepted' = {key \in accepted : key[1] # fd}
              /\ woken' = {key \in woken : key[1] # fd}
              /\ UNCHANGED <<use_uring, waiting, overflowed, registrations>>

\* EPOLLIN makes a read of the event, anything else a write.
ReportedType(fd) == IF interest[fd] = "read" THEN "read" ELSE "write"

\* The smallest descriptors, as many as fit.
Harvested == {fd \in edges : Cardinality({e \in edges : e < fd}) < Harvest}

\* db_event_loop_step: epoll hands over every edge, the reactor passes on the first
\* maxEvents of them, and a continuation is forgotten when its event is seen. The
\* task built for it is given to nobody.
db_event_loop_step ==
  LET keys(fds) == {<<fd, ReportedType(fd)>> : fd \in fds}
  IN  /\ ~use_uring /\ edges # {}
      /\ edges' = {}
      /\ waiting' = waiting \ keys(Harvested)
      /\ accepted' = accepted \ keys(Harvested)
      /\ woken' = woken \ keys(Harvested)
      /\ overflowed' = overflowed \cup {<<fd, interest[fd]>> : fd \in edges \ Harvested}
      /\ UNCHANGED <<use_uring, interest, registrations>>

\* db_event_loop_shutdown: the map is freed and the reactor's descriptor closed.
db_event_loop_shutdown ==
  /\ registrations > 0 /\ registrations' = MaxRegistrations
  /\ interest' = [fd \in Descriptors |-> Unwatched]
  /\ edges' = {} /\ waiting' = {} /\ accepted' = {} /\ woken' = {}
  /\ UNCHANGED <<use_uring, overflowed>>

EventNext == \/ \E fd \in Descriptors, type \in EventTypes, ready \in BOOLEAN :
                  db_event_loop_register(fd, type, ready)
             \/ \E fd \in Descriptors : Ready(fd) \/ Hup(fd)
             \/ db_event_loop_step \/ db_event_loop_shutdown

\* On the epoll substrate a continuation whose registration was accepted can be woken:
\* its descriptor is watched for its event, and an event that has happened since is
\* still with the kernel, unless it was harvested past the end of the array.
EventsReachWaiters ==
  ~use_uring => \A key \in waiting \cap accepted :
                  /\ interest[key[1]] = key[2]
                  /\ key \in woken => key[1] \in edges \/ key \in overflowed
=============================================================================
