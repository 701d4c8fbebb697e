-------------------------------- MODULE Pool --------------------------------
(***************************************************************************)
(* db/db_pool.c over db_shadow.c and db_pager.c, with the one interpreter  *)
(* thread that acquires, changes and releases pages in transactions.       *)
(* lastAccess values only matter by their order: rank counts the frames    *)
(* from the least to the most recently used.                               *)
(***************************************************************************)
EXTENDS Shadow, FiniteSets

CONSTANTS NFrames,    \* WLD_POOL_SIZE
          FixedPages, \* logical pages used without being allocated: db_catalog.c's 1,
                      \* db_auto_index.c's 5 and db_document.c's 100
          Registry,   \* db_sentry_temporal.c's page 2, used by its physical number
          MaxCreated, \* bound: pages engines allocate for themselves
          MaxPins,    \* bound: nested acquisitions of one page
          MaxStops    \* bound: restarts and power losses

ASSUME FramesAssumption == NFrames \in Nat \ {0}
ASSUME FixedAssumption == FixedPages \subseteq Pages
ASSUME RegistryAssumption == Registry \in 1 .. InitPages - 1

Frames == 1 .. NFrames

VARIABLES frames,   \* [id, ptr, pins, dirty] of every frame
          rank,     \* their order of use, 1 for the least recently used
          linked,   \* pins of db_pool_pin, never released
          held,     \* how often the thread holds each page
          ptr,      \* the pointer it got for it, a [page, mapping]
          writable, \* pages it acquired for writing
          created,  \* pages the engines allocated
          alive,    \* FALSE after exit() or a fault
          \* history: what was last stored in each logical page, the pages known
          \* at the last commit, those touched since, and those whose last store
          \* cannot be expected back
          want, savedUse, touched, strayed,
          stops

poolVars == <<frames, rank, linked>>
threadVars == <<held, ptr, writable, created>>
history == <<want, savedUse, touched, strayed, stops>>
vars == <<shadowVars, poolVars, threadVars, alive, history>>

InUse == FixedPages \cup created

\* The pages that have storage of their own.  One with a fixed number gets it when it is
\* first copied for writing, or when the allocator comes to its number, for an engine
\* that then shares it; until then it is read at its number, whoever has that by now.
Allotted == created \cup {l \in FixedPages : Entries(l) # {}}
NoPtr == [page |-> NoPage, mapping |-> 0]
FreeFrame == [id |-> 0, ptr |-> NoPtr, pins |-> 0, dirty |-> FALSE]
Unused == [f \in Frames |-> NFrames + 1 - f]

Resident(l) == {f \in Frames : frames[f].id = l}
FrameOf(l) == Least(Resident(l))
UnpinnedIgnored == Frames   \* mutant: pin counts are not looked at
Unpinned == {f \in Frames : frames[f].pins = 0}

\* find_lru_frame: lowest lastAccess among the frames nobody pinned.  Frames
\* never used share lastAccess 0; the scan then settles on the last of them.
LruFrame == CHOOSE f \in Unpinned : \A g \in Unpinned : rank[f] <= rank[g]
Touch(f) == rank' = [g \in Frames |-> IF g = f THEN NFrames
                                      ELSE IF rank[g] > rank[f] THEN rank[g] - 1 ELSE rank[g]]

\* A page pointer still points into the file.
Valid(p) == p.page # NoPage /\ p.mapping = mapping

-----------------------------------------------------------------------------
Init ==
  /\ ShadowInit
  /\ frames = [f \in Frames |-> FreeFrame] /\ rank = Unused
  /\ linked = [l \in Pages |-> 0] /\ held = [l \in Pages |-> 0]
  /\ ptr = [l \in Pages |-> NoPtr] /\ writable = {} /\ created = {}
  /\ alive = TRUE
  /\ want = [l \in Pages |-> 0] /\ savedUse = {}
  /\ touched = {} /\ strayed = {} /\ stops = 0

\* An engine makes itself a page; it finds in it what was there.
Create ==
  /\ alive /\ inTx /\ Cardinality(created) < MaxCreated
  /\ AllocatePage
  /\ created' = created \cup {pageCount}
  /\ want' = [want EXCEPT ![pageCount] = mem[FindPhysical(pageCount)]]
  /\ UNCHANGED <<poolVars, held, ptr, writable, alive, savedUse, touched, strayed,
                 stops>>

\* What both ways through db_pool_acquire end with: pin, stamp, hand out.
Hand(l, f, frame, forWrite) ==
  /\ frames' = [frames EXCEPT ![f] = [frame EXCEPT !.pins = @ + 1]]
  /\ Touch(f)
  /\ ptr' = [ptr EXCEPT ![l] = frame.ptr]
  /\ held' = [held EXCEPT ![l] = @ + 1]
  /\ writable' = IF forWrite THEN writable \cup {l} ELSE writable

MayAcquire(tx, l) == alive /\ l \in InUse /\ held[l] < MaxPins /\ (tx => inTx)

\* db_pool_acquire when the page is in the pool: tx and forWrite are not looked
\* at, the frame stays as clean as it was.
AcquireHit(tx, l, forWrite) ==
  /\ MayAcquire(tx, l) /\ Resident(l) # {}
  /\ Hand(l, FrameOf(l), frames[FrameOf(l)], forWrite)
  /\ UNCHANGED <<shadowVars, linked, created, alive, history>>

\* msync of a dirty victim; one that points into an old mapping fails.
SyncVictim(victim) ==
  disk' = IF victim.dirty /\ Valid(victim.ptr)
          THEN [disk EXCEPT !.mem[victim.ptr.page] = mem[victim.ptr.page]]
          ELSE disk

\* Its pointer where the page is not in the pool.
Resolved(tx, l, forWrite) ==
  LET page == IF ~forWrite THEN GetRead(tx, l) ELSE IF tx THEN GetWrite ELSE NoPage
  IN  IF page = NoPage THEN NoPtr ELSE [page |-> page, mapping |-> mapping']

\* db_pool_acquire when it is not: reuse the frame of a victim.
AcquireMiss(tx, l, forWrite) ==
  /\ MayAcquire(tx, l) /\ Resident(l) = {} /\ Unpinned # {}
  /\ IF tx /\ forWrite
     THEN FindPhysical(l) < NewTotal /\ WritePage(l)
     ELSE UNCHANGED <<pageCount, table, mem, totalPages, mapping, inTx>>
  /\ SyncVictim(frames[LruFrame])
  /\ LET p == Resolved(tx, l, forWrite)
     IN  /\ Hand(l, LruFrame, [id |-> l, ptr |-> p, pins |-> 0, dirty |-> forWrite], forWrite)
         /\ strayed' = IF p.page = FindPhysical(l)' THEN strayed ELSE strayed \cup {l}
  /\ touched' = IF forWrite THEN touched \cup {l} ELSE touched
  /\ want' = IF l \in Allotted THEN want ELSE [want EXCEPT ![l] = mem[FindPhysical(l)]]
  /\ UNCHANGED <<linked, created, alive, savedUse, stops>>

\* Acquiring for writing a page that lies behind the end of the file, as page 100 of a
\* fresh file does: db_get_page_write copies from NULL.
Beyond(l) ==
  /\ MayAcquire(TRUE, l) /\ Resident(l) = {} /\ Unpinned # {}
  /\ Allocates /\ FindPhysical(l) >= NewTotal
  /\ SyncVictim(frames[LruFrame])
  /\ alive' = FALSE
  /\ UNCHANGED <<poolVars, threadVars, history>>

\* db_pool_acquire when all frames are pinned: exit(WLD_ERR_FULL).
Exhausted(l) ==
  /\ alive /\ l \in InUse /\ Resident(l) = {} /\ Unpinned = {}
  /\ alive' = FALSE
  /\ UNCHANGED <<shadowVars, poolVars, threadVars, history>>

\* db_pool_release
Release(l) ==
  /\ alive /\ held[l] > 0 /\ Resident(l) # {}
  /\ held' = [held EXCEPT ![l] = @ - 1]
  /\ IF held[l] = 1
     THEN writable' = writable \ {l} /\ ptr' = [ptr EXCEPT ![l] = NoPtr]
     ELSE UNCHANGED <<writable, ptr>>
  /\ frames' = [frames EXCEPT ![FrameOf(l)].pins = IF @ > 0 THEN @ - 1 ELSE @]
  /\ UNCHANGED <<shadowVars, rank, linked, created, alive, history>>

\* db_pool_pin, as a mapped record keeps a page
Pin(l) ==
  /\ alive /\ Resident(l) # {} /\ linked[l] < 1
  /\ frames' = [frames EXCEPT ![FrameOf(l)].pins = @ + 1]
  /\ linked' = [linked EXCEPT ![l] = @ + 1]
  /\ UNCHANGED <<shadowVars, rank, threadVars, alive, history>>

\* A page of a fixed number that was loaded for reading, from its number, is written
\* there as well: over the page that has its storage there by now.
Overwritten(l) ==
  {k \in Allotted \ {l} : l \in FixedPages /\ ptr[l].page = l /\ FindPhysical(k) = l}

\* The thread changes a page it holds for writing, through the pointer it has.
Store(l, v) ==
  /\ alive /\ l \in writable /\ Valid(ptr[l]) /\ v # mem[ptr[l].page]
  /\ mem' = [mem EXCEPT ![ptr[l].page] = v]
  /\ want' = [want EXCEPT ![l] = v]
  /\ touched' = touched \cup {l}
  /\ strayed' = strayed \cup Overwritten(l)
  /\ UNCHANGED <<pageCount, table, disk, totalPages, mapping, inTx, poolVars, threadVars,
                 alive, savedUse, stops>>

\* db_temporal_record_snapshot writes its page past the pool, the table and the
\* transaction: over the page that has its storage there.
RecordSnapshot(v) ==
  /\ alive /\ v # mem[Registry]
  /\ mem' = [mem EXCEPT ![Registry] = v]
  /\ strayed' = strayed \cup {l \in Allotted : FindPhysical(l) = Registry}
  /\ UNCHANGED <<pageCount, table, disk, totalPages, mapping, inTx, poolVars, threadVars,
                 alive, want, savedUse, touched, stops>>

\* The pointer is NULL, or was left dangling by grow_file: a fault.
Fault(l) ==
  /\ alive /\ held[l] > 0 /\ ~Valid(ptr[l])
  /\ alive' = FALSE
  /\ UNCHANGED <<shadowVars, poolVars, threadVars, history>>

\* Or the new mapping has come to lie where the pointer points.
Stray(l, p) ==
  /\ alive /\ l \in writable /\ ptr[l].page # NoPage /\ ~Valid(ptr[l])
  /\ p < totalPages
  /\ \E v \in Vals : mem' = [mem EXCEPT ![p] = v]
  /\ strayed' = Pages
  /\ UNCHANGED <<pageCount, table, disk, totalPages, mapping, inTx, poolVars, threadVars,
                 alive, want, savedUse, touched, stops>>

\* db_pool_flush
Flush ==
  LET dirty == {f \in Frames : frames[f].dirty /\ frames[f].ptr.page # NoPage}
      synced == {frames[f].ptr.page : f \in {g \in dirty : Valid(frames[g].ptr)}}
  IN  /\ alive
      /\ disk' = [disk EXCEPT !.mem = [p \in Pages |-> IF p \in synced THEN mem[p] ELSE @[p]]]
      /\ frames' = [f \in Frames |-> [frames[f] EXCEPT !.dirty = @ /\ f \notin dirty]]
      /\ UNCHANGED <<pageCount, table, mem, totalPages, mapping, inTx, rank, linked,
                     threadVars, alive, history>>

NothingHeld == \A l \in Pages : held[l] = 0

BeginTx == /\ alive /\ Begin
           /\ UNCHANGED <<poolVars, threadVars, alive, history>>

CommitTx == /\ alive /\ NothingHeld /\ Commit
            /\ savedUse' = created /\ touched' = {}
            /\ UNCHANGED <<poolVars, threadVars, alive, want, strayed, stops>>

RollbackTx == /\ alive /\ NothingHeld /\ Rollback
              /\ UNCHANGED <<poolVars, threadVars, alive, history>>

-----------------------------------------------------------------------------
\* The next process: db_pool_init, nothing held.
Again ==
  /\ stops < MaxStops
  /\ stops' = stops + 1
  /\ frames' = [f \in Frames |-> FreeFrame] /\ rank' = Unused
  /\ linked' = [l \in Pages |-> 0] /\ held' = [l \in Pages |-> 0]
  /\ ptr' = [l \in Pages |-> NoPtr] /\ writable' = {}
  /\ alive' = TRUE
  /\ UNCHANGED <<savedUse, want>>

Restart == /\ Again
           /\ \E closed \in BOOLEAN : (closed => alive) /\ Reopen(closed)
           /\ UNCHANGED <<created, touched, strayed>>

\* After a power loss the engines know the pages of the last commit.
Outage == /\ Again
          /\ \E kept \in SUBSET {p \in Pages : mem[p] # disk.mem[p]}, super \in BOOLEAN :
               PowerLoss(kept, super)
          /\ created' = savedUse
          /\ strayed' = strayed \cup touched /\ touched' = {}

Next ==
  \/ Create \/ Flush \/ BeginTx \/ CommitTx \/ RollbackTx \/ Restart \/ Outage
  \/ \E l \in Pages :
       \/ \E tx, forWrite \in BOOLEAN : AcquireHit(tx, l, forWrite) \/ AcquireMiss(tx, l, forWrite)
       \/ Exhausted(l) \/ Beyond(l) \/ Release(l) \/ Pin(l) \/ Fault(l)
       \/ \E v \in Vals : Store(l, v)
       \/ \E p \in Pages : Stray(l, p)
  \/ \E v \in Vals : RecordSnapshot(v)

Spec == Init /\ [][Next]_vars

-----------------------------------------------------------------------------
(* What the buffer pool and the shadow pager promise their callers.        *)

Pointers == [page : Pages \cup {NoPage}, mapping : Nat]

TypeOK ==
  /\ pageCount \in 1 .. TableLimit /\ totalPages \in 1 .. MaxPages
  /\ table \in [Indices -> (Pages \cup {0}) \X (Pages \cup {0})]
  /\ mem \in [Pages -> Vals] /\ disk.mem \in [Pages -> Vals]
  /\ mapping \in Nat /\ inTx \in BOOLEAN /\ alive \in BOOLEAN
  /\ frames \in [Frames -> [id : Pages \cup {0}, ptr : Pointers, pins : Nat, dirty : BOOLEAN]]
  /\ rank \in [Frames -> Frames]
  /\ held \in [Pages -> Nat] /\ linked \in [Pages -> Nat] /\ ptr \in [Pages -> Pointers]
  /\ writable \subseteq InUse /\ InUse \subseteq Pages

\* A logical page is in at most one frame: the scan of db_pool_acquire fills a
\* frame only for a page no frame has.
OneFrame == \A l \in Pages : Cardinality(Resident(l)) <= 1

\* A page the thread holds keeps its frame, at the address it was given, however
\* many other pages were acquired meanwhile; the frame's pin count is exactly the
\* holds and links that are out.
HeldStays ==
  alive => \A l \in Pages : held[l] + linked[l] > 0 =>
             \E f \in Resident(l) :
               /\ frames[f].pins = held[l] + linked[l]
               /\ held[l] > 0 => ptr[l] = frames[f].ptr

\* Pins hold what callers were given, and the pager's counters stay in the file and
\* its table (the parts are stated above).
PinsHold == TypeOK /\ OneFrame /\ HeldStays

\* No two logical pages that have storage share it, whatever numbers the count that is
\* also the table's length skips and whatever pages are used without being allocated.
\* All lie in the file.
PagesApart ==
  /\ \A l \in Allotted : FindPhysical(l) < totalPages
  /\ \A k, l \in Allotted : FindPhysical(k) = FindPhysical(l) => k = l

\* What is on storage is a prefix of the table: a commit is never taken back.
CommittedPrefix ==
  /\ disk.pageCount <= pageCount
  /\ \A i \in Indices : i < disk.pageCount => table[i] = disk.table[i]

\* A page with storage that was always loaded from where the table says it is, that
\* nobody wrote over by its physical number, and that was not touched by what a power
\* loss cut short, holds what was last stored in it.
StoresSurvive == \A l \in Allotted \ strayed : mem[FindPhysical(l)] = want[l]
=============================================================================
