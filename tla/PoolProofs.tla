----------------------------- MODULE PoolProofs -----------------------------
(***************************************************************************)
(* Proofs about db/db_pool.c over db_shadow.c and db_pager.c, for any      *)
(* number of frames, any file size and any length of the shadow table:     *)
(* what pins hold, where pages lie, and what a restart or a power loss     *)
(* leaves of the stores.                                                   *)
(***************************************************************************)
EXTENDS Pool, Searches, FiniteSetTheorems

-----------------------------------------------------------------------------
(* The inductive invariant.                                                *)

Names == Pages \cup {0}
Tabs == [Indices -> Names \X Names]
FrameRecs == [id : Names, ptr : Pointers, pins : Nat, dirty : BOOLEAN]

Types ==
  /\ pageCount \in 1 .. TableLimit /\ totalPages \in InitPages .. MaxPages
  /\ table \in Tabs /\ mem \in [Pages -> Vals]
  /\ disk \in [pageCount : 1 .. TableLimit, table : Tabs, mem : [Pages -> Vals]]
  /\ mapping \in Nat /\ inTx \in BOOLEAN /\ alive \in BOOLEAN
  /\ frames \in [Frames -> FrameRecs] /\ rank \in [Frames -> Frames]
  /\ held \in [Pages -> Nat] /\ linked \in [Pages -> Nat] /\ ptr \in [Pages -> Pointers]
  /\ writable \in SUBSET Pages /\ created \in SUBSET Pages /\ savedUse \in SUBSET Pages
  /\ want \in [Pages -> Vals]

\* The lookup of db_shadow.c in any table of n counted entries, to speak of the
\* table before and after a step.
EntriesIn(tab, n, l) == {i \in Indices : i < n /\ tab[i][1] = l}
FindIn(tab, n, l) == IF EntriesIn(tab, n, l) = {} THEN l
                     ELSE tab[Least(EntriesIn(tab, n, l))][2]

\* An entry at index i was appended when the count stood at i - 1: its copy is page
\* i - 1, so no two entries share a copy.
TableSound(tab, n, total) ==
  \A i \in Indices : tab[i][1] # 0 => i < n /\ tab[i][2] = i - 1 /\ i <= total

\* An append moves the count by two, so it may overtake the file by one page.
TablesSound ==
  /\ pageCount <= totalPages + 1
  /\ TableSound(table, pageCount, totalPages)
  /\ TableSound(disk.table, disk.pageCount, totalPages)
  /\ CommittedPrefix

\* A page an engine allocated is nobody's copy: the entry that would make it one
\* was skipped.
Reserved(l) == l < totalPages /\ (l + 1 \in Indices => table[l + 1][1] = 0)
UseSound ==
  /\ \A l \in created : l < pageCount /\ Reserved(l)
  /\ \A l \in savedUse : l \in created /\ l < disk.pageCount

\* The physical pages a pointer to a logical page may ever have been given.
OwnIn(tab, l) == {NoPage, l} \cup {tab[i][2] : i \in {j \in Indices : tab[j][1] = l}}

IdsUnique == \A f, g \in Frames : frames[f].id # 0 /\ frames[f].id = frames[g].id => f = g
FrameSound(f) ==
  LET l == frames[f].id
  IN  l # 0 => /\ l \in InUse
               /\ frames[f].pins = held[l] + linked[l]
               /\ held[l] > 0 => ptr[l] = frames[f].ptr
               /\ frames[f].ptr.page \in OwnIn(table, l)
               /\ l \in strayed \/ frames[f].ptr.page = FindIn(table, pageCount, l)
FramesSound ==
  /\ IdsUnique
  /\ \A f \in Frames : FrameSound(f)
  /\ \A l \in Pages : held[l] + linked[l] > 0 => \E f \in Frames : frames[f].id = l
  /\ \A l \in writable : held[l] > 0

\* Copied: the pages of fixed numbers that have storage.  Saved: those that would have
\* it after a power loss, unless their first copy is yet to be committed.
Copied == {l \in FixedPages : EntriesIn(table, pageCount, l) # {}}
Saved == savedUse \cup Copied

\* A page that was not touched since the commit has the entries the commit wrote,
\* and storage holds what was last stored in it.
StoresSound ==
  /\ \A l \in created \cup Copied :
        l \in strayed \/ mem[FindIn(table, pageCount, l)] = want[l]
  /\ \A i \in Indices : table[i][1] # 0 /\ i >= disk.pageCount
                          => table[i][1] \in touched \cup strayed
  /\ \A l \in Saved : \/ l \in touched \cup strayed
                      \/ disk.mem[FindIn(table, pageCount, l)] = want[l]

IInv == Types /\ TablesSound /\ UseSound /\ FramesSound /\ StoresSound

-----------------------------------------------------------------------------
(* The lookup.                                                             *)

LEMMA ConstantFacts ==
  /\ InitPages \in Nat /\ InitPages > 1 /\ MaxPages \in Nat /\ MaxPages >= InitPages
  /\ TableLimit \in Nat /\ TableLimit > 2 /\ NFrames \in Nat /\ NFrames > 0
  /\ 0 \in Vals /\ FixedPages \subseteq Pages /\ Registry \in Pages
BY PagesAssumption, LimitAssumption, ValsAssumption, FramesAssumption, FixedAssumption,
   RegistryAssumption DEF Pages

LEMMA FindPhysicalIn ==
  ASSUME NEW l
  PROVE  /\ FindPhysical(l) = FindIn(table, pageCount, l)
         /\ Entries(l) = EntriesIn(table, pageCount, l)
BY DEF FindPhysical, FindIn, Entries, EntriesIn

\* The entry a lookup settles on.
LEMMA FindFirst ==
  ASSUME NEW tab, NEW n, NEW l, EntriesIn(tab, n, l) # {}
  PROVE  \E i \in EntriesIn(tab, n, l) :
           /\ FindIn(tab, n, l) = tab[i][2]
           /\ \A j \in EntriesIn(tab, n, l) : i <= j
<1> DEFINE S == EntriesIn(tab, n, l)
<1>1. S \in SUBSET Nat /\ S # {}
  BY ConstantFacts DEF EntriesIn, Indices
<1>2. Least(S) = FirstOf(S)
  BY DEF Least, FirstOf
<1>3. FirstOf(S) \in S /\ \A j \in S : FirstOf(S) <= j
  BY <1>1, LeastElement
<1> QED BY <1>2, <1>3 DEF FindIn

\* Where the entries of a page are the same, so is what a lookup finds.
LEMMA FindSame ==
  ASSUME NEW t, NEW u, NEW n, NEW m, NEW l,
         EntriesIn(t, n, l) = EntriesIn(u, m, l),
         \A i \in EntriesIn(t, n, l) : t[i] = u[i]
  PROVE  FindIn(t, n, l) = FindIn(u, m, l)
<1>1. CASE EntriesIn(t, n, l) = {}
  BY <1>1 DEF FindIn
<1>2. CASE EntriesIn(t, n, l) # {}
  <2>1. PICK i \in EntriesIn(t, n, l) :
          FindIn(t, n, l) = t[i][2] /\ \A j \in EntriesIn(t, n, l) : i <= j
    BY <1>2, FindFirst
  <2>2. PICK k \in EntriesIn(u, m, l) :
          FindIn(u, m, l) = u[k][2] /\ \A j \in EntriesIn(u, m, l) : k <= j
    BY <1>2, FindFirst
  <2>3. i \in Nat /\ k \in Nat /\ i <= k /\ k <= i
    BY <2>1, <2>2, ConstantFacts DEF EntriesIn, Indices
  <2> QED BY <2>1, <2>2, <2>3
<1> QED BY <1>1, <1>2

\* Entries appended behind those a page has do not change what a lookup finds.
LEMMA FindAppended ==
  ASSUME NEW t, NEW u, NEW n, NEW m, NEW l, EntriesIn(t, n, l) # {},
         EntriesIn(t, n, l) \subseteq EntriesIn(u, m, l),
         \A i \in EntriesIn(t, n, l) : t[i] = u[i],
         \A i \in EntriesIn(t, n, l), j \in EntriesIn(u, m, l) :
            j \in EntriesIn(t, n, l) \/ i < j
  PROVE  FindIn(t, n, l) = FindIn(u, m, l)
<1>1. PICK i \in EntriesIn(t, n, l) :
        FindIn(t, n, l) = t[i][2] /\ \A j \in EntriesIn(t, n, l) : i <= j
  BY FindFirst
<1>2. PICK k \in EntriesIn(u, m, l) :
        FindIn(u, m, l) = u[k][2] /\ \A j \in EntriesIn(u, m, l) : k <= j
  BY FindFirst
<1>3. i \in Nat /\ k \in Nat /\ k <= i
  BY <1>1, <1>2, ConstantFacts DEF EntriesIn, Indices
<1>4. i = k
  BY <1>1, <1>2, <1>3
<1> QED BY <1>1, <1>2, <1>4

\* A lookup finds a page of the file that the logical page owns.
LEMMA FindOwned ==
  ASSUME NEW tab \in Tabs, NEW n, NEW total \in Nat, NEW l \in Pages,
         TableSound(tab, n, total)
  PROVE  /\ FindIn(tab, n, l) \in OwnIn(tab, l) \ {NoPage}
         /\ l < total \/ EntriesIn(tab, n, l) # {} => FindIn(tab, n, l) < total
         /\ FindIn(tab, n, l) \in Pages
<1>1. CASE EntriesIn(tab, n, l) = {}
  BY <1>1, ConstantFacts DEF FindIn, OwnIn, NoPage, Pages
<1>2. CASE EntriesIn(tab, n, l) # {}
  <2>1. PICK i \in EntriesIn(tab, n, l) : FindIn(tab, n, l) = tab[i][2]
    BY <1>2, FindFirst
  <2>2. i \in Indices /\ tab[i][1] = l /\ l # 0 /\ tab[i] \in Names \X Names
    BY <2>1, ConstantFacts DEF EntriesIn, Tabs, Pages
  <2>3. tab[i][2] = i - 1 /\ i <= total /\ i > 1 /\ i \in Nat /\ tab[i][2] \in Names
    BY <2>2, ConstantFacts DEF TableSound, Indices
  <2> QED BY <2>1, <2>2, <2>3 DEF OwnIn, NoPage, Names
<1> QED BY <1>1, <1>2

-----------------------------------------------------------------------------
(* What the invariant says of pages and frames.                            *)

LEMMA InUsePages ==
  ASSUME Types, NEW l \in InUse
  PROVE  l \in Pages /\ l # 0
BY ConstantFacts DEF Types, InUse, Pages

LEMMA AllottedIn ==
  /\ Allotted = created \cup Copied
  /\ Allotted \subseteq InUse
BY FindPhysicalIn DEF Allotted, Copied, InUse

\* A lookup finds a page of its own; that of a page with storage lies in the file.
LEMMA FoundPlace ==
  ASSUME Types, TablesSound, NEW l \in Pages
  PROVE  /\ FindIn(table, pageCount, l) \in OwnIn(table, l) \ {NoPage}
         /\ FindIn(table, pageCount, l) \in Pages
<1>1. totalPages \in Nat /\ table \in Tabs /\ TableSound(table, pageCount, totalPages)
  BY ConstantFacts DEF Types, TablesSound
<1> QED BY <1>1, FindOwned

LEMMA FoundOwned ==
  ASSUME Types, TablesSound, UseSound, NEW l \in created \cup Copied
  PROVE  /\ l \in Pages /\ l # 0 /\ l \in InUse
         /\ FindIn(table, pageCount, l) \in OwnIn(table, l) \ {NoPage}
         /\ FindIn(table, pageCount, l) < totalPages
         /\ FindIn(table, pageCount, l) \in Pages
<1>1. totalPages \in Nat /\ table \in Tabs /\ TableSound(table, pageCount, totalPages)
  BY ConstantFacts DEF Types, TablesSound
<1>2. l \in InUse /\ l \in Pages /\ l # 0
  BY InUsePages, AllottedIn
<1>3. l < totalPages \/ EntriesIn(table, pageCount, l) # {}
  BY DEF UseSound, Reserved, Copied
<1> QED BY <1>1, <1>2, <1>3, FindOwned

\* What has storage is found at its own number, which an engine allocated, or at the
\* copy of its first entry.
LEMMA FoundCases ==
  ASSUME Types, TablesSound, UseSound, NEW l \in created \cup Copied
  PROVE  \/ l \in created /\ FindIn(table, pageCount, l) = l
         \/ \E i \in Indices : /\ table[i][1] = l /\ table[i][2] = i - 1 /\ i < pageCount
                               /\ FindIn(table, pageCount, l) = i - 1
<1>0. l # 0
  BY FoundOwned
<1>1. CASE EntriesIn(table, pageCount, l) = {}
  BY <1>1 DEF FindIn, Copied
<1>2. CASE EntriesIn(table, pageCount, l) # {}
  <2>1. PICK i \in EntriesIn(table, pageCount, l) : FindIn(table, pageCount, l) = table[i][2]
    BY <1>2, FindFirst
  <2> QED BY <1>0, <2>1 DEF EntriesIn, TablesSound, TableSound
<1> QED BY <1>1, <1>2

\* The page of an engine is nobody's copy.
LEMMA CreatedApart ==
  ASSUME Types, UseSound, NEW l \in created, NEW i \in Indices, i - 1 = l
  PROVE  table[i][1] = 0
<1>1. l \in Nat /\ i \in Nat
  BY ConstantFacts DEF Types, Pages, Indices
<1>2. l + 1 = i
  BY <1>1
<1> QED BY <1>2 DEF UseSound, Reserved

\* Two pages with storage do not share it.
LEMMA FoundApart ==
  ASSUME Types, TablesSound, UseSound, NEW k \in created \cup Copied,
         NEW l \in created \cup Copied, k # l
  PROVE  FindIn(table, pageCount, k) # FindIn(table, pageCount, l)
<1>0. k # 0 /\ l # 0
  BY FoundOwned
<1>1. CASE k \in created /\ FindIn(table, pageCount, k) = k
  BY <1>0, <1>1, FoundCases, CreatedApart
<1>2. CASE l \in created /\ FindIn(table, pageCount, l) = l
  BY <1>0, <1>2, FoundCases, CreatedApart
<1>3. ASSUME NEW i \in Indices, NEW j \in Indices, table[i][1] = k, table[j][1] = l
      PROVE  i - 1 # j - 1
  BY <1>3, ConstantFacts DEF Indices
<1> QED BY <1>1, <1>2, <1>3, FoundCases

\* A pointer to another page reaches the storage of a page at most where the other has
\* none and lies at its number.
LEMMA OwnApart ==
  ASSUME Types, TablesSound, UseSound, NEW k \in created \cup Copied, NEW l \in InUse,
         k # l, FindIn(table, pageCount, k) \in OwnIn(table, l)
  PROVE  FindIn(table, pageCount, k) = l /\ l \in FixedPages
<1> DEFINE p == FindIn(table, pageCount, k)
<1>0. k # 0 /\ l # 0 /\ p # NoPage
  BY FoundOwned, InUsePages
<1>1. p = l
  <2> SUFFICES ASSUME NEW i \in Indices, table[i][1] = l, table[i][2] = p PROVE FALSE
    BY <1>0 DEF OwnIn
  <2>1. p = i - 1
    BY <1>0 DEF TablesSound, TableSound
  <2>2. ~ (k \in created /\ p = k)
    BY <1>0, <2>1, CreatedApart
  <2>3. PICK j \in Indices : table[j][1] = k /\ p = j - 1
    BY <2>2, FoundCases
  <2> QED BY <2>1, <2>3, ConstantFacts DEF Indices
<1>2. l \notin created
  <2> SUFFICES ASSUME l \in created PROVE FALSE
    OBVIOUS
  <2>1. PICK j \in Indices : table[j][1] = k /\ p = j - 1
    BY <1>1, FoundCases
  <2> QED BY <1>0, <1>1, <2>1, CreatedApart
<1> QED BY <1>1, <1>2 DEF InUse

\* The frame the scan of db_pool_acquire stops at is the only one with the page.
LEMMA TheFrame ==
  ASSUME NEW l, Resident(l) # {}
  PROVE  FrameOf(l) \in Frames /\ frames[FrameOf(l)].id = l
<1>1. Resident(l) \in SUBSET Nat
  BY ConstantFacts DEF Resident, Frames
<1>2. FirstOf(Resident(l)) \in Resident(l)
  BY <1>1, LeastElement
<1>3. FrameOf(l) = FirstOf(Resident(l))
  BY DEF FrameOf, Least, FirstOf
<1> QED BY <1>2, <1>3 DEF Resident

\* find_lru_frame settles on a frame nobody pinned.
LEMMA TheVictim ==
  ASSUME Types, Unpinned # {}
  PROVE  LruFrame \in Frames /\ frames[LruFrame].pins = 0
<1> DEFINE R == {rank[f] : f \in Unpinned}
<1>1. R \in SUBSET Nat /\ R # {}
  <2>1. \A f \in Frames : rank[f] \in Nat
    BY ConstantFacts DEF Types, Frames
  <2> QED BY <2>1 DEF Unpinned
<1>2. FirstOf(R) \in R /\ \A r \in R : FirstOf(R) <= r
  BY <1>1, LeastElement
<1>3. \E f \in Unpinned : \A g \in Unpinned : rank[f] <= rank[g]
  <2>1. PICK f \in Unpinned : rank[f] = FirstOf(R)
    BY <1>2
  <2> QED BY <2>1, <1>2
<1>4. LruFrame \in Unpinned
  BY <1>3 DEF LruFrame
<1> QED BY <1>4 DEF Unpinned

\* The page db_pager_allocate hands out, growing the file before it if need be.
LEMMA NextPage ==
  ASSUME Types, TablesSound, Room
  PROVE  /\ pageCount \in Pages /\ pageCount < NewTotal
         /\ NewTotal \in InitPages .. MaxPages /\ totalPages <= NewTotal
         /\ pageCount + 1 \in 1 .. TableLimit
         /\ NewTotal \in Nat /\ totalPages \in Nat
BY ConstantFacts DEF Types, TablesSound, Room, NewTotal, FileFull, Pages

\* A step of db_get_page_write appends at most one entry, behind the counted ones.
LEMMA WriteAppends ==
  ASSUME Types, TablesSound, NEW l \in InUse, l \in Pages, WritePage(l)
  PROVE  /\ table' \in Tabs /\ pageCount' \in 1 .. TableLimit
         /\ totalPages' = NewTotal /\ pageCount < pageCount' /\ pageCount' <= pageCount + 2
         /\ \A i \in Indices : i # pageCount + 1 \/ TableFull => table'[i] = table[i]
         /\ ~TableFull => /\ pageCount + 1 \in Indices /\ pageCount' = pageCount + 2
                          /\ table'[pageCount + 1] = <<l, pageCount>>
         /\ TableFull => table' = table /\ pageCount' = pageCount + 1
         /\ mem' = [mem EXCEPT ![pageCount] = mem[FindIn(table, pageCount, l)]]
<1>1. pageCount \in Pages /\ pageCount + 1 \in 1 .. TableLimit /\ pageCount \in Nat
  BY NextPage, ConstantFacts DEF WritePage, Pages
<1>2. FindPhysical(l) = FindIn(table, pageCount, l)
  BY FindPhysicalIn
<1>3. CASE TableFull
  BY <1>1, <1>2, <1>3 DEF WritePage, Types
<1>4. CASE ~TableFull
  <2>1. pageCount + 1 \in Indices /\ pageCount + 2 \in 1 .. TableLimit
    BY <1>1, <1>4, ConstantFacts DEF TableFull, Indices, Pages
  <2>2. table \in Tabs /\ <<l, pageCount>> \in Names \X Names
    BY <1>1 DEF Types, Names
  <2>3. table' = [table EXCEPT ![pageCount + 1] = <<l, pageCount>>]
        /\ pageCount' = pageCount + 2
    BY <1>4 DEF WritePage
  <2>4. table' \in Tabs
    BY <2>1, <2>2, <2>3 DEF Tabs
  <2>5. \A i \in Indices : i # pageCount + 1 => table'[i] = table[i]
    BY <2>2, <2>3 DEF Tabs
  <2>6. table'[pageCount + 1] = <<l, pageCount>>
    BY <2>1, <2>2, <2>3 DEF Tabs
  <2> QED BY <1>1, <1>2, <1>4, <2>1, <2>3, <2>4, <2>5, <2>6 DEF WritePage
<1> QED BY <1>3, <1>4

-----------------------------------------------------------------------------
(* Initially.                                                              *)

LEMMA IInvInit == Init => IInv
<1> SUFFICES ASSUME Init PROVE IInv
  OBVIOUS
<1> USE ConstantFacts
<1>1. \A i \in Indices : table[i] = <<0, 0>> /\ disk.table[i] = <<0, 0>>
  BY DEF Init, ShadowInit
<1>2. Types
  <2>1. table \in Tabs
    BY DEF Init, ShadowInit, Tabs, Names
  <2>2. /\ pageCount \in 1 .. TableLimit /\ totalPages \in InitPages .. MaxPages
        /\ mem \in [Pages -> Vals] /\ mapping \in Nat /\ inTx \in BOOLEAN
    <3>1. pageCount = 1 /\ totalPages = InitPages /\ mapping = 0 /\ inTx = FALSE
      BY DEF Init, ShadowInit
    <3>2. mem = [p \in Pages |-> 0]
      BY DEF Init, ShadowInit
    <3>3. mem \in [Pages -> Vals]
      BY <3>2
    <3>4. pageCount \in 1 .. TableLimit /\ totalPages \in InitPages .. MaxPages
      BY <3>1
    <3> QED BY <3>1, <3>3, <3>4
  <2>3. disk \in [pageCount : 1 .. TableLimit, table : Tabs, mem : [Pages -> Vals]]
    BY <2>1, <2>2 DEF Init, ShadowInit
  <2>4. frames \in [Frames -> FrameRecs] /\ rank \in [Frames -> Frames]
    BY DEF Init, FreeFrame, NoPtr, NoPage, FrameRecs, Names, Pointers, Frames, Unused
  <2>5. /\ held \in [Pages -> Nat] /\ linked \in [Pages -> Nat]
        /\ ptr \in [Pages -> Pointers] /\ alive \in BOOLEAN
    BY DEF Init, NoPtr, NoPage, Pointers
  <2>6. /\ writable \in SUBSET Pages /\ created \in SUBSET Pages
        /\ savedUse \in SUBSET Pages /\ want \in [Pages -> Vals]
    BY DEF Init
  <2> QED BY <2>1, <2>2, <2>3, <2>4, <2>5, <2>6 DEF Types
<1>3. TablesSound
  BY <1>1 DEF Init, ShadowInit, TablesSound, TableSound, CommittedPrefix
<1>4. UseSound
  BY DEF Init, UseSound
<1>5. FramesSound
  BY DEF Init, FreeFrame, FramesSound, IdsUnique, FrameSound
<1>6. StoresSound
  <2>1. \A l \in Pages : EntriesIn(table, pageCount, l) = {}
    BY <1>1 DEF EntriesIn, Pages
  <2>2. Copied = {}
    BY <2>1 DEF Copied
  <2> QED BY <1>1, <2>2 DEF Init, ShadowInit, StoresSound, Saved
<1> QED BY <1>2, <1>3, <1>4, <1>5, <1>6 DEF IInv

-----------------------------------------------------------------------------
(* Types are kept.                                                         *)

LEMMA HandTypes ==
  ASSUME Types, NEW l \in Pages, NEW f \in Frames, NEW frame \in FrameRecs,
         NEW forWrite, Hand(l, f, frame, forWrite)
  PROVE  /\ frames' \in [Frames -> FrameRecs] /\ rank' \in [Frames -> Frames]
         /\ held' \in [Pages -> Nat] /\ ptr' \in [Pages -> Pointers]
         /\ writable' \in SUBSET Pages
<1>1. [frame EXCEPT !.pins = @ + 1] \in FrameRecs /\ frame.ptr \in Pointers
  BY DEF FrameRecs
<1>2. rank' \in [Frames -> Frames]
  <2>1. \A f1, f2 \in Frames : f1 > f2 => f1 - 1 \in Frames
    BY ConstantFacts DEF Frames
  <2>2. NFrames \in Frames
    BY ConstantFacts DEF Frames
  <2> QED BY <2>1, <2>2 DEF Hand, Touch, Types
<1>3. frames' \in [Frames -> FrameRecs]
  BY <1>1 DEF Hand, Types
<1>4. held' \in [Pages -> Nat] /\ ptr' \in [Pages -> Pointers]
  BY <1>1 DEF Hand, Types
<1>5. writable' \in SUBSET Pages
  BY DEF Hand, Types
<1> QED BY <1>2, <1>3, <1>4, <1>5

LEMMA SyncTypes ==
  ASSUME Types, NEW victim \in FrameRecs, SyncVictim(victim)
  PROVE  /\ disk'.pageCount = disk.pageCount /\ disk'.table = disk.table
         /\ disk' \in [pageCount : 1 .. TableLimit, table : Tabs, mem : [Pages -> Vals]]
         /\ \A p \in Pages : disk'.mem[p] = disk.mem[p] \/ disk'.mem[p] = mem[p]
<1>1. CASE victim.dirty /\ Valid(victim.ptr)
  <2>1. victim.ptr.page \in Pages
    BY <1>1 DEF Valid, FrameRecs, Pointers
  <2> QED BY <1>1, <2>1 DEF SyncVictim, Types
<1>2. CASE ~(victim.dirty /\ Valid(victim.ptr))
  BY <1>2 DEF SyncVictim, Types
<1> QED BY <1>1, <1>2

\* The pointer db_pool_acquire gets for a page it loads.
LEMMA MissFacts ==
  ASSUME IInv, NEW l \in InUse, NEW tx \in BOOLEAN, NEW forWrite \in BOOLEAN,
         AcquireMiss(tx, l, forWrite)
  PROVE  /\ l \in Pages
         /\ pageCount' \in 1 .. TableLimit /\ totalPages' \in InitPages .. MaxPages
         /\ table' \in Tabs /\ mem' \in [Pages -> Vals] /\ mapping' \in Nat
         /\ inTx' \in BOOLEAN
         /\ want' \in [Pages -> Vals]
         /\ Resolved(tx, l, forWrite) \in Pointers
<1> USE DEF IInv
<1>1. l \in Pages
  BY InUsePages
<1>4. FindPhysical(l) = FindIn(table, pageCount, l) /\ FindIn(table, pageCount, l) \in Pages
  BY <1>1, FoundPlace, FindPhysicalIn
<1>5. want' \in [Pages -> Vals]
  BY <1>1, <1>4 DEF AcquireMiss, Types
<1>2. CASE tx /\ forWrite
  <2>1. WritePage(l)
    BY <1>2 DEF AcquireMiss
  <2>2. Room
    BY <2>1 DEF WritePage
  <2>3. pageCount \in Pages /\ NewTotal \in InitPages .. MaxPages
    BY <2>2, NextPage
  <2>4. mem[FindIn(table, pageCount, l)] \in Vals
    BY <1>4 DEF Types
  <2>5. mem' \in [Pages -> Vals] /\ table' \in Tabs /\ pageCount' \in 1 .. TableLimit
        /\ totalPages' \in InitPages .. MaxPages
    BY <2>1, <2>3, <2>4, <1>1, WriteAppends DEF Types
  <2>6. mapping' \in Nat /\ inTx' \in BOOLEAN
    BY <2>1 DEF WritePage, Remap, Types
  <2>7. Resolved(tx, l, forWrite) \in Pointers
    BY <1>2, <2>3, <2>6 DEF Resolved, GetWrite, Pointers, NoPtr, NoPage
  <2> QED BY <1>1, <1>5, <2>5, <2>6, <2>7
<1>3. CASE ~(tx /\ forWrite)
  <2>1. UNCHANGED <<pageCount, table, mem, totalPages, mapping, inTx>>
    BY <1>3 DEF AcquireMiss
  <2>3. Resolved(tx, l, forWrite) \in Pointers
    BY <1>1, <1>3, <1>4, <2>1 DEF Resolved, GetRead, InFile, Pointers, NoPtr, NoPage, Types
  <2> QED BY <1>1, <1>5, <2>1, <2>3 DEF Types
<1> QED BY <1>2, <1>3

-----------------------------------------------------------------------------
(* Every action keeps the invariant.                                       *)

\* Beginning, rolling back, and dying touch neither pages nor frames.
LEMMA QuietKeeps ==
  ASSUME IInv, inTx' \in BOOLEAN, alive' \in BOOLEAN,
         UNCHANGED <<pageCount, table, mem, disk, totalPages, mapping, poolVars,
                     threadVars, want, savedUse, touched, strayed>>
  PROVE  IInv'
<1> USE DEF IInv, poolVars, threadVars
<1>1. Types'
  BY DEF Types
<1>2. TablesSound'
  BY DEF TablesSound, TableSound, CommittedPrefix
<1>3. UseSound'
  BY DEF UseSound, Reserved
<1>4. FramesSound'
  BY DEF FramesSound, IdsUnique, FrameSound, InUse
<1>5. StoresSound'
  BY DEF StoresSound, Saved, Copied
<1> QED BY <1>1, <1>2, <1>3, <1>4, <1>5

\* A page known at the last commit has storage.
LEMMA SavedOwned ==
  ASSUME Types, TablesSound, UseSound, NEW l \in Saved
  PROVE  l \in created \cup Copied /\ FindIn(table, pageCount, l) \in Pages
<1>1. l \in created \cup Copied
  BY DEF Saved, UseSound
<1> QED BY <1>1, FoundOwned

LEMMA FlushKeeps ==
  ASSUME IInv, Flush
  PROVE  IInv'
<1> USE DEF IInv, poolVars, threadVars, history, vars
<1>0. /\ UNCHANGED <<pageCount, table, mem, totalPages, mapping, inTx, rank, linked, held,
                     ptr, writable, created, alive, want, savedUse, touched, strayed>>
      /\ disk' \in [pageCount : 1 .. TableLimit, table : Tabs, mem : [Pages -> Vals]]
      /\ disk'.pageCount = disk.pageCount /\ disk'.table = disk.table
      /\ \A p \in Pages : disk'.mem[p] = disk.mem[p] \/ disk'.mem[p] = mem[p]
  BY DEF Flush, Types
<1>1. frames' \in [Frames -> FrameRecs]
      /\ \A f \in Frames : /\ frames'[f].id = frames[f].id /\ frames'[f].pins = frames[f].pins
                           /\ frames'[f].ptr = frames[f].ptr
  BY DEF Flush, Types, FrameRecs
<1>2. Types'
  BY <1>0, <1>1 DEF Types
<1>3. TablesSound'
  BY <1>0 DEF TablesSound, TableSound, CommittedPrefix
<1>4. UseSound'
  BY <1>0 DEF UseSound, Reserved
<1>5. FramesSound'
  BY <1>0, <1>1 DEF FramesSound, IdsUnique, FrameSound, InUse
<1>6. StoresSound'
  <2>2. ASSUME NEW l \in Saved, l \notin touched \cup strayed
        PROVE  disk'.mem[FindIn(table, pageCount, l)] = want[l]
    BY <1>0, <2>2, SavedOwned DEF StoresSound
  <2> QED BY <1>0, <2>2 DEF StoresSound, Saved, Copied
<1> QED BY <1>2, <1>3, <1>4, <1>5, <1>6

LEMMA CommitKeeps ==
  ASSUME IInv, CommitTx
  PROVE  IInv'
<1> USE DEF IInv, poolVars, threadVars
<1>0. /\ UNCHANGED <<pageCount, table, mem, totalPages, mapping, frames, rank, linked, held,
                     ptr, writable, created, alive, want, strayed>>
      /\ disk' = [pageCount |-> pageCount, table |-> table, mem |-> mem]
      /\ savedUse' = created /\ touched' = {} /\ inTx' = FALSE
  BY DEF CommitTx, Commit
<1>1. Types'
  <2>2. inTx' \in BOOLEAN
    BY <1>0
  <2>3. disk' \in [pageCount : 1 .. TableLimit, table : Tabs, mem : [Pages -> Vals]]
    BY <1>0 DEF Types
  <2>4. savedUse' \in SUBSET Pages
    BY <1>0 DEF Types
  <2> QED BY <1>0, <2>2, <2>3, <2>4 DEF Types
<1>2. TablesSound'
  <2>1. disk'.pageCount = pageCount /\ disk'.table = table /\ pageCount \in Nat
    BY <1>0, ConstantFacts DEF Types
  <2> QED BY <1>0, <2>1 DEF TablesSound, TableSound, CommittedPrefix
<1>3. UseSound'
  BY <1>0 DEF UseSound, Reserved, InUse
<1>4. FramesSound'
  BY <1>0 DEF FramesSound, IdsUnique, FrameSound, InUse
<1>5. StoresSound'
  <2>1. \A i \in Indices : table[i][1] # 0 => ~ (i >= pageCount)
    BY ConstantFacts DEF TablesSound, TableSound, Types, Indices
  <2>2. created' = created /\ Copied' = Copied /\ Saved' = created \cup Copied
    BY <1>0 DEF Saved, Copied
  <2>3. disk'.mem = mem /\ disk'.pageCount = pageCount
    BY <1>0
  <2> QED BY <1>0, <2>1, <2>2, <2>3 DEF StoresSound
<1> QED BY <1>1, <1>2, <1>3, <1>4, <1>5

\* The next process starts with no page in the pool and nothing held.
LEMMA AgainFacts ==
  ASSUME IInv, Again
  PROVE  /\ frames' \in [Frames -> FrameRecs] /\ rank' \in [Frames -> Frames]
         /\ held' \in [Pages -> Nat] /\ linked' \in [Pages -> Nat]
         /\ ptr' \in [Pages -> Pointers] /\ writable' \in SUBSET Pages /\ alive' \in BOOLEAN
         /\ UNCHANGED <<savedUse, want>>
         /\ FramesSound'
<1> USE ConstantFacts
<1>1. frames' \in [Frames -> FrameRecs] /\ rank' \in [Frames -> Frames]
  BY DEF Again, FreeFrame, NoPtr, NoPage, FrameRecs, Names, Pointers, Frames, Unused
<1>2. held' \in [Pages -> Nat] /\ linked' \in [Pages -> Nat] /\ ptr' \in [Pages -> Pointers]
  BY DEF Again, NoPtr, NoPage, Pointers
<1>3. alive' \in BOOLEAN /\ writable' \in SUBSET Pages
  BY DEF Again
<1>4. FramesSound'
  BY DEF Again, FreeFrame, FramesSound, IdsUnique, FrameSound
<1> QED BY <1>1, <1>2, <1>3, <1>4 DEF Again

LEMMA RestartKeeps ==
  ASSUME IInv, Restart
  PROVE  IInv'
<1> USE DEF IInv
<1>0. Again /\ UNCHANGED <<created, touched, strayed>>
  BY DEF Restart
<1>1. PICK closed \in BOOLEAN : Reopen(closed)
  BY DEF Restart
<1>2. /\ UNCHANGED <<pageCount, table, mem, totalPages>> /\ mapping' = 0 /\ inTx' = FALSE
      /\ disk' \in [pageCount : 1 .. TableLimit, table : Tabs, mem : [Pages -> Vals]]
      /\ disk'.mem = disk.mem
      /\ \/ disk'.pageCount = disk.pageCount /\ disk'.table = disk.table
         \/ disk'.pageCount = pageCount /\ disk'.table = table
  BY <1>1 DEF Reopen, Types
<1>3. Types'
  <2>1. mapping' \in Nat
    BY <1>2
  <2>2. inTx' \in BOOLEAN
    BY <1>2
  <2> QED BY <1>0, <1>2, <2>1, <2>2, AgainFacts DEF Types
<1>4. TablesSound'
  BY <1>2 DEF TablesSound, TableSound, CommittedPrefix
<1>5. UseSound'
  <2>1. savedUse' = savedUse /\ created' = created
    BY <1>0, AgainFacts
  <2>2. \A l \in savedUse : l \in created /\ l < disk'.pageCount
    BY <1>2 DEF UseSound
  <2>3. \A l \in created : l < pageCount' /\ Reserved(l)'
    BY <1>2 DEF UseSound, Reserved
  <2> QED BY <2>1, <2>2, <2>3 DEF UseSound
<1>6. StoresSound'
  <2>1. \A i \in Indices : table[i][1] # 0 => ~ (i >= pageCount)
    BY ConstantFacts DEF TablesSound, TableSound, Types, Indices
  <2> QED BY <1>0, <1>2, <2>1, AgainFacts DEF StoresSound, Saved, Copied
<1> QED BY <1>0, <1>3, <1>4, <1>5, <1>6, AgainFacts

\* What a power loss leaves of the pages in memory, and of the pages engines know.
LEMMA OutageKeeps ==
  ASSUME IInv, Outage
  PROVE  IInv'
<1> USE DEF IInv
<1>0. /\ Again /\ created' = savedUse
      /\ strayed' = strayed \cup touched /\ touched' = {}
  BY DEF Outage
<1>1. PICK kept \in SUBSET Pages, super \in BOOLEAN : PowerLoss(kept, super)
  BY DEF Outage
<1>2. /\ \/ pageCount' = pageCount /\ table' = table
         \/ pageCount' = disk.pageCount /\ table' = disk.table
      /\ mem' \in [Pages -> Vals]
      /\ \A p \in Pages : mem'[p] = mem[p] \/ mem'[p] = disk.mem[p]
      /\ disk'.pageCount = pageCount' /\ disk'.table = table' /\ disk'.mem = mem'
      /\ disk' = [pageCount |-> pageCount', table |-> table', mem |-> mem']
      /\ mapping' = 0 /\ inTx' = FALSE /\ totalPages' = totalPages
  BY <1>1 DEF PowerLoss, Types
<1>3. /\ pageCount' \in 1 .. TableLimit /\ table' \in Tabs
      /\ pageCount' \in Nat /\ disk.pageCount \in Nat /\ pageCount \in Nat
      /\ disk.pageCount <= pageCount' /\ pageCount' <= pageCount
  BY <1>2, ConstantFacts DEF Types, TablesSound, CommittedPrefix
<1>4. Types'
  <2>1. mapping' \in Nat
    BY <1>2
  <2>2. inTx' \in BOOLEAN
    BY <1>2
  <2>3. disk' \in [pageCount : 1 .. TableLimit, table : Tabs, mem : [Pages -> Vals]]
    BY <1>2, <1>3
  <2>4. created' \in SUBSET Pages
    BY <1>0 DEF Types
  <2>5. totalPages' \in InitPages .. MaxPages
    BY <1>2 DEF Types
  <2>6. savedUse' \in SUBSET Pages /\ want' \in [Pages -> Vals]
    BY <1>0, AgainFacts DEF Types
  <2> QED BY <1>0, <1>2, <1>3, <2>1, <2>2, <2>3, <2>4, <2>5, <2>6, AgainFacts DEF Types
\* An entry of the table in memory that storage does not have is of a touched page.
<1>5. \A i \in Indices : table[i][1] # 0 =>
        \/ i < disk.pageCount /\ disk.table[i] = table[i]
        \/ i >= disk.pageCount /\ table[i][1] \in touched \cup strayed
  BY <1>3 DEF StoresSound, TablesSound, CommittedPrefix, Indices
<1>6. \A i \in Indices : disk.table[i][1] # 0 => disk.table[i] = table[i]
  BY DEF TablesSound, TableSound, CommittedPrefix
<1>7. TableSound(table', pageCount', totalPages)
  BY <1>2 DEF TablesSound
<1>8. TablesSound'
  <2>1. pageCount' <= totalPages' + 1
    BY <1>2, <1>3 DEF TablesSound, Types
  <2> QED BY <1>2, <1>3, <1>7, <2>1 DEF TablesSound, TableSound, CommittedPrefix
<1>9. UseSound'
  <2>1. savedUse' = savedUse
    BY <1>0, AgainFacts
  <2>2. \A l \in savedUse : l \in created /\ l < disk.pageCount
    BY DEF UseSound
  <2>3. \A l \in created, i \in Indices : i = l + 1 => table[i][1] = 0
    BY DEF UseSound, Reserved
  <2>4. \A i \in Indices : table[i][1] = 0 => table'[i][1] = 0
    BY <1>2, <1>6
  <2>5. \A l \in created' : Reserved(l)'
    BY <1>0, <1>2, <2>2, <2>3, <2>4 DEF UseSound, Reserved
  <2>6. \A l \in created' : l < pageCount'
    BY <1>0, <1>3, <2>2 DEF Types, Pages
  <2>7. \A l \in savedUse' : l \in created' /\ l < disk'.pageCount
    BY <1>0, <1>2, <2>1, <2>6
  <2> QED BY <2>5, <2>6, <2>7 DEF UseSound
<1>10. StoresSound'
  <2>1. savedUse' = savedUse /\ want' = want /\ created' = savedUse
    BY <1>0, AgainFacts
  <2>5. \A l \in Pages : EntriesIn(table', pageCount', l) \subseteq EntriesIn(table, pageCount, l)
    BY <1>2, <1>3, <1>6, ConstantFacts DEF EntriesIn, Pages, Indices
  <2>6. Copied' \subseteq Copied
    BY <2>5, ConstantFacts DEF Copied
  <2>2. ASSUME NEW l \in created' \cup Copied', l \notin strayed'
        PROVE  mem'[FindIn(table', pageCount', l)] = want[l]
    <3>1. l \in Saved /\ l \in created \cup Copied /\ l # 0
      BY <2>1, <2>6, SavedOwned, FoundOwned DEF Saved
    <3>2. l \notin strayed /\ l \notin touched
      BY <1>0, <2>2
    <3>3. /\ EntriesIn(table, pageCount, l) = EntriesIn(table', pageCount', l)
          /\ \A i \in EntriesIn(table, pageCount, l) : table[i] = table'[i]
      <4>1. CASE pageCount' = pageCount /\ table' = table
        BY <4>1
      <4>2. CASE pageCount' = disk.pageCount /\ table' = disk.table
        <5>1. ASSUME NEW i \in EntriesIn(table, pageCount, l)
              PROVE  i \in EntriesIn(table', pageCount', l) /\ table[i] = table'[i]
          BY <1>5, <3>1, <3>2, <4>2, <5>1 DEF EntriesIn
        <5>2. ASSUME NEW i \in EntriesIn(table', pageCount', l)
              PROVE  i \in EntriesIn(table, pageCount, l)
          BY <1>3, <1>6, <3>1, <4>2, <5>2 DEF EntriesIn, Indices
        <5> QED BY <5>1, <5>2
      <4> QED BY <1>2, <4>1, <4>2
    <3>4. FindIn(table', pageCount', l) = FindIn(table, pageCount, l)
      BY <3>3, FindSame
    <3>5. FindIn(table, pageCount, l) \in Pages
      BY <3>1, SavedOwned
    <3>6. /\ mem[FindIn(table, pageCount, l)] = want[l]
          /\ disk.mem[FindIn(table, pageCount, l)] = want[l]
      BY <3>1, <3>2 DEF StoresSound
    <3> QED BY <1>2, <3>4, <3>5, <3>6
  <2>3. \A i \in Indices : table'[i][1] # 0 => ~ (i >= disk'.pageCount)
    BY <1>2, <1>3, <1>7 DEF TableSound, Indices
  <2>4. Saved' = created' \cup Copied'
    BY <2>1 DEF Saved
  <2> QED BY <1>0, <1>2, <2>1, <2>2, <2>3, <2>4 DEF StoresSound
<1> QED BY <1>0, <1>4, <1>8, <1>9, <1>10, AgainFacts

\* An allocation passes an index without an entry: no lookup changes.
LEMMA AllocateLookup ==
  ASSUME IInv, Allocates, NEW l \in Pages
  PROVE  /\ EntriesIn(table', pageCount', l) = EntriesIn(table, pageCount, l)
         /\ FindIn(table', pageCount', l) = FindIn(table, pageCount, l)
<1>1. /\ table' = table /\ pageCount' = pageCount + 1 /\ pageCount \in Nat /\ l # 0
  BY ConstantFacts DEF Allocates, IInv, Types, Pages
<1>2. \A i \in Indices : i >= pageCount => table[i][1] = 0
  BY <1>1, ConstantFacts DEF IInv, TablesSound, TableSound, Indices
<1>3. EntriesIn(table', pageCount', l) = EntriesIn(table, pageCount, l)
  BY <1>1, <1>2, ConstantFacts DEF EntriesIn, Indices
<1> QED BY <1>1, <1>3 DEF FindIn

LEMMA AllocateFacts ==
  ASSUME IInv, Allocates, disk'.pageCount = disk.pageCount, disk'.table = disk.table
  PROVE  /\ pageCount \in Pages /\ pageCount \in Nat /\ pageCount' = pageCount + 1
         /\ pageCount < totalPages' /\ totalPages \in Nat /\ totalPages' \in Nat
         /\ totalPages <= totalPages'
         /\ pageCount' \in 1 .. TableLimit /\ totalPages' \in InitPages .. MaxPages
         /\ mapping' \in Nat
         /\ UNCHANGED <<table, mem, inTx, Copied>>
         /\ \A i \in Indices : i >= pageCount => table[i][1] = 0
         /\ TablesSound'
<1> USE DEF IInv
<1>0. /\ UNCHANGED <<table, mem, inTx>> /\ mapping' \in Nat
      /\ pageCount' = pageCount + 1 /\ totalPages' = NewTotal /\ Room
  BY DEF Allocates, Remap, Types
<1>1. /\ pageCount \in Pages /\ pageCount \in Nat
      /\ pageCount < totalPages' /\ totalPages' \in InitPages .. MaxPages
      /\ totalPages \in Nat /\ totalPages' \in Nat /\ totalPages <= totalPages'
      /\ pageCount' \in 1 .. TableLimit
  BY <1>0, NextPage, ConstantFacts DEF Pages
<1>2. UNCHANGED Copied
  BY AllocateLookup, ConstantFacts DEF Copied
<1>3. TableSound(table', pageCount', totalPages') /\ TableSound(disk'.table, disk'.pageCount, totalPages')
  BY <1>0, <1>1 DEF TablesSound, TableSound, Indices
<1>4. TablesSound'
  <2>1. pageCount' <= totalPages' + 1
    BY <1>0, <1>1
  <2>2. disk'.pageCount <= pageCount'
    BY <1>0, <1>1, ConstantFacts DEF TablesSound, CommittedPrefix, Types
  <2> QED BY <1>0, <1>3, <2>1, <2>2 DEF TablesSound, CommittedPrefix
<1>5. \A i \in Indices : i >= pageCount => table[i][1] = 0
  BY <1>1, ConstantFacts DEF TablesSound, TableSound, Indices
<1> QED BY <1>0, <1>1, <1>2, <1>4, <1>5

\* What the engines allocated stays apart from the copies.
LEMMA AllocateUse ==
  ASSUME IInv, Allocates, disk'.pageCount = disk.pageCount, disk'.table = disk.table
  PROVE  \A l \in created \cup {pageCount} : l < pageCount' /\ Reserved(l)'
<1> USE DEF IInv
<1>1. /\ pageCount \in Nat /\ pageCount' = pageCount + 1 /\ pageCount < totalPages'
      /\ totalPages \in Nat /\ totalPages' \in Nat /\ totalPages <= totalPages'
      /\ table' = table /\ \A i \in Indices : i >= pageCount => table[i][1] = 0
  BY AllocateFacts
<1>2. ASSUME NEW l \in created
      PROVE  l < pageCount' /\ Reserved(l)'
  <2>1. l \in Nat /\ l < pageCount /\ l < totalPages
        /\ (l + 1 \in Indices => table[l + 1][1] = 0)
    BY ConstantFacts DEF UseSound, Reserved, Types, Pages
  <2> QED BY <1>1, <2>1 DEF Reserved
<1>3. ASSUME NEW l, l = pageCount
      PROVE  l < pageCount' /\ Reserved(l)'
  BY <1>1, <1>3 DEF Reserved
<1> QED BY <1>2, <1>3

\* A page just allocated is nobody's copy.  Its number may be a fixed one, whose page
\* the engine then shares.
LEMMA CreateKeeps ==
  ASSUME IInv, Create
  PROVE  IInv'
<1> USE DEF IInv
<1> DEFINE q == pageCount
<1>0. /\ UNCHANGED <<disk, frames, rank, linked, held, ptr, writable, alive,
                     savedUse, touched, strayed>>
      /\ Allocates
      /\ created' = created \cup {q} /\ want' = [want EXCEPT ![q] = mem[FindPhysical(q)]]
  BY DEF Create, AllocatePage, poolVars
<1>1. /\ q \in Pages /\ q \in Nat /\ q < totalPages' /\ totalPages' \in InitPages .. MaxPages
      /\ pageCount' \in 1 .. TableLimit /\ mapping' \in Nat
      /\ UNCHANGED <<table, mem, inTx, Copied>>
      /\ TablesSound'
  BY <1>0, AllocateFacts
<1>2. FindPhysical(q) = FindIn(table, pageCount, q) /\ FindIn(table, pageCount, q) \in Pages
  BY <1>1, FoundPlace, FindPhysicalIn
<1>3. Types'
  <2>1. created' \in SUBSET Pages /\ want' \in [Pages -> Vals]
    BY <1>0, <1>1, <1>2 DEF Types
  <2> QED BY <1>0, <1>1, <2>1 DEF Types
<1>4. UseSound'
  <2>1. \A l \in created' : l < pageCount' /\ Reserved(l)'
    BY <1>0, AllocateUse
  <2> QED BY <1>0, <2>1 DEF UseSound
<1>5. \A l \in Pages : FindIn(table', pageCount', l) = FindIn(table, pageCount, l)
  BY <1>0, AllocateLookup
<1>6. FramesSound'
  <2>1. \A l \in InUse : l \in InUse' /\ l \in Pages
    BY <1>0, InUsePages DEF InUse
  <2>2. \A f \in Frames : FrameSound(f)'
    BY <1>0, <1>1, <1>5, <2>1 DEF FramesSound, FrameSound
  <2> QED BY <1>0, <2>2 DEF FramesSound, IdsUnique
<1>7. StoresSound'
  <2>1. \A l \in created' \cup Copied' : l \in Pages /\ (l = q \/ l \in created \cup Copied)
    BY <1>0, <1>1, FoundOwned
  <2>2. want'[q] = mem[FindIn(table', pageCount', q)] /\ \A l \in Pages : l # q => want'[l] = want[l]
    BY <1>0, <1>1, <1>2, <1>5 DEF Types
  <2>3. \A l \in created' \cup Copied' :
          l \in strayed' \/ mem'[FindIn(table', pageCount', l)] = want'[l]
    BY <1>0, <1>1, <1>5, <2>1, <2>2 DEF StoresSound
  <2>4. Saved' = Saved
    BY <1>0, <1>1 DEF Saved
  <2>5. ASSUME NEW l \in Saved, l \notin touched \cup strayed
        PROVE  disk.mem[FindIn(table', pageCount', l)] = want'[l]
    <3>1. l \in created \cup Copied /\ l \in Pages
      BY SavedOwned, FoundOwned
    <3>2. disk.mem[FindIn(table, pageCount, l)] = want[l] /\ mem[FindIn(table, pageCount, l)] = want[l]
      BY <2>5, <3>1 DEF StoresSound
    <3> QED BY <1>5, <2>2, <3>1, <3>2
  <2>6. \A i \in Indices : table'[i][1] # 0 /\ i >= disk'.pageCount
                             => table'[i][1] \in touched' \cup strayed'
    BY <1>0, <1>1 DEF StoresSound
  <2> QED BY <1>0, <2>3, <2>4, <2>5, <2>6 DEF StoresSound
<1> QED BY <1>1, <1>3, <1>4, <1>6, <1>7

-----------------------------------------------------------------------------
(* Steps of the thread on pages of the pool.                               *)

\* The shadow table and what engines know stay as they are.
LEMMA TablesUntouched ==
  ASSUME IInv, UNCHANGED <<pageCount, table, totalPages, created, savedUse>>,
         disk'.pageCount = disk.pageCount, disk'.table = disk.table
  PROVE  TablesSound' /\ UseSound'
<1>1. TablesSound'
  BY DEF IInv, TablesSound, TableSound, CommittedPrefix
<1>2. UseSound'
  BY DEF IInv, UseSound, Reserved
<1> QED BY <1>1, <1>2

LEMMA ReleaseKeeps ==
  ASSUME IInv, NEW l \in Pages, Release(l)
  PROVE  IInv'
<1> USE DEF IInv
<1> DEFINE f0 == FrameOf(l)
<1>0. /\ UNCHANGED <<pageCount, table, mem, disk, totalPages, mapping, inTx, rank, linked,
                     created, alive, want, savedUse, touched, strayed>>
      /\ held[l] > 0 /\ Resident(l) # {}
      /\ held' = [held EXCEPT ![l] = @ - 1]
      /\ frames' = [frames EXCEPT ![f0].pins = IF @ > 0 THEN @ - 1 ELSE @]
      /\ \/ held[l] = 1 /\ writable' = writable \ {l} /\ ptr' = [ptr EXCEPT ![l] = NoPtr]
         \/ held[l] # 1 /\ writable' = writable /\ ptr' = ptr
  BY DEF Release, shadowVars, history
<1>1. f0 \in Frames /\ frames[f0].id = l /\ l # 0
  BY <1>0, TheFrame, ConstantFacts DEF Pages
<1>2. frames[f0].pins = held[l] + linked[l] /\ held[l] \in Nat /\ linked[l] \in Nat
  BY <1>1 DEF FramesSound, FrameSound, Types
<1>3. /\ held' \in [Pages -> Nat] /\ held'[l] = held[l] - 1
      /\ \A k \in Pages : k # l => held'[k] = held[k]
  BY <1>0, <1>2 DEF Types
<1>4. /\ frames' \in [Frames -> FrameRecs]
      /\ \A f \in Frames : frames'[f].id = frames[f].id /\ frames'[f].ptr = frames[f].ptr
      /\ \A f \in Frames : f # f0 => frames'[f].pins = frames[f].pins
      /\ frames'[f0].pins = held'[l] + linked[l]
  BY <1>0, <1>1, <1>2, <1>3 DEF Types, FrameRecs
<1>5. ptr' \in [Pages -> Pointers] /\ \A k \in Pages : k # l \/ held[l] # 1 => ptr'[k] = ptr[k]
  BY <1>0 DEF Types, Pointers, NoPtr, NoPage
<1>6. writable' \in SUBSET writable
  BY <1>0
<1>7. Types'
  <2>1. writable' \in SUBSET Pages
    BY <1>6 DEF Types
  <2> QED BY <1>0, <1>3, <1>4, <1>5, <2>1 DEF Types
<1>8. TablesSound' /\ UseSound'
  BY <1>0, TablesUntouched
<1>9. FramesSound'
  <2>1. IdsUnique /\ IdsUnique'
    BY <1>4 DEF FramesSound, IdsUnique
  <2>2. ASSUME NEW f \in Frames
        PROVE  FrameSound(f)'
    <3>1. CASE f = f0
      BY <1>0, <1>1, <1>2, <1>3, <1>4, <1>5, <3>1 DEF FramesSound, FrameSound, InUse
    <3>2. CASE f # f0
      <4>1. frames[f].id # l
        BY <1>1, <2>1, <3>2 DEF IdsUnique
      <4>2. frames[f].id # 0 => frames[f].id \in Pages
        BY DEF Types, FrameRecs, Names
      <4> QED BY <1>0, <1>3, <1>4, <1>5, <3>2, <4>1, <4>2 DEF FramesSound, FrameSound, InUse
    <3> QED BY <3>1, <3>2
  <2>3. \A k \in Pages : held'[k] + linked'[k] > 0 => \E f \in Frames : frames'[f].id = k
    BY <1>0, <1>1, <1>3, <1>4 DEF FramesSound
  <2>4. \A k \in writable' : held'[k] > 0
    BY <1>0, <1>2, <1>3 DEF FramesSound, Types
  <2> QED BY <2>1, <2>2, <2>3, <2>4 DEF FramesSound
<1>10. StoresSound'
  BY <1>0 DEF StoresSound, Saved, Copied
<1> QED BY <1>7, <1>8, <1>9, <1>10

LEMMA PinKeeps ==
  ASSUME IInv, NEW l \in Pages, Pin(l)
  PROVE  IInv'
<1> USE DEF IInv
<1> DEFINE f0 == FrameOf(l)
<1>0. /\ UNCHANGED <<pageCount, table, mem, disk, totalPages, mapping, inTx, rank, held, ptr,
                     writable, created, alive, want, savedUse, touched, strayed>>
      /\ Resident(l) # {}
      /\ linked' = [linked EXCEPT ![l] = @ + 1]
      /\ frames' = [frames EXCEPT ![f0].pins = @ + 1]
  BY DEF Pin, shadowVars, history, threadVars
<1>1. f0 \in Frames /\ frames[f0].id = l /\ l # 0
  BY <1>0, TheFrame, ConstantFacts DEF Pages
<1>2. frames[f0].pins = held[l] + linked[l] /\ held[l] \in Nat /\ linked[l] \in Nat
  BY <1>1 DEF FramesSound, FrameSound, Types
<1>3. /\ linked' \in [Pages -> Nat] /\ linked'[l] = linked[l] + 1
      /\ \A k \in Pages : k # l => linked'[k] = linked[k]
  BY <1>0, <1>2 DEF Types
<1>4. /\ frames' \in [Frames -> FrameRecs]
      /\ \A f \in Frames : frames'[f].id = frames[f].id /\ frames'[f].ptr = frames[f].ptr
      /\ \A f \in Frames : f # f0 => frames'[f].pins = frames[f].pins
      /\ frames'[f0].pins = held[l] + linked'[l]
  BY <1>0, <1>1, <1>2, <1>3 DEF Types, FrameRecs
<1>5. Types'
  BY <1>0, <1>3, <1>4 DEF Types
<1>6. TablesSound' /\ UseSound'
  BY <1>0, TablesUntouched
<1>7. FramesSound'
  <2>1. IdsUnique /\ IdsUnique'
    BY <1>4 DEF FramesSound, IdsUnique
  <2>2. ASSUME NEW f \in Frames
        PROVE  FrameSound(f)'
    <3>1. CASE f = f0
      BY <1>0, <1>1, <1>2, <1>3, <1>4, <3>1 DEF FramesSound, FrameSound, InUse
    <3>2. CASE f # f0
      <4>1. frames[f].id # l
        BY <1>1, <2>1, <3>2 DEF IdsUnique
      <4>2. frames[f].id # 0 => frames[f].id \in Pages
        BY DEF Types, FrameRecs, Names
      <4> QED BY <1>0, <1>3, <1>4, <3>2, <4>1, <4>2 DEF FramesSound, FrameSound, InUse
    <3> QED BY <3>1, <3>2
  <2>3. \A k \in Pages : held'[k] + linked'[k] > 0 => \E f \in Frames : frames'[f].id = k
    BY <1>0, <1>1, <1>3, <1>4 DEF FramesSound
  <2> QED BY <1>0, <2>1, <2>2, <2>3 DEF FramesSound
<1>8. StoresSound'
  BY <1>0 DEF StoresSound, Saved, Copied
<1> QED BY <1>5, <1>6, <1>7, <1>8

\* A store through a sound pointer reaches only the page's own storage, or that of the
\* page that lies at its fixed number.
LEMMA StoreKeeps ==
  ASSUME IInv, NEW l \in Pages, NEW v \in Vals, Store(l, v)
  PROVE  IInv'
<1> USE DEF IInv
<1> DEFINE p == ptr[l].page
<1>0. /\ UNCHANGED <<pageCount, table, disk, totalPages, mapping, inTx, frames, rank, linked,
                     held, ptr, writable, created, alive, savedUse>>
      /\ strayed' = strayed \cup Overwritten(l)
      /\ l \in writable /\ Valid(ptr[l])
      /\ mem' = [mem EXCEPT ![p] = v] /\ want' = [want EXCEPT ![l] = v]
      /\ touched' = touched \cup {l}
  BY DEF Store, poolVars, threadVars
<1>1. p \in Pages
  BY <1>0 DEF Valid, Types, Pointers
<1>2. Types'
  <2>1. mem' \in [Pages -> Vals] /\ want' \in [Pages -> Vals]
    BY <1>0, <1>1 DEF Types
  <2> QED BY <1>0, <2>1 DEF Types
<1>3. TablesSound' /\ UseSound'
  BY <1>0, TablesUntouched
<1>4. FramesSound'
  BY <1>0 DEF FramesSound, IdsUnique, FrameSound, InUse
<1>5. l \in InUse /\ p \in OwnIn(table, l) /\ (l \in strayed \/ p = FindIn(table, pageCount, l))
  <2>1. held[l] > 0 /\ held[l] \in Nat /\ linked[l] \in Nat
    BY <1>0 DEF FramesSound, Types
  <2>2. PICK f \in Frames : frames[f].id = l
    BY <2>1 DEF FramesSound
  <2>3. l # 0
    BY ConstantFacts DEF Pages
  <2> QED BY <2>1, <2>2, <2>3 DEF FramesSound, FrameSound
<1>6. StoresSound'
  <2>1. ASSUME NEW k \in created \cup Copied, k \notin strayed'
        PROVE  mem'[FindIn(table, pageCount, k)] = want'[k]
    <3>1. FindIn(table, pageCount, k) \in OwnIn(table, k) \ {NoPage}
          /\ FindIn(table, pageCount, k) \in Pages /\ k \in Pages
      BY FoundOwned
    <3>2. mem[FindIn(table, pageCount, k)] = want[k] /\ k \notin strayed
      BY <1>0, <2>1 DEF StoresSound
    <3>3. CASE k = l
      BY <1>0, <1>1, <1>5, <3>1, <3>2, <3>3 DEF Types
    <3>4. CASE k # l
      <4>1. FindIn(table, pageCount, k) # p
        <5> SUFFICES ASSUME FindIn(table, pageCount, k) = p PROVE FALSE
          OBVIOUS
        <5>1. p = l /\ l \in FixedPages
          BY <1>5, <3>4, OwnApart
        <5>2. k \in Allotted /\ FindPhysical(k) = l
          BY <5>1, AllottedIn, FindPhysicalIn
        <5> QED BY <1>0, <2>1, <3>4, <5>1, <5>2 DEF Overwritten
      <4> QED BY <1>0, <1>1, <3>1, <3>2, <3>4, <4>1 DEF Types
    <3> QED BY <3>3, <3>4
  <2>2. ASSUME NEW k \in Saved, k \notin touched' \cup strayed'
        PROVE  disk.mem[FindIn(table, pageCount, k)] = want'[k]
    <3>1. k # l /\ k \notin touched \cup strayed /\ k \in Pages
      BY <1>0, <2>2, SavedOwned, FoundOwned
    <3> QED BY <1>0, <3>1 DEF StoresSound, Types
  <2>3. \A i \in Indices : table[i][1] # 0 /\ i >= disk.pageCount
                             => table[i][1] \in touched' \cup strayed'
    BY <1>0 DEF StoresSound
  <2>4. Copied' = Copied /\ Saved' = Saved
    BY <1>0 DEF Copied, Saved
  <2> QED BY <1>0, <2>1, <2>2, <2>3, <2>4 DEF StoresSound
<1> QED BY <1>2, <1>3, <1>4, <1>6

LEMMA RecordKeeps ==
  ASSUME IInv, NEW v \in Vals, RecordSnapshot(v)
  PROVE  IInv'
<1> USE DEF IInv
<1>0. /\ UNCHANGED <<pageCount, table, disk, totalPages, mapping, inTx, frames, rank, linked,
                     held, ptr, writable, created, alive, want, savedUse, touched>>
      /\ strayed' = strayed \cup {l \in Allotted : FindPhysical(l) = Registry}
      /\ mem' = [mem EXCEPT ![Registry] = v]
  BY DEF RecordSnapshot, poolVars, threadVars
<1>1. Types'
  <2>1. mem' \in [Pages -> Vals]
    BY <1>0, ConstantFacts DEF Types
  <2> QED BY <1>0, <2>1 DEF Types
<1>2. TablesSound' /\ UseSound'
  BY <1>0, TablesUntouched
<1>3. FramesSound'
  BY <1>0 DEF FramesSound, IdsUnique, FrameSound, InUse
<1>4. StoresSound'
  <2>1. Copied' = Copied /\ Saved' = Saved
    BY <1>0 DEF Copied, Saved
  <2>2. ASSUME NEW k \in created \cup Copied, k \notin strayed'
        PROVE  mem'[FindIn(table, pageCount, k)] = want[k]
    <3>1. FindIn(table, pageCount, k) # Registry /\ k \notin strayed
      BY <1>0, <2>2, AllottedIn, FindPhysicalIn
    <3>2. FindIn(table, pageCount, k) \in Pages /\ mem[FindIn(table, pageCount, k)] = want[k]
      BY <3>1, FoundOwned DEF StoresSound
    <3> QED BY <1>0, <3>1, <3>2 DEF Types
  <2> QED BY <1>0, <2>1, <2>2 DEF StoresSound
<1> QED BY <1>1, <1>2, <1>3, <1>4

LEMMA StrayKeeps ==
  ASSUME IInv, NEW l \in Pages, NEW p \in Pages, Stray(l, p)
  PROVE  IInv'
<1> USE DEF IInv
<1>0. /\ UNCHANGED <<pageCount, table, disk, totalPages, mapping, inTx, frames, rank, linked,
                     held, ptr, writable, created, alive, want, savedUse, touched>>
      /\ strayed' = Pages /\ mem' \in [Pages -> Vals]
  BY DEF Stray, poolVars, threadVars, Types
<1>1. Types'
  BY <1>0 DEF Types
<1>2. TablesSound' /\ UseSound'
  BY <1>0, TablesUntouched
<1>3. FramesSound'
  <2>1. \A f \in Frames : frames[f].id # 0 => frames[f].id \in Pages
    BY DEF Types, FrameRecs, Names
  <2> QED BY <1>0, <2>1 DEF FramesSound, IdsUnique, FrameSound, InUse
<1>4. StoresSound'
  <2>1. \A k \in created' \cup Copied' : k \in strayed'
    BY <1>0, FoundOwned DEF Copied
  <2>2. \A i \in Indices : table[i][1] # 0 => table[i][1] \in strayed'
    BY <1>0 DEF Types, Tabs, Names
  <2>3. Saved' \subseteq strayed'
    BY <1>0, SavedOwned, FoundOwned DEF Saved, Copied
  <2> QED BY <1>0, <2>1, <2>2, <2>3 DEF StoresSound
<1> QED BY <1>1, <1>2, <1>3, <1>4

LEMMA HitKeeps ==
  ASSUME IInv, NEW l \in Pages, NEW tx, NEW forWrite, AcquireHit(tx, l, forWrite)
  PROVE  IInv'
<1> USE DEF IInv
<1> DEFINE f0 == FrameOf(l)
<1>0. /\ UNCHANGED <<pageCount, table, mem, disk, totalPages, mapping, inTx, linked,
                     created, alive, want, savedUse, touched, strayed>>
      /\ Resident(l) # {} /\ l \in InUse
      /\ Hand(l, f0, frames[f0], forWrite)
  BY DEF AcquireHit, MayAcquire, shadowVars, history
<1>1. f0 \in Frames /\ frames[f0].id = l /\ l # 0 /\ frames[f0] \in FrameRecs
  BY <1>0, TheFrame, ConstantFacts DEF Pages, Types
<1>2. frames[f0].pins = held[l] + linked[l] /\ held[l] \in Nat /\ linked[l] \in Nat
  BY <1>1 DEF FramesSound, FrameSound, Types
<1>3. /\ held'[l] = held[l] + 1 /\ ptr'[l] = frames[f0].ptr
      /\ \A k \in Pages : k # l => held'[k] = held[k] /\ ptr'[k] = ptr[k]
  BY <1>0, <1>2 DEF Types, Hand
<1>4. /\ \A f \in Frames : frames'[f].id = frames[f].id /\ frames'[f].ptr = frames[f].ptr
      /\ \A f \in Frames : f # f0 => frames'[f].pins = frames[f].pins
      /\ frames'[f0].pins = held'[l] + linked[l]
  BY <1>0, <1>1, <1>2, <1>3 DEF Types, FrameRecs, Hand
<1>5. Types'
  BY <1>0, <1>1, HandTypes DEF Types
<1>6. TablesSound' /\ UseSound'
  BY <1>0, TablesUntouched
<1>7. FramesSound'
  <2>1. IdsUnique /\ IdsUnique'
    BY <1>4 DEF FramesSound, IdsUnique
  <2>2. ASSUME NEW f \in Frames
        PROVE  FrameSound(f)'
    <3>1. CASE f = f0
      BY <1>0, <1>1, <1>2, <1>3, <1>4, <3>1 DEF FramesSound, FrameSound, InUse
    <3>2. CASE f # f0
      <4>1. frames[f].id # l
        BY <1>1, <2>1, <3>2 DEF IdsUnique
      <4>2. frames[f].id # 0 => frames[f].id \in Pages
        BY DEF Types, FrameRecs, Names
      <4> QED BY <1>0, <1>3, <1>4, <3>2, <4>1, <4>2 DEF FramesSound, FrameSound, InUse
    <3> QED BY <3>1, <3>2
  <2>3. \A k \in Pages : held'[k] + linked'[k] > 0 => \E f \in Frames : frames'[f].id = k
    BY <1>0, <1>1, <1>3, <1>4 DEF FramesSound
  <2>4. \A k \in writable' : k \in Pages /\ (k = l \/ k \in writable)
    BY <1>0 DEF Hand, Types
  <2>5. \A k \in writable' : held'[k] > 0
    BY <1>2, <1>3, <2>4 DEF FramesSound
  <2> QED BY <2>1, <2>2, <2>3, <2>5 DEF FramesSound
<1>8. StoresSound'
  BY <1>0 DEF StoresSound, Saved, Copied
<1> QED BY <1>5, <1>6, <1>7, <1>8

\* What loading a page does to the table: at most an entry of that page is appended.
LEMMA MissTable ==
  ASSUME IInv, NEW l \in InUse, NEW tx \in BOOLEAN, NEW forWrite \in BOOLEAN,
         AcquireMiss(tx, l, forWrite)
  PROVE  /\ \A i \in Indices : i # pageCount + 1 => table'[i] = table[i]
         /\ \/ table'[pageCount + 1] = <<l, pageCount>> /\ tx /\ forWrite
            \/ pageCount + 1 \in Indices => table'[pageCount + 1] = table[pageCount + 1]
         /\ pageCount \in Nat /\ pageCount' \in Nat /\ totalPages \in Nat /\ totalPages' \in Nat
         /\ pageCount <= pageCount' /\ totalPages <= totalPages'
         /\ pageCount' <= totalPages' + 1
         /\ \A i \in Indices : i = pageCount + 1 /\ table'[i] # table[i]
                                 => i < pageCount' /\ i <= totalPages'
<1> USE DEF IInv
<1>0. l \in Pages
  BY InUsePages
<1>1. CASE tx /\ forWrite
  <2>1. WritePage(l)
    BY <1>1 DEF AcquireMiss
  <2>2. Room
    BY <2>1 DEF WritePage
  <2>3. pageCount \in Nat /\ pageCount < NewTotal /\ NewTotal \in Nat /\ totalPages \in Nat
        /\ totalPages <= NewTotal
    BY <2>2, NextPage, ConstantFacts DEF Pages
  <2>4. /\ pageCount' \in Nat /\ totalPages' = NewTotal
        /\ pageCount < pageCount' /\ pageCount' <= pageCount + 2
        /\ \A i \in Indices : i # pageCount + 1 \/ TableFull => table'[i] = table[i]
        /\ ~TableFull => table'[pageCount + 1] = <<l, pageCount>> /\ pageCount' = pageCount + 2
    BY <1>0, <2>1, WriteAppends, ConstantFacts
  <2> QED BY <1>1, <2>3, <2>4
<1>2. CASE ~(tx /\ forWrite)
  <2>1. UNCHANGED <<pageCount, table, totalPages>>
    BY <1>2 DEF AcquireMiss
  <2> QED BY <2>1, ConstantFacts DEF Types, TablesSound
<1> QED BY <1>1, <1>2

\* ... so nothing else is found elsewhere, and the page itself only by its first copy.
LEMMA MissLookup ==
  ASSUME IInv, NEW l \in InUse, NEW tx \in BOOLEAN, NEW forWrite \in BOOLEAN,
         AcquireMiss(tx, l, forWrite), NEW k \in Pages
  PROVE  /\ k # l => FindIn(table', pageCount', k) = FindIn(table, pageCount, k)
         /\ k # l => EntriesIn(table', pageCount', k) = EntriesIn(table, pageCount, k)
         /\ EntriesIn(table, pageCount, k) \subseteq EntriesIn(table', pageCount', k)
         /\ EntriesIn(table, pageCount, k) # {}
              => FindIn(table', pageCount', k) = FindIn(table, pageCount, k)
         /\ EntriesIn(table, pageCount, k) = {} /\ EntriesIn(table', pageCount', k) # {}
              => tx /\ forWrite /\ FindIn(table', pageCount', k) = pageCount
         /\ \/ FindIn(table', pageCount', k) = FindIn(table, pageCount, k)
            \/ tx /\ forWrite /\ k = l /\ FindIn(table', pageCount', k) = pageCount
         /\ OwnIn(table, k) \subseteq OwnIn(table', k)
<1> USE DEF IInv
<1>0. k # 0 /\ k \in Nat
  BY ConstantFacts DEF Pages
<1>1. /\ \A i \in Indices : i # pageCount + 1 => table'[i] = table[i]
      /\ \/ table'[pageCount + 1] = <<l, pageCount>> /\ tx /\ forWrite
         \/ pageCount + 1 \in Indices => table'[pageCount + 1] = table[pageCount + 1]
      /\ pageCount \in Nat /\ pageCount' \in Nat /\ pageCount <= pageCount'
  BY MissTable
<1>2. \A i \in Indices : table[i][1] = k => i < pageCount /\ i \in Nat /\ table'[i] = table[i]
  BY <1>0, <1>1, ConstantFacts DEF TablesSound, TableSound, Indices
<1>3. \A i \in Indices : table'[i][1] = k /\ table[i][1] # k => i = pageCount + 1 /\ k = l
  BY <1>1
<1>4. EntriesIn(table, pageCount, k) \subseteq EntriesIn(table', pageCount', k)
  BY <1>1, <1>2 DEF EntriesIn
<1>5. \A i \in EntriesIn(table, pageCount, k) : table[i] = table'[i]
  BY <1>2 DEF EntriesIn
<1>6. \A i \in EntriesIn(table, pageCount, k), j \in EntriesIn(table', pageCount', k) :
         j \in EntriesIn(table, pageCount, k) \/ i < j
  BY <1>1, <1>2, <1>3 DEF EntriesIn
<1>7. EntriesIn(table, pageCount, k) # {}
        => FindIn(table', pageCount', k) = FindIn(table, pageCount, k)
  BY <1>4, <1>5, <1>6, FindAppended
<1>8. ASSUME EntriesIn(table, pageCount, k) = {}, EntriesIn(table', pageCount', k) # {}
      PROVE  tx /\ forWrite /\ k = l /\ FindIn(table', pageCount', k) = pageCount
  <2>1. PICK i \in EntriesIn(table', pageCount', k) : FindIn(table', pageCount', k) = table'[i][2]
    BY <1>8, FindFirst
  <2>2. i \in Indices /\ table'[i][1] = k /\ table[i][1] # k
    BY <1>2, <1>8, <2>1 DEF EntriesIn
  <2>3. i = pageCount + 1 /\ k = l /\ table'[i] # table[i]
    BY <1>3, <2>2
  <2>4. table'[i] = <<l, pageCount>> /\ tx /\ forWrite
    BY <1>1, <2>2, <2>3
  <2> QED BY <2>1, <2>3, <2>4
<1>12. EntriesIn(table, pageCount, k) = {} /\ EntriesIn(table', pageCount', k) = {}
        => FindIn(table', pageCount', k) = FindIn(table, pageCount, k)
  BY DEF FindIn
<1>13. k # l => EntriesIn(table', pageCount', k) = EntriesIn(table, pageCount, k)
  BY <1>2, <1>3, <1>4 DEF EntriesIn
<1>9. OwnIn(table, k) \subseteq OwnIn(table', k)
  BY <1>2 DEF OwnIn
<1> QED BY <1>4, <1>7, <1>8, <1>9, <1>12, <1>13

\* The pointer of the new frame is one the page owns.
LEMMA MissPointer ==
  ASSUME IInv, NEW l \in InUse, NEW tx \in BOOLEAN, NEW forWrite \in BOOLEAN,
         AcquireMiss(tx, l, forWrite)
  PROVE  Resolved(tx, l, forWrite).page \in OwnIn(table', l)
<1> USE DEF IInv
<1>0. l \in Pages /\ OwnIn(table, l) \subseteq OwnIn(table', l)
  BY InUsePages, MissLookup
<1>1. NoPage \in OwnIn(table', l) /\ l \in OwnIn(table', l)
  BY DEF OwnIn
<1>2. FindPhysical(l) \in OwnIn(table', l)
  BY <1>0, FoundPlace, FindPhysicalIn
<1>3. CASE ~forWrite
  BY <1>1, <1>2, <1>3 DEF Resolved, GetRead, InFile, NoPtr
<1>4. CASE forWrite /\ (~tx \/ TableFull)
  BY <1>1, <1>4 DEF Resolved, GetWrite, NoPtr
<1>5. CASE forWrite /\ tx /\ ~TableFull
  <2>1. WritePage(l)
    BY <1>5 DEF AcquireMiss
  <2>2. pageCount + 1 \in Indices /\ table'[pageCount + 1] = <<l, pageCount>>
    BY <1>0, <1>5, <2>1, WriteAppends
  <2>3. pageCount \in OwnIn(table', l)
    BY <2>2 DEF OwnIn
  <2> QED BY <1>1, <1>5, <2>3 DEF Resolved, GetWrite, NoPtr
<1> QED BY <1>3, <1>4, <1>5

\* Storage of the pages that have it is not where the copy goes.
LEMMA CopyApart ==
  ASSUME IInv, NEW k \in created \cup Copied
  PROVE  FindIn(table, pageCount, k) # pageCount
<1> USE DEF IInv
<1>0. k \in Pages /\ pageCount \in Nat
  BY FoundOwned, ConstantFacts DEF Types
<1>1. k \in created => k < pageCount /\ k \in Nat
  BY <1>0, ConstantFacts DEF UseSound, Pages
<1> QED BY <1>0, <1>1, FoundCases, ConstantFacts DEF Indices

LEMMA MissKeeps ==
  ASSUME IInv, NEW l \in Pages, NEW tx \in BOOLEAN, NEW forWrite \in BOOLEAN,
         AcquireMiss(tx, l, forWrite)
  PROVE  IInv'
<1> USE DEF IInv
<1> DEFINE v0 == LruFrame
           p == Resolved(tx, l, forWrite)
           frame == [id |-> l, ptr |-> p, pins |-> 0, dirty |-> forWrite]
<1>0. /\ UNCHANGED <<linked, created, alive, savedUse>>
      /\ want' = IF l \in Allotted THEN want ELSE [want EXCEPT ![l] = mem[FindPhysical(l)]]
      /\ l \in InUse /\ Resident(l) = {} /\ Unpinned # {}
      /\ SyncVictim(frames[v0]) /\ Hand(l, v0, frame, forWrite)
      /\ touched' = IF forWrite THEN touched \cup {l} ELSE touched
      /\ strayed' = IF p.page = FindPhysical(l)' THEN strayed ELSE strayed \cup {l}
  BY DEF AcquireMiss, MayAcquire
<1>1. v0 \in Frames /\ frames[v0].pins = 0 /\ frames[v0] \in FrameRecs
  BY <1>0, TheVictim DEF Types
<1>2. /\ pageCount' \in 1 .. TableLimit /\ totalPages' \in InitPages .. MaxPages
      /\ table' \in Tabs /\ mem' \in [Pages -> Vals] /\ mapping' \in Nat
      /\ inTx' \in BOOLEAN /\ want' \in [Pages -> Vals] /\ p \in Pointers
  BY <1>0, MissFacts
<1>3. frame \in FrameRecs
  BY <1>2 DEF FrameRecs, Names
<1>4. /\ disk'.pageCount = disk.pageCount /\ disk'.table = disk.table
      /\ disk' \in [pageCount : 1 .. TableLimit, table : Tabs, mem : [Pages -> Vals]]
      /\ \A q \in Pages : disk'.mem[q] = disk.mem[q] \/ disk'.mem[q] = mem[q]
  BY <1>0, <1>1, SyncTypes
<1>5. /\ frames' \in [Frames -> FrameRecs] /\ rank' \in [Frames -> Frames]
      /\ held' \in [Pages -> Nat] /\ ptr' \in [Pages -> Pointers] /\ writable' \in SUBSET Pages
  BY <1>0, <1>1, <1>3, HandTypes
<1>6. Types'
  BY <1>0, <1>2, <1>4, <1>5 DEF Types
<1>7. /\ \A i \in Indices : i # pageCount + 1 => table'[i] = table[i]
      /\ \/ table'[pageCount + 1] = <<l, pageCount>> /\ tx /\ forWrite
         \/ pageCount + 1 \in Indices => table'[pageCount + 1] = table[pageCount + 1]
      /\ pageCount \in Nat /\ pageCount' \in Nat /\ totalPages \in Nat /\ totalPages' \in Nat
      /\ pageCount <= pageCount' /\ totalPages <= totalPages'
      /\ pageCount' <= totalPages' + 1
      /\ \A i \in Indices : i = pageCount + 1 /\ table'[i] # table[i]
                              => i < pageCount' /\ i <= totalPages'
  BY <1>0, MissTable
<1>9. TablesSound'
  <2>1. ASSUME NEW i \in Indices, table'[i][1] # 0
        PROVE  i < pageCount' /\ table'[i][2] = i - 1 /\ i <= totalPages'
    <3>0. i \in Nat
      BY ConstantFacts DEF Indices
    <3>1. CASE table'[i] = table[i]
      <4>1. i < pageCount /\ table[i][2] = i - 1 /\ i <= totalPages
        BY <2>1, <3>1 DEF TablesSound, TableSound
      <4> QED BY <1>7, <3>0, <3>1, <4>1
    <3>2. CASE table'[i] # table[i]
      <4>1. i = pageCount + 1 /\ table'[i] = <<l, pageCount>>
        BY <1>7, <3>2
      <4>2. i < pageCount' /\ i <= totalPages'
        BY <1>7, <3>2, <4>1
      <4> QED BY <1>7, <4>1, <4>2
    <3> QED BY <3>1, <3>2
  <2>2. TableSound(table', pageCount', totalPages')
    BY <2>1 DEF TableSound
  <2>3. TableSound(disk'.table, disk'.pageCount, totalPages')
    <3>1. TableSound(disk.table, disk.pageCount, totalPages)
      BY DEF TablesSound
    <3>2. \A i \in Indices : i <= totalPages => i <= totalPages'
      BY <1>7, ConstantFacts DEF Indices
    <3> QED BY <1>4, <3>1, <3>2 DEF TableSound
  <2>4. disk.pageCount \in Nat /\ disk.pageCount <= pageCount
    BY ConstantFacts DEF Types, TablesSound, CommittedPrefix
  <2>5. disk'.pageCount <= pageCount'
    BY <1>4, <1>7, <2>4
  <2>6. \A i \in Indices : i < disk'.pageCount => table'[i] = disk'.table[i]
    <3>1. \A i \in Indices : i < disk.pageCount => i # pageCount + 1
      BY <1>7, <2>4, ConstantFacts DEF Indices
    <3> QED BY <1>4, <1>7, <3>1 DEF TablesSound, CommittedPrefix
  <2> QED BY <1>7, <2>2, <2>3, <2>5, <2>6 DEF TablesSound, CommittedPrefix
<1>10. UseSound'
  <2>1. ASSUME NEW k \in created
        PROVE  k < pageCount' /\ Reserved(k)'
    <3>1. k \in Nat /\ k < pageCount /\ k < totalPages
          /\ (k + 1 \in Indices => table[k + 1][1] = 0)
      BY ConstantFacts DEF UseSound, Reserved, Types, Pages
    <3>2. k + 1 # pageCount + 1 /\ k < pageCount' /\ k < totalPages'
      BY <1>7, <3>1
    <3> QED BY <1>7, <3>1, <3>2 DEF Reserved
  <2> QED BY <1>0, <1>4, <2>1 DEF UseSound
\* Lookups after the step.
<1>11. ASSUME NEW k \in InUse
       PROVE  /\ k \in Pages
              /\ k # l => FindIn(table', pageCount', k) = FindIn(table, pageCount, k)
              /\ OwnIn(table, k) \subseteq OwnIn(table', k)
  BY <1>0, InUsePages, MissLookup
<1>12. FramesSound'
  <2>1. /\ frames'[v0] = [frame EXCEPT !.pins = @ + 1]
        /\ \A f \in Frames : f # v0 => frames'[f] = frames[f]
    BY <1>0, <1>1 DEF Hand, Types
  <2>2. /\ frames'[v0].id = l /\ frames'[v0].ptr = p /\ frames'[v0].pins = 1
    BY <2>1
  <2>3. \A f \in Frames : frames[f].id # l
    BY <1>0 DEF Resident
  <2>4. l # 0 /\ held[l] = 0 /\ linked[l] = 0
    <3>1. held[l] \in Nat /\ linked[l] \in Nat /\ ~ (held[l] + linked[l] > 0)
      BY <2>3 DEF FramesSound, Types
    <3> QED BY <3>1, ConstantFacts DEF Pages
  <2>5. /\ held'[l] = 1 /\ ptr'[l] = p
        /\ \A k \in Pages : k # l => held'[k] = held[k] /\ ptr'[k] = ptr[k]
    BY <1>0, <2>4 DEF Hand, Types
  <2>6. IdsUnique'
    BY <2>1, <2>2, <2>3 DEF FramesSound, IdsUnique
  <2>7. FindPhysical(l)' = FindIn(table', pageCount', l)
    BY DEF FindPhysical, FindIn, Entries, EntriesIn
  <2>8. ASSUME NEW f \in Frames, f = v0
        PROVE  FrameSound(f)'
    <3>1. p.page \in OwnIn(table', l)
      BY <1>0, MissPointer
    <3>2. l \in strayed' \/ p.page = FindIn(table', pageCount', l)
      BY <1>0, <2>7
    <3>3. frames'[f].id = l /\ frames'[f].ptr = p /\ frames'[f].pins = held'[l] + linked'[l]
      BY <1>0, <2>2, <2>4, <2>5, <2>8
    <3>4. l \in InUse'
      BY <1>0 DEF InUse
    <3> QED BY <2>5, <3>1, <3>2, <3>3, <3>4 DEF FrameSound
  <2>9. ASSUME NEW f \in Frames, f # v0
        PROVE  FrameSound(f)'
    <3>0. FrameSound(f) /\ frames'[f] = frames[f]
      BY <2>1, <2>9 DEF FramesSound
    <3> DEFINE k == frames[f].id
    <3>1. CASE k = 0
      BY <3>0, <3>1 DEF FrameSound
    <3>2. CASE k # 0
      <4>1. k \in InUse /\ k # l
        BY <2>3, <3>0, <3>2 DEF FrameSound
      <4>2. /\ k \in Pages /\ FindIn(table', pageCount', k) = FindIn(table, pageCount, k)
            /\ OwnIn(table, k) \subseteq OwnIn(table', k)
            /\ held'[k] = held[k] /\ ptr'[k] = ptr[k] /\ linked' = linked
        BY <1>0, <1>11, <2>5, <4>1
      <4>3. k \in strayed => k \in strayed'
        BY <1>0
      <4>4. InUse' = InUse
        BY <1>0 DEF InUse
      <4> QED BY <3>0, <3>2, <4>1, <4>2, <4>3, <4>4 DEF FrameSound
    <3> QED BY <3>1, <3>2
  <2>10. ASSUME NEW k \in Pages, held'[k] + linked'[k] > 0
         PROVE  \E f \in Frames : frames'[f].id = k
    <3>1. CASE k = l
      BY <1>1, <2>2, <3>1
    <3>2. CASE k # l
      <4>1. held[k] + linked[k] > 0
        BY <1>0, <2>5, <2>10, <3>2
      <4>2. PICK f \in Frames : frames[f].id = k
        BY <4>1 DEF FramesSound
      <4>3. k # 0
        BY ConstantFacts DEF Pages
      <4>4. frames[f].pins = held[k] + linked[k]
        BY <4>2, <4>3 DEF FramesSound, FrameSound
      <4>5. f # v0
        BY <1>1, <4>1, <4>4
      <4> QED BY <2>1, <4>2, <4>5
    <3> QED BY <3>1, <3>2
  <2>11. \A k \in writable' : held'[k] > 0
    <3>1. \A k \in writable' : k \in Pages /\ (k = l \/ k \in writable)
      BY <1>0 DEF Hand, Types
    <3> QED BY <2>5, <3>1 DEF FramesSound
  <2> QED BY <2>6, <2>8, <2>9, <2>10, <2>11 DEF FramesSound
\* Only the page itself may come to have storage: the copy.
<1>8. /\ created' = created
      /\ \A k \in created' \cup Copied' : k \in created \cup Copied \/ (k = l /\ k \in Copied')
      /\ l \in created \cup Copied => want' = want
      /\ \A k \in Pages : k # l => want'[k] = want[k]
  <2>1. \A k \in Copied' : k \in Copied \/ k = l
    BY <1>0, MissLookup, ConstantFacts DEF Copied
  <2> QED BY <1>0, <2>1, AllottedIn DEF Types
<1>13. ASSUME NEW k \in created \cup Copied, k \notin strayed'
       PROVE  mem'[FindIn(table', pageCount', k)] = want'[k]
  <2>1. mem[FindIn(table, pageCount, k)] = want[k] /\ FindIn(table, pageCount, k) \in Pages
        /\ k \in InUse /\ want'[k] = want[k]
    BY <1>0, <1>8, <1>13, FoundOwned DEF StoresSound
  <2>2. CASE ~(tx /\ forWrite)
    <3>1. UNCHANGED <<pageCount, table, mem>>
      BY <2>2 DEF AcquireMiss
    <3> QED BY <2>1, <3>1
  <2>3. CASE tx /\ forWrite
    <3>1. WritePage(l)
      BY <2>3 DEF AcquireMiss
    <3>2. mem' = [mem EXCEPT ![pageCount] = mem[FindIn(table, pageCount, l)]]
          /\ pageCount \in Pages
      BY <1>0, <3>1, WriteAppends, NextPage DEF WritePage
    <3>3. CASE k # l
      <4>1. FindIn(table, pageCount, k) # pageCount
        BY CopyApart
      <4> QED BY <1>11, <2>1, <3>2, <3>3, <4>1 DEF Types
    <3>4. CASE k = l
      <4>1. \/ FindIn(table', pageCount', l) = FindIn(table, pageCount, l)
            \/ FindIn(table', pageCount', l) = pageCount
        BY <1>0, MissLookup
      <4> QED BY <2>1, <3>2, <3>4, <4>1 DEF Types
    <3> QED BY <3>3, <3>4
  <2> QED BY <2>2, <2>3
<1>15. ASSUME l \notin created \cup Copied, l \in Copied'
       PROVE  mem'[FindIn(table', pageCount', l)] = want'[l]
  <2>1. l \in FixedPages /\ EntriesIn(table, pageCount, l) = {} /\ EntriesIn(table', pageCount', l) # {}
    BY <1>15 DEF Copied
  <2>2. tx /\ forWrite /\ FindIn(table', pageCount', l) = pageCount
    BY <1>0, <2>1, MissLookup
  <2>3. WritePage(l)
    BY <2>2 DEF AcquireMiss
  <2>4. mem' = [mem EXCEPT ![pageCount] = mem[FindIn(table, pageCount, l)]] /\ pageCount \in Pages
    BY <1>0, <2>3, WriteAppends, NextPage DEF WritePage
  <2>5. want'[l] = mem[FindIn(table, pageCount, l)]
    BY <1>0, <1>15, AllottedIn, FindPhysicalIn DEF Types
  <2> QED BY <2>2, <2>4, <2>5 DEF Types
<1>14. StoresSound'
  <2>1. strayed \subseteq strayed' /\ touched \subseteq touched'
    BY <1>0
  <2>2. ASSUME NEW i \in Indices, table'[i][1] # 0, i >= disk'.pageCount
        PROVE  table'[i][1] \in touched' \cup strayed'
    <3>1. CASE table'[i] = table[i]
      BY <1>4, <2>1, <2>2, <3>1 DEF StoresSound
    <3>2. CASE table'[i] # table[i]
      <4>1. table'[i][1] = l /\ forWrite
        BY <1>7, <3>2
      <4> QED BY <1>0, <4>1
    <3> QED BY <3>1, <3>2
  <2>3. ASSUME NEW k \in Saved', k \notin touched' \cup strayed'
        PROVE  disk'.mem[FindIn(table', pageCount', k)] = want'[k]
    <3>0. k # l \/ ~forWrite
      BY <1>0, <2>3
    <3>1. k \in Saved /\ k \notin touched \cup strayed
      <4>1. \A j \in Copied' : j \in Copied \/ (j = l /\ forWrite)
        BY <1>0, MissLookup, ConstantFacts DEF Copied
      <4> QED BY <1>0, <2>1, <2>3, <3>0, <4>1 DEF Saved
    <3>2. k \in created \cup Copied /\ k \in InUse
      BY <3>1, SavedOwned, FoundOwned
    <3>3. /\ mem[FindIn(table, pageCount, k)] = want[k]
          /\ disk.mem[FindIn(table, pageCount, k)] = want[k]
          /\ FindIn(table, pageCount, k) \in Pages
      BY <3>1, <3>2, FoundOwned DEF StoresSound
    <3>4. FindIn(table', pageCount', k) = FindIn(table, pageCount, k)
      <4>1. CASE k # l
        BY <1>11, <3>2, <4>1
      <4>2. CASE ~forWrite
        BY <4>2 DEF AcquireMiss
      <4> QED BY <3>0, <4>1, <4>2
    <3>5. want'[k] = want[k]
      BY <1>8, <1>11, <3>2
    <3> QED BY <1>4, <3>3, <3>4, <3>5
  <2>4. \A k \in created' \cup Copied' :
          k \in strayed' \/ mem'[FindIn(table', pageCount', k)] = want'[k]
    BY <1>8, <1>13, <1>15
  <2> QED BY <2>2, <2>3, <2>4 DEF StoresSound
<1> QED BY <1>6, <1>9, <1>10, <1>12, <1>14

\* A page behind the end of the file is allocated before the copy fails.
LEMMA BeyondKeeps ==
  ASSUME IInv, NEW l \in Pages, Beyond(l)
  PROVE  IInv'
<1> USE DEF IInv, poolVars, threadVars, history
<1>0. /\ UNCHANGED <<frames, rank, linked, held, ptr, writable, created, want, savedUse,
                     touched, strayed>>
      /\ Allocates /\ Unpinned # {} /\ SyncVictim(frames[LruFrame]) /\ alive' \in BOOLEAN
  BY DEF Beyond
<1>1. frames[LruFrame] \in FrameRecs
  BY <1>0, TheVictim DEF Types
<1>2. /\ disk'.pageCount = disk.pageCount /\ disk'.table = disk.table
      /\ disk' \in [pageCount : 1 .. TableLimit, table : Tabs, mem : [Pages -> Vals]]
      /\ \A p \in Pages : disk'.mem[p] = disk.mem[p] \/ disk'.mem[p] = mem[p]
  BY <1>0, <1>1, SyncTypes
<1>3. /\ pageCount' \in 1 .. TableLimit /\ totalPages' \in InitPages .. MaxPages
      /\ mapping' \in Nat /\ UNCHANGED <<table, mem, inTx, Copied>> /\ TablesSound'
  BY <1>0, <1>2, AllocateFacts
<1>4. Types'
  BY <1>0, <1>2, <1>3 DEF Types
<1>5. UseSound'
  <2>1. \A l1 \in created' : l1 < pageCount' /\ Reserved(l1)'
    BY <1>0, <1>2, AllocateUse
  <2> QED BY <1>0, <1>2, <2>1 DEF UseSound
<1>6. \A k \in Pages : FindIn(table', pageCount', k) = FindIn(table, pageCount, k)
  BY <1>0, AllocateLookup
<1>7. FramesSound'
  <2>1. \A k \in InUse : k \in InUse' /\ k \in Pages
    BY <1>0, InUsePages DEF InUse
  <2>2. \A f \in Frames : FrameSound(f)'
    BY <1>0, <1>3, <1>6, <2>1 DEF FramesSound, FrameSound
  <2> QED BY <1>0, <2>2 DEF FramesSound, IdsUnique
<1>8. StoresSound'
  <2>1. \A k \in created' \cup Copied' : k \in Pages /\ k \in created \cup Copied
    BY <1>0, <1>3, FoundOwned
  <2>2. \A k \in created' \cup Copied' :
          k \in strayed' \/ mem'[FindIn(table', pageCount', k)] = want'[k]
    BY <1>0, <1>3, <1>6, <2>1 DEF StoresSound
  <2>3. Saved' = Saved
    BY <1>0, <1>3 DEF Saved
  <2>4. ASSUME NEW k \in Saved, k \notin touched \cup strayed
        PROVE  disk'.mem[FindIn(table', pageCount', k)] = want[k]
    <3>1. k \in created \cup Copied /\ k \in Pages /\ FindIn(table, pageCount, k) \in Pages
      BY SavedOwned, FoundOwned
    <3>2. disk.mem[FindIn(table, pageCount, k)] = want[k] /\ mem[FindIn(table, pageCount, k)] = want[k]
      BY <2>4, <3>1 DEF StoresSound
    <3> QED BY <1>2, <1>6, <3>1, <3>2
  <2>5. \A i \in Indices : table'[i][1] # 0 /\ i >= disk'.pageCount
                             => table'[i][1] \in touched' \cup strayed'
    BY <1>0, <1>2, <1>3 DEF StoresSound
  <2> QED BY <1>0, <2>2, <2>3, <2>4, <2>5 DEF StoresSound
<1> QED BY <1>3, <1>4, <1>5, <1>7, <1>8

LEMMA IInvNext == IInv /\ [Next]_vars => IInv'
<1> SUFFICES ASSUME IInv, [Next]_vars PROVE IInv'
  OBVIOUS
<1> USE DEF shadowVars, history
<1>1. CASE Create
  BY <1>1, CreateKeeps
<1>2. CASE Flush
  BY <1>2, FlushKeeps
<1>3. CASE BeginTx
  <2>1. inTx' \in BOOLEAN /\ alive' \in BOOLEAN
    BY <1>3 DEF BeginTx, Begin, IInv, Types
  <2> QED BY <1>3, <2>1, QuietKeeps DEF BeginTx, Begin
<1>4. CASE CommitTx
  BY <1>4, CommitKeeps
<1>5. CASE RollbackTx
  <2>1. inTx' \in BOOLEAN /\ alive' \in BOOLEAN
    BY <1>5 DEF RollbackTx, Rollback, IInv, Types
  <2> QED BY <1>5, <2>1, QuietKeeps DEF RollbackTx, Rollback
<1>6. CASE Restart
  BY <1>6, RestartKeeps
<1>7. CASE Outage
  BY <1>7, OutageKeeps
<1>8. ASSUME NEW l \in Pages, NEW tx \in BOOLEAN, NEW forWrite \in BOOLEAN,
             AcquireHit(tx, l, forWrite)
      PROVE  IInv'
  BY <1>8, HitKeeps
<1>9. ASSUME NEW l \in Pages, NEW tx \in BOOLEAN, NEW forWrite \in BOOLEAN,
             AcquireMiss(tx, l, forWrite)
      PROVE  IInv'
  BY <1>9, MissKeeps
<1>10. ASSUME NEW l \in Pages, Exhausted(l) \/ Fault(l)
       PROVE  IInv'
  <2>1. inTx' \in BOOLEAN /\ alive' \in BOOLEAN
    BY <1>10 DEF Exhausted, Fault, IInv, Types
  <2> QED BY <1>10, <2>1, QuietKeeps DEF Exhausted, Fault
<1>11. ASSUME NEW l \in Pages, Release(l)
       PROVE  IInv'
  BY <1>11, ReleaseKeeps
<1>12. ASSUME NEW l \in Pages, Pin(l)
       PROVE  IInv'
  BY <1>12, PinKeeps
<1>13. ASSUME NEW l \in Pages, NEW v \in Vals, Store(l, v)
       PROVE  IInv'
  BY <1>13, StoreKeeps
<1>14. ASSUME NEW l \in Pages, NEW p \in Pages, Stray(l, p)
       PROVE  IInv'
  BY <1>14, StrayKeeps
<1>16. ASSUME NEW l \in Pages, Beyond(l)
       PROVE  IInv'
  BY <1>16, BeyondKeeps
<1>17. ASSUME NEW v \in Vals, RecordSnapshot(v)
       PROVE  IInv'
  BY <1>17, RecordKeeps
<1>15. CASE UNCHANGED vars
  <2>1. inTx' \in BOOLEAN /\ alive' \in BOOLEAN
    BY <1>15 DEF vars, IInv, Types
  <2> QED BY <1>15, <2>1, QuietKeeps DEF vars
<1> QED
  BY <1>1, <1>2, <1>3, <1>4, <1>5, <1>6, <1>7, <1>8, <1>9, <1>10, <1>11, <1>12, <1>13, <1>14,
     <1>15, <1>16, <1>17 DEF Next

LEMMA IInvAlways == Spec => []IInv
BY IInvInit, IInvNext, PTL DEF Spec

-----------------------------------------------------------------------------
(* What callers are promised.                                              *)

\* A page that is held or linked keeps its one frame and the address it was handed
\* out at, the frame counts exactly the holds and links that are out, and the
\* pager's counters stay within the file and its table.
THEOREM PoolPinsHold == Spec => []PinsHold
<1>1. ASSUME IInv PROVE TypeOK
  <2>1. \A l \in InUse : l \in Pages
    BY <1>1, InUsePages DEF IInv
  <2>2. writable \subseteq InUse
    <3> SUFFICES ASSUME NEW l \in writable PROVE l \in InUse
      OBVIOUS
    <3>1. l \in Pages /\ held[l] > 0 /\ held[l] \in Nat /\ linked[l] \in Nat
      BY <1>1 DEF IInv, Types, FramesSound
    <3>2. PICK f \in Frames : frames[f].id = l
      BY <1>1, <3>1 DEF IInv, FramesSound
    <3>3. FrameSound(f) /\ l # 0
      BY <1>1, <3>1, ConstantFacts DEF IInv, FramesSound, Pages
    <3> QED BY <3>2, <3>3 DEF FrameSound
  <2>3. pageCount \in 1 .. TableLimit /\ totalPages \in 1 .. MaxPages /\ disk.mem \in [Pages -> Vals]
    BY <1>1, ConstantFacts DEF IInv, Types
  <2> QED BY <1>1, <2>1, <2>2, <2>3 DEF IInv, Types, Tabs, Names, FrameRecs, TypeOK
<1>2. ASSUME IInv PROVE OneFrame
  <2> SUFFICES ASSUME NEW l \in Pages PROVE Cardinality(Resident(l)) <= 1
    BY DEF OneFrame
  <2>1. CASE Resident(l) = {}
    BY <2>1, FS_EmptySet
  <2>2. CASE Resident(l) # {}
    <3>1. PICK f \in Resident(l) : TRUE
      BY <2>2
    <3>2. l # 0
      BY ConstantFacts DEF Pages
    <3>3. Resident(l) = {f}
      BY <1>2, <3>2 DEF IInv, FramesSound, IdsUnique, Resident
    <3>4. Cardinality(Resident(l)) = 1
      BY <3>3, FS_Singleton
    <3> QED BY <3>4
  <2> QED BY <2>1, <2>2
<1>3. ASSUME IInv PROVE HeldStays
  <2> SUFFICES ASSUME NEW l \in Pages, held[l] + linked[l] > 0
               PROVE  \E f \in Resident(l) : /\ frames[f].pins = held[l] + linked[l]
                                             /\ held[l] > 0 => ptr[l] = frames[f].ptr
    BY DEF HeldStays
  <2>1. PICK f \in Frames : frames[f].id = l
    BY <1>3 DEF IInv, FramesSound
  <2>2. FrameSound(f) /\ l # 0
    BY <1>3, ConstantFacts DEF IInv, FramesSound, Pages
  <2> QED BY <2>1, <2>2 DEF FrameSound, Resident
<1>4. IInv => PinsHold
  BY <1>1, <1>2, <1>3 DEF PinsHold
<1> QED BY <1>4, IInvAlways, PTL

\* No two pages that have storage share a physical page, and every one lies in the
\* file, across growth, restarts and power losses, whatever pages are used without being
\* allocated.
THEOREM PoolPagesApart == Spec => []PagesApart
<1>1. ASSUME IInv PROVE PagesApart
  <2>1. \A l \in Allotted : FindPhysical(l) < totalPages
    BY <1>1, FoundOwned, FindPhysicalIn, AllottedIn DEF IInv
  <2>2. \A k, l \in Allotted : FindPhysical(k) = FindPhysical(l) => k = l
    BY <1>1, FoundApart, FindPhysicalIn, AllottedIn DEF IInv
  <2> QED BY <2>1, <2>2 DEF PagesApart
<1> QED BY <1>1, IInvAlways, PTL

\* What was forced to storage is a prefix of the table in memory.
THEOREM PoolCommittedPrefix == Spec => []CommittedPrefix
<1>1. IInv => CommittedPrefix
  BY DEF IInv, TablesSound
<1> QED BY <1>1, IInvAlways, PTL

\* A page with storage, loaded from where the table says it is, not written over by its
\* number and not cut off by a power loss, holds what was last stored in it: after
\* evictions, commits, restarts and losses of power alike.
THEOREM PoolStoresSurvive == Spec => []StoresSurvive
<1>1. IInv => StoresSurvive
  BY FindPhysicalIn, AllottedIn DEF IInv, StoresSound, StoresSurvive
<1> QED BY <1>1, IInvAlways, PTL
=============================================================================
