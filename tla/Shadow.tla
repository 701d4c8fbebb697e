------------------------------- MODULE Shadow -------------------------------
(***************************************************************************)
(* db/db_pager.c and db/db_shadow.c: the memory-mapped page file and the   *)
(* copy-on-write mapping of logical to physical pages.                     *)
(*                                                                         *)
(* db_pager_open clears page 0 of a fresh file, so shadowTableRoot is page *)
(* 0 itself and not WLD_INVALID_PAGE: db_transaction_begin never allocates *)
(* a table, and the table every transaction uses lies over the superblock. *)
(* Its entryCount is the superblock's pageCount; its entries 0 and 1 are   *)
(* the superblock's other fields and name no page.                         *)
(***************************************************************************)
EXTENDS Integers

CONSTANTS InitPages,   \* pages a fresh file is given (10)
          MaxPages,    \* bound: pages of the largest file modelled
          TableLimit,  \* entries of a ShadowPage (509)
          Vals         \* page contents, 0 those of a page never written

ASSUME PagesAssumption ==
  /\ InitPages \in Nat /\ InitPages > 1
  /\ MaxPages \in Nat /\ MaxPages >= InitPages
ASSUME LimitAssumption == TableLimit \in Nat /\ TableLimit > 2
ASSUME ValsAssumption == 0 \in Vals

VARIABLES pageCount,   \* superblock.pageCount and, aliased to it, entryCount
          table,       \* the entries, as <<logical, physical>>; <<0, 0>> if unset
          mem,         \* the contents of the mapped pages
          disk,        \* [pageCount, table, mem] as last forced to storage
          totalPages,  \* pages of the file
          mapping,     \* which mmap is current: grow_file replaces it
          inTx         \* WldTransaction.inTransaction

shadowVars == <<pageCount, table, mem, disk, totalPages, mapping, inTx>>

Pages == 1 .. MaxPages - 1        \* page 0 is the superblock
Indices == 2 .. TableLimit - 1
NoPage == 0                       \* a NULL page pointer

Least(S) == CHOOSE x \in S : \A y \in S : x <= y

\* find_physical_id: the first entry for the page wins.
Entries(l) == {i \in Indices : i < pageCount /\ table[i][1] = l}
FindPhysical(l) == IF Entries(l) = {} THEN l ELSE table[Least(Entries(l))][2]

\* db_pager_allocate: the next page number, doubling the file first if it is
\* full; a longer file is mapped anew.
FileFull == pageCount >= totalPages
NewTotal == IF FileFull THEN 2 * totalPages ELSE totalPages
Remap == mapping' = IF FileFull THEN mapping + 1 ELSE mapping

\* Bounds: the file, and the count up to which table entries lie in page 0.
Room == NewTotal <= MaxPages /\ pageCount < TableLimit

\* db_get_page_read: a call without a transaction is not translated.  The file may end
\* before the page.
InFile(p) == IF p < totalPages THEN p ELSE NoPage
GetRead(tx, l) == InFile(IF tx THEN FindPhysical(l) ELSE l)

\* db_get_page_write: the page it hands out.  The allocation before has already
\* moved the count that tells whether the table is full.
TableFull == pageCount + 1 >= TableLimit
GetWrite == IF TableFull THEN NoPage ELSE pageCount

-----------------------------------------------------------------------------
\* db_pager_open on a fresh file.
ShadowInit ==
  /\ pageCount = 1
  /\ table = [i \in Indices |-> <<0, 0>>]
  /\ mem = [p \in Pages |-> 0]
  /\ disk = [pageCount |-> pageCount, table |-> table, mem |-> mem]
  /\ totalPages = InitPages /\ mapping = 0 /\ inTx = FALSE

Begin == /\ ~inTx
         /\ inTx' = TRUE
         /\ UNCHANGED <<pageCount, table, mem, disk, totalPages, mapping>>

\* db_pager_allocate.  An engine calls it for a page of its own (a B-tree or hash
\* root): the new number is at once the logical and the physical page.  Of the page's
\* header, which it clears, nothing is modelled.
Allocates ==
  /\ Room
  /\ totalPages' = NewTotal /\ Remap
  /\ pageCount' = pageCount + 1
  /\ UNCHANGED <<table, mem, inTx>>
AllocatePage == Allocates /\ UNCHANGED disk

\* mutant: the copy starts blank
WritePageBlank(l) ==
  /\ inTx /\ Room
  /\ totalPages' = NewTotal /\ Remap
  /\ mem' = [mem EXCEPT ![pageCount] = 0]
  /\ IF TableFull
     THEN pageCount' = pageCount + 1 /\ UNCHANGED table
     ELSE /\ table' = [table EXCEPT ![pageCount + 1] = <<l, pageCount>>]
          /\ pageCount' = pageCount + 2
  /\ UNCHANGED inTx

\* db_get_page_write: allocate, copy the current page, append an entry.
\* Appending increments entryCount, which is pageCount.
WritePage(l) ==
  /\ inTx /\ Room
  /\ totalPages' = NewTotal /\ Remap
  /\ mem' = [mem EXCEPT ![pageCount] = mem[FindPhysical(l)]]
  /\ IF TableFull
     THEN pageCount' = pageCount + 1 /\ UNCHANGED table
     ELSE /\ table' = [table EXCEPT ![pageCount + 1] = <<l, pageCount>>]
          /\ pageCount' = pageCount + 2
  /\ UNCHANGED inTx

\* db_transaction_commit: force everything, then page 0.  The root it stores is
\* the one it read.
Commit == /\ inTx
          /\ disk' = [pageCount |-> pageCount, table |-> table, mem |-> mem]
          /\ inTx' = FALSE
          /\ UNCHANGED <<pageCount, table, mem, totalPages, mapping>>

\* mutants: the pages allocated since the commit are given back; the table is emptied
RollbackReturns ==
  /\ inTx
  /\ inTx' = FALSE /\ pageCount' = disk.pageCount
  /\ UNCHANGED <<table, mem, disk, totalPages, mapping>>
RollbackEmpties ==
  /\ inTx
  /\ inTx' = FALSE /\ pageCount' = 1
  /\ UNCHANGED <<table, mem, disk, totalPages, mapping>>

\* db_transaction_rollback: forget the root, which is still page 0.
Rollback == /\ inTx
            /\ inTx' = FALSE
            /\ UNCHANGED <<pageCount, table, mem, disk, totalPages, mapping>>

\* The process ends and another opens the file; the system still has its pages.
\* db_pager_close, when it is reached, forces page 0.
Reopen(closed) ==
  /\ disk' = IF closed THEN [disk EXCEPT !.pageCount = pageCount, !.table = table]
                       ELSE disk
  /\ mapping' = 0 /\ inTx' = FALSE
  /\ UNCHANGED <<pageCount, table, mem, totalPages>>

\* The machine stops: every page comes back as last forced or as it was in
\* memory, page 0 with its count and table as one.
PowerLoss(kept, super) ==
  /\ mem' = [p \in Pages |-> IF p \in kept THEN mem[p] ELSE disk.mem[p]]
  /\ IF super THEN UNCHANGED <<pageCount, table>>
              ELSE pageCount' = disk.pageCount /\ table' = disk.table
  /\ disk' = [pageCount |-> pageCount', table |-> table', mem |-> mem']
  /\ mapping' = 0 /\ inTx' = FALSE
  /\ UNCHANGED totalPages
=============================================================================
