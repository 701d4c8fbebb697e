------------------------------- MODULE Slotted -------------------------------
(***************************************************************************)
(* The slotted page of WaliaDB: db/db_slotted.c.  Records grow up from the *)
(* page header, the slot array grows down from the end of the page, and an *)
(* insertion that finds too little room between them packs the records     *)
(* first.  Packing is one step per slot, as the loop runs.                 *)
(***************************************************************************)
EXTENDS Integers, Sequences, FiniteSets, Searches

CONSTANTS Bytes,        \* the values of a byte that the properties tell apart
          Zero,         \* the byte of a page nobody wrote
          Data,         \* the records callers insert: sequences of bytes
          PageSize,     \* WLD_PAGE_SIZE, 4096
          HeaderSize,   \* sizeof(WldSlottedPage)
          SlotSize,     \* sizeof(WldSlot)
          UInt16,       \* 2^16: the fields of the header wrap here
          UInt32        \* 2^32: availableSpace wraps here

ASSUME DataAssumption == /\ Zero \in Bytes
                         /\ \A d \in Data : d \in Seq(Bytes)
ASSUME SizesAssumption == /\ PageSize \in Nat /\ HeaderSize \in Nat /\ SlotSize \in Nat \ {0}
                          /\ HeaderSize <= PageSize
                          /\ UInt16 \in Nat /\ UInt32 \in Nat
                          /\ PageSize < UInt16 /\ UInt16 <= UInt32

VARIABLES page,     \* the page: bytes, slots, count, start and end of the free space
          temp,     \* db_slotted_compact: the copy it packs from
          inserting,\* the record of the insertion in progress, or Idle
          next,     \* db_slotted_compact: i
          cursor,   \* db_slotted_compact: currentOffset
          answer    \* what the last completed call returned

locals == <<temp, inserting, next, cursor>>
vars == <<page, temp, inserting, next, cursor, answer>>

Slot == [offset : Nat, size : Nat]
Page == [bytes : [0 .. PageSize - 1 -> Bytes], slots : [0 .. PageSize -> Slot],
         count : Nat, start : Nat, end : Nat]

Idle == [busy |-> FALSE, data |-> <<>>]
Packing(d) == [busy |-> TRUE, data |-> d]
Returned(i, d) == [index |-> i, data |-> d]

\* Slots below count; the slot array of a page has room for no more of them
Slots(p) == 0 .. p.count - 1
Live(p) == {i \in Slots(p) : p.slots[i].size > 0}
Holes(p) == {i \in Slots(p) : p.slots[i].size = 0}
Segment(s) == s.offset .. s.offset + s.size - 1
Record(p, i) == [k \in 1 .. p.slots[i].size |-> p.bytes[p.slots[i].offset + k - 1]]

\* memcpy of n bytes from src, starting at from, to dst at to; what falls
\* behind the page is the neighbour's
Copied(dst, to, src, from, n) ==
  [o \in 0 .. PageSize - 1 |-> IF to <= o /\ o < to + n THEN src[o - to + from] ELSE dst[o]]

Blank == [bytes |-> [o \in 0 .. PageSize - 1 |-> Zero],
          slots |-> [i \in 0 .. PageSize |-> [offset |-> 0, size |-> 0]],
          count |-> 0, start |-> 0, end |-> 0]

Formatted(p) == [p EXCEPT !.count = 0, !.start = HeaderSize, !.end = PageSize]

\* availableSpace, a uint32_t: an int difference that may be negative
Available(p) == IF p.end < p.start THEN p.end - p.start + UInt32 ELSE p.end - p.start
RoomForData(p, d) == Available(p) >= Len(d)
Room(p, d) == Available(p) >= Len(d) + SlotSize

\* freeSpaceEnd -= sizeof(WldSlot), a uint16_t
EndBelow(e) == IF e < SlotSize THEN e - SlotSize + UInt16 ELSE e - SlotSize

\* The slot an insertion takes: the first hole, else a new one
TargetSlot(p) == IF Holes(p) = {} THEN p.count
                 ELSE FirstOf(Holes(p))

\* Lines 38-63 of db_slotted_insert, when there is room
Written(p, d) ==
  LET t == TargetSlot(p)
  IN  [bytes |-> Copied(p.bytes, p.start, [o \in 0 .. Len(d) - 1 |-> d[o + 1]], 0, Len(d)),
       slots |-> [p.slots EXCEPT ![t] = [offset |-> p.start, size |-> Len(d)]],
       count |-> IF t = p.count THEN p.count + 1 ELSE p.count,
       start |-> p.start + Len(d),
       end   |-> IF t = p.count THEN EndBelow(p.end) ELSE p.end]

----------------------------------------------------------------------------
\* A caller formats the page it got (web_trans_injector.c); the document layer does not
\* (db_document.c:88)
Init == /\ page = Formatted(Blank)
        /\ temp = Blank
        /\ inserting = Idle
        /\ next = 0 /\ cursor = 0
        /\ answer = Returned(-1, <<>>)

\* db_slotted_init: forgets the records, leaves the bytes
Format == /\ ~inserting.busy
          /\ page' = Formatted(page)
          /\ UNCHANGED <<locals, answer>>

\* db_slotted_insert that finds room at once
Insert(d) == /\ ~inserting.busy
             /\ Room(page, d)
             /\ page' = Written(page, d)
             /\ answer' = Returned(TargetSlot(page), <<>>)
             /\ UNCHANGED locals

\* db_slotted_insert that does not: it calls db_slotted_compact
StartCompact(d) == /\ ~inserting.busy
                   /\ ~Room(page, d)
                   /\ inserting' = Packing(d)
                   /\ temp' = page
                   /\ next' = 0 /\ cursor' = HeaderSize
                   /\ UNCHANGED <<page, answer>>

\* mutants: packing within the page itself, or
\* counting i up only for the slots that have a record
PackSlotInPlace == /\ inserting.busy
                   /\ next < page.count
                   /\ next' = next + 1
                   /\ LET s == temp.slots[next]
                      IN  IF s.size > 0
                          THEN /\ page' = [page EXCEPT
                                 !.bytes = Copied(@, cursor, page.bytes, s.offset, s.size),
                                 !.slots[next].offset = cursor]
                               /\ cursor' = cursor + s.size
                          ELSE UNCHANGED <<page, cursor>>
                   /\ UNCHANGED <<temp, inserting, answer>>
PackSlotStuck == /\ inserting.busy
                 /\ next < page.count
                 /\ next \in Live(temp)
                 /\ next' = next + 1
                 /\ page' = [page EXCEPT !.bytes = Copied(@, cursor, temp.bytes,
                                                   temp.slots[next].offset, temp.slots[next].size),
                                         !.slots[next].offset = cursor]
                 /\ cursor' = cursor + temp.slots[next].size
                 /\ UNCHANGED <<temp, inserting, answer>>

\* One round of the loop: move the record of slot next, if it has one
PackSlot == /\ inserting.busy
            /\ next < page.count
            /\ next' = next + 1
            /\ LET s == temp.slots[next]
               IN  IF s.size > 0
                   THEN /\ page' = [page EXCEPT
                                      !.bytes = Copied(@, cursor, temp.bytes, s.offset, s.size),
                                      !.slots[next].offset = cursor]
                        /\ cursor' = cursor + s.size
                   ELSE UNCHANGED <<page, cursor>>
            /\ UNCHANGED <<temp, inserting, answer>>

\* mutant: freeSpaceStart is not taken back
PackedKeepsStart == page
Packed == [page EXCEPT !.start = cursor]

\* db_slotted_compact returns: the insertion goes on, or gives up
FinishCompact == /\ inserting.busy
                 /\ next = page.count
                 /\ inserting' = Idle
                 /\ IF Room(Packed, inserting.data)
                    THEN /\ page' = Written(Packed, inserting.data)
                         /\ answer' = Returned(TargetSlot(Packed), <<>>)
                    ELSE /\ page' = Packed
                         /\ answer' = Returned(-1, <<>>)
                 /\ temp' = Blank /\ next' = 0 /\ cursor' = 0

\* db_slotted_get
Get(i) == /\ ~inserting.busy
          /\ answer' = Returned(0, IF i \in Live(page) THEN Record(page, i) ELSE <<>>)
          /\ UNCHANGED <<page, locals>>

\* db_slotted_delete: the offset stays
Delete(i) == /\ ~inserting.busy
             /\ page' = IF i \in Slots(page) THEN [page EXCEPT !.slots[i].size = 0] ELSE page
             /\ UNCHANGED <<locals, answer>>

Next == \/ Format
        \/ \E d \in Data : Insert(d) \/ StartCompact(d)
        \/ PackSlot \/ FinishCompact
        \/ \E i \in 0 .. PageSize : Get(i) \/ Delete(i)

Spec == Init /\ [][Next]_vars
FairSpec == Spec /\ WF_vars(PackSlot \/ FinishCompact)
-----------------------------------------------------------------------------
(* What makes a slotted page correct.                                      *)

\* Types: the free space stays inside the page, the locals inside the loop
TypeOK == /\ page \in Page /\ temp \in Page
          /\ page.start \in HeaderSize .. PageSize
          /\ page.end \in HeaderSize .. PageSize
          /\ inserting \in [busy : BOOLEAN, data : Data \cup {<<>>}]
          /\ next \in Nat /\ cursor \in Nat
          /\ answer \in [index : Int, data : Seq(Bytes)]

\* The data segments stay between the header and the slot array
Inside(p) == \A i \in Live(p) :
               /\ p.slots[i].offset >= HeaderSize
               /\ p.slots[i].offset + p.slots[i].size <= PageSize - SlotSize * p.count

Apart(p) == \A i, j \in Live(p) :
              i # j => Segment(p.slots[i]) \cap Segment(p.slots[j]) = {}

\* "To prevent memory overlap, the Slotted Page grows from both ends": between
\* calls no record reaches into the header, the slot array or another record,
\* whatever was deleted, packed and reused before
SegmentsApart == ~inserting.busy => Inside(page) /\ Apart(page)

\* An insertion is refused only when its record would not fit a page that
\* holds the live records one after the other and one more slot: packing wastes
\* nothing, and no hole is left behind
LiveBytes(p) == Cardinality(UNION {Segment(p.slots[i]) : i \in Live(p)})
RefusedOnlyWhenFull ==
  [][inserting.busy /\ ~inserting'.busy /\ answer'.index = -1
       => HeaderSize + LiveBytes(page) + Len(inserting.data) + SlotSize * (page.count + 1)
            > PageSize]_vars

\* What callers see of the page; while it is being packed, of the copy
Contents(p) == [i \in Live(p) |-> Record(p, i)]
Visible == Contents(IF inserting.busy THEN temp ELSE page)

Records == INSTANCE RecordPage WITH store <- Visible, Indices <- 0 .. PageSize

\* The page is a RecordPage: what a slot index returns is what was inserted
\* under it, byte for byte, until it is deleted, across every compaction
ImplementsRecordPage == Records!Spec

\* Every insertion returns: the packing loop ends
InsertionsReturn == inserting.busy ~> ~inserting.busy
=============================================================================
