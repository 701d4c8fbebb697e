---------------------------- MODULE SlottedProofs ---------------------------
(***************************************************************************)
(* Proofs about db/db_slotted.c, for every size of page, header and slot,  *)
(* every set of records and every sequence of calls.                       *)
(***************************************************************************)
EXTENDS Slotted, FiniteSetTheorems

\* Two live segments, the first before the second or the other way round
Before(p, i, j) == p.slots[i].offset + p.slots[i].size <= p.slots[j].offset

\* A page between two calls
Tidy(p) == /\ p \in Page
           /\ HeaderSize <= p.start /\ p.start <= p.end
           /\ p.end = PageSize - SlotSize * p.count
           /\ \A i \in Live(p) : /\ p.slots[i].offset >= HeaderSize
                                 /\ p.slots[i].offset + p.slots[i].size <= p.start
           /\ \A i, j \in Live(p) : i # j => Before(p, i, j) \/ Before(p, j, i)

\* The bytes of the records that the packing loop has moved so far
MovedBelow(p, m) == UNION {Segment(p.slots[j]) : j \in {j \in Live(p) : j < m}}
Moved == MovedBelow(temp, next)
\* ... and where page q has them now.
MovedTo(q, p, m) == UNION {Segment(q.slots[j]) : j \in {j \in Live(p) : j < m}}

\* A page while it is being packed: the copy is tidy, the records below next
\* are behind one another below the cursor, with no byte between them, and the
\* cursor has advanced by as many bytes as were moved
Copying == /\ Tidy(temp)
           /\ page \in Page
           /\ page.count = temp.count /\ page.end = temp.end
           /\ page.start = temp.start
           /\ next \in 0 .. page.count
           /\ \A i \in Slots(temp) : page.slots[i].size = temp.slots[i].size
           /\ cursor \in Nat
           /\ cursor = HeaderSize + Cardinality(Moved)
           /\ \A i \in Live(temp) : i < next =>
                 /\ page.slots[i].offset >= HeaderSize
                 /\ page.slots[i].offset + page.slots[i].size <= cursor
                 /\ Record(page, i) = Record(temp, i)
           /\ \A i, j \in Live(temp) :
                 i # j /\ i < next /\ j < next => Before(page, i, j) \/ Before(page, j, i)
           /\ HeaderSize .. cursor - 1 \subseteq MovedTo(page, temp, next)

Types == /\ inserting \in [busy : BOOLEAN, data : Data \cup {<<>>}]
         /\ inserting.busy => inserting.data \in Data
         /\ temp \in Page /\ next \in Nat /\ cursor \in Nat
         /\ answer \in [index : Int, data : Seq(Bytes)]

IInv == /\ Types
        /\ ~inserting.busy => Tidy(page)
        /\ inserting.busy => Copying

-----------------------------------------------------------------------------
LEMMA DataSeq == ASSUME NEW d \in Data \cup {<<>>}
                 PROVE  /\ d \in Seq(Bytes) /\ Len(d) \in Nat
                        /\ \A k \in 1 .. Len(d) : d[k] \in Bytes
<1>1. d \in Seq(Bytes)
  <2>1. CASE d \in Data
    BY <2>1, DataAssumption
  <2>2. CASE d = <<>>
    BY <2>2
  <2> QED BY <2>1, <2>2
<1> QED BY <1>1

LEMMA CountBound == ASSUME NEW c \in Nat, SlotSize * c <= PageSize
                    PROVE  c <= PageSize
<1>1. SlotSize * c >= c
  BY SizesAssumption
<1> QED BY <1>1, SizesAssumption

LEMMA CopiedBytes ==
  ASSUME NEW dst \in [0 .. PageSize - 1 -> Bytes], NEW src, NEW to \in Nat, NEW from \in Nat,
         NEW n \in Nat, \A k \in from .. from + n - 1 : src[k] \in Bytes
  PROVE  Copied(dst, to, src, from, n) \in [0 .. PageSize - 1 -> Bytes]
<1> SUFFICES ASSUME NEW o \in 0 .. PageSize - 1
             PROVE  (IF to <= o /\ o < to + n THEN src[o - to + from] ELSE dst[o]) \in Bytes
  BY DEF Copied
<1>1. CASE to <= o /\ o < to + n
  <2>1. o - to + from \in from .. from + n - 1
    BY <1>1, SizesAssumption
  <2> QED BY <2>1, <1>1
<1>2. CASE ~(to <= o /\ o < to + n)
  BY <1>2
<1> QED BY <1>1, <1>2

LEMMA BlankTypes == Blank \in Page
  BY DataAssumption, SizesAssumption DEF Blank, Page, Slot

LEMMA FormattedTidy == ASSUME NEW p \in Page
                       PROVE  Tidy(Formatted(p)) /\ Live(Formatted(p)) = {}
<1> DEFINE q == Formatted(p)
<1>1. q.count = 0 /\ q.start = HeaderSize /\ q.end = PageSize /\ q \in Page
  BY SizesAssumption DEF Formatted, Page
<1>2. Live(q) = {}
  BY <1>1 DEF Live, Slots
<1>3. PageSize = PageSize - SlotSize * 0
  BY SizesAssumption
<1> HIDE DEF q
<1>4. Tidy(q)
  BY <1>1, <1>2, <1>3, SizesAssumption DEF Tidy
<1> QED BY <1>2, <1>4 DEF q

\* The slot an insertion takes is the lowest index that is not in use.
LEMMA Target ==
  ASSUME NEW p \in Page, p.count <= PageSize
  PROVE  /\ TargetSlot(p) \in 0 .. p.count /\ TargetSlot(p) \notin Live(p)
         /\ \A j \in 0 .. TargetSlot(p) - 1 : j \in Live(p)
         /\ TargetSlot(p) # p.count => TargetSlot(p) \in Slots(p)
<1> DEFINE t == TargetSlot(p)
<1>0. p.count \in Nat
  BY DEF Page
<1>1. CASE Holes(p) = {}
  <2>1. t = p.count
    BY <1>1 DEF TargetSlot
  <2>2. ASSUME NEW j \in 0 .. p.count - 1 PROVE j \in Live(p)
    <3>1. p.slots[j].size # 0 /\ j \in Slots(p)
      BY <1>1, <2>2 DEF Holes, Slots
    <3>2. j \in 0 .. PageSize
      BY <1>0, <2>2, SizesAssumption
    <3>3. p.slots[j] \in Slot
      BY <3>2 DEF Page
    <3> QED BY <3>1, <3>3 DEF Live, Slot
  <2>3. p.count \notin Live(p)
    BY <1>0 DEF Live, Slots
  <2> QED BY <1>0, <2>1, <2>2, <2>3
<1>2. CASE Holes(p) # {}
  <2>1. t = FirstOf(Holes(p))
    BY <1>2 DEF TargetSlot
  <2>2. Holes(p) \in SUBSET Nat
    BY <1>0 DEF Holes, Slots
  <2>3. t \in Holes(p) /\ \A i \in Holes(p) : t <= i
    BY <1>2, <2>1, <2>2, LeastElement
  <2>4. t \in 0 .. p.count - 1 /\ t \in Slots(p) /\ t \notin Live(p) /\ t # p.count
    BY <1>0, <2>3 DEF Holes, Live, Slots
  <2>5. ASSUME NEW j \in 0 .. t - 1 PROVE j \in Live(p)
    <3>1. j \in Slots(p) /\ j \notin Holes(p)
      BY <1>0, <2>3, <2>4, <2>5 DEF Slots
    <3>2. p.slots[j].size # 0 /\ p.slots[j].size \in Nat
      <4>1. j \in 0 .. PageSize
        BY <1>0, <2>4, SizesAssumption
      <4>2. p.slots[j] \in Slot
        BY <4>1 DEF Page
      <4> QED BY <3>1, <4>2 DEF Holes, Slot
    <3> QED BY <3>1, <3>2 DEF Live
  <2>6. t \in 0 .. p.count
    BY <1>0, <2>4
  <2> HIDE DEF t
  <2>7. t \in 0 .. p.count /\ t \notin Live(p) /\ t \in Slots(p)
        /\ \A j \in 0 .. t - 1 : j \in Live(p)
    BY <2>4, <2>5, <2>6
  <2> QED BY <2>7, Zenon DEF t
<1> QED BY <1>1, <1>2

\* What an insertion writes, when there is room: a tidy page that shows the new
\* record under the index returned, and every other record as before.
LEMMA WrittenTidy ==
  ASSUME NEW p \in Page, Tidy(p), NEW d \in Data \cup {<<>>}, Room(p, d)
  PROVE  /\ Tidy(Written(p, d))
         /\ Contents(Written(p, d)) = Records!With(Contents(p), TargetSlot(p), d)
<1> DEFINE t == TargetSlot(p)
           q == Written(p, d)
           n == Len(d)
<1>1. /\ p.count \in Nat /\ p.start \in Nat /\ p.end \in Nat
      /\ p.bytes \in [0 .. PageSize - 1 -> Bytes] /\ p.slots \in [0 .. PageSize -> Slot]
  BY DEF Page
<1>2. n \in Nat /\ d \in Seq(Bytes) /\ \A k \in 1 .. n : d[k] \in Bytes
  BY DataSeq
<1>3. p.end - p.start >= n + SlotSize
  BY <1>1, <1>2 DEF Tidy, Room, Available
<1> HIDE DEF n
<1>0. /\ HeaderSize <= p.start /\ p.start <= p.end
      /\ p.end = PageSize - SlotSize * p.count
  BY DEF Tidy
<1>4. SlotSize * p.count \in Nat /\ SlotSize * (p.count + 1) = SlotSize * p.count + SlotSize
  BY <1>1, SizesAssumption
<1>5. SlotSize * (p.count + 1) <= PageSize /\ p.count + 1 \in Nat
  <2> DEFINE m == SlotSize * p.count
  <2>1. m \in Nat /\ SlotSize * (p.count + 1) = m + SlotSize /\ p.end = PageSize - m
    BY <1>0, <1>4
  <2> HIDE DEF m
  <2>2. m + SlotSize <= PageSize
    BY <1>1, <1>2, <1>3, <2>1, SizesAssumption
  <2> QED BY <1>1, <2>1, <2>2
<1>6. p.count + 1 <= PageSize
  BY <1>5, CountBound
<1>7. /\ t \in 0 .. p.count /\ t \notin Live(p)
      /\ t # p.count => t \in Slots(p)
  BY <1>1, <1>6, Target, SizesAssumption
<1> HIDE DEF t
<1>8. EndBelow(p.end) = p.end - SlotSize
  BY <1>1, <1>2, <1>3, SizesAssumption DEF EndBelow
<1>9. /\ q.count = IF t = p.count THEN p.count + 1 ELSE p.count
      /\ q.start = p.start + n
      /\ q.end = IF t = p.count THEN p.end - SlotSize ELSE p.end
  BY <1>8 DEF Written, t, n
<1>26. /\ q.slots = [p.slots EXCEPT ![t] = [offset |-> p.start, size |-> n]]
      /\ q.bytes = Copied(p.bytes, p.start, [o \in 0 .. n - 1 |-> d[o + 1]], 0, n)
      /\ q = [bytes |-> q.bytes, slots |-> q.slots, count |-> q.count,
              start |-> q.start, end |-> q.end]
  BY DEF Written, t, n
<1> HIDE DEF q
<1>10. q \in Page
  <2>1. q.bytes \in [0 .. PageSize - 1 -> Bytes]
    <3> DEFINE src == [o \in 0 .. n - 1 |-> d[o + 1]]
    <3>1. \A k \in 0 .. 0 + n - 1 : src[k] \in Bytes
      BY <1>2
    <3> HIDE DEF src
    <3>2. Copied(p.bytes, p.start, src, 0, n) \in [0 .. PageSize - 1 -> Bytes]
      BY <1>1, <1>2, <3>1, CopiedBytes
    <3> QED BY <3>2, <1>26 DEF src
  <2>2. t \in 0 .. PageSize /\ [offset |-> p.start, size |-> n] \in Slot
    BY <1>1, <1>2, <1>6, <1>7, SizesAssumption DEF Slot
  <2>3. q.slots \in [0 .. PageSize -> Slot]
    BY <1>1, <1>26, <2>2
  <2>4. q.count \in Nat /\ q.start \in Nat /\ q.end \in Nat
    <3>1. p.end - SlotSize \in Nat
      BY <1>1, <1>2, <1>3, SizesAssumption
    <3> QED BY <1>1, <1>2, <1>9, <3>1
  <2> QED BY <1>26, <2>1, <2>3, <2>4 DEF Page
<1>11. q.end = PageSize - SlotSize * q.count
  <2>1. CASE t = p.count
    BY <1>0, <1>1, <1>4, <1>9, <2>1, SizesAssumption
  <2>2. CASE t # p.count
    BY <1>0, <1>9, <2>2
  <2> QED BY <2>1, <2>2
<1>12. HeaderSize <= q.start /\ q.start <= q.end
  <2>1. HeaderSize <= p.start
    BY <1>0
  <2>2. HeaderSize <= p.start + n /\ p.start + n <= p.end - SlotSize /\ p.start + n <= p.end
    BY <1>1, <1>2, <1>3, <2>1, SizesAssumption
  <2> QED BY <1>9, <2>2
<1>13. t \in 0 .. PageSize
  BY <1>1, <1>6, <1>7, SizesAssumption
<1>14. q.slots[t].offset = p.start /\ q.slots[t].size = n
  <2>1. q.slots[t] = [offset |-> p.start, size |-> n]
    BY <1>1, <1>26, <1>13
  <2> QED BY <2>1
<1>15. ASSUME NEW i, i # t
       PROVE  (i \in Live(q) <=> i \in Live(p)) /\ (i \in Live(p) => q.slots[i] = p.slots[i])
  <2>1. i \in Slots(q) <=> i \in Slots(p)
    BY <1>1, <1>7, <1>9, <1>15 DEF Slots
  <2>2. ASSUME i \in Slots(p) PROVE q.slots[i] = p.slots[i]
    <3>1. i \in 0 .. PageSize
      BY <1>1, <1>6, <2>2, SizesAssumption DEF Slots
    <3> QED BY <1>1, <1>26, <1>13, <1>15, <3>1
  <2> QED BY <2>1, <2>2 DEF Live
<1>16. t \in Live(q) <=> n > 0
  <2>1. t \in Slots(q)
    BY <1>1, <1>7, <1>9 DEF Slots
  <2> QED BY <2>1, <1>14 DEF Live
<1>17. ASSUME NEW i \in Live(p)
       PROVE  /\ p.slots[i].offset \in Nat /\ p.slots[i].size \in Nat /\ p.slots[i].size > 0
              /\ p.slots[i].offset >= HeaderSize
              /\ p.slots[i].offset + p.slots[i].size <= p.start
  <2>1. i \in 0 .. PageSize
    BY <1>1, <1>6, SizesAssumption DEF Live, Slots
  <2>2. p.slots[i] \in Slot
    BY <1>1, <2>1
  <2> QED BY <2>2 DEF Tidy, Slot, Live
<1>18. ASSUME NEW i \in Live(q)
       PROVE  /\ q.slots[i].offset >= HeaderSize
              /\ q.slots[i].offset + q.slots[i].size <= q.start
  <2>1. CASE i = t
    BY <1>0, <1>1, <1>2, <1>9, <1>14, <2>1, SizesAssumption, SMTT(30)
  <2>2. CASE i # t
    <3>1. i \in Live(p) /\ q.slots[i] = p.slots[i]
      BY <1>15, <2>2
    <3>2. p.slots[i].offset >= HeaderSize /\ p.slots[i].offset + p.slots[i].size <= p.start + n
      BY <1>1, <1>2, <1>17, <3>1, SMTT(30)
    <3> QED BY <1>9, <3>1, <3>2
  <2> QED BY <2>1, <2>2
<1>19. ASSUME NEW i \in Live(q), NEW j \in Live(q), i # j
       PROVE  Before(q, i, j) \/ Before(q, j, i)
  <2>1. CASE i # t /\ j # t
    <3>1. i \in Live(p) /\ q.slots[i] = p.slots[i] /\ j \in Live(p) /\ q.slots[j] = p.slots[j]
      BY <1>15, <2>1
    <3>2. Before(p, i, j) \/ Before(p, j, i)
      BY <1>19, <3>1 DEF Tidy
    <3> QED BY <3>1, <3>2 DEF Before
  <2>2. CASE i = t
    <3>1. j \in Live(p) /\ q.slots[j] = p.slots[j]
      BY <1>15, <1>19, <2>2
    <3> QED BY <1>14, <1>17, <2>2, <3>1 DEF Before
  <2>3. CASE j = t
    <3>1. i \in Live(p) /\ q.slots[i] = p.slots[i]
      BY <1>15, <1>19, <2>3
    <3> QED BY <1>14, <1>17, <2>3, <3>1 DEF Before
  <2> QED BY <2>1, <2>2, <2>3
<1>20. Tidy(q)
  BY <1>10, <1>11, <1>12, <1>18, <1>19 DEF Tidy
<1>21. ASSUME NEW o \in 0 .. PageSize - 1
       PROVE  q.bytes[o] = IF p.start <= o /\ o < p.start + n THEN d[o - p.start + 1]
                           ELSE p.bytes[o]
  <2>1. CASE p.start <= o /\ o < p.start + n
    <3>1. o - p.start + 0 \in 0 .. n - 1 /\ o - p.start + 0 = o - p.start
      BY <1>1, <1>2, <2>1, SizesAssumption, SMTT(30)
    <3> QED BY <1>26, <2>1, <3>1 DEF Copied
  <2>2. CASE ~(p.start <= o /\ o < p.start + n)
    BY <1>26, <2>2 DEF Copied
  <2> QED BY <2>1, <2>2
<1>25. p.start + n <= PageSize
  <2> DEFINE m == SlotSize * p.count
  <2>1. m \in Nat /\ p.end = PageSize - m
    BY <1>0, <1>4
  <2> HIDE DEF m
  <2> QED BY <1>1, <1>2, <1>3, <2>1, SizesAssumption, SMTT(30)
<1>22. ASSUME NEW i \in Live(p)
       PROVE  Record(q, i) = Record(p, i)
  <2>1. q.slots[i] = p.slots[i]
    BY <1>7, <1>15
  <2>2. ASSUME NEW k \in 1 .. p.slots[i].size
        PROVE  q.bytes[p.slots[i].offset + k - 1] = p.bytes[p.slots[i].offset + k - 1]
    <3>1. /\ p.slots[i].offset + k - 1 \in 0 .. PageSize - 1
          /\ p.slots[i].offset + k - 1 < p.start
      <4> DEFINE f == p.slots[i].offset
                 s == p.slots[i].size
      <4>1. f \in Nat /\ s \in Nat /\ f + s <= p.start /\ p.start <= PageSize /\ k \in 1 .. s
        BY <1>1, <1>2, <1>17, <1>25, SizesAssumption
      <4> HIDE DEF f, s
      <4>2. f + k - 1 \in 0 .. PageSize - 1 /\ f + k - 1 < p.start
        BY <1>1, <4>1, SizesAssumption
      <4> QED BY <4>2 DEF f
    <3> QED BY <1>1, <1>21, <3>1
  <2> QED BY <2>1, <2>2 DEF Record
<1>23. ASSUME n > 0
       PROVE  Record(q, t) = d
  <2>1. ASSUME NEW k \in 1 .. n
        PROVE  q.bytes[p.start + k - 1] = d[k]
    <3>1. p.start + k - 1 \in 0 .. PageSize - 1 /\ p.start + k - 1 - p.start + 1 = k
      BY <1>1, <1>2, <1>25, SizesAssumption
    <3>2. p.start <= p.start + k - 1 /\ p.start + k - 1 < p.start + n
      BY <1>1, <1>2
    <3> DEFINE o == p.start + k - 1
    <3>3. q.bytes[o] = d[o - p.start + 1]
      <4> HIDE DEF o
      <4> QED BY <1>21, <3>1, <3>2 DEF o
    <3>4. o - p.start + 1 = k
      BY <1>1, <1>2
    <3> HIDE DEF o
    <3>5. q.bytes[o] = d[k]
      BY <3>3, <3>4
    <3> QED BY <3>5 DEF o
  <2>2. Record(q, t) = [k \in 1 .. n |-> d[k]]
    BY <1>14, <2>1 DEF Record
  <2>3. d = [k \in 1 .. n |-> d[k]]
    BY <1>2 DEF n
  <2> QED BY <2>2, <2>3
<1>24. Contents(q) = Records!With(Contents(p), t, d)
  <2>1. CASE d = <<>>
    <3>1. n = 0
      BY <2>1 DEF n
    <3>2. Live(q) = Live(p)
      BY <1>7, <1>15, <1>16, <3>1, SMTT(30)
    <3>3. Contents(q) = [i \in Live(p) |-> Record(p, i)]
      BY <1>22, <3>2 DEF Contents
    <3>4. Live(p) \ {t} = Live(p)
      BY <1>7
    <3>5. Records!With(Contents(p), t, d) = [i \in Live(p) |-> Contents(p)[i]]
      BY <2>1, <3>4 DEF Records!With, Records!NoRecord, Records!Without, Contents
    <3> QED BY <3>3, <3>5 DEF Contents
  <2>2. CASE d # <<>>
    <3>1. n > 0
      BY <1>2, <2>2 DEF n
    <3>2. Live(q) = Live(p) \cup {t}
      BY <1>15, <1>16, <3>1
    <3>3. DOMAIN Contents(p) = Live(p)
      BY DEF Contents
    <3>4. Records!With(Contents(p), t, d)
            = [j \in Live(p) \cup {t} |-> IF j = t THEN d ELSE Contents(p)[j]]
      BY <2>2, <3>3 DEF Records!With, Records!NoRecord
    <3>5. ASSUME NEW j \in Live(p) \cup {t}
          PROVE  Record(q, j) = IF j = t THEN d ELSE Contents(p)[j]
      BY <1>22, <1>23, <3>1 DEF Contents
    <3> QED BY <3>2, <3>4, <3>5 DEF Contents
  <2> QED BY <2>1, <2>2
<1> QED BY <1>20, <1>24 DEF q, t

-----------------------------------------------------------------------------
\* What holds of a tidy page, without its quantifiers.
LEMMA TidyFacts ==
  ASSUME NEW p, Tidy(p)
  PROVE  /\ p \in Page
         /\ p.count \in Nat /\ p.start \in Nat /\ p.end \in Nat
         /\ p.bytes \in [0 .. PageSize - 1 -> Bytes] /\ p.slots \in [0 .. PageSize -> Slot]
         /\ HeaderSize <= p.start /\ p.start <= p.end /\ p.end <= PageSize
         /\ p.count <= PageSize
         /\ \A i \in Live(p) : /\ i \in 0 .. PageSize
                               /\ p.slots[i].offset \in Nat /\ p.slots[i].size \in Nat
                               /\ p.slots[i].size > 0
                               /\ p.slots[i].offset >= HeaderSize
                               /\ p.slots[i].offset + p.slots[i].size <= p.start
<1>1. /\ p \in Page /\ p.count \in Nat /\ p.start \in Nat /\ p.end \in Nat
      /\ p.bytes \in [0 .. PageSize - 1 -> Bytes] /\ p.slots \in [0 .. PageSize -> Slot]
      /\ HeaderSize <= p.start /\ p.start <= p.end
      /\ p.end = PageSize - SlotSize * p.count
  BY DEF Tidy, Page
<1>2. SlotSize * p.count \in Nat
  BY <1>1, SizesAssumption
<1>3. SlotSize * p.count <= PageSize /\ p.end <= PageSize
  <2> DEFINE m == SlotSize * p.count
  <2>1. m \in Nat /\ p.end = PageSize - m /\ p.end \in Nat
    BY <1>1, <1>2
  <2> HIDE DEF m
  <2>2. m <= PageSize /\ p.end <= PageSize
    BY <2>1, SizesAssumption
  <2> QED BY <2>2 DEF m
<1>4. p.count <= PageSize
  BY <1>1, <1>3, CountBound
<1>5. ASSUME NEW i \in Live(p)
      PROVE  /\ i \in 0 .. PageSize
             /\ p.slots[i].offset \in Nat /\ p.slots[i].size \in Nat
             /\ p.slots[i].size > 0
             /\ p.slots[i].offset >= HeaderSize
             /\ p.slots[i].offset + p.slots[i].size <= p.start
  <2>1. i \in 0 .. PageSize
    BY <1>1, <1>4, SizesAssumption DEF Live, Slots
  <2>2. p.slots[i] \in Slot
    BY <1>1, <2>1
  <2> QED BY <2>1, <2>2 DEF Tidy, Slot, Live
<1> QED BY <1>1, <1>3, <1>4, <1>5

\* The bytes moved so far fill the page up to the cursor and come from below the
\* free space of the copy: the cursor cannot pass it.
LEMMA CursorBelowStart ==
  ASSUME NEW p, Tidy(p), NEW M \in SUBSET (HeaderSize .. p.start - 1)
  PROVE  IsFiniteSet(M) /\ HeaderSize + Cardinality(M) <= p.start
<1>1. HeaderSize \in Nat /\ p.start \in Nat /\ HeaderSize <= p.start
  BY TidyFacts, SizesAssumption
<1> DEFINE I == HeaderSize .. p.start - 1
<1>2. IsFiniteSet(I)
      /\ Cardinality(I) = IF HeaderSize > p.start - 1 THEN 0 ELSE p.start - 1 - HeaderSize + 1
  <2>1. HeaderSize \in Int /\ p.start - 1 \in Int
    BY <1>1
  <2> QED BY <2>1, FS_Interval
<1> HIDE DEF I
<1>3. M \subseteq I
  BY DEF I
<1>4. IsFiniteSet(M) /\ Cardinality(M) <= Cardinality(I)
  BY <1>2, <1>3, FS_Subset
<1>5. Cardinality(M) \in Nat
  BY <1>4, FS_CardinalityType
<1> QED BY <1>1, <1>2, <1>4, <1>5

LEMMA MovedInside ==
  ASSUME NEW p, Tidy(p), NEW m
  PROVE  MovedBelow(p, m) \in SUBSET (HeaderSize .. p.start - 1)
<1> SUFFICES ASSUME NEW j \in Live(p), NEW x \in Segment(p.slots[j])
             PROVE  x \in HeaderSize .. p.start - 1
  BY DEF MovedBelow
<1>1. /\ p.slots[j].offset \in Nat /\ p.slots[j].size \in Nat
      /\ p.slots[j].offset >= HeaderSize
      /\ p.slots[j].offset + p.slots[j].size <= p.start
      /\ p.start \in Nat
  BY TidyFacts
<1> QED BY <1>1, SizesAssumption DEF Segment

\* One more record moves: the cursor advances by its size.
LEMMA MovedGrows ==
  ASSUME NEW p, Tidy(p), NEW m \in Nat, m \in Live(p)
  PROVE  /\ Cardinality(MovedBelow(p, m + 1)) = Cardinality(MovedBelow(p, m)) + p.slots[m].size
         /\ Cardinality(MovedBelow(p, m)) \in Nat
<1> DEFINE S == Segment(p.slots[m])
           f == p.slots[m].offset
           n == p.slots[m].size
<1>1. f \in Nat /\ n \in Nat /\ n > 0
  BY TidyFacts
<1>2. IsFiniteSet(MovedBelow(p, m)) /\ Cardinality(MovedBelow(p, m)) \in Nat
  BY MovedInside, CursorBelowStart, FS_CardinalityType
<1>3. S = f .. f + n - 1
  BY DEF Segment
<1> HIDE DEF f, n, S
<1>4. IsFiniteSet(S) /\ Cardinality(S) = n
  <2>1. /\ IsFiniteSet(f .. f + n - 1)
        /\ Cardinality(f .. f + n - 1) = IF f > f + n - 1 THEN 0 ELSE f + n - 1 - f + 1
    BY <1>1, FS_Interval
  <2> QED BY <1>1, <1>3, <2>1
<1>5. MovedBelow(p, m + 1) = MovedBelow(p, m) \cup S
  <2>1. {j \in Live(p) : j < m + 1} = {j \in Live(p) : j < m} \cup {m}
    <3>1. \A j \in Live(p) : j \in 0 .. PageSize
      BY TidyFacts
    <3>2. \A j \in Live(p) : j < m + 1 <=> (j < m \/ j = m)
      BY <3>1
    <3> QED BY <3>2
  <2>2. MovedBelow(p, m + 1) = UNION {Segment(p.slots[j]) : j \in {j \in Live(p) : j < m + 1}}
    BY DEF MovedBelow
  <2> QED BY <2>1, <2>2 DEF MovedBelow, S
<1>6. MovedBelow(p, m) \cap S = {}
  <2> SUFFICES ASSUME NEW j \in Live(p), j < m, NEW x \in Segment(p.slots[j]), x \in S
               PROVE  FALSE
    BY DEF MovedBelow
  <2>1. p.slots[j].offset \in Nat /\ p.slots[j].size \in Nat /\ j \in 0 .. PageSize
    BY TidyFacts
  <2>2. Before(p, j, m) \/ Before(p, m, j)
    BY <2>1 DEF Tidy
  <2> DEFINE g == p.slots[j].offset
             l == p.slots[j].size
  <2>3. g + l <= f \/ f + n <= g
    BY <2>2 DEF Before, f, n
  <2>4. g \in Nat /\ l \in Nat /\ x \in g .. g + l - 1
    BY <2>1 DEF Segment
  <2> HIDE DEF g, l
  <2> QED BY <1>1, <1>3, <2>3, <2>4
<1>7. Cardinality(MovedBelow(p, m) \cup S) = Cardinality(MovedBelow(p, m)) + Cardinality(S) - Cardinality(MovedBelow(p, m) \cap S)
  BY <1>2, <1>4, FS_Union
<1>8. Cardinality(MovedBelow(p, m) \cap S) = 0
  BY <1>6, FS_EmptySet
<1>9. Cardinality(MovedBelow(p, m + 1)) = Cardinality(MovedBelow(p, m)) + n
  <2> DEFINE A == MovedBelow(p, m)
             B == MovedBelow(p, m + 1)
  <2>1. B = A \cup S
    BY <1>5
  <2>2. Cardinality(A \cup S) = Cardinality(A) + Cardinality(S) - Cardinality(A \cap S)
    BY <1>7
  <2>3. Cardinality(A \cap S) = 0 /\ Cardinality(A) \in Nat
    BY <1>2, <1>8
  <2> HIDE DEF A, B
  <2>4. Cardinality(A \cup S) = Cardinality(A) + n
    BY <1>1, <1>4, <2>2, <2>3
  <2> QED BY <2>1, <2>4 DEF A, B
<1> QED BY <1>2, <1>9 DEF n

\* A hole moves nothing.
LEMMA MovedStays ==
  ASSUME NEW p, Tidy(p), NEW m \in Nat, m \notin Live(p)
  PROVE  MovedBelow(p, m + 1) = MovedBelow(p, m)
<1>1. {j \in Live(p) : j < m + 1} = {j \in Live(p) : j < m}
  <2>1. \A j \in Live(p) : j \in 0 .. PageSize
    BY TidyFacts
  <2> QED BY <2>1
<1>2. MovedBelow(p, m + 1) = UNION {Segment(p.slots[j]) : j \in {j \in Live(p) : j < m + 1}}
  BY DEF MovedBelow
<1> QED BY <1>1, <1>2 DEF MovedBelow

-----------------------------------------------------------------------------
\* One round of the packing loop.
LEMMA PackKeeps ==
  ASSUME Types, Copying, PackSlot, inserting.busy
  PROVE  Copying'
<1>0. /\ next \in Nat /\ cursor \in Nat /\ next' = next + 1 /\ next < page.count
      /\ temp' = temp /\ Tidy(temp) /\ page \in Page /\ page.count = temp.count
      /\ page.start = temp.start /\ page.end = temp.end
      /\ temp.count \in Nat /\ temp.count <= PageSize
  BY TidyFacts DEF Types, Copying, PackSlot
<1>1. Live(temp)' = Live(temp) /\ Slots(temp)' = Slots(temp) /\ Tidy(temp)'
  BY <1>0 DEF Live, Slots, Tidy, Before
<1>2. /\ page.bytes \in [0 .. PageSize - 1 -> Bytes] /\ page.slots \in [0 .. PageSize -> Slot]
      /\ page.count \in Nat /\ page.start \in Nat /\ page.end \in Nat
  BY <1>0 DEF Page
<1>3. next \in Slots(temp) /\ next \in 0 .. PageSize
  BY <1>0, SizesAssumption DEF Slots
<1>4. next' \in 0 .. page.count
  BY <1>0
<1>5. cursor = HeaderSize + Cardinality(Moved) /\ Moved \in SUBSET (HeaderSize .. temp.start - 1)
  BY <1>0, MovedInside DEF Copying, Moved
<1>6. CASE next \notin Live(temp)
  <2>1. page' = page /\ cursor' = cursor
    <3>1. ~(temp.slots[next].size > 0)
      BY <1>3, <1>6 DEF Live
    <3> QED BY <3>1 DEF PackSlot
  <2>2. Moved' = Moved
    BY <1>0, <1>6, MovedStays DEF Moved
  <2>3. \A j \in Live(temp) : j < next' <=> j < next
    <3>1. \A j \in Live(temp) : j \in 0 .. PageSize /\ j # next
      BY <1>0, <1>6, TidyFacts
    <3> QED BY <1>0, <3>1
  <2>4. (HeaderSize .. cursor - 1 \subseteq MovedTo(page, temp, next))'
    <3>1. {j \in Live(temp) : j < next'} = {j \in Live(temp) : j < next}
      BY <2>3
    <3>2. MovedTo(page, temp, next) = MovedTo(page, temp, next)'
      BY <1>0, <1>1, <2>1, <3>1 DEF MovedTo, Segment
    <3> QED BY <2>1, <3>2 DEF Copying
  <2> QED BY <1>0, <1>1, <1>4, <2>1, <2>2, <2>3, <2>4 DEF Copying, Record, Before
<1>7. CASE next \in Live(temp)
  <2> DEFINE f == temp.slots[next].offset
             n == temp.slots[next].size
  <2>1. f \in Nat /\ n \in Nat /\ n > 0 /\ f + n <= temp.start /\ f >= HeaderSize
        /\ temp.start \in Nat /\ temp.start <= PageSize
    <3>1. temp.start \in Nat /\ temp.end \in Nat /\ temp.start <= temp.end /\ temp.end <= PageSize
      BY <1>0, TidyFacts
    <3>2. f \in Nat /\ n \in Nat /\ n > 0 /\ f + n <= temp.start /\ f >= HeaderSize
      BY <1>0, <1>7, TidyFacts
    <3> QED BY <3>1, <3>2, SizesAssumption
  <2>2. /\ page' = [page EXCEPT !.bytes = Copied(@, cursor, temp.bytes, f, n),
                              !.slots[next].offset = cursor]
        /\ cursor' = cursor + n
    BY <2>1 DEF PackSlot
  <2> HIDE DEF f, n
  <2>3. cursor' = HeaderSize + Cardinality(Moved') /\ cursor' \in Nat
    <3>1. Cardinality(Moved') = Cardinality(Moved) + n /\ Cardinality(Moved) \in Nat
      BY <1>0, <1>7, MovedGrows DEF n, Moved
    <3> QED BY <1>0, <1>5, <2>1, <2>2, <3>1, SizesAssumption
  <2>4. cursor' <= temp.start
    <3>1. Moved' \in SUBSET (HeaderSize .. temp.start - 1)
      BY <1>0, MovedInside DEF Moved
    <3> QED BY <1>0, <2>3, <3>1, CursorBelowStart
  <2>5. /\ page'.count = page.count /\ page'.start = page.start /\ page'.end = page.end
        /\ page'.bytes = Copied(page.bytes, cursor, temp.bytes, f, n)
        /\ page'.slots = [page.slots EXCEPT ![next].offset = cursor]
        /\ page' = [bytes |-> page'.bytes, slots |-> page'.slots, count |-> page'.count,
                   start |-> page'.start, end |-> page'.end]
    BY <1>0, <2>2 DEF Page
  <2>6. /\ page'.slots \in [0 .. PageSize -> Slot]
        /\ page'.slots[next].offset = cursor /\ page'.slots[next].size = page.slots[next].size
        /\ \A i \in 0 .. PageSize : i # next => page'.slots[i] = page.slots[i]
    <3>1. page.slots[next] \in Slot
      BY <1>2, <1>3
    <3>2. [page.slots[next] EXCEPT !.offset = cursor] \in Slot
          /\ [page.slots[next] EXCEPT !.offset = cursor].offset = cursor
          /\ [page.slots[next] EXCEPT !.offset = cursor].size = page.slots[next].size
      BY <1>0, <3>1 DEF Slot
    <3>3. page'.slots = [page.slots EXCEPT ![next] = [page.slots[next] EXCEPT !.offset = cursor]]
      BY <2>5, <3>1 DEF Slot
    <3> QED BY <1>2, <1>3, <3>2, <3>3
  <2>7. page' \in Page
    <3>1. \A k \in f .. f + n - 1 : temp.bytes[k] \in Bytes
      <4>1. \A k \in f .. f + n - 1 : k \in 0 .. PageSize - 1
        BY <2>1, SizesAssumption
      <4> QED BY <1>0, <4>1, TidyFacts
    <3>2. page'.bytes \in [0 .. PageSize - 1 -> Bytes]
      <4>1. Copied(page.bytes, cursor, temp.bytes, f, n) \in [0 .. PageSize - 1 -> Bytes]
        BY <1>0, <1>2, <2>1, <3>1, CopiedBytes
      <4> QED BY <2>5, <4>1
    <3> QED BY <1>2, <2>5, <2>6, <3>2 DEF Page
  <2>8. \A i \in Slots(temp) : page'.slots[i].size = temp.slots[i].size
    <3>1. \A i \in Slots(temp) : i \in 0 .. PageSize
      BY <1>0, SizesAssumption DEF Slots
    <3>2. \A i \in Slots(temp) : page.slots[i].size = temp.slots[i].size
      BY DEF Copying
    <3> QED BY <1>3, <2>6, <3>1, <3>2
  <2>9. page.slots[next].size = n /\ page'.slots[next].size = n
    BY <1>3, <2>6, <2>8 DEF n
  <2>10. ASSUME NEW o \in 0 .. PageSize - 1
         PROVE  page'.bytes[o] = IF cursor <= o /\ o < cursor + n THEN temp.bytes[o - cursor + f]
                                 ELSE page.bytes[o]
    BY <2>5 DEF Copied
  <2>11. ASSUME NEW i \in Live(temp), i < next, i # next
         PROVE  /\ page'.slots[i] = page.slots[i]
                /\ page.slots[i].offset \in Nat /\ page.slots[i].size \in Nat
                /\ page.slots[i].offset >= HeaderSize
                /\ page.slots[i].offset + page.slots[i].size <= cursor
                /\ Record(page, i) = Record(temp, i)
                /\ page.slots[i].size = temp.slots[i].size
    <3>1. i \in 0 .. PageSize
      BY <1>0, TidyFacts
    <3>2. page.slots[i] \in Slot
      BY <1>2, <3>1
    <3>3. i \in Slots(temp)
      BY DEF Live
    <3> QED BY <2>6, <2>11, <3>1, <3>2, <3>3 DEF Copying, Slot
  <2>12. cursor + n <= PageSize
    <3>1. cursor + n <= temp.start
      BY <2>2, <2>4
    <3> QED BY <1>0, <2>1, <3>1, SizesAssumption
  <2>13. ASSUME NEW i \in Live(temp), i < next, i # next
         PROVE  Record(page', i) = Record(temp, i)
    <3> DEFINE g == page.slots[i].offset
               l == page.slots[i].size
    <3>1. g \in Nat /\ l \in Nat /\ g + l <= cursor /\ page'.slots[i] = page.slots[i]
      BY <2>11, <2>13
    <3>2. ASSUME NEW k \in 1 .. l
          PROVE  page'.bytes[g + k - 1] = page.bytes[g + k - 1]
      <4> HIDE DEF g, l
      <4>1. g + k - 1 \in 0 .. PageSize - 1 /\ g + k - 1 < cursor
        BY <1>0, <2>1, <2>12, <3>1, SizesAssumption
      <4> QED BY <1>0, <2>10, <4>1
    <3>3. Record(page', i) = Record(page, i)
      BY <3>1, <3>2 DEF Record
    <3> QED BY <2>11, <2>13, <3>3
  <2>14. Record(page', next) = Record(temp, next)
    <3>1. ASSUME NEW k \in 1 .. n
          PROVE  page'.bytes[cursor + k - 1] = temp.bytes[f + k - 1]
      <4> DEFINE o == cursor + k - 1
      <4>1. o \in 0 .. PageSize - 1 /\ cursor <= o /\ o < cursor + n /\ o - cursor + f = f + k - 1
        BY <1>0, <2>1, <2>12, SizesAssumption
      <4> HIDE DEF o
      <4>2. page'.bytes[o] = temp.bytes[f + k - 1]
        BY <2>10, <4>1
      <4> QED BY <4>2 DEF o
    <3> QED BY <2>6, <2>9, <3>1 DEF Record, f, n
  <2>15. \A i \in Live(temp) : i < next' <=> (i = next \/ (i < next /\ i # next))
    <3>1. \A i \in Live(temp) : i \in 0 .. PageSize
      BY <1>0, TidyFacts
    <3> QED BY <1>0, <3>1
  <2>16. ASSUME NEW i \in Live(temp), i < next'
         PROVE  /\ page'.slots[i].offset >= HeaderSize
                /\ page'.slots[i].offset + page'.slots[i].size <= cursor'
                /\ Record(page', i) = Record(temp, i)
    <3>1. CASE i = next
      <4>1. cursor >= HeaderSize
        <5>1. Cardinality(Moved) \in Nat
          BY <1>0, <1>7, MovedGrows DEF Moved
        <5> QED BY <1>5, <5>1, SizesAssumption
      <4> QED BY <1>0, <2>1, <2>2, <2>6, <2>9, <2>14, <3>1, <4>1
    <3>2. CASE i < next /\ i # next
      <4>1. page'.slots[i] = page.slots[i] /\ page.slots[i].offset >= HeaderSize
            /\ page.slots[i].offset + page.slots[i].size <= cursor
            /\ page.slots[i].offset \in Nat /\ page.slots[i].size \in Nat
        BY <2>11, <3>2
      <4> QED BY <1>0, <2>1, <2>2, <2>13, <3>2, <4>1
    <3> QED BY <2>15, <2>16, <3>1, <3>2
  <2>17. ASSUME NEW i \in Live(temp), NEW j \in Live(temp), i # j, i < next', j < next'
         PROVE  Before(page', i, j) \/ Before(page', j, i)
    <3>1. CASE i = next
      <4>1. j < next /\ j # next
        BY <2>15, <2>17, <3>1
      <4>2. page'.slots[j] = page.slots[j] /\ page.slots[j].offset + page.slots[j].size <= cursor
        BY <2>11, <4>1
      <4> QED BY <2>6, <3>1, <4>2 DEF Before
    <3>2. CASE j = next
      <4>1. i < next /\ i # next
        BY <2>15, <2>17, <3>2
      <4>2. page'.slots[i] = page.slots[i] /\ page.slots[i].offset + page.slots[i].size <= cursor
        BY <2>11, <4>1
      <4> QED BY <2>6, <3>2, <4>2 DEF Before
    <3>3. CASE i # next /\ j # next
      <4>1. i < next /\ j < next
        BY <2>15, <2>17, <3>3
      <4>2. Before(page, i, j) \/ Before(page, j, i)
        BY <2>17, <4>1 DEF Copying
      <4>3. page'.slots[i] = page.slots[i] /\ page'.slots[j] = page.slots[j]
        BY <2>11, <3>3, <4>1
      <4> QED BY <4>2, <4>3 DEF Before
    <3> QED BY <3>1, <3>2, <3>3
  <2>18. page'.count = temp'.count /\ page'.end = temp'.end /\ page'.start = temp'.start
         /\ next' \in 0 .. page'.count
    BY <1>0, <1>4, <2>5
  <2>19. (HeaderSize .. cursor - 1 \subseteq MovedTo(page, temp, next))'
    <3> SUFFICES ASSUME NEW x \in HeaderSize .. cursor' - 1
                 PROVE  \E j \in Live(temp) : j < next' /\ x \in Segment(page'.slots[j])
      BY <1>1 DEF MovedTo, Segment
    <3>1. x \in HeaderSize .. cursor - 1 \/ x \in cursor .. cursor + n - 1
      BY <1>0, <2>1, <2>2, SizesAssumption
    <3>2. CASE x \in HeaderSize .. cursor - 1
      <4>1. PICK j \in Live(temp) : j < next /\ x \in Segment(page.slots[j])
        BY <3>2 DEF Copying, MovedTo
      <4>2. j < next' /\ j # next
        BY <1>0, <2>15, <4>1, TidyFacts
      <4> QED BY <2>11, <4>1, <4>2
    <3>3. CASE x \in cursor .. cursor + n - 1
      <4>1. next < next' /\ x \in Segment(page'.slots[next])
        BY <1>0, <2>6, <2>9, <3>3 DEF Segment
      <4> QED BY <1>7, <4>1
    <3> QED BY <3>1, <3>2, <3>3
  <2> QED BY <1>0, <1>1, <2>3, <2>7, <2>8, <2>16, <2>17, <2>18, <2>19 DEF Copying, Record, Before
<1> QED BY <1>6, <1>7

-----------------------------------------------------------------------------
\* What every step keeps, and what callers see of it.
Keeps == IInv' /\ [Records!Next]_<<Visible, answer>>

LEMMA VisibleIdle == ~inserting.busy => Visible = Contents(page)
  BY DEF Visible
LEMMA VisiblePacking == inserting.busy => Visible = Contents(temp)
  BY DEF Visible

LEMMA ReturnedType == ASSUME NEW i \in Int, NEW d \in Seq(Bytes)
                      PROVE  Returned(i, d) \in [index : Int, data : Seq(Bytes)]
  BY DEF Returned

LEMMA FormatKeeps == ASSUME IInv, Format PROVE Keeps
<1>1. page \in Page /\ ~inserting.busy /\ UNCHANGED <<temp, inserting, next, cursor, answer>>
      /\ page' = Formatted(page)
  BY TidyFacts DEF IInv, Format, locals
<1>2. Tidy(page)' /\ Live(page') = {}
  <2>1. Tidy(Formatted(page)) /\ Live(Formatted(page)) = {}
    BY <1>1, FormattedTidy
  <2> QED BY <1>1, <2>1 DEF Tidy, Live, Slots, Before
<1>3. IInv'
  BY <1>1, <1>2 DEF IInv, Types
<1>4. Visible' = Records!Empty
  BY <1>1, <1>2 DEF Visible, Contents, Records!Empty, Live, Slots
<1>5. Records!Format
  BY <1>1, <1>4 DEF Records!Format
<1> QED BY <1>3, <1>5 DEF Keeps, Records!Next

\* What an insertion shows to the caller, of a page it found or has packed.
LEMMA InsertRefines ==
  ASSUME NEW p, Tidy(p), NEW d \in Data, Room(p, d), Visible = Contents(p),
         ~inserting'.busy, page' = Written(p, d), answer' = Returned(TargetSlot(p), <<>>)
  PROVE  Tidy(page)' /\ answer' \in [index : Int, data : Seq(Bytes)] /\ Records!Next
<1>1. p \in Page /\ p.count \in Nat /\ p.count <= PageSize
  BY TidyFacts
<1>2. Tidy(Written(p, d)) /\ Contents(Written(p, d)) = Records!With(Contents(p), TargetSlot(p), d)
  BY <1>1, WrittenTidy
<1>3. /\ TargetSlot(p) \in 0 .. p.count /\ TargetSlot(p) \notin Live(p)
      /\ \A j \in 0 .. TargetSlot(p) - 1 : j \in Live(p)
  BY <1>1, Target
<1>4. Tidy(page)'
  BY <1>2 DEF Tidy, Live, Slots, Before
<1>5. answer' \in [index : Int, data : Seq(Bytes)]
  <2>1. TargetSlot(p) \in Int /\ <<>> \in Seq(Bytes)
    BY <1>1, <1>3
  <2> QED BY <2>1, ReturnedType
<1>6. Visible' = Records!With(Visible, TargetSlot(p), d)
  <2>1. Visible' = Contents(page')
    BY DEF Visible, Contents, Live, Slots, Record
  <2> QED BY <1>2, <2>1
<1>7. Records!Insert(d)
  <2>1. DOMAIN Visible = Live(p)
    BY DEF Contents
  <2>2. TargetSlot(p) \in (0 .. PageSize) \ DOMAIN Visible
    BY <1>1, <1>3, <2>1, SizesAssumption
  <2>3. answer' = Records!Returned(TargetSlot(p), Records!NoRecord)
    BY DEF Returned, Records!Returned, Records!NoRecord
  <2> QED BY <1>3, <1>6, <2>1, <2>2, <2>3 DEF Records!Insert
<1> QED BY <1>4, <1>5, <1>7 DEF Records!Next

LEMMA InsertKeeps == ASSUME IInv, NEW d \in Data, Insert(d) PROVE Keeps
<1>1. /\ ~inserting.busy /\ Room(page, d) /\ page' = Written(page, d)
      /\ answer' = Returned(TargetSlot(page), <<>>)
      /\ UNCHANGED <<temp, inserting, next, cursor>> /\ Tidy(page) /\ Types
  BY DEF Insert, locals, IInv
<1>2. Tidy(page)' /\ answer' \in [index : Int, data : Seq(Bytes)] /\ Records!Next
  BY <1>1, InsertRefines, VisibleIdle
<1>3. IInv'
  BY <1>1, <1>2 DEF IInv, Types
<1> QED BY <1>2, <1>3 DEF Keeps

LEMMA StartKeeps == ASSUME IInv, NEW d \in Data, StartCompact(d) PROVE Keeps
<1>1. /\ ~inserting.busy /\ inserting' = Packing(d) /\ temp' = page /\ next' = 0
      /\ cursor' = HeaderSize /\ page' = page /\ answer' = answer /\ Tidy(page) /\ Types
  BY DEF StartCompact, IInv
<1>2. /\ page \in Page /\ page.count \in Nat
      /\ \A i \in Live(page) : i \in 0 .. PageSize
  BY <1>1, TidyFacts
<1>3. inserting'.busy /\ Types'
  BY <1>1, <1>2, SizesAssumption DEF Types, Packing
<1>4. Moved' = {}
  <2>1. \A j \in Live(page) : ~(j < 0)
    BY <1>2
  <2> QED BY <1>1, <2>1 DEF Moved, MovedBelow, Live, Slots
<1>5. cursor' = HeaderSize + Cardinality(Moved')
  <2>1. Cardinality(Moved') = 0
    BY <1>4, FS_EmptySet
  <2> QED BY <1>1, <2>1, SizesAssumption
<1>6. Tidy(temp)' /\ Live(temp)' = Live(page) /\ Slots(temp)' = Slots(page)
  BY <1>1 DEF Tidy, Live, Slots, Before
<1>7. \A i \in Live(page) : ~(i < next')
  BY <1>1, <1>2
<1>8. cursor' \in Nat /\ next' \in 0 .. page.count
  BY <1>1, <1>2, SizesAssumption
<1>9. Copying'
  <2>1. HeaderSize .. cursor' - 1 = {}
    BY <1>1, SizesAssumption
  <2> QED BY <1>1, <1>2, <1>5, <1>6, <1>7, <1>8, <2>1 DEF Copying
<1>10. Visible' = Visible
  BY <1>1, <1>3 DEF Visible, Contents, Live, Slots, Record
<1> QED BY <1>1, <1>3, <1>9, <1>10 DEF Keeps, IInv

LEMMA PackSlotKeeps == ASSUME IInv, PackSlot PROVE Keeps
<1>1. inserting.busy /\ Types /\ Copying /\ inserting' = inserting /\ temp' = temp
      /\ answer' = answer /\ next' = next + 1
  BY DEF PackSlot, IInv
<1>2. Copying'
  BY <1>1, PackKeeps
<1>3. Types'
  BY <1>1, <1>2 DEF Types, Copying
<1>4. Visible' = Visible
  BY <1>1 DEF Visible, Contents, Live, Slots, Record
<1> QED BY <1>1, <1>2, <1>3, <1>4 DEF Keeps, IInv

\* After the last round the page is tidy and shows what the copy shows.
LEMMA PackedTidy ==
  ASSUME Types, Copying, next = page.count
  PROVE  Tidy(Packed) /\ Contents(Packed) = Contents(temp)
<1> DEFINE q == Packed
<1>1. /\ Tidy(temp) /\ page \in Page /\ page.count = temp.count /\ page.end = temp.end
      /\ page.start = temp.start /\ cursor \in Nat
      /\ cursor = HeaderSize + Cardinality(Moved)
  BY DEF Copying
<1>2. /\ q.count = temp.count /\ q.end = temp.end /\ q.start = cursor
      /\ q.slots = page.slots /\ q.bytes = page.bytes /\ q \in Page
  BY <1>1 DEF Packed, Page
<1> HIDE DEF q
<1>3. /\ temp.count \in Nat /\ temp.start \in Nat /\ temp.start <= temp.end
      /\ \A i \in Live(temp) : i \in 0 .. PageSize
  BY <1>1, TidyFacts
<1>4. HeaderSize <= cursor /\ cursor <= temp.start
  <2>1. Moved \in SUBSET (HeaderSize .. temp.start - 1)
    BY <1>1, MovedInside DEF Moved
  <2>2. IsFiniteSet(Moved) /\ HeaderSize + Cardinality(Moved) <= temp.start
    BY <1>1, <2>1, CursorBelowStart
  <2>3. Cardinality(Moved) \in Nat
    BY <2>2, FS_CardinalityType
  <2> QED BY <1>1, <2>2, <2>3, SizesAssumption
<1>5. Live(q) = Live(temp)
  <2>1. Slots(q) = Slots(temp)
    BY <1>2 DEF Slots
  <2>2. \A i \in Slots(temp) : q.slots[i].size = temp.slots[i].size
    BY <1>2 DEF Copying
  <2> QED BY <2>1, <2>2 DEF Live
<1>6. \A i \in Live(temp) : i < next
  <2>1. \A i \in Live(temp) : i \in 0 .. temp.count - 1
    BY DEF Live, Slots
  <2> QED BY <1>1, <1>3, <2>1
<1>7. \A i \in Live(temp) : /\ q.slots[i].offset >= HeaderSize
                            /\ q.slots[i].offset + q.slots[i].size <= q.start
                            /\ Record(q, i) = Record(temp, i)
  BY <1>2, <1>6 DEF Copying, Record
<1>8. \A i, j \in Live(temp) : i # j => Before(q, i, j) \/ Before(q, j, i)
  BY <1>2, <1>6 DEF Copying, Before
<1>9. q.end = PageSize - SlotSize * q.count
  BY <1>1, <1>2 DEF Tidy
<1>10. HeaderSize <= q.start /\ q.start <= q.end
  BY <1>1, <1>2, <1>3, <1>4, SizesAssumption, TidyFacts
<1>11. Tidy(q)
  BY <1>2, <1>5, <1>7, <1>8, <1>9, <1>10 DEF Tidy
<1>12. Contents(q) = Contents(temp)
  BY <1>5, <1>7 DEF Contents
<1> QED BY <1>11, <1>12 DEF q

LEMMA FinishKeeps == ASSUME IInv, FinishCompact PROVE Keeps
<1>1. /\ inserting.busy /\ next = page.count /\ inserting' = Idle
      /\ temp' = Blank /\ next' = 0 /\ cursor' = 0 /\ Types /\ Copying
  BY DEF FinishCompact, IInv
<1>2. Tidy(Packed) /\ Contents(Packed) = Contents(temp)
  BY <1>1, PackedTidy
<1>3. /\ ~inserting'.busy /\ inserting' \in [busy : BOOLEAN, data : Data \cup {<<>>}]
      /\ temp' \in Page /\ next' \in Nat /\ cursor' \in Nat
  BY <1>1, BlankTypes DEF Idle
<1>4. Visible = Contents(Packed)
  BY <1>1, <1>2 DEF Visible
<1>5. CASE Room(Packed, inserting.data)
  <2>1. page' = Written(Packed, inserting.data) /\ answer' = Returned(TargetSlot(Packed), <<>>)
    BY <1>5 DEF FinishCompact
  <2>2. inserting.data \in Data
    BY <1>1 DEF Types
  <2>3. Tidy(page)' /\ answer' \in [index : Int, data : Seq(Bytes)] /\ Records!Next
    BY <1>2, <1>3, <1>4, <1>5, <2>1, <2>2, InsertRefines
  <2> QED BY <1>3, <2>3 DEF Keeps, IInv, Types
<1>6. CASE ~Room(Packed, inserting.data)
  <2>1. page' = Packed /\ answer' = Returned(-1, <<>>)
    BY <1>6 DEF FinishCompact
  <2>2. Tidy(page)'
    BY <1>2, <2>1 DEF Tidy, Live, Slots, Before
  <2>3. answer' \in [index : Int, data : Seq(Bytes)]
    <3>1. -1 \in Int /\ <<>> \in Seq(Bytes)
      OBVIOUS
    <3> QED BY <2>1, <3>1, ReturnedType
  <2>4. Visible' = Visible
    BY <1>3, <1>4, <2>1, ZenonT(40) DEF Visible, Contents, Live, Slots, Record
  <2>5. inserting.data \in Data
    BY <1>1 DEF Types
  <2>6. Records!Refuse(inserting.data)
    BY <2>1, <2>4 DEF Records!Refuse, Returned, Records!Returned, Records!NoRecord
  <2> QED BY <1>3, <2>2, <2>3, <2>5, <2>6 DEF Keeps, IInv, Types, Records!Next
<1> QED BY <1>5, <1>6

LEMMA GetKeeps == ASSUME IInv, NEW i \in 0 .. PageSize, Get(i) PROVE Keeps
<1>1. /\ ~inserting.busy /\ UNCHANGED <<page, temp, inserting, next, cursor>>
      /\ answer' = Returned(0, IF i \in Live(page) THEN Record(page, i) ELSE <<>>)
      /\ Tidy(page) /\ Types
  BY DEF Get, locals, IInv
<1>2. answer' \in [index : Int, data : Seq(Bytes)]
  <2>1. CASE i \in Live(page)
    <3>1. /\ page.slots[i].offset \in Nat /\ page.slots[i].size \in Nat
          /\ page.slots[i].offset + page.slots[i].size <= page.start
          /\ page.start <= page.end /\ page.end <= PageSize /\ page.start \in Nat /\ page.end \in Nat
          /\ page.bytes \in [0 .. PageSize - 1 -> Bytes]
      BY <1>1, <2>1, TidyFacts
    <3>2. ASSUME NEW k \in 1 .. page.slots[i].size
          PROVE  page.bytes[page.slots[i].offset + k - 1] \in Bytes
      <4> DEFINE f == page.slots[i].offset
                 n == page.slots[i].size
      <4>1. f \in Nat /\ n \in Nat /\ f + n <= PageSize /\ k \in 1 .. n
        BY <3>1, SizesAssumption, SMTT(30)
      <4> HIDE DEF f, n
      <4>2. f + k - 1 \in 0 .. PageSize - 1
        BY <4>1, SizesAssumption
      <4>3. page.bytes[f + k - 1] \in Bytes
        BY <3>1, <4>2
      <4> QED BY <4>3 DEF f
    <3>3. Record(page, i) \in Seq(Bytes)
      BY <3>1, <3>2, SMTT(30) DEF Record
    <3> QED BY <1>1, <2>1, <3>3, ReturnedType
  <2>2. CASE i \notin Live(page)
    <3>1. 0 \in Int /\ <<>> \in Seq(Bytes)
      OBVIOUS
    <3> QED BY <1>1, <2>2, <3>1, ReturnedType
  <2> QED BY <2>1, <2>2
<1>3. IInv'
  BY <1>1, <1>2 DEF IInv, Types, Tidy, Live, Slots, Before
<1>4. Visible = Contents(page) /\ Visible' = Visible
  BY <1>1 DEF Visible, Contents, Live, Slots, Record
<1>5. DOMAIN Visible = Live(page)
  BY <1>4 DEF Contents
<1>6. (IF i \in DOMAIN Visible THEN Visible[i] ELSE <<>>)
        = IF i \in Live(page) THEN Record(page, i) ELSE <<>>
  BY <1>4, <1>5 DEF Contents
<1>7. Records!Get(i)
  BY <1>1, <1>4, <1>6 DEF Records!Get, Returned, Records!Returned, Records!NoRecord
<1> QED BY <1>3, <1>7 DEF Keeps, Records!Next

\* Deleting a slot of the page: the others keep their bytes.
LEMMA DeletedTidy ==
  ASSUME NEW p, Tidy(p), NEW i \in Slots(p),
         NEW q, q = [p EXCEPT !.slots[i].size = 0]
  PROVE  Tidy(q) /\ Contents(q) = Records!Without(Contents(p), {i})
<1>1. /\ p \in Page /\ p.count \in Nat /\ p.count <= PageSize
      /\ p.slots \in [0 .. PageSize -> Slot]
  BY TidyFacts
<1>2. i \in 0 .. PageSize
  BY <1>1, SizesAssumption DEF Slots
<1>3. p.slots[i] \in Slot
  BY <1>1, <1>2
<1>4. [p.slots[i] EXCEPT !.size = 0] \in Slot /\ [p.slots[i] EXCEPT !.size = 0].size = 0
  BY <1>3 DEF Slot
<1>5. /\ q.count = p.count /\ q.start = p.start /\ q.end = p.end /\ q.bytes = p.bytes
      /\ q.slots = [p.slots EXCEPT ![i] = [p.slots[i] EXCEPT !.size = 0]]
      /\ q = [bytes |-> q.bytes, slots |-> q.slots, count |-> q.count,
              start |-> q.start, end |-> q.end]
  BY <1>1, <1>3 DEF Page, Slot
<1>6. /\ q.slots \in [0 .. PageSize -> Slot] /\ q.slots[i].size = 0
      /\ \A j \in 0 .. PageSize : j # i => q.slots[j] = p.slots[j]
  BY <1>1, <1>2, <1>4, <1>5
<1>7. q \in Page
  BY <1>1, <1>5, <1>6 DEF Page
<1>8. Live(q) = Live(p) \ {i}
  <2>1. Slots(q) = Slots(p) /\ \A j \in Slots(p) : j \in 0 .. PageSize
    BY <1>1, <1>5, SizesAssumption DEF Slots
  <2>2. ~(q.slots[i].size > 0)
    BY <1>6
  <2> QED BY <1>6, <2>1, <2>2 DEF Live
<1>9. \A j \in Live(p) \ {i} : q.slots[j] = p.slots[j]
  <2>1. \A j \in Live(p) : j \in 0 .. PageSize
    BY TidyFacts
  <2> QED BY <1>6, <2>1
<1>10. Tidy(q)
  BY <1>5, <1>7, <1>8, <1>9 DEF Tidy, Before
<1>11. Contents(q) = [j \in Live(p) \ {i} |-> Record(p, j)]
  BY <1>5, <1>8, <1>9 DEF Contents, Record
<1>12. Records!Without(Contents(p), {i}) = [j \in Live(p) \ {i} |-> Record(p, j)]
  BY DEF Records!Without, Contents
<1> QED BY <1>10, <1>11, <1>12

LEMMA DeleteKeeps == ASSUME IInv, NEW i \in 0 .. PageSize, Delete(i) PROVE Keeps
<1>1. /\ ~inserting.busy /\ UNCHANGED <<temp, inserting, next, cursor, answer>>
      /\ page' = IF i \in Slots(page) THEN [page EXCEPT !.slots[i].size = 0] ELSE page
      /\ Tidy(page) /\ Types
  BY DEF Delete, locals, IInv
<1>2. Tidy(page') /\ Contents(page') = Records!Without(Contents(page), {i})
  <2>1. CASE i \in Slots(page)
    BY <1>1, <2>1, DeletedTidy
  <2>2. CASE i \notin Slots(page)
    <3>1. Live(page) \ {i} = Live(page)
      BY <2>2 DEF Live
    <3>2. Records!Without(Contents(page), {i}) = [j \in Live(page) |-> Record(page, j)]
      BY <3>1 DEF Records!Without, Contents
    <3> QED BY <1>1, <2>2, <3>2 DEF Contents
  <2> QED BY <2>1, <2>2
<1>3. IInv'
  BY <1>1, <1>2 DEF IInv, Types, Tidy, Live, Slots, Before
<1>4. Visible = Contents(page) /\ Visible' = Contents(page')
  BY <1>1 DEF Visible, Contents, Live, Slots, Record
<1>5. Records!Delete(i)
  BY <1>1, <1>2, <1>4 DEF Records!Delete
<1> QED BY <1>3, <1>5 DEF Keeps, Records!Next

LEMMA NextKeeps == IInv /\ [Next]_vars => Keeps
<1> SUFFICES ASSUME IInv, [Next]_vars PROVE Keeps
  OBVIOUS
<1>1. CASE Format
  BY <1>1, FormatKeeps
<1>2. ASSUME NEW d \in Data, Insert(d) PROVE Keeps
  BY <1>2, InsertKeeps
<1>3. ASSUME NEW d \in Data, StartCompact(d) PROVE Keeps
  BY <1>3, StartKeeps
<1>4. CASE PackSlot
  BY <1>4, PackSlotKeeps
<1>5. CASE FinishCompact
  BY <1>5, FinishKeeps
<1>6. ASSUME NEW i \in 0 .. PageSize, Get(i) PROVE Keeps
  BY <1>6, GetKeeps
<1>7. ASSUME NEW i \in 0 .. PageSize, Delete(i) PROVE Keeps
  BY <1>7, DeleteKeeps
<1>8. CASE UNCHANGED vars
  <2>1. IInv'
    BY <1>8 DEF vars, IInv, Types, Tidy, Live, Slots, Before, Copying, Moved, MovedBelow,
                MovedTo, Segment, Record
  <2>2. UNCHANGED <<Visible, answer>>
    BY <1>8 DEF vars, Visible, Contents, Live, Slots, Record
  <2> QED BY <2>1, <2>2 DEF Keeps
<1> QED BY <1>1, <1>2, <1>3, <1>4, <1>5, <1>6, <1>7, <1>8 DEF Next

LEMMA InitKeeps == Init => IInv /\ Records!Init
<1> SUFFICES ASSUME Init PROVE IInv /\ Records!Init
  OBVIOUS
<1>1. /\ page = Formatted(Blank) /\ temp = Blank /\ inserting = Idle /\ next = 0 /\ cursor = 0
      /\ answer = Returned(-1, <<>>)
  BY DEF Init
<1>2. Tidy(page) /\ Live(page) = {}
  BY <1>1, BlankTypes, FormattedTidy
<1>3. answer \in [index : Int, data : Seq(Bytes)]
  <2>1. -1 \in Int /\ <<>> \in Seq(Bytes)
    OBVIOUS
  <2> QED BY <1>1, <2>1, ReturnedType
<1>4. ~inserting.busy /\ Types
  BY <1>1, <1>3, BlankTypes DEF Idle, Types
<1>5. Visible = Records!Empty
  BY <1>2, <1>4 DEF Visible, Contents, Records!Empty
<1>6. answer = Records!Returned(-1, Records!NoRecord)
  BY <1>1 DEF Returned, Records!Returned, Records!NoRecord
<1> QED BY <1>2, <1>4, <1>5, <1>6 DEF IInv, Records!Init

LEMMA Inductive == Spec => []IInv
<1>1. IInv /\ [Next]_vars => IInv'
  BY NextKeeps DEF Keeps
<1> QED BY <1>1, InitKeeps, PTL DEF Spec

-----------------------------------------------------------------------------
\* db_slotted.c keeps its offsets inside the page, packing included.
THEOREM SlottedTypeCorrect == Spec => []TypeOK
<1>1. IInv => TypeOK
  <2> SUFFICES ASSUME IInv PROVE TypeOK
    OBVIOUS
  <2>1. page \in Page /\ page.start \in HeaderSize .. PageSize /\ page.end \in HeaderSize .. PageSize
    <3>1. CASE inserting.busy
      <4>1. Tidy(temp) /\ page \in Page /\ page.start = temp.start /\ page.end = temp.end
        BY <3>1 DEF IInv, Copying
      <4> QED BY <4>1, TidyFacts, SizesAssumption
    <3>2. CASE ~inserting.busy
      <4>1. Tidy(page)
        BY <3>2 DEF IInv
      <4> QED BY <4>1, TidyFacts, SizesAssumption
    <3> QED BY <3>1, <3>2
  <2> QED BY <2>1 DEF IInv, Types, TypeOK
<1> QED BY <1>1, Inductive, PTL

\* No record reaches into the header, the slot array or another record.
THEOREM SlottedSegmentsApart == Spec => []SegmentsApart
<1>1. IInv => SegmentsApart
  <2> SUFFICES ASSUME IInv, ~inserting.busy PROVE Inside(page) /\ Apart(page)
    BY DEF SegmentsApart
  <2>1. Tidy(page)
    BY DEF IInv
  <2>2. /\ page.start \in Nat /\ page.end \in Nat /\ page.start <= page.end
        /\ \A i \in Live(page) : /\ page.slots[i].offset \in Nat /\ page.slots[i].size \in Nat
                                 /\ page.slots[i].offset >= HeaderSize
                                 /\ page.slots[i].offset + page.slots[i].size <= page.start
    BY <2>1, TidyFacts
  <2>3. Inside(page)
    <3>1. page.end = PageSize - SlotSize * page.count
      BY <2>1 DEF Tidy
    <3>2. \A i \in Live(page) : page.slots[i].offset + page.slots[i].size <= page.end
      BY <2>2
    <3> QED BY <2>2, <3>1, <3>2 DEF Inside
  <2>4. Apart(page)
    <3> SUFFICES ASSUME NEW i \in Live(page), NEW j \in Live(page), i # j
                 PROVE  Segment(page.slots[i]) \cap Segment(page.slots[j]) = {}
      BY DEF Apart
    <3>1. Before(page, i, j) \/ Before(page, j, i)
      BY <2>1 DEF Tidy
    <3> QED BY <2>2, <3>1 DEF Before, Segment
  <2> QED BY <2>3, <2>4
<1> QED BY <1>1, Inductive, PTL

\* db_slotted.c implements the abstract page of records.
THEOREM SlottedImplementsRecordPage == Spec => ImplementsRecordPage
<1>1. IInv /\ [Next]_vars => [Records!Next]_<<Visible, answer>>
  BY NextKeeps DEF Keeps
<1> QED BY <1>1, InitKeeps, Inductive, PTL DEF Spec, ImplementsRecordPage, Records!Spec

\* A page packed to its last record has a byte of a record in every place below the cursor.
LEMMA PackedFills ==
  ASSUME IInv, inserting.busy, next = page.count
  PROVE  cursor - HeaderSize <= LiveBytes(page) /\ LiveBytes(page) \in Nat
<1>1. Copying /\ Types
  BY DEF IInv
<1>2. Tidy(Packed) /\ Tidy(temp) /\ page.count = temp.count /\ cursor \in Nat
  BY <1>1, PackedTidy DEF Copying
<1>3. /\ Live(Packed) = Live(page) /\ Packed.slots = page.slots /\ Live(temp) = Live(page)
      /\ Packed.start = cursor
  BY <1>1 DEF Packed, Live, Slots, Copying, Page
<1> DEFINE I == HeaderSize .. cursor - 1
           U == UNION {Segment(page.slots[i]) : i \in Live(page)}
<1>4. U \in SUBSET (HeaderSize .. PageSize)
  <2> SUFFICES ASSUME NEW i \in Live(Packed), NEW x \in Segment(Packed.slots[i])
               PROVE  x \in HeaderSize .. PageSize
    BY <1>3
  <2>1. Packed.start \in Nat /\ Packed.end \in Nat /\ Packed.start <= Packed.end
        /\ Packed.end <= PageSize
    BY <1>2, TidyFacts
  <2>2. LET s == Packed.slots[i]
        IN  /\ s.offset \in Nat /\ s.size \in Nat /\ s.offset >= HeaderSize
            /\ s.offset + s.size <= Packed.start
    BY <1>2, TidyFacts
  <2> QED BY <2>1, <2>2, SizesAssumption DEF Segment
<1>5. I \subseteq U
  BY <1>1, <1>3 DEF Copying, MovedTo
<1>6. IsFiniteSet(HeaderSize .. PageSize)
  BY FS_Interval, SizesAssumption
<1> HIDE DEF U
<1>7. IsFiniteSet(U) /\ Cardinality(U) \in Nat
  BY <1>4, <1>6, FS_Subset, FS_CardinalityType
<1>8. Cardinality(I) <= Cardinality(U)
  BY <1>5, <1>7, FS_Subset
<1>9. Cardinality(I) = IF HeaderSize > cursor - 1 THEN 0 ELSE cursor - 1 - HeaderSize + 1
  <2>1. HeaderSize \in Int /\ cursor - 1 \in Int
    BY <1>2, SizesAssumption
  <2> QED BY <2>1, FS_Interval
<1> HIDE DEF I
<1>10. cursor - HeaderSize <= Cardinality(U)
  BY <1>2, <1>7, <1>8, <1>9, SizesAssumption
<1> QED BY <1>7, <1>10 DEF U, LiveBytes

\* db_slotted.c refuses a record only if it and its slot do not fit beside the live ones.
THEOREM SlottedRefusedOnlyWhenFull == Spec => RefusedOnlyWhenFull
<1> DEFINE Full == inserting.busy /\ ~inserting'.busy /\ answer'.index = -1
                     => HeaderSize + LiveBytes(page) + Len(inserting.data)
                          + SlotSize * (page.count + 1) > PageSize
<1>1. ASSUME IInv, [Next]_vars PROVE [Full]_vars
  <2> SUFFICES ASSUME inserting.busy, ~inserting'.busy, answer'.index = -1
               PROVE  HeaderSize + LiveBytes(page) + Len(inserting.data)
                          + SlotSize * (page.count + 1) > PageSize
    OBVIOUS
  <2>1. FinishCompact
    BY <1>1 DEF Next, vars, locals, Format, Insert, StartCompact, PackSlot, Get, Delete
  <2>2. next = page.count /\ Copying /\ Types
    BY <1>1, <2>1 DEF FinishCompact, IInv
  <2>3. Tidy(Packed)
    BY <2>2, PackedTidy
  <2>4. /\ page.count \in Nat /\ cursor \in Nat /\ Len(inserting.data) \in Nat
        /\ Packed.start = cursor /\ Packed.end = page.end /\ Packed.count = page.count
    BY <2>2, DataSeq DEF Copying, Types, Packed, Page
  <2>5. cursor - HeaderSize <= LiveBytes(page) /\ LiveBytes(page) \in Int
    BY <1>1, <2>2, PackedFills
  <2>6. ~Room(Packed, inserting.data)
    <3> SUFFICES ASSUME Room(Packed, inserting.data) PROVE FALSE
      OBVIOUS
    <3>1. answer'.index = TargetSlot(Packed)
      BY <2>1 DEF FinishCompact, Returned
    <3>2. TargetSlot(Packed) \in Nat
      BY <2>3, <2>4, TidyFacts, Target
    <3> QED BY <3>1, <3>2
  <2>7. /\ Packed.end = PageSize - SlotSize * Packed.count
        /\ Packed.start <= Packed.end
    BY <2>3 DEF Tidy
  <2>8. SlotSize * (page.count + 1) = SlotSize * page.count + SlotSize
        /\ SlotSize * page.count \in Nat
    BY <2>4, SizesAssumption
  <2>9. ~(Packed.end - cursor >= Len(inserting.data) + SlotSize)
    BY <2>3, <2>4, <2>6, <2>7, TidyFacts DEF Room, Available
  <2> DEFINE m == SlotSize * page.count
             b == LiveBytes(page)
             l == Len(inserting.data)
  <2>10. /\ m \in Nat /\ b \in Int /\ l \in Nat /\ cursor - HeaderSize <= b
         /\ ~(PageSize - m - cursor >= l + SlotSize)
    BY <2>4, <2>5, <2>7, <2>8, <2>9
  <2> HIDE DEF m, b, l
  <2>11. HeaderSize + b + l + (m + SlotSize) > PageSize
    BY <2>4, <2>10, SizesAssumption
  <2> QED BY <2>8, <2>11 DEF m, b, l
<1> QED BY <1>1, Inductive, PTL DEF Spec, RefusedOnlyWhenFull
=============================================================================
