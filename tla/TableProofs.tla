---------------------------- MODULE TableProofs -----------------------------
(***************************************************************************)
(* Proofs about core/table.c, for every set of keys, every hash function,  *)
(* every initial capacity of at least four and every sequence of calls.    *)
(***************************************************************************)
EXTENDS Table, FiniteSetTheorems, TLAPS

\* A key is preceded, on its probe sequence, by used slots of other keys only.
Chain(es, cap) ==
  \A k \in Keys, j \in 0 .. cap - 1 :
     es[Probe(cap, k, j)].key = k =>
        \A m \in 0 .. j - 1 : /\ es[Probe(cap, k, m)].key # k
                              /\ ~IsEmpty(es[Probe(cap, k, m)])

WellFormed(es, cap) == es \in [0 .. cap - 1 -> Entry] /\ Chain(es, cap)

HasEmpty(es, cap) == \E i \in 0 .. cap - 1 : IsEmpty(es[i])

-----------------------------------------------------------------------------
\* The probe sequence of a key visits slots of the array, each of them, once.
LEMMA HomeRange ==
  ASSUME NEW cap \in Nat \ {0}, NEW k \in Keys
  PROVE  Home(cap, k) \in 0 .. cap - 1
<1>1. Hash[k] \in Nat
  BY HashAssumption
<1> QED BY <1>1 DEF Home

LEMMA ProbeRange ==
  ASSUME NEW cap \in Nat \ {0}, NEW k \in Keys, NEW j \in 0 .. cap - 1
  PROVE  Probe(cap, k, j) \in 0 .. cap - 1
BY HomeRange DEF Probe

LEMMA ProbeOnto ==
  ASSUME NEW cap \in Nat \ {0}, NEW k \in Keys, NEW i \in 0 .. cap - 1
  PROVE  \E j \in 0 .. cap - 1 : Probe(cap, k, j) = i
<1> DEFINE h == Home(cap, k)
           j == IF i >= h THEN i - h ELSE i + cap - h
<1>1. h \in 0 .. cap - 1
  BY HomeRange
<1>2. j \in 0 .. cap - 1
  BY <1>1
<1>3. Probe(cap, k, j) = i
  BY <1>1 DEF Probe
<1> QED BY <1>2, <1>3

LEMMA ProbeOneToOne ==
  ASSUME NEW cap \in Nat \ {0}, NEW k \in Keys,
         NEW i \in 0 .. cap - 1, NEW j \in 0 .. cap - 1,
         Probe(cap, k, i) = Probe(cap, k, j)
  PROVE  i = j
BY HomeRange DEF Probe

\* With an empty slot in the array every search stops.
LEMMA SearchStops ==
  ASSUME NEW cap \in Nat \ {0}, NEW es \in [0 .. cap - 1 -> Entry],
         NEW k \in Keys, HasEmpty(es, cap)
  PROVE  /\ Stops(es, cap, k) \in SUBSET Nat
         /\ Stops(es, cap, k) # {}
<1>1. PICK i \in 0 .. cap - 1 : IsEmpty(es[i])
  BY DEF HasEmpty
<1>2. PICK j \in 0 .. cap - 1 : Probe(cap, k, j) = i
  BY ProbeOnto
<1>3. j \in Stops(es, cap, k)
  BY <1>1, <1>2 DEF Stops
<1> QED BY <1>3 DEF Stops

\* In a well-formed array the first stop finds the key wherever it is.
LEMMA FirstStop ==
  ASSUME NEW cap \in Nat \ {0}, NEW es, WellFormed(es, cap),
         NEW k \in Keys, HasEmpty(es, cap)
  PROVE  LET j == FirstOf(Stops(es, cap, k)) IN
         /\ j \in 0 .. cap - 1
         /\ es[Probe(cap, k, j)].key = k \/ IsEmpty(es[Probe(cap, k, j)])
         /\ \A m \in 0 .. j - 1 : /\ es[Probe(cap, k, m)].key # k
                                  /\ ~IsEmpty(es[Probe(cap, k, m)])
         /\ \A i \in 0 .. cap - 1 : es[i].key = k => i = Probe(cap, k, j)
<1> DEFINE S == Stops(es, cap, k)
           j == FirstOf(S)
<1>1. S \in SUBSET Nat /\ S # {}
  BY SearchStops DEF WellFormed
<1>2. j \in S /\ \A i \in S : j <= i
  <2> HIDE DEF S
  <2> QED BY <1>1, LeastElement
<1> HIDE DEF j
<1>3. /\ j \in 0 .. cap - 1
      /\ es[Probe(cap, k, j)].key = k \/ IsEmpty(es[Probe(cap, k, j)])
  BY <1>2 DEF Stops
<1>4. ASSUME NEW m \in 0 .. j - 1
      PROVE  es[Probe(cap, k, m)].key # k /\ ~IsEmpty(es[Probe(cap, k, m)])
  <2>1. m \notin S /\ m \in 0 .. cap - 1
    BY <1>2, <1>3
  <2> QED BY <2>1 DEF Stops
<1>5. ASSUME NEW i \in 0 .. cap - 1, es[i].key = k
      PROVE  i = Probe(cap, k, j)
  <2>1. PICK m \in 0 .. cap - 1 : Probe(cap, k, m) = i
    BY ProbeOnto
  <2>2. m \in S
    BY <1>5, <2>1 DEF Stops
  <2>3. j <= m
    BY <1>2, <2>2
  <2>4. ASSUME j < m PROVE FALSE
    <3>1. j \in 0 .. m - 1
      BY <1>3, <2>4
    <3>2. es[Probe(cap, k, j)].key # k /\ ~IsEmpty(es[Probe(cap, k, j)])
      BY <1>5, <2>1, <3>1 DEF WellFormed, Chain
    <3> QED BY <1>3, <3>2
  <2>5. j = m
    BY <1>3, <2>3, <2>4
  <2> QED BY <2>1, <2>5
<1> QED BY <1>3, <1>4, <1>5 DEF j

\* findEntry returns the key's slot if it is stored; otherwise a slot without a
\* key that no empty slot precedes on the key's probe sequence.
LEMMA FindEntrySlot ==
  ASSUME NEW cap \in Nat \ {0}, NEW es, WellFormed(es, cap),
         NEW k \in Keys, HasEmpty(es, cap)
  PROVE  LET i == FindEntry(es, cap, k) IN
         /\ i \in 0 .. cap - 1
         /\ es[i].key = k \/ es[i].key = NoKey
         /\ \A s \in 0 .. cap - 1 : es[s].key = k => s = i
         /\ \E j \in 0 .. cap - 1 :
               /\ i = Probe(cap, k, j)
               /\ \A m \in 0 .. j - 1 : /\ es[Probe(cap, k, m)].key # k
                                        /\ ~IsEmpty(es[Probe(cap, k, m)])
<1> DEFINE j == FirstOf(Stops(es, cap, k))
           T == TombstonesBefore(es, cap, k, j)
<1>1. /\ j \in 0 .. cap - 1
      /\ es[Probe(cap, k, j)].key = k \/ IsEmpty(es[Probe(cap, k, j)])
      /\ \A m \in 0 .. j - 1 : /\ es[Probe(cap, k, m)].key # k
                               /\ ~IsEmpty(es[Probe(cap, k, m)])
      /\ \A i \in 0 .. cap - 1 : es[i].key = k => i = Probe(cap, k, j)
  BY FirstStop
<1>2. FindEntry(es, cap, k) = IF es[Probe(cap, k, j)].key # k /\ T # {}
                              THEN Probe(cap, k, FirstOf(T)) ELSE Probe(cap, k, j)
  BY DEF FindEntry
<1> HIDE DEF j
<1>3. CASE es[Probe(cap, k, j)].key # k /\ T # {}
  <2>1. FirstOf(T) \in T
    <3>1. T \in SUBSET Nat
      BY <1>1 DEF TombstonesBefore
    <3> HIDE DEF T
    <3> QED BY <1>3, <3>1, LeastElement
  <2>2. FirstOf(T) \in 0 .. j - 1 /\ es[Probe(cap, k, FirstOf(T))].key = NoKey
    BY <2>1 DEF TombstonesBefore, IsTombstone
  <2>3. FirstOf(T) \in 0 .. cap - 1 /\ \A m \in 0 .. FirstOf(T) - 1 : m \in 0 .. j - 1
    BY <1>1, <2>2
  <2>4. \A s \in 0 .. cap - 1 : es[s].key # k
    BY <1>1, <1>3
  <2>5. Probe(cap, k, FirstOf(T)) \in 0 .. cap - 1
    BY <2>3, ProbeRange
  <2> HIDE DEF T
  <2> QED BY <1>1, <1>2, <1>3, <2>2, <2>3, <2>4, <2>5
<1>4. CASE ~(es[Probe(cap, k, j)].key # k /\ T # {})
  <2>1. Probe(cap, k, j) \in 0 .. cap - 1
    BY <1>1, ProbeRange
  <2> HIDE DEF T
  <2> QED BY <1>1, <1>2, <1>4, <2>1 DEF IsEmpty
<1> QED BY <1>3, <1>4

\* Storing a key where findEntry says keeps every key reachable, and adds that
\* slot to the used ones.
LEMMA StoreKeepsChains ==
  ASSUME NEW cap \in Nat \ {0}, NEW es, WellFormed(es, cap),
         NEW k \in Keys, NEW v \in Vals, HasEmpty(es, cap)
  PROVE  LET i == FindEntry(es, cap, k)
             es2 == [es EXCEPT ![i] = [key |-> k, value |-> v]]
         IN  WellFormed(es2, cap) /\ Used(es2, cap) = Used(es, cap) \cup {i}
<1> DEFINE i == FindEntry(es, cap, k)
           es2 == [es EXCEPT ![i] = [key |-> k, value |-> v]]
<1>1. PICK d \in 0 .. cap - 1 :
        /\ i = Probe(cap, k, d)
        /\ \A m \in 0 .. d - 1 : /\ es[Probe(cap, k, m)].key # k
                                 /\ ~IsEmpty(es[Probe(cap, k, m)])
  BY FindEntrySlot
<1>2. /\ i \in 0 .. cap - 1
      /\ \A s \in 0 .. cap - 1 : es[s].key = k => s = i
  BY FindEntrySlot
<1> HIDE DEF i, es2
<1>3. /\ es \in [0 .. cap - 1 -> Entry]
      /\ es2 = [es EXCEPT ![i] = [key |-> k, value |-> v]]
  BY DEF WellFormed, es2
<1>4. es2 \in [0 .. cap - 1 -> Entry]
  <2>1. [key |-> k, value |-> v] \in Entry
    BY DEF Entry
  <2> QED BY <1>2, <1>3, <2>1
<1>5. /\ es2[i].key = k /\ ~IsEmpty(es2[i])
      /\ \A s \in 0 .. cap - 1 : s # i => es2[s] = es[s]
  BY <1>2, <1>3, KeyAssumption DEF IsEmpty
<1>6. ASSUME NEW l \in Keys, NEW j \in 0 .. cap - 1, es2[Probe(cap, l, j)].key = l,
             NEW m \in 0 .. j - 1
      PROVE  es2[Probe(cap, l, m)].key # l /\ ~IsEmpty(es2[Probe(cap, l, m)])
  <2>1. /\ m \in 0 .. cap - 1
        /\ Probe(cap, l, j) \in 0 .. cap - 1 /\ Probe(cap, l, m) \in 0 .. cap - 1
    BY ProbeRange
  <2>2. Probe(cap, l, m) # Probe(cap, l, j)
    BY <2>1, ProbeOneToOne
  <2>3. CASE l = k
    <3>1. Probe(cap, l, j) = i
      BY <1>2, <1>5, <1>6, <2>1, <2>3
    <3>2. j = d
      BY <1>1, <2>3, <3>1, ProbeOneToOne
    <3> QED BY <1>1, <1>5, <2>1, <2>2, <2>3, <3>1, <3>2
  <2>4. CASE l # k
    <3>1. es[Probe(cap, l, j)].key = l
      BY <1>5, <1>6, <2>1, <2>4
    <3>2. es[Probe(cap, l, m)].key # l /\ ~IsEmpty(es[Probe(cap, l, m)])
      BY <3>1 DEF WellFormed, Chain
    <3> QED BY <1>5, <2>1, <2>4, <3>2
  <2> QED BY <2>3, <2>4
<1>7. Chain(es2, cap)
  BY <1>6 DEF Chain
<1>8. Used(es2, cap) = Used(es, cap) \cup {i}
  BY <1>2, <1>5 DEF Used
<1> QED BY <1>4, <1>7, <1>8 DEF WellFormed, i, es2

\* Turning entries with a key into tombstones disturbs no other key's search
\* and leaves the used slots as they are.
LEMMA TombstonesKeepChains ==
  ASSUME NEW cap \in Nat, NEW es, WellFormed(es, cap), NEW D,
         \A i \in D : i \in 0 .. cap - 1 /\ es[i].key # NoKey
  PROVE  LET es2 == [i \in 0 .. cap - 1 |-> IF i \in D THEN Tombstone ELSE es[i]]
         IN  WellFormed(es2, cap) /\ Used(es2, cap) = Used(es, cap)
<1> DEFINE es2 == [i \in 0 .. cap - 1 |-> IF i \in D THEN Tombstone ELSE es[i]]
<1>1. es \in [0 .. cap - 1 -> Entry]
  BY DEF WellFormed
<1>2. es2 \in [0 .. cap - 1 -> Entry]
  BY <1>1, ValueAssumption DEF Entry, Tombstone
<1>3. \A i \in 0 .. cap - 1 : /\ IsEmpty(es2[i]) <=> IsEmpty(es[i])
                              /\ es2[i].key = es[i].key \/ es2[i].key = NoKey
  BY ValueAssumption DEF IsEmpty, Tombstone
<1> HIDE DEF es2
<1>4. ASSUME NEW l \in Keys, NEW j \in 0 .. cap - 1, es2[Probe(cap, l, j)].key = l,
             NEW m \in 0 .. j - 1
      PROVE  es2[Probe(cap, l, m)].key # l /\ ~IsEmpty(es2[Probe(cap, l, m)])
  <2>1. /\ m \in 0 .. cap - 1 /\ cap # 0
        /\ Probe(cap, l, j) \in 0 .. cap - 1 /\ Probe(cap, l, m) \in 0 .. cap - 1
    BY ProbeRange
  <2>2. es[Probe(cap, l, j)].key = l
    BY <1>3, <1>4, <2>1, KeyAssumption
  <2>3. es[Probe(cap, l, m)].key # l /\ ~IsEmpty(es[Probe(cap, l, m)])
    BY <2>2 DEF WellFormed, Chain
  <2> QED BY <1>3, <2>1, <2>3, KeyAssumption
<1>5. Chain(es2, cap)
  BY <1>4 DEF Chain
<1>6. Used(es2, cap) = Used(es, cap)
  BY <1>3 DEF Used
<1> QED BY <1>2, <1>5, <1>6 DEF WellFormed, es2

\* A load of at most three quarters leaves an empty slot.
LEMMA LoadLeavesEmpty ==
  ASSUME NEW cap \in Nat \ {0}, NEW es,
         4 * Cardinality(Used(es, cap)) <= 3 * cap
  PROVE  HasEmpty(es, cap)
<1>1. SUFFICES ASSUME ~HasEmpty(es, cap) PROVE FALSE
  OBVIOUS
<1>2. Used(es, cap) = 0 .. cap - 1
  BY <1>1 DEF Used, HasEmpty
<1>3. Cardinality(0 .. cap - 1) = cap
  BY FS_Interval
<1> QED BY <1>2, <1>3

LEMMA UsedFinite ==
  ASSUME NEW cap \in Nat, NEW es
  PROVE  /\ IsFiniteSet(Used(es, cap))
         /\ Cardinality(Used(es, cap)) \in Nat
<1>1. IsFiniteSet(0 .. cap - 1)
  BY FS_Interval
<1>2. Used(es, cap) \in SUBSET (0 .. cap - 1)
  BY DEF Used
<1>3. IsFiniteSet(Used(es, cap))
  BY <1>1, <1>2, FS_Subset
<1> QED BY <1>3, FS_CardinalityType

LEMMA EmptyArrayWellFormed ==
  ASSUME NEW cap \in Nat
  PROVE  /\ WellFormed(EmptyArray(cap), cap)
         /\ Used(EmptyArray(cap), cap) = {}
         /\ Cardinality(Used(EmptyArray(cap), cap)) = 0
<1>1. \A i \in 0 .. cap - 1 : IsEmpty(EmptyArray(cap)[i]) /\ EmptyArray(cap)[i].key = NoKey
  BY DEF EmptyArray, IsEmpty, EmptyEntry
<1>2. EmptyArray(cap) \in [0 .. cap - 1 -> Entry]
  BY ValueAssumption DEF EmptyArray, EmptyEntry, Entry
<1>3. Chain(EmptyArray(cap), cap)
  <2>1. ASSUME NEW l \in Keys, NEW j \in 0 .. cap - 1,
               EmptyArray(cap)[Probe(cap, l, j)].key = l
        PROVE  FALSE
    <3>1. Probe(cap, l, j) \in 0 .. cap - 1
      BY ProbeRange
    <3> QED BY <1>1, <2>1, <3>1, KeyAssumption
  <2> QED BY <2>1 DEF Chain
<1>4. Used(EmptyArray(cap), cap) = {}
  BY <1>1 DEF Used
<1> QED BY <1>2, <1>3, <1>4, FS_EmptySet DEF WellFormed

-----------------------------------------------------------------------------
\* The inductive invariant: chains instead of the reachability they imply.
IInv ==
  /\ TypeOK
  /\ CountIsUsed
  /\ LoadBounded
  /\ RebuildCopies
  /\ Chain(entries, capacity)
  /\ Chain(fresh, freshCap)

LEMMA IInvInit == Init => IInv
<1> SUFFICES ASSUME Init PROVE IInv
  OBVIOUS
<1>1. /\ entries = EmptyArray(0) /\ capacity = 0 /\ count = 0
      /\ fresh = EmptyArray(0) /\ freshCap = 0 /\ pos = 0 /\ todo = <<>>
  BY DEF Init
<1>2. /\ WellFormed(EmptyArray(0), 0)
      /\ Cardinality(Used(EmptyArray(0), 0)) = 0
  BY EmptyArrayWellFormed
<1>3. TypeOK
  BY <1>1, <1>2 DEF TypeOK, WellFormed, Rebuilding
<1>4. CountIsUsed
  BY <1>1, <1>2 DEF CountIsUsed, Rebuilding
<1>5. LoadBounded
  BY <1>1, <1>2 DEF LoadBounded
<1>6. RebuildCopies
  BY <1>1 DEF RebuildCopies, Rebuilding
<1> QED BY <1>1, <1>2, <1>3, <1>4, <1>5, <1>6 DEF IInv, WellFormed

\* The table in use has an empty slot as soon as it has slots; so has the array
\* being filled.
LEMMA OldHasEmpty ==
  ASSUME IInv, capacity > 0
  PROVE  HasEmpty(entries, capacity)
BY LoadLeavesEmpty DEF IInv, TypeOK, LoadBounded

LEMMA FreshHasEmpty ==
  ASSUME IInv, Rebuilding
  PROVE  /\ freshCap \in Nat \ {0} /\ capacity < freshCap
         /\ 4 * (capacity + 1) <= 3 * freshCap
         /\ 4 * (Cardinality(Used(fresh, freshCap)) + 1) <= 3 * freshCap
         /\ HasEmpty(fresh, freshCap)
<1>1. /\ capacity \in Nat /\ pos \in 0 .. capacity /\ count \in Nat /\ freshCap \in Nat
      /\ capacity = 0 \/ capacity >= MinCapacity
      /\ freshCap = GrowCapacity(capacity) /\ count <= pos
      /\ count = Cardinality(Used(fresh, freshCap))
  BY DEF IInv, TypeOK, LoadBounded, RebuildCopies, CountIsUsed
<1>2. /\ freshCap \in Nat \ {0} /\ capacity < freshCap
      /\ 4 * (capacity + 1) <= 3 * freshCap
  BY <1>1, CapacityAssumption DEF GrowCapacity
<1>3. 4 * (Cardinality(Used(fresh, freshCap)) + 1) <= 3 * freshCap
  BY <1>1, <1>2
<1>4. HasEmpty(fresh, freshCap)
  BY <1>1, <1>2, <1>3, LoadLeavesEmpty
<1> QED BY <1>2, <1>3, <1>4

\* The two steps that store a key: tableSet in the array es, which then is the
\* table.
LEMMA StoreStep ==
  ASSUME NEW cap \in Nat \ {0}, NEW es, WellFormed(es, cap), HasEmpty(es, cap),
         cap >= MinCapacity, 4 * (Cardinality(Used(es, cap)) + 1) <= 3 * cap,
         todo \in Seq(Keys \X Vals), todo # <<>>,
         Store(es, cap, Cardinality(Used(es, cap)), Head(todo)),
         capacity' = cap, freshCap' = 0, WellFormed(fresh', 0), pos' \in 0 .. cap
  PROVE  IInv'
<1> DEFINE k == Head(todo)[1]
           v == Head(todo)[2]
           i == FindEntry(es, cap, k)
           n == Cardinality(Used(es, cap))
<1>1. k \in Keys /\ v \in Vals /\ todo' \in Seq(Keys \X Vals)
  <2>1. Head(todo) \in Keys \X Vals /\ Tail(todo) \in Seq(Keys \X Vals)
    OBVIOUS
  <2> QED BY <2>1 DEF Store
<1>2. /\ entries' = [es EXCEPT ![i] = [key |-> k, value |-> v]]
      /\ count' = IF IsEmpty(es[i]) THEN n + 1 ELSE n
  BY DEF Store
<1>3. i \in 0 .. cap - 1
  BY <1>1, FindEntrySlot
<1>4. /\ WellFormed(entries', cap)
      /\ Used(entries', cap) = Used(es, cap) \cup {i}
  BY <1>1, <1>2, StoreKeepsChains
<1>5. IsFiniteSet(Used(es, cap)) /\ n \in Nat
  BY UsedFinite
<1>6. Cardinality(Used(entries', cap)) = IF i \in Used(es, cap) THEN n ELSE n + 1
  BY <1>4, <1>5, FS_AddElement
<1>7. count' = Cardinality(Used(entries', cap))
  BY <1>2, <1>3, <1>6 DEF Used
<1>8. count' \in Nat /\ 4 * count' <= 3 * cap
  BY <1>2, <1>5
<1> HIDE DEF k, v, i, n
<1>9. /\ WellFormed(fresh', 0)
      /\ WellFormed(entries', cap)
  BY <1>4
<1>10. TypeOK'
  BY <1>1, <1>8, <1>9 DEF TypeOK, WellFormed, Rebuilding
<1>11. CountIsUsed' /\ LoadBounded' /\ RebuildCopies'
  BY <1>7, <1>8 DEF CountIsUsed, LoadBounded, RebuildCopies, Rebuilding
<1> QED BY <1>9, <1>10, <1>11 DEF IInv, WellFormed

\* A step that only touches todo and ret, outside a rebuild.
LEMMA QuietStep ==
  ASSUME IInv, ~Rebuilding,
         UNCHANGED <<entries, capacity, count, fresh, freshCap, pos>>,
         todo' \in Seq(Keys \X Vals)
  PROVE  IInv'
<1>1. TypeOK'
  BY DEF IInv, TypeOK, Rebuilding
<1>2. CountIsUsed' /\ LoadBounded' /\ RebuildCopies'
  BY DEF IInv, CountIsUsed, LoadBounded, RebuildCopies, Rebuilding
<1> QED BY <1>1, <1>2 DEF IInv

LEMMA CallsKeepIInv ==
  ASSUME IInv, Call
  PROVE  IInv'
<1>1. ~Rebuilding
  BY DEF Call, CallSet, CallAddAll, Get, FindString, Delete, RemoveWhite, Idle,
         IInv, TypeOK
<1>2. /\ entries \in [0 .. capacity - 1 -> Entry] /\ capacity \in Nat
      /\ WellFormed(entries, capacity)
      /\ count = Cardinality(Used(entries, capacity))
  BY <1>1 DEF IInv, TypeOK, WellFormed, CountIsUsed
<1>3. count # 0 => capacity > 0
  <2>1. capacity = 0 => Used(entries, capacity) = {}
    BY DEF Used
  <2> QED BY <1>2, <2>1, FS_EmptySet
<1>4. ASSUME NEW D, \A i \in D : i \in 0 .. capacity - 1 /\ entries[i].key # NoKey,
             entries' = [i \in 0 .. capacity - 1 |-> IF i \in D THEN Tombstone ELSE entries[i]],
             UNCHANGED <<capacity, count, fresh, freshCap, pos, todo>>
      PROVE  IInv'
  <2>1. WellFormed(entries', capacity) /\ Used(entries', capacity) = Used(entries, capacity)
    BY <1>2, <1>4, TombstonesKeepChains
  <2>2. TypeOK'
    BY <1>1, <1>4, <2>1 DEF IInv, TypeOK, WellFormed, Rebuilding
  <2>3. CountIsUsed' /\ LoadBounded' /\ RebuildCopies'
    BY <1>1, <1>2, <1>4, <2>1 DEF IInv, CountIsUsed, LoadBounded, RebuildCopies, Rebuilding
  <2> QED BY <1>4, <2>1, <2>2, <2>3 DEF IInv, WellFormed
<1>5. ASSUME NEW k \in Keys, NEW v \in Vals, CallSet(k, v)
      PROVE  IInv'
  <2>1. todo' \in Seq(Keys \X Vals)
    BY <1>5 DEF CallSet
  <2> QED BY <1>1, <1>5, <2>1, QuietStep DEF CallSet
<1>6. ASSUME NEW b \in Batches, CallAddAll(b)
      PROVE  IInv'
  BY <1>1, <1>6, BatchAssumption, QuietStep DEF CallAddAll
<1>7. ASSUME NEW k \in Keys, Get(k) \/ FindString(k)
      PROVE  IInv'
  BY <1>1, <1>7, QuietStep DEF Get, FindString, IInv, TypeOK
<1>8. ASSUME NEW k \in Keys, Delete(k)
      PROVE  IInv'
  <2> DEFINE i == FindEntry(entries, capacity, k)
  <2>1. CASE count # 0 /\ entries[i].key # NoKey
    <3>1. i \in 0 .. capacity - 1
      BY <1>2, <1>3, <2>1, OldHasEmpty, FindEntrySlot
    <3>2. entries' = [entries EXCEPT ![i] = Tombstone]
      BY <1>8, <2>1 DEF Delete
    <3> HIDE DEF i
    <3>3. entries' = [s \in 0 .. capacity - 1 |-> IF s \in {i} THEN Tombstone ELSE entries[s]]
      BY <1>2, <3>1, <3>2
    <3>4. \A s \in {i} : s \in 0 .. capacity - 1 /\ entries[s].key # NoKey
      BY <2>1, <3>1
    <3> QED BY <1>4, <1>8, <3>3, <3>4 DEF Delete
  <2>2. CASE ~(count # 0 /\ entries[i].key # NoKey)
    BY <1>1, <1>8, <2>2, QuietStep DEF Delete, IInv, TypeOK
  <2> QED BY <2>1, <2>2
<1>9. ASSUME NEW white \in SUBSET Keys, RemoveWhite(white)
      PROVE  IInv'
  <2> DEFINE live == {entries[i].key : i \in 0 .. capacity - 1} \ {NoKey}
             dead == {FindEntry(entries, capacity, k) : k \in white \cap live}
  <2>1. ASSUME NEW k \in white \cap live
        PROVE  /\ FindEntry(entries, capacity, k) \in 0 .. capacity - 1
               /\ entries[FindEntry(entries, capacity, k)].key # NoKey
    <3>1. PICK i \in 0 .. capacity - 1 : entries[i].key = k
      BY <2>1
    <3>2. k \in Keys /\ k # NoKey /\ capacity \in Nat \ {0}
      BY <1>2, <2>1, <3>1
    <3>3. HasEmpty(entries, capacity)
      BY <3>2, OldHasEmpty
    <3> QED BY <1>2, <3>1, <3>2, <3>3, FindEntrySlot
  <2>2. \A i \in dead : i \in 0 .. capacity - 1 /\ entries[i].key # NoKey
    BY <2>1
  <2>3. /\ entries' = [i \in 0 .. capacity - 1 |-> IF i \in dead THEN Tombstone ELSE entries[i]]
        /\ UNCHANGED <<capacity, count, fresh, freshCap, pos, todo>>
    BY <1>9 DEF RemoveWhite
  <2> HIDE DEF dead
  <2> QED BY <1>4, <2>2, <2>3
<1> QED BY <1>5, <1>6, <1>7, <1>8, <1>9 DEF Call

LEMMA SetInPlaceKeepsIInv ==
  ASSUME IInv, SetInPlace
  PROVE  IInv'
<1>1. /\ todo # <<>> /\ ~Rebuilding /\ 4 * (count + 1) <= 3 * capacity
      /\ Store(entries, capacity, count, Head(todo))
      /\ UNCHANGED <<capacity, fresh, freshCap, pos>>
  BY DEF SetInPlace, MustGrow, IInv, TypeOK
<1>2. /\ todo \in Seq(Keys \X Vals) /\ capacity \in Nat /\ count \in Nat
      /\ count = Cardinality(Used(entries, capacity))
      /\ WellFormed(entries, capacity)
      /\ capacity = 0 \/ capacity >= MinCapacity
  BY <1>1 DEF IInv, TypeOK, CountIsUsed, LoadBounded, WellFormed
<1>3. capacity \in Nat \ {0} /\ HasEmpty(entries, capacity)
  BY <1>1, <1>2, OldHasEmpty
<1>4. freshCap' = 0 /\ WellFormed(fresh', 0) /\ capacity' = capacity /\ pos' \in 0 .. capacity
  BY <1>1 DEF IInv, TypeOK, Rebuilding, WellFormed
<1> QED BY <1>1, <1>2, <1>3, <1>4, StoreStep

LEMMA StartRebuildKeepsIInv ==
  ASSUME IInv, StartRebuild
  PROVE  IInv'
<1>1. /\ todo # <<>> /\ ~Rebuilding
      /\ freshCap' = GrowCapacity(capacity) /\ fresh' = EmptyArray(freshCap')
      /\ count' = 0 /\ pos' = 0
      /\ UNCHANGED <<entries, capacity, todo, ret>>
  BY DEF StartRebuild
<1>2. capacity \in Nat /\ freshCap' \in Nat \ {0}
  BY <1>1, CapacityAssumption DEF GrowCapacity, IInv, TypeOK
<1>3. /\ WellFormed(fresh', freshCap') /\ Cardinality(Used(fresh', freshCap')) = 0
  BY <1>1, <1>2, EmptyArrayWellFormed
<1>4. TypeOK'
  BY <1>1, <1>2, <1>3 DEF IInv, TypeOK, WellFormed, Rebuilding
<1>5. CountIsUsed' /\ LoadBounded'
  BY <1>1, <1>2, <1>3 DEF IInv, CountIsUsed, LoadBounded, Rebuilding
<1>6. \A i \in 0 .. freshCap' - 1 : IsEmpty(fresh'[i])
  BY <1>1 DEF EmptyArray, EmptyEntry, IsEmpty
<1>7. RebuildCopies'
  BY <1>1, <1>2, <1>6 DEF RebuildCopies, GrowCapacity
<1> QED BY <1>1, <1>3, <1>4, <1>5, <1>7 DEF IInv, WellFormed

\* A key is in one slot of a well-formed array.
LEMMA KeysStoredOnce ==
  ASSUME NEW cap \in Nat, NEW es, WellFormed(es, cap),
         NEW i \in 0 .. cap - 1, NEW j \in 0 .. cap - 1,
         es[i].key = es[j].key, es[i].key # NoKey
  PROVE  i = j
<1> DEFINE k == es[i].key
<1>1. cap \in Nat \ {0} /\ k \in Keys
  BY DEF WellFormed, Entry
<1>2. PICK a \in 0 .. cap - 1 : Probe(cap, k, a) = i
  BY <1>1, ProbeOnto
<1>3. PICK b \in 0 .. cap - 1 : Probe(cap, k, b) = j
  BY <1>1, ProbeOnto
<1>4. \A m \in 0 .. a - 1 : es[Probe(cap, k, m)].key # k
  BY <1>1, <1>2 DEF WellFormed, Chain
<1>5. \A m \in 0 .. b - 1 : es[Probe(cap, k, m)].key # k
  BY <1>1, <1>3 DEF WellFormed, Chain
<1>6. ~(a < b) /\ ~(b < a)
  BY <1>2, <1>3, <1>4, <1>5
<1> QED BY <1>2, <1>3, <1>6

LEMMA RebuildSlotKeepsIInv ==
  ASSUME IInv, RebuildSlot
  PROVE  IInv'
<1> DEFINE e == entries[pos]
           i == FindEntry(fresh, freshCap, e.key)
<1>1. /\ Rebuilding /\ pos < capacity
      /\ pos' = pos + 1
      /\ UNCHANGED <<entries, capacity, freshCap, todo, ret>>
  BY DEF RebuildSlot
<1>2. /\ capacity \in Nat /\ count \in Nat /\ pos \in 0 .. capacity - 1
      /\ freshCap \in Nat \ {0}
      /\ WellFormed(fresh, freshCap) /\ WellFormed(entries, capacity)
      /\ HasEmpty(fresh, freshCap)
      /\ count = Cardinality(Used(fresh, freshCap)) /\ count <= pos
      /\ e \in Entry
  BY <1>1, FreshHasEmpty DEF IInv, TypeOK, WellFormed, CountIsUsed, RebuildCopies
<1>3. LoadBounded'
  BY <1>1 DEF IInv, LoadBounded
<1>4. CASE e.key = NoKey
  <2>1. UNCHANGED <<fresh, count>>
    BY <1>4 DEF RebuildSlot
  <2>2. TypeOK' /\ CountIsUsed'
    BY <1>1, <1>2, <2>1 DEF IInv, TypeOK, CountIsUsed, Rebuilding
  <2>3. \A p \in 0 .. pos : entries[p].key # NoKey => p \in 0 .. pos - 1
    BY <1>2, <1>4
  <2>4. RebuildCopies'
    BY <1>1, <1>2, <2>1, <2>3 DEF IInv, RebuildCopies, Rebuilding
  <2> QED BY <1>1, <1>3, <2>1, <2>2, <2>4 DEF IInv
<1>5. CASE e.key # NoKey
  <2>1. /\ fresh' = [fresh EXCEPT ![i] = e] /\ count' = count + 1
        /\ e.key \in Keys /\ e.value \in Vals
        /\ e = [key |-> e.key, value |-> e.value]
    BY <1>2, <1>5 DEF RebuildSlot, Entry
  <2>2. /\ i \in 0 .. freshCap - 1
        /\ fresh[i].key = e.key \/ fresh[i].key = NoKey
    BY <1>2, <2>1, FindEntrySlot
  <2>3. IsEmpty(fresh[i])
    <3>1. \/ IsEmpty(fresh[i])
          \/ \E p \in 0 .. pos - 1 : fresh[i] = entries[p] /\ fresh[i].key # NoKey
      BY <1>1, <2>2 DEF IInv, RebuildCopies
    <3>2. ASSUME NEW p \in 0 .. pos - 1, fresh[i] = entries[p], fresh[i].key # NoKey
          PROVE  FALSE
      <4>1. entries[p].key = e.key /\ p \in 0 .. capacity - 1
        BY <1>2, <2>2, <3>2
      <4>2. p = pos
        BY <1>2, <1>5, <4>1, KeysStoredOnce
      <4> QED BY <1>2, <4>2
    <3> QED BY <3>1, <3>2
  <2>4. WellFormed(fresh', freshCap) /\ Used(fresh', freshCap) = Used(fresh, freshCap) \cup {i}
    <3> HIDE DEF e
    <3>1. fresh' = [fresh EXCEPT ![i] = [key |-> e.key, value |-> e.value]]
      BY <2>1
    <3>2. e.key \in Keys /\ e.value \in Vals
      BY <2>1
    <3> QED BY <1>2, <3>1, <3>2, StoreKeepsChains
  <2>5. i \notin Used(fresh, freshCap)
    BY <2>3 DEF Used
  <2>6. count' = Cardinality(Used(fresh', freshCap))
    BY <1>2, <2>1, <2>4, <2>5, UsedFinite, FS_AddElement
  <2>7. TypeOK' /\ CountIsUsed'
    BY <1>1, <1>2, <2>1, <2>4, <2>6 DEF IInv, TypeOK, WellFormed, CountIsUsed, Rebuilding
  <2>8. \A s \in 0 .. freshCap - 1 : fresh'[s] = IF s = i THEN e ELSE fresh[s]
    <3> HIDE DEF e, i
    <3> QED BY <1>2, <2>1, <2>2 DEF WellFormed
  <2>9. RebuildCopies'
    <3>1. freshCap' = GrowCapacity(capacity') /\ count' <= pos'
      BY <1>1, <1>2, <2>1 DEF IInv, RebuildCopies, GrowCapacity
    <3>2. ASSUME NEW s \in 0 .. freshCap - 1, ~IsEmpty(fresh'[s])
          PROVE  \E p \in 0 .. pos : fresh'[s] = entries[p] /\ fresh'[s].key # NoKey
      <4>1. CASE s = i
        BY <1>2, <1>5, <2>8, <4>1
      <4>2. CASE s # i
        <5>1. fresh'[s] = fresh[s]
          BY <2>8, <4>2
        <5>2. PICK p \in 0 .. pos - 1 : fresh[s] = entries[p] /\ fresh[s].key # NoKey
          BY <1>1, <3>2, <5>1 DEF IInv, RebuildCopies
        <5> QED BY <1>2, <5>1, <5>2
      <4> QED BY <4>1, <4>2
    <3>3. ASSUME NEW p \in 0 .. pos, entries[p].key # NoKey
          PROVE  \E s \in 0 .. freshCap - 1 : fresh'[s] = entries[p]
      <4>1. CASE p = pos
        BY <2>2, <2>8, <4>1
      <4>2. CASE p # pos
        <5>1. PICK s \in 0 .. freshCap - 1 : fresh[s] = entries[p]
          BY <1>1, <1>2, <3>3, <4>2 DEF IInv, RebuildCopies
        <5>2. s # i
          BY <2>3, <3>3, <5>1 DEF IsEmpty
        <5> QED BY <2>8, <5>1, <5>2
      <4> QED BY <4>1, <4>2
    <3>4. 0 .. pos' - 1 = 0 .. pos
      BY <1>1, <1>2
    <3> HIDE DEF e, i
    <3> QED BY <1>1, <3>1, <3>2, <3>3, <3>4 DEF RebuildCopies
  <2> QED BY <1>1, <1>3, <2>4, <2>7, <2>9 DEF IInv, WellFormed
<1> QED BY <1>4, <1>5

LEMMA FinishRebuildKeepsIInv ==
  ASSUME IInv, FinishRebuild
  PROVE  IInv'
<1>1. /\ Rebuilding
      /\ Store(fresh, freshCap, count, Head(todo))
      /\ capacity' = freshCap
      /\ fresh' = EmptyArray(0) /\ freshCap' = 0 /\ pos' = 0
  BY DEF FinishRebuild
<1>2. /\ freshCap \in Nat \ {0} /\ HasEmpty(fresh, freshCap)
      /\ 4 * (Cardinality(Used(fresh, freshCap)) + 1) <= 3 * freshCap
  BY <1>1, FreshHasEmpty
<1>3. /\ todo \in Seq(Keys \X Vals) /\ todo # <<>>
      /\ count = Cardinality(Used(fresh, freshCap))
      /\ WellFormed(fresh, freshCap)
      /\ freshCap >= MinCapacity
  BY <1>1, CapacityAssumption
     DEF IInv, TypeOK, CountIsUsed, LoadBounded, RebuildCopies, GrowCapacity, WellFormed
<1>4. WellFormed(fresh', 0) /\ pos' \in 0 .. freshCap
  BY <1>1, <1>2, EmptyArrayWellFormed
<1> QED BY <1>1, <1>2, <1>3, <1>4, StoreStep

LEMMA IInvNext == IInv /\ [Next]_vars => IInv'
<1> SUFFICES ASSUME IInv, [Next]_vars PROVE IInv'
  OBVIOUS
<1>1. CASE Call
  BY <1>1, CallsKeepIInv
<1>2. CASE SetInPlace
  BY <1>2, SetInPlaceKeepsIInv
<1>3. CASE StartRebuild
  BY <1>3, StartRebuildKeepsIInv
<1>4. CASE RebuildSlot
  BY <1>4, RebuildSlotKeepsIInv
<1>5. CASE FinishRebuild
  BY <1>5, FinishRebuildKeepsIInv
<1>6. CASE UNCHANGED vars
  BY <1>6 DEF vars, IInv, TypeOK, CountIsUsed, LoadBounded, RebuildCopies, Rebuilding
<1> QED BY <1>1, <1>2, <1>3, <1>4, <1>5, <1>6 DEF Next, Work

-----------------------------------------------------------------------------
LEMMA IInvAlways == Spec => []IInv
<1> QED BY IInvInit, IInvNext, PTL DEF Spec

\* The variables keep their types: in particular every slot index the code
\* computes stays inside the array and the copying loop inside the old one.
THEOREM TableTypeCorrect == Spec => []TypeOK
<1>1. IInv => TypeOK
  BY DEF IInv
<1> QED BY <1>1, IInvAlways, PTL

\* Table.count is the number of slots that are not empty, through every mix of
\* tableSet, tableDelete, tableAddAll, tableRemoveWhite and rebuilding.
THEOREM TableCountIsUsed == Spec => []CountIsUsed
<1>1. IInv => CountIsUsed
  BY DEF IInv
<1> QED BY <1>1, IInvAlways, PTL

\* No search loop of findEntry or tableFindString runs forever.
THEOREM TableProbesEnd == Spec => []ProbesEnd
<1>1. IInv => ProbesEnd
  <2> SUFFICES ASSUME IInv, NEW k \in Keys
               PROVE  /\ capacity > 0 => Stops(entries, capacity, k) # {}
                      /\ freshCap > 0 => Stops(fresh, freshCap, k) # {}
    BY DEF ProbesEnd
  <2>1. capacity \in Nat /\ freshCap \in Nat
    BY DEF IInv, TypeOK
  <2>2. capacity > 0 => Stops(entries, capacity, k) # {}
    <3>1. CASE ~(capacity > 0)
      BY <3>1
    <3>2. CASE capacity > 0
      <4>1. entries \in [0 .. capacity - 1 -> Entry] /\ capacity \in Nat \ {0}
        BY <2>1, <3>2 DEF IInv, TypeOK
      <4> QED BY <3>2, <4>1, OldHasEmpty, SearchStops
    <3> QED BY <3>1, <3>2
  <2>3. freshCap > 0 => Stops(fresh, freshCap, k) # {}
    <3>1. CASE ~(freshCap > 0)
      BY <3>1
    <3>2. CASE freshCap > 0
      <4>1. fresh \in [0 .. freshCap - 1 -> Entry] /\ Rebuilding
        BY <2>1, <3>2 DEF IInv, TypeOK, Rebuilding
      <4> QED BY <4>1, FreshHasEmpty, SearchStops
    <3> QED BY <3>1, <3>2
  <2> QED BY <2>2, <2>3
<1> QED BY <1>1, IInvAlways, PTL

\* A search for a stored key ends at the slot that stores it.
LEMMA ChainsReach ==
  ASSUME NEW cap \in Nat, NEW es, WellFormed(es, cap),
         cap > 0 => HasEmpty(es, cap)
  PROVE  Reachable(es, cap)
<1> SUFFICES ASSUME NEW i \in 0 .. cap - 1, es[i].key # NoKey
             PROVE  Probe(cap, es[i].key, FirstOf(Stops(es, cap, es[i].key))) = i
  BY DEF Reachable, LiveSlots
<1> DEFINE k == es[i].key
<1>1. cap \in Nat \ {0} /\ HasEmpty(es, cap) /\ k \in Keys
  BY DEF WellFormed, Entry
<1>2. \A s \in 0 .. cap - 1 : es[s].key = k => s = Probe(cap, k, FirstOf(Stops(es, cap, k)))
  <2> HIDE DEF k
  <2> QED BY <1>1, FirstStop
<1> QED BY <1>2

\* No deletion, insertion or rebuild ever makes a stored key unreachable.
THEOREM TableKeysReachable == Spec => []KeysReachable
<1>1. IInv => KeysReachable
  <2> SUFFICES ASSUME IInv PROVE KeysReachable
    OBVIOUS
  <2>1. /\ capacity \in Nat /\ freshCap \in Nat
        /\ WellFormed(entries, capacity) /\ WellFormed(fresh, freshCap)
    BY DEF IInv, TypeOK, WellFormed
  <2>2. Reachable(entries, capacity)
    BY <2>1, OldHasEmpty, ChainsReach
  <2>3. freshCap > 0 => HasEmpty(fresh, freshCap)
    BY <2>1, FreshHasEmpty DEF Rebuilding
  <2> QED BY <2>1, <2>2, <2>3, ChainsReach DEF KeysReachable
<1> QED BY <1>1, IInvAlways, PTL

-----------------------------------------------------------------------------
\* What an array of slots stands for, slot by slot.
LEMMA ContentsAt ==
  ASSUME NEW cap \in Nat, NEW es, WellFormed(es, cap), NEW k \in Keys
  PROVE  /\ (\A i \in 0 .. cap - 1 : es[i].key # k) => ContentsOf(es, cap)[k] = Absent
         /\ \A i \in 0 .. cap - 1 :
               es[i].key = k => /\ ContentsOf(es, cap)[k] = es[i].value
                                /\ ContentsOf(es, cap)[k] # Absent
<1> DEFINE at == {i \in 0 .. cap - 1 : es[i].key = k}
<1>1. ContentsOf(es, cap)[k] = IF at = {} THEN Absent ELSE es[CHOOSE i \in at : TRUE].value
  BY DEF ContentsOf
<1>2. ASSUME NEW i \in 0 .. cap - 1, es[i].key = k
      PROVE  /\ ContentsOf(es, cap)[k] = es[i].value
             /\ ContentsOf(es, cap)[k] # Absent
  <2>1. i \in at /\ k # NoKey
    BY <1>2, KeyAssumption
  <2>2. (CHOOSE s \in at : TRUE) \in at
    BY <2>1
  <2>3. (CHOOSE s \in at : TRUE) = i
    BY <1>2, <2>1, <2>2, KeysStoredOnce
  <2>4. es[i].value \in Vals
    BY DEF WellFormed, Entry
  <2> HIDE DEF at
  <2> QED BY <1>1, <2>1, <2>3, <2>4, ValueAssumption
<1> QED BY <1>1, <1>2

\* A stored key is where findEntry points; a key that is not stored has no
\* value and findEntry points to a slot without a key.
LEMMA FindEntryContents ==
  ASSUME NEW cap \in Nat \ {0}, NEW es, WellFormed(es, cap),
         NEW k \in Keys, HasEmpty(es, cap)
  PROVE  LET i == FindEntry(es, cap, k) IN
         ContentsOf(es, cap)[k] = IF es[i].key = NoKey THEN Absent ELSE es[i].value
<1> DEFINE i == FindEntry(es, cap, k)
<1>1. /\ i \in 0 .. cap - 1
      /\ es[i].key = k \/ es[i].key = NoKey
      /\ \A s \in 0 .. cap - 1 : es[s].key = k => s = i
  BY FindEntrySlot
<1> HIDE DEF i
<1>2. CASE es[i].key = NoKey
  <2>1. \A s \in 0 .. cap - 1 : es[s].key # k
    BY <1>1, <1>2, KeyAssumption
  <2> QED BY <1>2, <2>1, ContentsAt DEF i
<1>3. CASE es[i].key # NoKey
  BY <1>1, <1>3, ContentsAt DEF i
<1> QED BY <1>2, <1>3

LEMMA FindEntryAbsent ==
  ASSUME NEW cap \in Nat \ {0}, NEW es, WellFormed(es, cap),
         NEW k \in Keys, HasEmpty(es, cap)
  PROVE  (es[FindEntry(es, cap, k)].key = NoKey) <=> (ContentsOf(es, cap)[k] = Absent)
<1>1. FindEntry(es, cap, k) \in 0 .. cap - 1
  BY FindEntrySlot
<1>2. es[FindEntry(es, cap, k)].value \in Vals
  BY <1>1 DEF WellFormed, Entry
<1> QED BY <1>2, FindEntryContents, ValueAssumption

\* Storing at findEntry's slot is the map update of tableSet.
LEMMA StoreContents ==
  ASSUME NEW cap \in Nat \ {0}, NEW es, WellFormed(es, cap),
         NEW k \in Keys, NEW v \in Vals, HasEmpty(es, cap)
  PROVE  LET i == FindEntry(es, cap, k)
             es2 == [es EXCEPT ![i] = [key |-> k, value |-> v]]
         IN  ContentsOf(es2, cap) = [ContentsOf(es, cap) EXCEPT ![k] = v]
<1> DEFINE i == FindEntry(es, cap, k)
           es2 == [es EXCEPT ![i] = [key |-> k, value |-> v]]
<1>1. /\ i \in 0 .. cap - 1
      /\ es[i].key = k \/ es[i].key = NoKey
  BY FindEntrySlot
<1>2. WellFormed(es2, cap)
  BY StoreKeepsChains
<1>3. es \in [0 .. cap - 1 -> Entry]
  BY DEF WellFormed
<1>4. \A s \in 0 .. cap - 1 : es2[s] = IF s = i THEN [key |-> k, value |-> v] ELSE es[s]
  <2> HIDE DEF i
  <2> QED BY <1>1, <1>3
<1> HIDE DEF i, es2
<1>5. ASSUME NEW l \in Keys
      PROVE  ContentsOf(es2, cap)[l] = IF l = k THEN v ELSE ContentsOf(es, cap)[l]
  <2>1. CASE l = k
    BY <1>1, <1>2, <1>4, <2>1, ContentsAt
  <2>2. CASE l # k
    <3>1. CASE \E s \in 0 .. cap - 1 : es[s].key = l
      <4>1. PICK s \in 0 .. cap - 1 : es[s].key = l
        BY <3>1
      <4>2. s # i /\ es2[s] = es[s]
        BY <1>1, <1>4, <2>2, <4>1, KeyAssumption
      <4>3. ContentsOf(es2, cap)[l] = es2[s].value /\ ContentsOf(es, cap)[l] = es[s].value
        BY <1>2, <4>1, <4>2, ContentsAt
      <4> QED BY <2>2, <4>2, <4>3
    <3>2. CASE \A s \in 0 .. cap - 1 : es[s].key # l
      <4>1. \A s \in 0 .. cap - 1 : es2[s].key # l
        BY <1>4, <2>2, <3>2
      <4> QED BY <1>2, <2>2, <3>2, <4>1, ContentsAt
    <3> QED BY <3>1, <3>2
  <2> QED BY <2>1, <2>2
<1>6. /\ ContentsOf(es2, cap) = [l \in Keys |-> ContentsOf(es2, cap)[l]]
      /\ ContentsOf(es, cap) = [l \in Keys |-> ContentsOf(es, cap)[l]]
  BY DEF ContentsOf
<1>7. ContentsOf(es2, cap) = [ContentsOf(es, cap) EXCEPT ![k] = v]
  BY <1>5, <1>6
<1> QED BY <1>7 DEF i, es2

\* The array es2 is es with the keys in the slots D turned into tombstones.
Buried(es, es2, cap, D) ==
  /\ \A i \in D : i \in 0 .. cap - 1 /\ es[i].key # NoKey
  /\ \A s \in 0 .. cap - 1 : es2[s] = IF s \in D THEN Tombstone ELSE es[s]

\* Turning slots into tombstones removes exactly the keys they stored.
LEMMA TombstoneContents ==
  ASSUME NEW cap \in Nat, NEW es, WellFormed(es, cap), NEW D,
         NEW es2, WellFormed(es2, cap), Buried(es, es2, cap, D)
  PROVE  \A k \in Keys : ContentsOf(es2, cap)[k] =
            IF \E i \in D : es[i].key = k THEN Absent ELSE ContentsOf(es, cap)[k]
<1>1. WellFormed(es2, cap)
  OBVIOUS
<1>2. /\ \A i \in D : i \in 0 .. cap - 1 /\ es[i].key # NoKey
      /\ \A s \in 0 .. cap - 1 : es2[s] = IF s \in D THEN Tombstone ELSE es[s]
  BY DEF Buried
<1>3. ASSUME NEW k \in Keys
      PROVE  ContentsOf(es2, cap)[k] =
             IF \E i \in D : es[i].key = k THEN Absent ELSE ContentsOf(es, cap)[k]
  <2>1. CASE \E i \in D : es[i].key = k
    <3>1. PICK i \in D : es[i].key = k
      BY <2>1
    <3>2. ASSUME NEW s \in 0 .. cap - 1, es2[s].key = k
          PROVE  FALSE
      <4>1. s \notin D /\ es[s].key = k
        BY <1>2, <3>2, KeyAssumption DEF Tombstone
      <4>2. s = i
        BY <1>2, <3>1, <4>1, KeysStoredOnce
      <4> QED BY <4>1, <4>2
    <3> QED BY <1>1, <2>1, <3>2, ContentsAt
  <2>2. CASE ~ \E i \in D : es[i].key = k
    <3>1. CASE \E s \in 0 .. cap - 1 : es[s].key = k
      <4>1. PICK s \in 0 .. cap - 1 : es[s].key = k
        BY <3>1
      <4>2. es2[s] = es[s]
        BY <1>2, <2>2, <4>1
      <4>3. ContentsOf(es2, cap)[k] = es2[s].value /\ ContentsOf(es, cap)[k] = es[s].value
        BY <1>1, <4>1, <4>2, ContentsAt
      <4> QED BY <2>2, <4>2, <4>3
    <3>2. CASE \A s \in 0 .. cap - 1 : es[s].key # k
      <4>1. \A s \in 0 .. cap - 1 : es2[s].key # k
        BY <1>2, <3>2, KeyAssumption DEF Tombstone
      <4> QED BY <1>1, <2>2, <3>2, <4>1, ContentsAt
    <3> QED BY <3>1, <3>2
  <2> QED BY <2>1, <2>2
<1> QED BY <1>3

\* When the copying loop is done the new array stands for the same map.
LEMMA RebuiltContents ==
  ASSUME IInv, Rebuilding, pos = capacity
  PROVE  ContentsOf(fresh, freshCap) = ContentsOf(entries, capacity)
<1>1. /\ capacity \in Nat /\ freshCap \in Nat
      /\ WellFormed(entries, capacity) /\ WellFormed(fresh, freshCap)
  BY DEF IInv, TypeOK, WellFormed
<1>2. ASSUME NEW k \in Keys
      PROVE  ContentsOf(fresh, freshCap)[k] = ContentsOf(entries, capacity)[k]
  <2>1. CASE \E i \in 0 .. freshCap - 1 : fresh[i].key = k
    <3>1. PICK i \in 0 .. freshCap - 1 : fresh[i].key = k
      BY <2>1
    <3>2. PICK p \in 0 .. capacity - 1 : fresh[i] = entries[p]
      BY <3>1, KeyAssumption DEF IInv, RebuildCopies, IsEmpty
    <3> QED BY <1>1, <3>1, <3>2, ContentsAt
  <2>2. CASE \A i \in 0 .. freshCap - 1 : fresh[i].key # k
    <3>1. \A p \in 0 .. capacity - 1 : entries[p].key # k
      <4>1. ASSUME NEW p \in 0 .. capacity - 1, entries[p].key = k
            PROVE  FALSE
        <5>1. \E i \in 0 .. freshCap - 1 : fresh[i] = entries[p]
          BY <4>1, KeyAssumption DEF IInv, RebuildCopies
        <5> QED BY <2>2, <4>1, <5>1
      <4> QED BY <4>1
    <3> QED BY <1>1, <2>2, <3>1, ContentsAt
  <2> QED BY <2>1, <2>2
<1>3. /\ ContentsOf(fresh, freshCap) = [k \in Keys |-> ContentsOf(fresh, freshCap)[k]]
      /\ ContentsOf(entries, capacity) = [k \in Keys |-> ContentsOf(entries, capacity)[k]]
  BY DEF ContentsOf
<1> QED BY <1>2, <1>3

\* tableSet's last part is the dictionary's Set.
LEMMA StoreIsSet ==
  ASSUME NEW cap \in Nat \ {0}, NEW es, NEW n, WellFormed(es, cap), HasEmpty(es, cap),
         todo \in Seq(Keys \X Vals), todo # <<>>,
         Store(es, cap, n, Head(todo)), capacity' = cap,
         ContentsOf(es, cap) = Contents
  PROVE  \E k \in Keys, v \in Vals : Dict!Set(k, v)
<1> DEFINE k == Head(todo)[1]
           v == Head(todo)[2]
           i == FindEntry(es, cap, k)
<1>1. k \in Keys /\ v \in Vals
  <2>1. Head(todo) \in Keys \X Vals
    OBVIOUS
  <2> QED BY <2>1
<1>2. /\ entries' = [es EXCEPT ![i] = [key |-> k, value |-> v]]
      /\ ret' = (es[i].key = NoKey)
  BY DEF Store
<1> HIDE DEF k, v
<1>3. ContentsOf(entries', cap) = [ContentsOf(es, cap) EXCEPT ![k] = v]
  <2>1. ContentsOf([es EXCEPT ![i] = [key |-> k, value |-> v]], cap)
        = [ContentsOf(es, cap) EXCEPT ![k] = v]
    BY <1>1, StoreContents
  <2> QED BY <1>2, <2>1, Zenon
<1>4. (es[i].key = NoKey) <=> (ContentsOf(es, cap)[k] = Absent)
  BY <1>1, FindEntryAbsent
<1>5. ret' = (Contents[k] = Absent)
  BY <1>2, <1>4
<1>6. Contents' = [Contents EXCEPT ![k] = v]
  BY <1>3 DEF Contents
<1> QED BY <1>1, <1>5, <1>6 DEF Dict!Set

LEMMA CallsImplement ==
  ASSUME IInv, Call
  PROVE  [Dict!Next]_<<Contents, ret>>
<1>1. ~Rebuilding
  BY DEF Call, CallSet, CallAddAll, Get, FindString, Delete, RemoveWhite, Idle,
         IInv, TypeOK
<1>2. /\ entries \in [0 .. capacity - 1 -> Entry] /\ capacity \in Nat
      /\ WellFormed(entries, capacity)
      /\ count = Cardinality(Used(entries, capacity))
  BY <1>1 DEF IInv, TypeOK, WellFormed, CountIsUsed
<1>3. count # 0 => capacity \in Nat \ {0} /\ HasEmpty(entries, capacity)
  <2>1. capacity = 0 => Used(entries, capacity) = {}
    BY DEF Used
  <2>2. count # 0 => capacity > 0
    BY <1>2, <2>1, FS_EmptySet
  <2> QED BY <1>2, <2>2, OldHasEmpty
<1>4. ASSUME count = 0, NEW k \in Keys
      PROVE  Contents[k] = Absent
  <2>1. IsFiniteSet(Used(entries, capacity))
    BY <1>2, UsedFinite
  <2>2. Used(entries, capacity) = {}
    BY <1>2, <1>4, <2>1, FS_EmptySet
  <2>3. \A i \in 0 .. capacity - 1 : entries[i].key # k
    BY <2>2, KeyAssumption DEF Used, IsEmpty
  <2> QED BY <1>2, <2>3, ContentsAt DEF Contents
<1>5. ASSUME NEW k \in Keys, NEW v \in Vals, CallSet(k, v)
      PROVE  UNCHANGED <<Contents, ret>>
  BY <1>5 DEF CallSet, Contents
<1>6. ASSUME NEW b \in Batches, CallAddAll(b)
      PROVE  UNCHANGED <<Contents, ret>>
  BY <1>6 DEF CallAddAll, Contents
<1>7. ASSUME NEW k \in Keys, Get(k)
      PROVE  Dict!Get(k)
  <2>1. Contents' = Contents
    BY <1>7 DEF Get, Contents
  <2>2. ret' = Contents[k]
    BY <1>2, <1>3, <1>4, <1>7, FindEntryContents DEF Get, Contents
  <2> QED BY <2>1, <2>2 DEF Dict!Get
<1>8. ASSUME NEW k \in Keys, FindString(k)
      PROVE  Dict!FindString(k)
  <2>1. Contents' = Contents
    BY <1>8 DEF FindString, Contents
  <2>2. ret' = IF count # 0 /\ FoundString(entries, capacity, k) THEN k ELSE Absent
    BY <1>8 DEF FindString
  <2>3. CASE count = 0
    BY <1>4, <2>1, <2>2, <2>3 DEF Dict!FindString
  <2>4. CASE count # 0
    <3> DEFINE s == Probe(capacity, k, FirstOf(Stops(entries, capacity, k)))
    <3>1. capacity \in Nat \ {0} /\ HasEmpty(entries, capacity)
      BY <1>3, <2>4
    <3>2. /\ FirstOf(Stops(entries, capacity, k)) \in 0 .. capacity - 1
          /\ \A i \in 0 .. capacity - 1 : entries[i].key = k => i = s
      BY <1>2, <3>1, FirstStop
    <3>3. s \in 0 .. capacity - 1
      BY <3>1, <3>2, ProbeRange
    <3>4. FoundString(entries, capacity, k) <=> entries[s].key = k
      BY DEF FoundString
    <3> HIDE DEF s
    <3>5. CASE entries[s].key = k
      <4>1. Contents[k] # Absent
        BY <1>2, <3>3, <3>5, ContentsAt DEF Contents
      <4> QED BY <2>1, <2>2, <2>4, <3>4, <3>5, <4>1 DEF Dict!FindString
    <3>6. CASE entries[s].key # k
      <4>1. \A i \in 0 .. capacity - 1 : entries[i].key # k
        BY <3>2, <3>6
      <4>2. Contents[k] = Absent
        BY <1>2, <4>1, ContentsAt DEF Contents
      <4> QED BY <2>1, <2>2, <2>4, <3>4, <3>6, <4>2 DEF Dict!FindString
    <3> QED BY <3>5, <3>6
  <2> QED BY <2>3, <2>4
<1>9. ASSUME NEW k \in Keys, Delete(k)
      PROVE  Dict!Delete(k)
  <2> DEFINE i == FindEntry(entries, capacity, k)
  <2>1. CASE count # 0 /\ entries[i].key # NoKey
    <3>1. /\ i \in 0 .. capacity - 1 /\ entries[i].key = k
      BY <1>2, <1>3, <2>1, FindEntrySlot
    <3>2. entries' = [entries EXCEPT ![i] = Tombstone] /\ ret' = TRUE
          /\ capacity' = capacity
      BY <1>9, <2>1 DEF Delete
    <3> HIDE DEF i
    <3>3. entries' = [s \in 0 .. capacity - 1 |-> IF s \in {i} THEN Tombstone ELSE entries[s]]
      BY <1>2, <3>1, <3>2
    <3>4. \A s \in {i} : s \in 0 .. capacity - 1 /\ entries[s].key # NoKey
      BY <2>1, <3>1
    <3>5. \A l \in Keys : Contents'[l] = IF \E s \in {i} : entries[s].key = l
                                          THEN Absent ELSE Contents[l]
      <4>1. WellFormed(entries', capacity)
        BY <1>2, <3>3, <3>4, TombstonesKeepChains
      <4>2. Buried(entries, entries', capacity, {i})
        BY <3>3, <3>4 DEF Buried
      <4>3. WellFormed(entries, capacity) /\ capacity \in Nat
        BY <1>2
      <4> HIDE DEF i
      <4>4. \A l \in Keys : ContentsOf(entries', capacity)[l] =
               IF \E s \in {i} : entries[s].key = l THEN Absent
               ELSE ContentsOf(entries, capacity)[l]
        BY <4>1, <4>2, <4>3, TombstoneContents, SMTT(30)
      <4> QED BY <3>2, <4>4 DEF Contents
    <3>6. Contents' = [Contents EXCEPT ![k] = Absent]
      <4>1. /\ Contents = [l \in Keys |-> Contents[l]]
            /\ Contents' = [l \in Keys |-> Contents'[l]]
        BY DEF Contents, ContentsOf
      <4>2. \A l \in Keys : Contents'[l] = IF l = k THEN Absent ELSE Contents[l]
        BY <3>1, <3>5
      <4> QED BY <4>1, <4>2
    <3>7. Contents[k] # Absent
      BY <1>2, <3>1, ContentsAt DEF Contents
    <3> QED BY <3>2, <3>6, <3>7 DEF Dict!Delete
  <2>2. CASE ~(count # 0 /\ entries[i].key # NoKey)
    <3>1. UNCHANGED <<entries, capacity>> /\ ret' = FALSE
      BY <1>9, <2>2 DEF Delete
    <3>2. Contents[k] = Absent
      BY <1>2, <1>3, <1>4, <2>2, FindEntryContents DEF Contents
    <3>3. Contents' = [Contents EXCEPT ![k] = Absent]
      BY <3>1, <3>2 DEF Contents, ContentsOf
    <3> QED BY <3>1, <3>2, <3>3 DEF Dict!Delete
  <2> QED BY <2>1, <2>2
<1>10. ASSUME NEW white \in SUBSET Keys, RemoveWhite(white)
       PROVE  Dict!Forget(white)
  <2> DEFINE live == {entries[i].key : i \in 0 .. capacity - 1} \ {NoKey}
             dead == {FindEntry(entries, capacity, k) : k \in white \cap live}
  <2>1. ASSUME NEW k \in white \cap live
        PROVE  /\ FindEntry(entries, capacity, k) \in 0 .. capacity - 1
               /\ entries[FindEntry(entries, capacity, k)].key = k
               /\ k # NoKey /\ k \in Keys
    <3>1. PICK i \in 0 .. capacity - 1 : entries[i].key = k
      BY <2>1
    <3>2. k \in Keys /\ k # NoKey /\ capacity \in Nat \ {0}
      BY <1>2, <2>1, <3>1
    <3>3. HasEmpty(entries, capacity)
      BY <3>2, OldHasEmpty
    <3> QED BY <1>2, <3>1, <3>2, <3>3, FindEntrySlot
  <2>2. \A i \in dead : i \in 0 .. capacity - 1 /\ entries[i].key # NoKey
    BY <2>1
  <2>3. /\ entries' = [i \in 0 .. capacity - 1 |-> IF i \in dead THEN Tombstone ELSE entries[i]]
        /\ UNCHANGED <<capacity, ret>>
    BY <1>10 DEF RemoveWhite
  <2>4. ASSUME NEW k \in Keys
        PROVE  (IF \E i \in dead : entries[i].key = k THEN Absent ELSE Contents[k])
               = IF k \in white THEN Absent ELSE Contents[k]
    <3>1. ASSUME NEW i \in dead, entries[i].key = k PROVE k \in white
      BY <2>1, <3>1
    <3>2. CASE k \in white /\ k \in live
      BY <2>1, <3>2
    <3>3. CASE k \in white /\ k \notin live
      <4>1. \A i \in 0 .. capacity - 1 : entries[i].key # k
        BY <3>3, KeyAssumption
      <4>2. Contents[k] = Absent
        BY <1>2, <4>1, ContentsAt DEF Contents
      <4> QED BY <4>2
    <3>4. CASE k \notin white
      BY <3>1, <3>4
    <3> QED BY <3>2, <3>3, <3>4
  <2> HIDE DEF dead
  <2>5. \A k \in Keys : Contents'[k] = IF \E i \in dead : entries[i].key = k
                                        THEN Absent ELSE Contents[k]
    <3>1. WellFormed(entries', capacity)
      BY <1>2, <2>2, <2>3, TombstonesKeepChains
    <3>2. Buried(entries, entries', capacity, dead)
      BY <2>2, <2>3 DEF Buried
    <3>3. \A k \in Keys : ContentsOf(entries', capacity)[k] =
             IF \E i \in dead : entries[i].key = k THEN Absent
             ELSE ContentsOf(entries, capacity)[k]
      BY <1>2, <3>1, <3>2, TombstoneContents, SMTT(30)
    <3> QED BY <2>3, <3>3 DEF Contents
  <2>6. Contents' = [k \in Keys |-> IF k \in white THEN Absent ELSE Contents[k]]
    <3>1. Contents' = [k \in Keys |-> Contents'[k]]
      BY DEF Contents, ContentsOf
    <3>2. \A k \in Keys : Contents'[k] = IF k \in white THEN Absent ELSE Contents[k]
      BY <2>4, <2>5
    <3> QED BY <3>1, <3>2
  <2> QED BY <2>3, <2>6 DEF Dict!Forget
<1> QED BY <1>5, <1>6, <1>7, <1>8, <1>9, <1>10 DEF Call, Dict!Next

\* The table, with its probing, tombstones and rebuilding, implements a map.
THEOREM TableImplementsDictionary == Spec => ImplementsDictionary
<1>1. Init => Dict!Init
  <2> SUFFICES ASSUME Init PROVE Dict!Init
    OBVIOUS
  <2>1. \A i \in 0 .. capacity - 1 : FALSE
    BY DEF Init
  <2>2. Contents = [k \in Keys |-> Absent]
    BY <2>1 DEF Contents, ContentsOf
  <2> QED BY <2>2 DEF Init, Dict!Init
<1>2. IInv /\ [Next]_vars => [Dict!Next]_<<Contents, ret>>
  <2> SUFFICES ASSUME IInv, [Next]_vars PROVE [Dict!Next]_<<Contents, ret>>
    OBVIOUS
  <2>1. CASE Call
    BY <2>1, CallsImplement
  <2>2. CASE SetInPlace
    <3>1. /\ todo # <<>> /\ ~Rebuilding /\ 4 * (count + 1) <= 3 * capacity
          /\ Store(entries, capacity, count, Head(todo))
          /\ capacity' = capacity
      BY <2>2 DEF SetInPlace, MustGrow, IInv, TypeOK
    <3>2. /\ todo \in Seq(Keys \X Vals) /\ capacity \in Nat /\ count \in Nat
          /\ WellFormed(entries, capacity)
      BY DEF IInv, TypeOK, WellFormed
    <3>3. capacity \in Nat \ {0} /\ HasEmpty(entries, capacity)
      BY <3>1, <3>2, OldHasEmpty
    <3>4. \E k \in Keys, v \in Vals : Dict!Set(k, v)
      BY <3>1, <3>2, <3>3, StoreIsSet DEF Contents
    <3> QED BY <3>4 DEF Dict!Next
  <2>3. CASE StartRebuild
    BY <2>3 DEF StartRebuild, Contents
  <2>4. CASE RebuildSlot
    BY <2>4 DEF RebuildSlot, Contents
  <2>5. CASE FinishRebuild
    <3>1. /\ Rebuilding /\ pos = capacity
          /\ Store(fresh, freshCap, count, Head(todo))
          /\ capacity' = freshCap
      BY <2>5 DEF FinishRebuild
    <3>2. /\ todo \in Seq(Keys \X Vals) /\ todo # <<>>
          /\ WellFormed(fresh, freshCap)
      BY <3>1 DEF IInv, TypeOK, WellFormed
    <3>3. freshCap \in Nat \ {0} /\ HasEmpty(fresh, freshCap)
      BY <3>1, FreshHasEmpty
    <3>4. ContentsOf(fresh, freshCap) = Contents
      BY <3>1, RebuiltContents DEF Contents
    <3>5. \E k \in Keys, v \in Vals : Dict!Set(k, v)
      BY <3>1, <3>2, <3>3, <3>4, StoreIsSet
    <3> QED BY <3>5 DEF Dict!Next
  <2>6. CASE UNCHANGED vars
    BY <2>6 DEF vars, Contents
  <2> QED BY <2>1, <2>2, <2>3, <2>4, <2>5, <2>6 DEF Next, Work
<1> QED BY <1>1, <1>2, IInvAlways, PTL DEF Spec, Dict!Spec, ImplementsDictionary
=============================================================================
