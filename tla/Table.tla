------------------------------- MODULE Table --------------------------------
(***************************************************************************)
(* core/table.c: the open-addressing hash table behind globals, interned   *)
(* strings, methods and instance fields.  Linear probing; a deleted entry  *)
(* leaves a tombstone; count includes tombstones; the table is rebuilt,    *)
(* one old slot per step, when count + 1 exceeds three quarters of it.     *)
(***************************************************************************)
EXTENDS Integers, Sequences, FiniteSets, Searches

CONSTANTS Keys,         \* interned strings (ObjString*)
          Hash,         \* their hash field
          Vals,         \* values that can be stored, Nil and True among them
          NoKey,        \* entry->key == NULL
          Nil, True,    \* NIL_VAL and BOOL_VAL(true)
          Absent,       \* "not found", for the results of lookups
          MinCapacity,  \* the 8 of GROW_CAPACITY
          MaxCapacity,  \* bound: no call that would grow the table beyond it
          Inputs,       \* bound: the <<key, value>> pairs callers set
          Batches       \* bound: the tables tableAddAll copies, as their
                        \* entries in slot order

ASSUME HashAssumption == Hash \in [Keys -> Nat]
ASSUME KeyAssumption == NoKey \notin Keys
ASSUME ValueAssumption == Nil \in Vals /\ True \in Vals /\ Nil # True /\ Absent \notin Vals
ASSUME CapacityAssumption == MinCapacity \in Nat \ {0, 1, 2, 3} /\ MaxCapacity \in Nat
ASSUME BatchAssumption ==
  \A b \in Batches : /\ b \in Seq(Keys \X Vals)
                     /\ \A i, j \in DOMAIN b : b[i][1] = b[j][1] => i = j

VARIABLES entries,   \* Table.entries, slots 0 .. capacity - 1
          capacity,  \* Table.capacity
          count,     \* Table.count
          fresh,     \* adjustCapacity's new array while it fills it
          freshCap,  \* its capacity; 0 when no rebuild is under way
          pos,       \* adjustCapacity's loop counter over the old array
          todo,      \* tableSet calls not finished: one, or a batch of tableAddAll
          ret        \* result of the last completed call

vars == <<entries, capacity, count, fresh, freshCap, pos, todo, ret>>

Entry == [key : Keys \cup {NoKey}, value : Vals]
EmptyEntry == [key |-> NoKey, value |-> Nil]
TombstoneCleared == EmptyEntry   \* mutant: deleting a key empties its slot
Tombstone == [key |-> NoKey, value |-> True]

EmptyArray(cap) == [i \in 0 .. cap - 1 |-> EmptyEntry]

IsEmpty(e) == e.key = NoKey /\ e.value = Nil
IsTombstone(e) == e.key = NoKey /\ e.value # Nil

-----------------------------------------------------------------------------
\* The j-th slot probed for key k: hash & (capacity - 1), then one further,
\* wrapping at the end of the array.
Home(cap, k) == Hash[k] % cap
Probe(cap, k, j) == LET i == Home(cap, k) + j IN IF i < cap THEN i ELSE i - cap

\* The probe distances at which findEntry's loop returns, and those at which
\* it remembers a tombstone.
Stops(es, cap, k) ==
  {j \in 0 .. cap - 1 : LET e == es[Probe(cap, k, j)] IN e.key = k \/ IsEmpty(e)}
TombstonesBefore(es, cap, k, j) ==
  {i \in 0 .. j - 1 : IsTombstone(es[Probe(cap, k, i)])}

\* findEntry: the slot of the key if it is there, else the first tombstone
\* passed, else the empty slot that ended the search.
FindEntry(es, cap, k) ==
  LET j == FirstOf(Stops(es, cap, k))
      t == TombstonesBefore(es, cap, k, j)
  IN  IF es[Probe(cap, k, j)].key # k /\ t # {}
      THEN Probe(cap, k, FirstOf(t))
      ELSE Probe(cap, k, j)

\* tableFindString walks the same slots but never returns a tombstone.
FoundString(es, cap, k) == es[Probe(cap, k, FirstOf(Stops(es, cap, k)))].key = k

GrowCapacity(c) == IF c < MinCapacity THEN MinCapacity ELSE c * 2
MustGrowLate == count + 1 > capacity   \* mutant: rebuilt only when full
MustGrow == 4 * (count + 1) > 3 * capacity

\* Bound: n more tableSet calls keep the table within MaxCapacity.
WithinBound(n) ==
  LET g == GrowCapacity(capacity)
  IN  \/ 4 * (count + n) <= 3 * capacity
      \/ g <= MaxCapacity /\ 4 * (count + n) <= 3 * g

Rebuilding == freshCap # 0
Idle == todo = <<>>

-----------------------------------------------------------------------------
\* initTable
Init == /\ entries = EmptyArray(0) /\ capacity = 0 /\ count = 0
        /\ fresh = EmptyArray(0) /\ freshCap = 0 /\ pos = 0
        /\ todo = <<>> /\ ret = Absent

\* A caller enters tableSet, or tableAddAll with another table.
CallSet(k, v) ==
  /\ Idle /\ WithinBound(1)
  /\ todo' = << <<k, v>> >>
  /\ UNCHANGED <<entries, capacity, count, fresh, freshCap, pos, ret>>

CallAddAll(b) ==
  /\ Idle /\ WithinBound(Len(b))
  /\ todo' = b
  /\ UNCHANGED <<entries, capacity, count, fresh, freshCap, pos, ret>>

\* The end of tableSet: the key goes to the slot findEntry returns; only an
\* empty slot, not a tombstone, adds to count.
Store(es, cap, n, kv) ==
  LET i == FindEntry(es, cap, kv[1])
  IN  /\ entries' = [es EXCEPT ![i] = [key |-> kv[1], value |-> kv[2]]]
      /\ count' = IF IsEmpty(es[i]) THEN n + 1 ELSE n
      /\ ret' = (es[i].key = NoKey)
      /\ todo' = Tail(todo)

\* tableSet when the load allows it
SetInPlace ==
  /\ todo # <<>> /\ ~Rebuilding /\ ~MustGrow
  /\ Store(entries, capacity, count, Head(todo))
  /\ UNCHANGED <<capacity, fresh, freshCap, pos>>

\* tableSet enters adjustCapacity
StartRebuild ==
  /\ todo # <<>> /\ ~Rebuilding /\ MustGrow
  /\ freshCap' = GrowCapacity(capacity)
  /\ fresh' = EmptyArray(freshCap')
  /\ count' = 0 /\ pos' = 0
  /\ UNCHANGED <<entries, capacity, todo, ret>>

\* mutant: the loop continues past an unused slot without counting it
RebuildSlotStuck ==
  /\ Rebuilding /\ pos < capacity
  /\ LET e == entries[pos]
     IN  IF e.key = NoKey
         THEN UNCHANGED <<fresh, count, pos>>
         ELSE /\ fresh' = [fresh EXCEPT ![FindEntry(fresh, freshCap, e.key)] = e]
              /\ count' = count + 1 /\ pos' = pos + 1
  /\ UNCHANGED <<entries, capacity, freshCap, todo, ret>>

\* One iteration of adjustCapacity's copying loop
RebuildSlot ==
  /\ Rebuilding /\ pos < capacity
  /\ LET e == entries[pos]
     IN  IF e.key = NoKey
         THEN UNCHANGED <<fresh, count>>
         ELSE /\ fresh' = [fresh EXCEPT ![FindEntry(fresh, freshCap, e.key)] = e]
              /\ count' = count + 1
  /\ pos' = pos + 1
  /\ UNCHANGED <<entries, capacity, freshCap, todo, ret>>

\* adjustCapacity installs the new array and tableSet finishes in it
FinishRebuild ==
  /\ Rebuilding /\ pos = capacity
  /\ Store(fresh, freshCap, count, Head(todo))
  /\ capacity' = freshCap
  /\ fresh' = EmptyArray(0) /\ freshCap' = 0 /\ pos' = 0

\* tableGet
Get(k) ==
  /\ Idle
  /\ ret' = IF count = 0 THEN Absent
            ELSE LET e == entries[FindEntry(entries, capacity, k)]
                 IN  IF e.key = NoKey THEN Absent ELSE e.value
  /\ UNCHANGED <<entries, capacity, count, fresh, freshCap, pos, todo>>

\* tableFindString
FindString(k) ==
  /\ Idle
  /\ ret' = IF count # 0 /\ FoundString(entries, capacity, k) THEN k ELSE Absent
  /\ UNCHANGED <<entries, capacity, count, fresh, freshCap, pos, todo>>

\* tableDelete
Delete(k) ==
  /\ Idle
  /\ LET i == FindEntry(entries, capacity, k)
     IN  IF count = 0
         THEN ret' = FALSE /\ UNCHANGED entries
         ELSE IF entries[i].key = NoKey
         THEN ret' = FALSE /\ UNCHANGED entries
         ELSE ret' = TRUE /\ entries' = [entries EXCEPT ![i] = Tombstone]
  /\ UNCHANGED <<capacity, count, fresh, freshCap, pos, todo>>

\* tableRemoveWhite: a collection deletes the entries whose key it did not
\* mark; each tableDelete searches for the key again.
RemoveWhite(white) ==
  /\ Idle
  /\ LET live == {entries[i].key : i \in 0 .. capacity - 1} \ {NoKey}
         dead == {FindEntry(entries, capacity, k) : k \in white \cap live}
     IN  entries' = [i \in 0 .. capacity - 1 |->
                        IF i \in dead THEN Tombstone ELSE entries[i]]
  /\ UNCHANGED <<capacity, count, fresh, freshCap, pos, todo, ret>>

Call == \/ \E k \in Keys, v \in Vals : <<k, v>> \in Inputs /\ CallSet(k, v)
        \/ \E b \in Batches : CallAddAll(b)
        \/ \E k \in Keys : Get(k) \/ FindString(k) \/ Delete(k)
        \/ \E white \in SUBSET Keys : RemoveWhite(white)

Work == SetInPlace \/ StartRebuild \/ RebuildSlot \/ FinishRebuild

Next == Call \/ Work

Spec == Init /\ [][Next]_vars

\* A call that was entered runs to its end: the interpreter is one thread.
FairSpec == Spec /\ WF_vars(Work)
-----------------------------------------------------------------------------
(* What makes the table correct.                                           *)

\* The array in use by findEntry and how many of its slots are not empty.
Used(es, cap) == {i \in 0 .. cap - 1 : ~IsEmpty(es[i])}
LiveSlots(es, cap) == {i \in 0 .. cap - 1 : es[i].key # NoKey}

TypeOK ==
  /\ capacity \in Nat /\ freshCap \in Nat /\ count \in Nat
  /\ entries \in [0 .. capacity - 1 -> Entry]
  /\ fresh \in [0 .. freshCap - 1 -> Entry]
  /\ pos \in 0 .. capacity
  /\ todo \in Seq(Keys \X Vals)
  /\ Rebuilding => todo # <<>>

\* count is the number of entries that are not empty, tombstones included:
\* the load test of tableSet measures what ends a probe, not what is stored.
CountIsUsed ==
  IF Rebuilding THEN count = Cardinality(Used(fresh, freshCap))
                ELSE count = Cardinality(Used(entries, capacity))

\* Every search findEntry and tableFindString may be asked for ends: the array
\* always keeps an empty slot, whatever was deleted and re-inserted.
ProbesEnd ==
  /\ capacity > 0 => \A k \in Keys : Stops(entries, capacity, k) # {}
  /\ freshCap > 0 => \A k \in Keys : Stops(fresh, freshCap, k) # {}

\* A key that is in the array is at the distance where the search for it
\* stops: no empty slot ever opens up in front of it, and it is stored once.
Reachable(es, cap) ==
  \A i \in LiveSlots(es, cap) :
     Probe(cap, es[i].key, FirstOf(Stops(es, cap, es[i].key))) = i

KeysReachable == Reachable(entries, capacity) /\ Reachable(fresh, freshCap)

-----------------------------------------------------------------------------
\* What makes the above inductive.  The load of the table in use never exceeds
\* three quarters; the rebuilt array holds exactly the entries of the slots
\* already passed and no tombstone, so it cannot be fuller than the loop is far.
LoadBounded ==
  /\ capacity = 0 \/ capacity >= MinCapacity
  /\ 4 * Cardinality(Used(entries, capacity)) <= 3 * capacity

RebuildCopies ==
  Rebuilding =>
    /\ freshCap = GrowCapacity(capacity)
    /\ count <= pos
    /\ \A i \in 0 .. freshCap - 1 :
          \/ IsEmpty(fresh[i])
          \/ \E p \in 0 .. pos - 1 : fresh[i] = entries[p] /\ fresh[i].key # NoKey
    /\ \A p \in 0 .. pos - 1 :
          entries[p].key # NoKey => \E i \in 0 .. freshCap - 1 : fresh[i] = entries[p]

-----------------------------------------------------------------------------
\* The dictionary a table stands for.  While it is rebuilt the old array is
\* still the table.
ContentsOf(es, cap) ==
  [k \in Keys |-> LET at == {i \in 0 .. cap - 1 : es[i].key = k}
                  IN  IF at = {} THEN Absent ELSE es[CHOOSE i \in at : TRUE].value]
Contents == ContentsOf(entries, capacity)

Dict == INSTANCE Dictionary WITH map <- Contents

\* The table implements the dictionary: get, find, set, delete, the entries of
\* tableAddAll one by one and the collector's sweep do what they do on a map,
\* and rebuilding the array is invisible.
ImplementsDictionary == Dict!Spec

\* Every tableSet and tableAddAll returns, rebuilding included.
CallsReturn == []<>Idle
=============================================================================
