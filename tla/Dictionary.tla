----------------------------- MODULE Dictionary -----------------------------
(***************************************************************************)
(* What core/table.c promises to its callers: a finite map from interned   *)
(* strings to values.  No slots, no tombstones, no rehashing.              *)
(***************************************************************************)
CONSTANTS Keys, Vals, Absent

VARIABLES map,   \* the value of every key, or Absent
          ret    \* what the last completed call returned

TypeOK == map \in [Keys -> Vals \cup {Absent}]

Init == /\ map = [k \in Keys |-> Absent]
        /\ ret = Absent

\* tableGet: the value, or Absent for "return false"
Get(k) == /\ ret' = map[k]
          /\ UNCHANGED map

\* tableFindString: the interned key itself, or Absent
FindString(k) == /\ ret' = IF map[k] = Absent THEN Absent ELSE k
                 /\ UNCHANGED map

\* tableSet: TRUE when the key is new
Set(k, v) == /\ ret' = (map[k] = Absent)
             /\ map' = [map EXCEPT ![k] = v]

\* tableDelete: TRUE when there was something to delete
Delete(k) == /\ ret' = (map[k] # Absent)
             /\ map' = [map EXCEPT ![k] = Absent]

\* tableRemoveWhite: forget a set of keys
Forget(white) == /\ map' = [k \in Keys |-> IF k \in white THEN Absent ELSE map[k]]
                 /\ UNCHANGED ret

Next == \/ \E k \in Keys : Get(k) \/ FindString(k) \/ Delete(k)
        \/ \E k \in Keys, v \in Vals : Set(k, v)
        \/ \E white \in SUBSET Keys : Forget(white)

Spec == Init /\ [][Next]_<<map, ret>>
=============================================================================
