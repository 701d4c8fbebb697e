----------------------------- MODULE RecordPage -----------------------------
(***************************************************************************)
(* What db/db_slotted.c promises to its callers: a page of records with    *)
(* stable indices.  No offsets, no slot array, no compaction.              *)
(***************************************************************************)
EXTENDS Integers, Sequences

CONSTANTS Data,     \* the records a caller may insert: sequences of bytes
          Indices   \* the indices a page can give out: 0 .. n for some n

NoRecord == <<>>   \* "return NULL"; a record of no bytes is never readable

VARIABLES store,   \* index -> record, for the indices in use
          answer   \* what the last completed call returned

TypeOK == /\ DOMAIN store \subseteq Indices
          /\ \A i \in DOMAIN store : store[i] \in Data \ {NoRecord}
          /\ answer \in [index : Int, data : Data \cup {NoRecord}]

Returned(i, d) == [index |-> i, data |-> d]

Empty == [i \in {} |-> NoRecord]

\* f without the indices in S
Without(f, S) == [i \in DOMAIN f \ S |-> f[i]]

\* f with i bound to d, where d = NoRecord means "not readable"
With(f, i, d) == IF d = NoRecord THEN Without(f, {i})
                 ELSE [j \in DOMAIN f \cup {i} |-> IF j = i THEN d ELSE f[j]]

Init == /\ store = Empty
        /\ answer = Returned(-1, NoRecord)

\* db_slotted_init on a page that may hold records
Format == /\ store' = Empty
          /\ UNCHANGED answer

\* db_slotted_insert: the lowest index not in use
Insert(d) == \E i \in Indices \ DOMAIN store :
               /\ \A j \in 0 .. i - 1 : j \in DOMAIN store
               /\ store' = With(store, i, d)
               /\ answer' = Returned(i, NoRecord)

\* db_slotted_insert on a page with no room: nothing is lost
Refuse(d) == /\ answer' = Returned(-1, NoRecord)
             /\ UNCHANGED store

\* db_slotted_get
Get(i) == /\ answer' = Returned(0, IF i \in DOMAIN store THEN store[i] ELSE NoRecord)
          /\ UNCHANGED store

\* db_slotted_delete
Delete(i) == /\ store' = Without(store, {i})
             /\ UNCHANGED answer

Next == \/ Format
        \/ \E d \in Data : Insert(d) \/ Refuse(d)
        \/ \E i \in Indices : Get(i) \/ Delete(i)

Spec == Init /\ [][Next]_<<store, answer>>
=============================================================================
