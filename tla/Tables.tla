------------------------------- MODULE Tables -------------------------------
(***************************************************************************)
(* Tables of WaliaDB: rows that are packed by a schema (db/db_row.c,        *)
(* db/db_schema.c), checked (db/db_constraint.c) and put into the B+ tree   *)
(* (db/db_btree.c) by db_insert of lib/lib_sql.c.                          *)
(*                                                                         *)
(* The tree is its root, a leaf for ever: no function makes an inner node.  *)
(* Keys and values are the bit patterns of Values, as numbers.             *)
(***************************************************************************)
EXTENDS Naturals, Sequences, SequencesExt

CONSTANTS Columns,     \* the schema's columns: [name, isPrimaryKey, isNullable]
          Bits,        \* bound: bit patterns of values
          NilBits,     \* the pattern of nil
          Maps,        \* the objects that are maps: functions from names to Bits
          Others,      \* the values that are no maps: records with a type
          LeafFits,    \* how many entries fit the page: 252, not BTREE_LEAF_CAPACITY
          MaxRows      \* bound: calls of db_insert

ASSUME TablesAssumption ==
  /\ NilBits \in Bits /\ Bits \subseteq Nat /\ LeafFits \in Nat
  /\ \A m \in Maps : \A c \in DOMAIN m : m[c] \in Bits

VARIABLES leaf,     \* the entries of the leaf in the order of the page
          started,  \* the process lives; FALSE after db_create_table
          calls,    \* how many rows were offered
          puts,     \* what went into the tree, in order (history)
          garbled,  \* a value that is no map went in (history)
          trampled  \* the page behind the leaf was written to (history)

tableVars == <<leaf, started, calls, puts, garbled, trampled>>

NilObject == [type |-> "nil"]
MapObject(map) == [type |-> "map", map |-> map]

TablesInit == /\ leaf = <<>> /\ started = TRUE /\ calls = 0
              /\ puts = <<>> /\ garbled = FALSE /\ trampled = FALSE

-----------------------------------------------------------------------------
(* Rows *)
\* db_row_pack and db_row_unpack: a column the map lacks is nil.
db_row_pack(map) ==
  [i \in DOMAIN Columns |->
     IF Columns[i].name \in DOMAIN map THEN map[Columns[i].name] ELSE NilBits]
db_row_unpack(row) ==
  [c \in {Columns[i].name : i \in DOMAIN Columns} |->
     row[CHOOSE i \in DOMAIN Columns : Columns[i].name = c]]
db_row_get_column(row, i) == IF i \in DOMAIN Columns THEN row[i] ELSE NilBits

\* db_get_pk_value: the first primary key column, 0 without one
db_get_pk_value(row) ==
  LET keys == {i \in DOMAIN Columns : Columns[i].isPrimaryKey}
  IN  IF keys = {} THEN 0 ELSE db_row_get_column(row, CHOOSE i \in keys : \A j \in keys : i <= j)

-----------------------------------------------------------------------------
(* The tree *)
\* mutant: an entry goes before its equals
PlaceBeforeEquals(key) == Len(SelectSeq(leaf, LAMBDA e : e.key < key)) + 1

\* The loop of db_btree_insert moves the entries with a greater key up.
Place(key) == Len(SelectSeq(leaf, LAMBDA e : e.key <= key)) + 1

db_btree_insert(key, value) == leaf' = InsertAt(leaf, Place(key), [key |-> key, value |-> value])

\* db_btree_find: the first entry with the key
Hit(key) == SelectInSeq(leaf, LAMBDA e : e.key = key)
db_btree_find(key) == IF Hit(key) = 0 THEN NilObject ELSE leaf[Hit(key)].value

\* db_btree_range_scan: up to the first key behind the range
db_btree_range_scan(first, last) ==
  LET behind == SelectInSeq(leaf, LAMBDA e : e.key > last)
      scanned == IF behind = 0 THEN leaf ELSE SubSeq(leaf, 1, behind - 1)
      hits == SelectSeq(scanned, LAMBDA e : e.key >= first)
  IN  [i \in DOMAIN hits |-> hits[i].value]

-----------------------------------------------------------------------------
\* db_validate_row: the columns in order, each for a missing value and a known key.
Violation(row, i) ==
  \/ ~Columns[i].isNullable /\ row[i] = NilBits
  \/ Columns[i].isPrimaryKey /\ db_btree_find(row[i]) # NilObject
db_validate_row(row) == \A i \in DOMAIN Columns : ~Violation(row, i)

Put(row, object) ==
  IF db_validate_row(row)
  THEN /\ db_btree_insert(db_get_pk_value(row), object)
       /\ puts' = Append(puts, [key |-> db_get_pk_value(row), value |-> object])
  ELSE UNCHANGED <<leaf, puts>>

Offer == started /\ calls < MaxRows /\ calls' = calls + 1 /\ UNCHANGED <<started, trampled>>

\* walia_db_insert of a map ...
InsertMap(map) == Offer /\ Put(db_row_pack(map), MapObject(map)) /\ UNCHANGED garbled

\* ... and of anything else: db_row_pack refuses it, nobody looks, and the row is
\* what the stack held.
InsertOther(value) ==
  /\ Offer
  /\ \E row \in [DOMAIN Columns -> Bits] : Put(row, value)
  /\ garbled' = TRUE

\* walia_db_create_table: db_schema_create calls db_btree_create without a
\* transaction, which is a null pointer it goes through.
walia_db_create_table == /\ started /\ started' = FALSE
                         /\ UNCHANGED <<leaf, calls, puts, garbled, trampled>>

\* Entries behind the page's end lie on the next page, until that is written.
Trample == /\ started /\ Len(leaf) > LeafFits
           /\ leaf' = SubSeq(leaf, 1, LeafFits) \o
                        [i \in 1 .. Len(leaf) - LeafFits |-> [key |-> 0, value |-> NilObject]]
           /\ trampled' = TRUE
           /\ UNCHANGED <<started, calls, puts, garbled>>

TablesNext == \/ \E m \in Maps : InsertMap(m)
              \/ \E v \in Others : InsertOther(v)
              \/ walia_db_create_table \/ Trample

-----------------------------------------------------------------------------
\* As long as the page behind the leaf is left alone, the tree answers as the rows
\* were inserted: a key finds its first value, a range gives the values of its keys
\* in the order of keys, equal keys in the order they came. And no two rows have one
\* key, unless a value that is no map was let in with a row nobody packed.
First(key) == SelectInSeq(puts, LAMBDA p : p.key = key)
InRange(a, b) ==
  FlattenSeq([k \in 1 .. b + 1 - a |-> SelectSeq(puts, LAMBDA p : p.key = a + k - 1)])
TableAnswers ==
  ~trampled =>
    /\ \A k \in Bits : db_btree_find(k) = IF First(k) = 0 THEN NilObject ELSE puts[First(k)].value
    /\ \A a, b \in Bits : a <= b =>
         LET rows == InRange(a, b)
         IN  db_btree_range_scan(a, b) = [i \in DOMAIN rows |-> rows[i].value]
    /\ ~garbled => \A i, j \in DOMAIN leaf : leaf[i].key = leaf[j].key => i = j
    /\ \A m \in Maps : \A c \in DOMAIN m :
         c \in DOMAIN db_row_unpack(db_row_pack(m)) => db_row_unpack(db_row_pack(m))[c] = m[c]
=============================================================================
