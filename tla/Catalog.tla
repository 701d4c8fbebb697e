------------------------------ MODULE Catalog ------------------------------
(***************************************************************************)
(* The catalog page of WaliaDB (db/db_catalog.c): names of collections,     *)
(* indexes and tables, with the page each starts at.  It lies on page 1,    *)
(* which nobody formats and the pager hands out first: that is modelled     *)
(* where the catalog is used (Documents).                                  *)
(*                                                                         *)
(* A name is cut to the width of its field without a terminator.  It is     *)
(* modelled by its first WLD_MAX_NAME_LEN characters, head, and what        *)
(* follows them: rest is "short" if the name is shorter than the field,     *)
(* "" if it fills it, and something else if it is longer.                  *)
(***************************************************************************)
EXTENDS Naturals, Sequences, FiniteSets

CONSTANTS Names,    \* records [head, rest]
          Types,    \* WldEntryType, a set of numbers
          MaxEntries, \* WLD_MAX_ENTRIES_PER_PAGE
          NoPage    \* WLD_INVALID_PAGE

ASSUME CatalogAssumption == MaxEntries \in Nat \ {0} /\ Types \subseteq Nat /\ NoPage \notin Nat

VARIABLES entries,    \* the array of entries
          entryCount, \* starts with what lay there
          registered  \* the page of each name that was added and not removed (history)

catalogVars == <<entries, entryCount, registered>>

Upper == 2 ^ 16   \* the upper half of the count

Vacant == [head |-> "", cut |-> FALSE, type |-> 0, root |-> NoPage, isActive |-> FALSE]
Fits(name) == name.rest = "short"

\* db_catalog_init
CatalogInit == /\ entries = [i \in 1 .. MaxEntries |-> Vacant]
               /\ entryCount = 0 /\ registered = {}

\* strcmp: behind a name that was cut the comparison runs on into the type, whose
\* first byte ends the string if it is 0.
Matches(e, name) ==
  /\ e.isActive /\ e.head = name.head
  /\ IF e.cut THEN name.rest = "" /\ e.type = 0 ELSE Fits(name)

Matching(name) == {i \in 1 .. MaxEntries : Matches(entries[i], name)}
Inactive == {i \in 1 .. MaxEntries : ~entries[i].isActive}
Least(S) == CHOOSE i \in S : \A j \in S : i <= j

\* db_catalog_lookup
Lookup(name) == IF Matching(name) = {} THEN NoPage ELSE entries[Least(Matching(name))].root

\* db_catalog_add, and what it returns
AddResult(name) == IF Matching(name) # {} THEN "WLD_ERR_IO"
                   ELSE IF Inactive = {} THEN "WLD_ERR_FULL" ELSE "WLD_OK"

db_catalog_add(name, type, root) ==
  IF AddResult(name) = "WLD_OK"
  THEN /\ entries' = [entries EXCEPT ![Least(Inactive)] =
                        [head |-> name.head, cut |-> ~Fits(name), type |-> type,
                         root |-> root, isActive |-> TRUE]]
       /\ entryCount' = entryCount + 1
       /\ registered' = registered \union {<<name, root>>}
  ELSE UNCHANGED catalogVars

\* db_catalog_remove
db_catalog_remove(name) ==
  IF Matching(name) = {} THEN UNCHANGED catalogVars
  ELSE /\ entries' = [entries EXCEPT ![Least(Matching(name))].isActive = FALSE]
       /\ entryCount' = entryCount - 1
       /\ registered' = {r \in registered : r[1] # name}

-----------------------------------------------------------------------------
\* Whatever was added, refused, removed and added again in the gaps: a name that fits
\* its field leads to the page it was last registered with or, if it was removed,
\* nowhere, at most one entry holds it, and the count is that of the entries, above what
\* the count lay on.
CatalogAgrees ==
  /\ \A n \in Names : Fits(n) =>
       /\ Lookup(n) # NoPage => <<n, Lookup(n)>> \in registered
       /\ Lookup(n) = NoPage => \A r \in registered : r[1] # n
       /\ Cardinality(Matching(n)) <= 1
  /\ entryCount % Upper = MaxEntries - Cardinality(Inactive)
=============================================================================
