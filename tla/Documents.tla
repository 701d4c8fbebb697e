----------------------------- MODULE Documents -----------------------------
(***************************************************************************)
(* Collections of documents: the natives of lib/lib_nosql.c over the hash    *)
(* index (db/db_hash.c), the document store (db/db_document.c), the         *)
(* tracker of filtered fields (db/db_auto_index.c) and the catalog, on the  *)
(* pages of one file (db/db_pager.c, db/db_shadow.c).                      *)
(*                                                                         *)
(* Catalog, trackers and documents lie on pages with fixed numbers that the *)
(* pager does not set aside. Where another structure has come to lie on one *)
(* of them, or what another one left there is taken for its own contents,   *)
(* the file is "shared" and no call is modelled any more. The pool holds    *)
(* every page here, and a collection is named by a number it was given.     *)
(***************************************************************************)
EXTENDS Catalog, SequencesExt

CONSTANTS Keys,            \* hashes of keys: numbers
          Objects,         \* the values that are saved
          BucketCapacity,  \* WLD_HASH_BUCKET_CAPACITY
          MaxDepth,        \* 10
          CatalogPage, TrackerPage, DocumentPage,   \* 1, 5, 100
          FreshPages,      \* of a new file: 10
          MaxPages,        \* bound: page numbers
          PageDocuments,   \* bound: how many documents go to the document page
          Collections, Fields, IndexName(_, _), \* "%s_%s_idx"
          MaxTracked,      \* WLD_MAX_TRACKED_FIELDS
          IndexThreshold,  \* WLD_AUTO_INDEX_THRESHOLD
          MaxNatives       \* bound: calls of the natives
CONSTANT Nil

ASSUME DocumentsAssumption ==
  /\ BucketCapacity \in Nat \ {0} /\ MaxTracked \in Nat /\ IndexThreshold \in Nat \ {0}
  /\ CatalogPage = 1 /\ TrackerPage < FreshPages /\ FreshPages <= DocumentPage

VARIABLES file,        \* the next number, how many pages there are, and of the fixed
                       \* ones those given to others, those in use, and "shared"
          directories, \* by page number: global depth, bucket pointers, the buckets
          data,        \* the records on the document page, by slot
          trackers,    \* the tracked fields in the order they came
          running,     \* FALSE in an insertion that never returns, and after a crash
          natives,     \* how many calls were made
          saved,       \* which objects were saved under <<directory, key>> (history)
          opened,      \* what db_collection returned for each name (history)
          dropped,     \* an entry did not go into the catalog (history)
          filtered, spawned, \* calls of db_filter; indexes created (history)
          found        \* what db_find returned last, and for what (history)

indexVars == <<file, directories, data, running, saved, opened, dropped>>
filterVars == <<trackers, filtered, spawned>>
documentVars == <<catalogVars, indexVars, filterVars, natives, found>>

DocumentsInit ==
  /\ CatalogInit
  /\ file = [next |-> 1, pages |-> FreshPages, given |-> {}, used |-> {}, shared |-> FALSE]
  /\ directories = [d \in {} |-> 0] /\ data = <<>> /\ trackers = <<>> /\ running = TRUE
  /\ natives = 0 /\ saved = {} /\ opened = {} /\ dropped = FALSE
  /\ filtered = <<>> /\ spawned = <<>> /\ found = [object |-> Nil]

-----------------------------------------------------------------------------
(* The file *)
Fixed == {CatalogPage, TrackerPage, DocumentPage}
Grown(pages, last) == IF last >= pages THEN 2 * pages ELSE pages

\* n times db_pager_allocate and the first db_pool_acquire of that page for writing:
\* the next number is the copy, and the one behind it is lost to the shadow table's count.
Own(f, n) == {f.next + 3 * i : i \in 0 .. n - 1}
HandedOut(f, n) ==
  [f EXCEPT !.next = @ + 3 * n, !.pages = Grown(@, f.next + 3 * n - 2),
            !.given = @ \union (Fixed \intersect (Own(f, n) \union {p + 1 : p \in Own(f, n)})),
            !.shared = @ \/ Own(f, n) \intersect f.used # {}]

\* The first db_pool_acquire of a fixed page, which writes to a copy of what lies there;
\* the catalog is looked at first, without a transaction and in place.
Used(f, page) ==
  IF page \in f.used THEN f
  ELSE LET g == [f EXCEPT !.used = @ \union {page}, !.shared = @ \/ page \in f.given]
       IN  IF page = CatalogPage THEN g
           ELSE [g EXCEPT !.next = @ + 2, !.pages = Grown(@, f.next),
                          !.given = @ \union (Fixed \intersect {f.next})]

-----------------------------------------------------------------------------
(* The hash index. A directory is named by its page. *)
\* db_hash_create
Created == [depth |-> 1, pointers |-> <<1, 2>>,
            buckets |-> [b \in 1 .. 2 |-> [depth |-> 1, entries |-> <<>>]]]

Bucket(dir, hash) == dir.pointers[(hash % 2 ^ dir.depth) + 1]

\* db_hash_lookup: the first entry with the hash
Entry(dir, hash) ==
  SelectInSeq(dir.buckets[Bucket(dir, hash)].entries, LAMBDA e : e.hash = hash)

Insertable(dir, hash) == Len(dir.buckets[Bucket(dir, hash)].entries) < BucketCapacity

\* mutant: the entry goes where the other half of the hashes belongs
InsertedAcross(dir, hash, doc) ==
  [dir EXCEPT !.buckets[dir.pointers[((hash + 1) % 2 ^ dir.depth) + 1]].entries =
     Append(@, [hash |-> hash, doc |-> doc])]

Inserted(dir, hash, doc) ==
  [dir EXCEPT !.buckets[Bucket(dir, hash)].entries = Append(@, [hash |-> hash, doc |-> doc])]

\* A full bucket: at the limit of the depth the insertion fails; otherwise the
\* directory doubles, if the bucket is as deep, and the insertion starts again. No
\* bucket is ever split, so it comes back to the same full bucket.
Doubled(dir) == IF dir.buckets[1].depth < dir.depth THEN dir
                ELSE [dir EXCEPT !.depth = @ + 1, !.pointers = @ \o @]
AtLimit(dir, hash) ==
  dir.depth >= MaxDepth /\ dir.buckets[Bucket(dir, hash)].depth >= dir.depth

-----------------------------------------------------------------------------
(* The natives *)
Call == /\ running /\ ~file.shared
        /\ natives < MaxNatives /\ natives' = natives + 1
        /\ file.next < MaxPages
Known(d) == d \in DOMAIN directories

\* walia_db_collection: the directory the catalog knows, or a new one. Whether
\* db_catalog_add accepts the name is not looked at.
walia_db_collection(name) ==
  LET opening == Used(file, CatalogPage)
      id == IF Lookup(name) # NoPage THEN Lookup(name) ELSE opening.next
  IN  /\ Call
      /\ file' = IF Lookup(name) # NoPage THEN opening ELSE HandedOut(opening, 3)
      /\ opened' = opened \union {<<name, id>>}
      /\ IF Lookup(name) # NoPage THEN UNCHANGED <<directories, dropped, catalogVars>>
         ELSE /\ directories' = directories @@ (id :> Created)
              /\ dropped' = (dropped \/ AddResult(name) # "WLD_OK")
              /\ db_catalog_add(name, 1, id)
      /\ UNCHANGED <<data, running, saved, filterVars, found>>

\* walia_db_save and db_doc_store: the record goes to the document page, whatever slot
\* it gets, and the index leads from the key's hash to that page, if the file reaches so
\* far; NULL is copied from otherwise. An object is one Value, so it never overflows its
\* record, and the page, which nobody formats, refuses nothing.
walia_db_save(d, key, object) ==
  /\ Call /\ Known(d)
  /\ Len(data) < PageDocuments
  /\ IF DocumentPage >= Used(file, DocumentPage).pages
     THEN running' = FALSE /\ UNCHANGED <<file, data, directories, saved>>
     ELSE /\ file' = Used(file, DocumentPage)
          /\ data' = Append(data, object)
          /\ IF Insertable(directories[d], key)
             THEN /\ directories' = [directories EXCEPT ![d] = Inserted(@, key, DocumentPage)]
                  /\ saved' = saved \union {<<d, key, object>>}
                  /\ UNCHANGED running
             ELSE /\ directories' = IF AtLimit(directories[d], key) THEN directories
                                    ELSE [directories EXCEPT ![d] = Doubled(@)]
                  /\ running' = AtLimit(directories[d], key)
                  /\ UNCHANGED saved
  /\ UNCHANGED <<catalogVars, opened, dropped, filterVars, found>>

\* walia_db_find and db_doc_retrieve: slot 0 of the page the index leads to.
Retrieved(d, key) == IF Entry(directories[d], key) = 0 \/ data = <<>> THEN Nil ELSE data[1]
walia_db_find(d, key) ==
  /\ Call /\ Known(d)
  /\ found' = [dir |-> d, key |-> key, object |-> Retrieved(d, key)]
  /\ UNCHANGED <<catalogVars, indexVars, filterVars>>

\* db_auto_index_notify: the tracker of a field, whatever the collection; the index
\* is created and registered when its count reaches the threshold.
Tracker(field) == SelectInSeq(trackers, LAMBDA t : t.field = field)
Tracked(field) ==
  IF Tracker(field) = 0 /\ Len(trackers) < MaxTracked
  THEN Append(trackers, [field |-> field, count |-> 0, isIndexed |-> FALSE])
  ELSE trackers

Due(t) == ~t.isIndexed /\ t.count + 1 >= IndexThreshold

Counted(t) == IF t.isIndexed THEN t ELSE [t EXCEPT !.count = @ + 1, !.isIndexed = Due(t)]

\* db_auto_index_spawn, on the file as the notification leaves it
Spawn(collection, field, f) ==
  LET name == IndexName(collection, field)
      id == f.next
  IN  /\ directories' = directories @@ (id :> Created)
      /\ file' = Used(HandedOut(f, 3), CatalogPage)
      /\ spawned' = Append(spawned, <<collection, field>>)
      /\ dropped' = (dropped \/ AddResult(name) # "WLD_OK")
      /\ db_catalog_add(name, 2, id)

walia_db_filter(collection, field) ==
  LET tracked == Tracked(field)
      at == SelectInSeq(tracked, LAMBDA t : t.field = field)
  IN  /\ Call
      /\ filtered' = Append(filtered, <<collection, field>>)
      /\ trackers' = IF at = 0 THEN tracked ELSE [tracked EXCEPT ![at] = Counted(@)]
      /\ IF \E t \in ToSet(tracked) : t.field = field /\ Due(t)
         THEN Spawn(collection, field, Used(file, TrackerPage))
         ELSE /\ file' = Used(file, TrackerPage)
              /\ UNCHANGED <<directories, spawned, dropped, catalogVars>>
      /\ UNCHANGED <<data, running, saved, opened, found>>

\* walia_json_parse of an empty object: a page of its own, formatted and left. On page 1
\* the format is read as the upper half of the catalog's count.
TakesPage ==
  /\ running /\ ~file.shared /\ file.next < MaxPages
  /\ file' = [HandedOut(file, 1) EXCEPT !.given = @ \ {CatalogPage}]
  /\ entryCount' = IF file.next = CatalogPage THEN 24 * Upper + entryCount ELSE entryCount
  /\ UNCHANGED <<entries, registered, directories, data, running, saved, opened, dropped, filterVars, natives, found>>

\* A client removes a name.
DropName(name) == /\ Call /\ CatalogPage \in file.used /\ db_catalog_remove(name)
                  /\ opened' = {o \in opened : o[1] # name}
                  /\ UNCHANGED <<file, directories, data, running, saved, dropped, filterVars, found>>

DocumentsNext ==
  \/ TakesPage
  \/ \E n \in Collections : walia_db_collection(n) \/ DropName(n)
  \/ \E d \in DOMAIN directories, k \in Keys :
       \/ \E o \in Objects : walia_db_save(d, k, o)
       \/ walia_db_find(d, k)
  \/ \E c \in Collections, f \in Fields : walia_db_filter(c, f)

-----------------------------------------------------------------------------
\* As long as no fixed page is shared: db_collection of a name that fits comes back to
\* the same directory if the catalog took every name it was given, and in every
\* directory the index leads to a document for exactly the keys that were saved there.
CollectionsKept == ~file.shared =>
  /\ CatalogAgrees
  /\ ~dropped => \A o, p \in opened : o[1] = p[1] /\ Fits(o[1]) => o[2] = p[2]
  /\ running => \A d \in DOMAIN directories, k \in Keys :
       (Entry(directories[d], k) # 0) = (\E o \in Objects : <<d, k, o>> \in saved)

\* A tracked field gets one index, with the call that makes the threshold, for the
\* collection of that call: the calls on other collections count too.
IndexedOnce == ~file.shared =>
  \A i \in DOMAIN trackers :
    LET f == trackers[i].field
        calls == SelectSeq(filtered, LAMBDA c : c[2] = f)
        its == SelectSeq(spawned, LAMBDA s : s[2] = f)
    IN  IF Len(calls) < IndexThreshold THEN its = <<>>
        ELSE its = <<calls[IndexThreshold]>>
=============================================================================
