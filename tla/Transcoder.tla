----------------------------- MODULE Transcoder -----------------------------
(***************************************************************************)
(* Documents taken in from outside (src/lib/lib_trans_api.c): the scan that *)
(* marks structural characters block by block (src/web/web_trans_lexer.c),  *)
(* the injector that lands what follows a quote on a page                   *)
(* (src/web/web_trans_injector.c), and the binary image of an object        *)
(* (src/web/web_trans_wbin.c). A document is a sequence of characters, a    *)
(* page the records of its slots and the bytes they take.                  *)
(***************************************************************************)
EXTENDS Integers, Sequences, FiniteSets, FiniteSetsExt, SequencesExt

CONSTANTS Json,        \* bound: the documents, of one block at least
          BlockBytes,  \* 64: the characters of one mask
          PageBytes,   \* what a slotted page has room for
          SlotBytes,   \* what a record's slot takes
          Images,      \* bound: what is decoded: its magic, payloadSize and bytes
          HeaderBytes, \* sizeof(WldWbinHeader)
          ImageBytes   \* 1024: what encoding copies of any object

\* Shorter documents are left out: the scan's bound wraps around and it runs on
\* through memory (web_trans_lexer.c:76).
ASSUME TranscoderAssumption ==
  /\ BlockBytes \in Nat \ {0} /\ PageBytes \in Nat /\ SlotBytes \in Nat
  /\ \A d \in Json : Len(d) >= BlockBytes

VARIABLES document,       \* the last document read
          landed,         \* its target page: the slots, the bytes used, what was refused (history)
          image,          \* the last image made or decoded, and the bytes taken from it
          outcome         \* what the native returned

transVars == <<document, landed, image, outcome>>

FreshPage == [slots |-> <<>>, used |-> 0, refused |-> FALSE, crashed |-> FALSE]
NoImage == [made |-> FALSE, payloadSize |-> 0, held |-> 0, copied |-> 0]

TransInit == document = <<>> /\ landed = FreshPage /\ image = NoImage /\ outcome = "none"

-----------------------------------------------------------------------------
Structural == {"{", "}", ":", ",", "q"}       \* "q" stands for the quotation mark

BlockOf(p) == (p - 1) \div BlockBytes
InOrder(d, places) == SelectSeq([i \in DOMAIN d |-> i], LAMBDA p : p \in places)

\* walia_json_scan_structural: the masks, as the places they mark. The last block is
\* filled up with zeros.
Marked(d) == {p \in DOMAIN d : d[p] \in Structural}

\* db_slotted_insert: room is asked for the record and a new slot; an empty record's
\* slot counts as deleted, and the next record takes it.
Free(page) == PageBytes - page.used - SlotBytes * Len(page.slots)
Landed(page, record) ==
  LET empty == {i \in DOMAIN page.slots : page.slots[i] = <<>>}
  IN  IF Free(page) < Len(record) + SlotBytes THEN [page EXCEPT !.refused = TRUE]
      ELSE [page EXCEPT !.used = @ + Len(record),
                        !.slots = IF empty = {} THEN Append(@, record)
                                  ELSE [@ EXCEPT ![Min(empty)] = record]]

\* The same of a length below zero, which is taken for one of nearly 2^32: what is asked
\* for wraps around, and where that is little, as much is copied.
LandedBelow(page, length) ==
  IF length + SlotBytes \in 0 .. Free(page) THEN [page EXCEPT !.crashed = TRUE]
  ELSE [page EXCEPT !.refused = TRUE]

\* mutant: the character before the next mark is left out
CutShort(page, d, p, unset) ==
  LET rest == {n \in Marked(d) : n > p /\ BlockOf(n) = BlockOf(p)}
  IN  IF rest # {} THEN Landed(page, SubSeq(d, p + 1, Min(rest) - 2)) ELSE page

\* A quote lands what stands between it and the next mark of its block. It may be a
\* closing one. Without a next mark the count of an empty mask's zeros is undefined:
\* unset is what the build makes of it, the block's length (no mark) or any place in
\* the block, from which to the quote the length is below zero. A quote at the block's
\* last place has the whole mask left, or none.
Quoted(page, d, p, unset) ==
  LET rest == {n \in Marked(d) : n > p /\ BlockOf(n) = BlockOf(p)}
      next == BlockOf(p) * BlockBytes + unset + 1
  IN  IF rest # {} THEN Landed(page, SubSeq(d, p + 1, Min(rest) - 1))
      ELSE IF unset = BlockBytes THEN page
      ELSE IF next <= p THEN LandedBelow(page, next - p - 1)
      ELSE Landed(page, [i \in 1 .. next - p - 1 |-> IF p + i <= Len(d) THEN d[p + i] ELSE "beyond"])

\* walia_json_inject: the other marks do nothing to the page.
Injected(d, unset) ==
  FoldLeft(LAMBDA page, p : IF d[p] = "q" /\ ~page.crashed THEN Quoted(page, d, p, unset) ELSE page,
           FreshPage, InOrder(d, Marked(d)))

\* walia_json_parse: a transaction and a page of its own for every document. A record
\* that was refused is not noticed.
walia_json_parse(d) ==
  /\ outcome = "none"
  /\ document' = d
  /\ \/ \E unset \in 0 .. BlockBytes :
          /\ landed' = Injected(d, unset)
          /\ outcome' = IF landed'.crashed THEN "crash" ELSE "object"
     \/ landed' = FreshPage /\ outcome' = "nil"     \* the page is not given
  /\ UNCHANGED image

\* The strings of a document whose quotes come in pairs with text between them; those
\* that lie in one block; and documents whose every quote has a mark behind it in its
\* block, the closing one at once.
Quotes(d) == {p \in DOMAIN d : d[p] = "q"}
Opening(d, p) == p \in Quotes(d) /\ Cardinality({n \in Quotes(d) : n < p}) % 2 = 0
Closing(d, p) == Min({n \in Quotes(d) : n > p})
WellFormed(d) ==
  /\ Cardinality(Quotes(d)) % 2 = 0
  /\ \A p \in Quotes(d) : Opening(d, p) =>
       Closing(d, p) > p + 1 /\ \A i \in p + 1 .. Closing(d, p) - 1 : d[i] \notin Structural
Bounded(d) ==
  \A p \in Quotes(d) : \E n \in Marked(d) : n > p /\ BlockOf(n) = BlockOf(p)
Tight(d) == \A p \in Quotes(d) : Opening(d, p) => Closing(d, p) + 1 \in Marked(d)
StringsOf(d) ==
  LET open == InOrder(d, {p \in Quotes(d) : Opening(d, p) /\ BlockOf(Closing(d, p)) = BlockOf(p)})
  IN  [i \in DOMAIN open |-> SubSeq(d, open[i] + 1, Closing(d, open[i]) - 1)]

\* Wherever the blocks cut a well-formed document, each string that lies in one of them
\* lands whole, unless the page had no room for something; if every quote has its mark
\* in its block, they are all that lands but empty records, in their order. A string
\* over two blocks does not land, and only a quote without a mark behind it in its block
\* ends the process (web_trans_injector.c:62, db_slotted.c:28).
StringsLanded ==
  LET records == SelectSeq(landed.slots, LAMBDA r : r # <<>>)
      whole == StringsOf(document)
  IN  /\ outcome = "crash" => ~Bounded(document)
      /\ outcome = "object" /\ WellFormed(document) =>
           /\ ~landed.refused => ToSet(whole) \subseteq ToSet(records)
           /\ Bounded(document) /\ Tight(document) =>
                IF landed.refused THEN ToSet(records) \subseteq ToSet(whole) ELSE records = whole

-----------------------------------------------------------------------------
\* walia_wbin_encode: as many bytes from the object's address on, whatever it is; the
\* image of what is no object is its header.
walia_wbin_encode(isObject) ==
  /\ outcome = "none"
  /\ LET size == IF isObject THEN ImageBytes ELSE 0
     IN  image' = [made |-> TRUE, payloadSize |-> size, held |-> size, copied |-> 0]
  /\ outcome' = "image"
  /\ UNCHANGED <<document, landed>>

\* walia_wbin_decode: what the header says is copied, up to a page.
Decoded(im) == [im EXCEPT !.copied = Min({im.payloadSize, PageBytes})]
DecodeOther(im) ==
  /\ outcome = "none"
  /\ IF im.bytes < HeaderBytes \/ ~im.magic
     THEN outcome' = "nil" /\ UNCHANGED image
     ELSE \/ /\ image' = Decoded([made |-> FALSE, payloadSize |-> im.payloadSize,
                                  held |-> im.bytes - HeaderBytes, copied |-> 0])
             /\ outcome' = "object"
          \/ outcome' = "nil" /\ UNCHANGED image
  /\ UNCHANGED <<document, landed>>
DecodeMade == /\ outcome = "image"
              /\ image' = Decoded(image) /\ outcome' = "object"
              /\ UNCHANGED <<document, landed>>

TransNext == \/ \E d \in Json : walia_json_parse(d)
             \/ \E isObject \in BOOLEAN : walia_wbin_encode(isObject)
             \/ \E im \in Images : DecodeOther(im)
             \/ DecodeMade
=============================================================================
