-------------------------------- MODULE Heap --------------------------------
(***************************************************************************)
(* The persistent heap and who allocates in it: the managed objects of      *)
(* src/core/memory.c, which are laid one after the other from the start,    *)
(* the manual arena of src/sys/sys_allocator.c, carved out of the same      *)
(* bytes, and the superblock of src/persistence.c at the start of the file. *)
(* The unit is WLD_MEM_ALIGNMENT bytes. The collector of src/core/gc.c      *)
(* works on the list of objects, whatever their places.                     *)
(***************************************************************************)
EXTENDS Naturals, Sequences, FiniteSets, SequencesExt

CONSTANTS HeapSize,    \* WALIA_HEAP_SIZE
          Alignment,   \* WALIA_ALLOC_ALIGNMENT
          ArenaStart, ArenaSize,   \* the arena: 10 MB from 1 MB on
          Header, MinBlock,        \* sizeof(WldMemBlock), WLD_MIN_BLOCK_SIZE
          Requests,    \* sizes asked of sys_alloc, rounded up
          Sizes,       \* sizes of managed objects
          Graphs,      \* bound: object graphs the collector is given
          MaxSteps,    \* bound: allocations and releases
          NULL

ASSUME HeapAssumption == /\ ArenaStart \in Nat /\ ArenaSize \in Nat /\ MinBlock \in Nat
                         /\ ArenaStart + ArenaSize <= HeapSize /\ ArenaSize > Header
                         /\ Alignment \in Nat \ {0} /\ Header \in Nat \ {0}
                         /\ Requests \subseteq Nat /\ NULL \notin Nat
\* What is referred to is an object of the session.
ASSUME GraphsAssumption == \A g \in Graphs : /\ g.roots \cup g.strings \subseteq g.all
                                             /\ \A o \in g.all : g.refs[o] \subseteq g.all

VARIABLES heapNext,    \* where the next managed object goes
          objects,     \* the managed objects of this session: [at, size]
          superblock,  \* what the start of the file says
          session,     \* "down", "cold" or "warm"
          blocks,      \* the headers of the arena by their place
          granted,     \* the data pointers a program holds, with the size it asked for
          steps,       \* how many allocations and releases there were
          heap         \* the collector's: the graph, its objects and interned strings,
                       \* the marked and the gray objects

arenaVars == <<heapNext, objects, superblock, session, blocks, granted, steps>>
heapVars == <<arenaVars, heap>>

\* Before sys_allocator_init, freeListHead is NULL.
NoBlocks == [b \in {} |-> NULL]
NothingHeld == [p \in {} |-> 0]
HasArena == DOMAIN blocks # {}

Aligned(size, to) == ((size + to - 1) \div to) * to

HeapInit == /\ heapNext = 0 /\ objects = {} /\ superblock = "blank" /\ session = "down"
            /\ blocks = NoBlocks /\ granted = NothingHeld /\ steps = 0
            /\ \E g \in Graphs :
                 heap = [graph |-> g, objects |-> g.all, strings |-> g.strings,
                         marked |-> {}, gray |-> {}, phase |-> "idle"]

-----------------------------------------------------------------------------
\* initPersistentHeap: the bump pointer starts at the file's first byte every time,
\* on a file with a superblock too. On a cold boot the root table is the first
\* object: its bytes are the superblock's and are zeroed; walia_checkpoint writes
\* the time stamp and the checksum, but not the magic number again.
walia_boot ==
  /\ session = "down"
  /\ IF superblock = "magic"
     THEN /\ session' = "warm" /\ heapNext' = 0 /\ objects' = {} /\ UNCHANGED superblock
     ELSE /\ session' = "cold" /\ superblock' = "stamped"
          /\ heapNext' = Alignment /\ objects' = {[at |-> 0, size |-> 1]}
  /\ UNCHANGED <<blocks, granted, steps, heap>>

\* walia_shutdown, or the process dies: the globals were never in the file.
Stop == /\ session # "down" /\ session' = "down"
        /\ blocks' = NoBlocks /\ granted' = NothingHeld
        /\ UNCHANGED <<heapNext, objects, superblock, steps, heap>>

Serves == session # "down" /\ steps < MaxSteps /\ steps' = steps + 1

\* reallocate: a growing object moves to the end and its old place is never used
\* again; an exhausted heap ends the process.
reallocate(size) ==
  LET room == Aligned(size, Alignment)
  IN  /\ Serves
      /\ IF room > HeapSize - heapNext
         THEN /\ session' = "down" /\ blocks' = NoBlocks /\ granted' = NothingHeld
              /\ UNCHANGED <<heapNext, objects>>
         ELSE /\ heapNext' = heapNext + room
              /\ objects' = objects \cup {[at |-> heapNext, size |-> size]}
              /\ UNCHANGED <<session, blocks, granted>>
      /\ UNCHANGED <<superblock, heap>>

-----------------------------------------------------------------------------
\* sys_allocator_init: one free block.
sys_allocator_init ==
  /\ session # "down" /\ ~HasArena
  /\ blocks' = [b \in {ArenaStart} |-> [size |-> ArenaSize - Header, isFree |-> TRUE,
                                        next |-> NULL, prev |-> NULL]]
  /\ UNCHANGED <<heapNext, objects, superblock, session, granted, steps, heap>>

\* The block after b is now the one after it too; whoever follows is told.
Linked(list, b, next) ==
  [p \in DOMAIN list |-> IF p = b THEN [list[p] EXCEPT !.next = next]
                         ELSE IF p = next THEN [list[p] EXCEPT !.prev = b] ELSE list[p]]

Split(list, b, size) ==
  LET rest == b + Header + size
      after == list[b].next
      first == [size |-> list[b].size - size - Header, isFree |-> TRUE, next |-> after, prev |-> b]
      with == [p \in DOMAIN list \cup {rest} |->
                 IF p = rest THEN first ELSE Linked(list, b, rest)[p]]
  IN  [Linked(with, rest, after) EXCEPT ![b].size = size]

\* Best fit: the smallest block that is large enough, the first of these. Blocks
\* are linked in the order of their places.
sys_alloc(size) ==
  LET fitting == {b \in DOMAIN blocks : blocks[b].isFree /\ blocks[b].size >= size}
      best == CHOOSE b \in fitting :
                \A c \in fitting : \/ blocks[b].size < blocks[c].size
                                   \/ blocks[b].size = blocks[c].size /\ b <= c
      given == IF blocks[best].size > size + Header + MinBlock
               THEN Split(blocks, best, size) ELSE blocks
  IN  /\ Serves /\ HasArena /\ heapNext <= ArenaStart
      /\ IF fitting = {} THEN UNCHANGED <<blocks, granted>>
         ELSE /\ blocks' = [given EXCEPT ![best].isFree = FALSE]
              /\ granted' = [p \in DOMAIN granted \cup {best + Header} |->
                          IF p = best + Header THEN size ELSE granted[p]]
      /\ UNCHANGED <<heapNext, objects, superblock, session, heap>>

\* mutant: the block after the absorbed one still points back to it
AbsorbedLoosely(list, b) ==
  LET n == list[b].next
  IN  [p \in DOMAIN list \ {n} |->
         IF p = b THEN [list[b] EXCEPT !.size = @ + Header + list[n].size, !.next = list[n].next]
         ELSE list[p]]

\* Block b takes in the block after it.
Absorbed(list, b) ==
  LET n == list[b].next
      grown == [list EXCEPT ![b].size = @ + Header + list[n].size]
  IN  [p \in DOMAIN list \ {n} |-> Linked(grown, b, list[n].next)[p]]

sys_release(p) ==
  LET b == p - Header
      freed == [blocks EXCEPT ![b].isFree = TRUE]
      next == freed[b].next
      forward == IF next # NULL /\ freed[next].isFree THEN Absorbed(freed, b) ELSE freed
      prev == forward[b].prev
  IN  /\ Serves /\ HasArena /\ heapNext <= ArenaStart
      /\ blocks' = IF prev # NULL /\ forward[prev].isFree THEN Absorbed(forward, prev)
                   ELSE forward
      /\ granted' = Restrict(granted, DOMAIN granted \ {p})
      /\ UNCHANGED <<heapNext, objects, superblock, session, heap>>

ArenaNext == \/ walia_boot \/ Stop \/ sys_allocator_init
             \/ \E size \in Sizes : reallocate(size)
             \/ \E size \in Requests : sys_alloc(size)
             \/ \E p \in DOMAIN granted : sys_release(p)

-----------------------------------------------------------------------------
\* The collector. A graph gives each object its type and what it refers to, the
\* roots (stack, frames, open upvalues, globals) and the interned strings.

\* blackenObject: classes, instances and the rest are marked, and not looked into.
Children(g, o) ==
  IF g.type[o] \in {"upvalue", "function", "closure", "continuation"} THEN g.refs[o] ELSE {}

\* collectGarbage up to its loop. tableMark(&vm.strings) makes every interned string
\* a root, so that tableRemoveWhite finds none to remove.
MarkRoots ==
  LET roots == heap.graph.roots \cup heap.graph.strings
  IN  /\ heap.phase = "idle"
      /\ heap' = [heap EXCEPT !.phase = "marking", !.marked = roots, !.gray = roots]

\* An object is taken from the gray stack; what markObject finds unmarked is marked and
\* pushed. In which order they lie there decides nothing, so the stack is a set.
blackenObject(o) ==
  LET found == Children(heap.graph, o) \ heap.marked
  IN  /\ heap.phase = "marking"
      /\ heap' = [heap EXCEPT !.marked = @ \cup found, !.gray = (@ \ {o}) \cup found]

\* The loop has ended.
sweep ==
  /\ heap.phase = "marking" /\ heap.gray = {}
  /\ heap' = [heap EXCEPT !.phase = "swept", !.objects = @ \cap heap.marked,
                          !.strings = @ \cap heap.marked]

collectGarbage ==
  /\ MarkRoots \/ (\E o \in heap.gray : blackenObject(o)) \/ sweep
  /\ UNCHANGED arenaVars

-----------------------------------------------------------------------------
End(b) == b + Header + blocks[b].size

\* However blocks are split and merged, the headers tile the arena, each one's links
\* lead to its neighbours, no two neighbours are free, and every pointer a program
\* holds is the start of a block that is taken and large enough. It holds until the
\* managed objects, which know nothing of the arena, have grown into it.
ArenaTiled ==
  HasArena /\ heapNext <= ArenaStart =>
    /\ ArenaStart \in DOMAIN blocks /\ blocks[ArenaStart].prev = NULL
    /\ \A b \in DOMAIN blocks :
         IF blocks[b].next = NULL THEN End(b) = ArenaStart + ArenaSize
         ELSE /\ blocks[b].next = End(b) /\ End(b) \in DOMAIN blocks
              /\ blocks[End(b)].prev = b
              /\ ~(blocks[b].isFree /\ blocks[End(b)].isFree)
    /\ {b \in DOMAIN blocks : ~blocks[b].isFree} = {p - Header : p \in DOMAIN granted}
    /\ \A p \in DOMAIN granted : granted[p] <= blocks[p - Header].size

\* What a collection keeps is what can be reached from the roots and the interned
\* strings through the objects that the collector looks into, no less and no more.
ReachableKept ==
  heap.phase = "swept" =>
    LET g == heap.graph
        sound(s) == /\ g.roots \cup g.strings \subseteq s
                    /\ \A o \in s : g.type[o] \in {"upvalue", "function", "closure", "continuation"}
                                      => g.refs[o] \subseteq s
    IN  sound(heap.objects) /\ \A s \in SUBSET heap.objects : sound(s) => s = heap.objects
=============================================================================
