------------------------------ MODULE Objects ------------------------------
(***************************************************************************)
(* Small parts of the runtime that hold data for a program: the lines of a *)
(* chunk and the stream of a digest (src/core), lists, their iterators and *)
(* populations (src/lib), entangled registers (src/vm), shapes and proxies *)
(* (src/vm, src/web). They share no state.                                 *)
(***************************************************************************)
EXTENDS Integers, Sequences, FiniteSets

CONSTANTS Lines,         \* source lines of instructions
          MaxCode,       \* bound: instructions of a chunk
          Block,         \* 64, the bytes of a block of the digest
          LengthField,   \* 8, the bytes at its end that hold the length
          Pieces,        \* lengths of the pieces walia_hash_update is given
          MaxMessage,    \* bound: bytes of a message
          Items,         \* values of a list, numbers that rank them by fitness
          MaxList,       \* bound: elements of a list
          Limit,         \* 1000, how many items a stream hands out
          BatchSize,     \* 1024, items between two checkpoints
          MaxGenomes,    \* bound: individuals
          Sinks,         \* registers that may be entangled
          Operands,       \* the registers OP_ENTANGLE always names, R0 and R1
          MaxDepth,      \* bound: nested triggers, the C stack in the code
          MaxWrites,     \* bound: writes to registers
          Names,         \* property names
          MaxTransitions,\* SHAPE_MAX_TRANSITIONS
          Elements,      \* objects tagged OBJ_NATIVE that observe
          MaxObserved    \* bound: calls of observe

ASSUME ObjectsAssumption == /\ Block \in Nat /\ LengthField \in 1 .. Block - 1
                            /\ Limit \in Nat /\ BatchSize \in Nat \ {0}
                            /\ MaxTransitions \in Nat \ {0}

-----------------------------------------------------------------------------
(* chunk.c: the line of every instruction, run-length encoded. *)
VARIABLES runs,     \* lines.lines: line and count of each run
          written   \* the line of every instruction (history)

chunkVars == <<runs, written>>

initChunk == runs = <<>> /\ written = <<>>

\* The last run grows when its line is the same.
addLine(line) ==
  IF runs # <<>> /\ runs[Len(runs)].line = line
  THEN [runs EXCEPT ![Len(runs)].count = @ + 1]
  ELSE Append(runs, [line |-> line, count |-> 1])

\* The first run that ends beyond the instruction, counted from zero.
RunsUpTo(n) == LET start[i \in 0 .. n] == IF i = 0 THEN 0 ELSE start[i - 1] + runs[i].count
               IN  start[n]
getLine(instruction) ==
  IF \E n \in DOMAIN runs : RunsUpTo(n) > instruction
  THEN runs[CHOOSE n \in DOMAIN runs : /\ RunsUpTo(n) > instruction
                                       /\ RunsUpTo(n - 1) <= instruction].line
  ELSE 0

writeChunk(line) == /\ Len(written) < MaxCode
                    /\ runs' = addLine(line) /\ written' = Append(written, line)

\* freeChunk starts over.
freeChunk == written # <<>> /\ runs' = <<>> /\ written' = <<>>

ChunkNext == freeChunk \/ \E line \in Lines : writeChunk(line)

\* The line that an error reports for an instruction is the one it was written with,
\* in whatever order lines came back.
LinesExact == \A i \in DOMAIN written : getLine(i - 1) = written[i]

-----------------------------------------------------------------------------
(* hash.c: a message is fed in pieces and cut into blocks. Bytes are told apart by *)
(* their position; the compression of a block is left out. *)
Zero == 0
Mark == MaxMessage + 1
Stale == MaxMessage + 2              \* what was in the buffer before
LengthOf(n) == MaxMessage + 3 + n    \* a byte of the length field

VARIABLES data,       \* ctx->data, with what earlier blocks left in it
          datalen,
          bitlen,     \* in bytes
          hashed,     \* the blocks given to sha256_transform
          message,    \* how many bytes came in (history)
          final       \* walia_hash_final was called

digestVars == <<data, datalen, bitlen, hashed, message, final>>

\* walia_hash_init; the buffer is not cleared.
walia_hash_init == /\ data = [i \in 1 .. Block |-> Stale] /\ datalen = 0 /\ bitlen = 0
                   /\ hashed = <<>> /\ message = 0 /\ final = FALSE

\* The context after n more bytes.
Fed[n \in Nat] ==
  IF n = 0 THEN [data |-> data, datalen |-> datalen, bitlen |-> bitlen, hashed |-> hashed]
  ELSE LET before == Fed[n - 1]
           filled == [before.data EXCEPT ![before.datalen + 1] = message + n]
       IN  IF before.datalen + 1 < Block
           THEN [before EXCEPT !.data = filled, !.datalen = @ + 1]
           ELSE [data |-> filled, datalen |-> 0, bitlen |-> before.bitlen + Block,
                 hashed |-> Append(before.hashed, filled)]

walia_hash_update(n) ==
  /\ ~final /\ message + n <= MaxMessage
  /\ data' = Fed[n].data /\ datalen' = Fed[n].datalen
  /\ bitlen' = Fed[n].bitlen /\ hashed' = Fed[n].hashed
  /\ message' = message + n
  /\ UNCHANGED final

\* Room for the mark and the length in this block.
Room == datalen < Block - LengthField

\* The mark, then zeros up to the length field, in a block of their own if need be.
Marked(end) == [i \in 1 .. Block |-> IF i <= datalen THEN data[i]
                                     ELSE IF i = datalen + 1 THEN Mark
                                     ELSE IF i <= end THEN Zero ELSE data[i]]
walia_hash_final ==
  LET padded == IF Room THEN Marked(Block - LengthField)
                ELSE [i \in 1 .. Block |-> IF i <= Block - LengthField THEN Zero ELSE Marked(Block)[i]]
      length == bitlen + datalen
      last == [i \in 1 .. Block |-> IF i <= Block - LengthField THEN padded[i] ELSE LengthOf(length)]
  IN  /\ ~final /\ final' = TRUE
      /\ hashed' = IF Room THEN Append(hashed, last) ELSE hashed \o <<Marked(Block), last>>
      /\ bitlen' = length /\ data' = last
      /\ UNCHANGED <<datalen, message>>

DigestNext == walia_hash_final \/ \E n \in Pieces : walia_hash_update(n)

Flattened == [i \in 1 .. Len(hashed) * Block |-> hashed[((i - 1) \div Block) + 1][((i - 1) % Block) + 1]]

\* However a message was split, what is digested is the message, one mark, the fewest
\* zeros that complete a block, and its length: nothing of an earlier block.
DigestExact ==
  final => /\ Len(Flattened) - message - 1 - LengthField \in 0 .. Block - 1
           /\ \A i \in DOMAIN Flattened :
                Flattened[i] = IF i <= message THEN i
                               ELSE IF i = message + 1 THEN Mark
                               ELSE IF i > Len(Flattened) - LengthField THEN LengthOf(message)
                               ELSE Zero

-----------------------------------------------------------------------------
(* Lists, an iterator over one, a stream, and the selection among a population. *)
VARIABLES list,      \* array.values up to count
          index,     \* ObjListIterator.index
          yielded,   \* what the iterator returned (history)
          dropped,   \* what selections cut off (history)
          disturbed, \* elements were reordered or replaced since the iterator started
          stream     \* totalRead, isClosed and checkpoints of a stream

listVars == <<list, index, yielded, dropped, disturbed, stream>>

\* walia_list_new, newListIterator, walia_stream_new
ListInit == /\ list = <<>> /\ index = 0 /\ yielded = <<>> /\ dropped = <<>> /\ disturbed = FALSE
            /\ stream = [totalRead |-> 0, isClosed |-> FALSE, checkpoints |-> 0]

walia_list_add(item) == /\ Len(list) + Len(dropped) < MaxList /\ list' = Append(list, item)
                        /\ UNCHANGED <<index, yielded, dropped, disturbed, stream>>

\* Out of range is ignored.
walia_list_set(i, item) == /\ list' = IF i \in DOMAIN list THEN [list EXCEPT ![i] = item] ELSE list
                           /\ disturbed' = TRUE
                           /\ UNCHANGED <<index, yielded, dropped, stream>>

listIteratorNext == /\ index < Len(list)
                    /\ yielded' = Append(yielded, list[index + 1])
                    /\ index' = index + 1
                    /\ UNCHANGED <<list, dropped, disturbed, stream>>

\* walia_evolve_select and walia_natural_selection: sort, keep count * rate of them,
\* at least one. qsort may leave equals in any order.
Sorted(s) == \A i, j \in DOMAIN s : i <= j => s[i] >= s[j]
Permuted(s, t) == /\ Len(s) = Len(t)
                  /\ \A x \in Items : Cardinality({i \in DOMAIN s : s[i] = x})
                                        = Cardinality({i \in DOMAIN t : t[i] = x})
Survivors(numerator) == LET n == (Len(list) * numerator) \div 2 IN IF n < 1 THEN 1 ELSE n
walia_evolve_select(numerator) ==
  /\ list # <<>>
  /\ \E sorted \in [DOMAIN list -> Items] :
       /\ Sorted(sorted) /\ Permuted(sorted, list)
       /\ list' = SubSeq(sorted, 1, Survivors(numerator))
       /\ dropped' = dropped \o SubSeq(sorted, Survivors(numerator) + 1, Len(sorted))
  /\ disturbed' = TRUE
  /\ UNCHANGED <<index, yielded, stream>>

\* The checkpoint comes before the test for the end, so it is never reached while
\* Limit < BatchSize; a stream hands out nil whatever its source.
walia_stream_next ==
  LET read == stream.totalRead + 1
  IN  /\ ~stream.isClosed
      /\ stream' = [totalRead |-> read, isClosed |-> read > Limit,
                    checkpoints |-> stream.checkpoints + (IF read % BatchSize = 0 THEN 1 ELSE 0)]
      /\ UNCHANGED <<list, index, yielded, dropped, disturbed>>

ListNext == \/ \E item \in Items : \/ walia_list_add(item)
                                   \/ \E i \in 1 .. MaxList : walia_list_set(i, item)
            \/ listIteratorNext \/ walia_stream_next
            \/ \E numerator \in 0 .. 2 : walia_evolve_select(numerator)

\* While the list only grows, an iterator returns its elements in order, those added
\* after it started included, and never one past the end.
IterationExact == ~disturbed => /\ index <= Len(list)
                                /\ yielded = SubSeq(list, 1, index)

-----------------------------------------------------------------------------
(* Genomes: vm_gene.c and walia_evolve_breed, with alleles in steps of a jitter. *)
VARIABLE genomes    \* schema, generation and alleles of each individual

\* walia_gene_new and walia_gene_add_trait: two schemas with ranges min .. max.
Schemas == {"g", "h"}
Range_(schema, allele) == CASE schema = "g" -> IF allele = 1 THEN 0 .. 2 ELSE 1 .. 3
                            [] OTHER -> 2 .. 3

GenomeInit == genomes = <<>>

\* walia_genome_spawn: any value of every range.
walia_genome_spawn(schema) ==
  \E alleles \in [1 .. 2 -> 0 .. 3] :
    /\ \A i \in 1 .. 2 : alleles[i] \in Range_(schema, i)
    /\ genomes' = Append(genomes, [schema |-> schema, generation |-> 0, alleles |-> alleles])

Clamped(x, schema, i) ==
  IF x \in Range_(schema, i) THEN x
  ELSE CHOOSE y \in Range_(schema, i) : \A z \in Range_(schema, i) : IF x > y THEN z <= y ELSE y <= z

\* Parents of one schema only: every allele comes from one of them (crossover_simd),
\* and may move by a jitter, which is clamped to the range.
walia_evolve_breed(p, q) ==
  LET schema == genomes[p].schema
      later == IF genomes[p].generation > genomes[q].generation THEN p ELSE q
  IN  /\ genomes[q].schema = schema
      /\ \E mother \in SUBSET (1 .. 2), jitter \in [1 .. 2 -> -1 .. 1] :
           genomes' = Append(genomes,
             [schema |-> schema, generation |-> genomes[later].generation + 1,
              alleles |-> [i \in 1 .. 2 |->
                Clamped(genomes[IF i \in mother THEN p ELSE q].alleles[i] + jitter[i], schema, i)]])

GenomeNext == /\ Len(genomes) < MaxGenomes
              /\ \/ \E schema \in Schemas : walia_genome_spawn(schema)
                 \/ \E p, q \in DOMAIN genomes : walia_evolve_breed(p, q)

\* However often individuals are bred with each other, every allele stays in its
\* range, and a child is one generation after a parent of its schema.
BredWithinRanges ==
  \A n \in DOMAIN genomes :
    /\ \A i \in 1 .. 2 : genomes[n].alleles[i] \in Range_(genomes[n].schema, i)
    /\ genomes[n].generation > 0 =>
         \E m \in 1 .. n - 1 : /\ genomes[m].schema = genomes[n].schema
                               /\ genomes[m].generation = genomes[n].generation - 1

-----------------------------------------------------------------------------
(* Entangled registers: vm_entangle.c and vm_ripple.c. *)
VARIABLES entangled,  \* sinkMap: registers with a thunk
          mask,       \* dependencyMask
          calls,      \* walia_ripple_trigger on the C stack: what each has left to look at
          pulsed,     \* per sink: how often its thunk ran for the write under way (history)
          writes

rippleVars == <<entangled, mask, calls, pulsed, writes>>

Registers_ == Sinks \cup Operands

\* walia_entangle_init
RippleInit == /\ entangled = {} /\ mask = {} /\ calls = <<>> /\ writes = 0
              /\ pulsed = [r \in Registers_ |-> 0]

\* OP_ENTANGLE and walia_entangle_register: a sink's earlier entry is replaced.
walia_entangle_register(sink) ==
  /\ calls = <<>>
  /\ entangled' = entangled \cup {sink} /\ mask' = mask \cup Operands
  /\ pulsed' = [r \in Registers_ |-> 0]
  /\ UNCHANGED <<calls, writes>>

\* TRIGGER_RIPPLE after an instruction that wrote the register.
Write(reg) == /\ calls = <<>> /\ reg \in mask /\ writes < MaxWrites
              /\ writes' = writes + 1
              /\ calls' = <<[source |-> reg, left |-> entangled]>>
              /\ pulsed' = [r \in Registers_ |-> 0]
              /\ UNCHANGED <<entangled, mask>>

Innermost == calls[Len(calls)]

\* The entry is done with, the rest of the table is still to come.
Rest(call, sink) == [call EXCEPT !.left = @ \ {sink}]

\* walia_ripple_trigger meets an affected sink: its thunk runs (a pulse, no code) and
\* the sink is triggered in turn. The table has some order; any is allowed here.
Propagate(sink) ==
  /\ calls # <<>> /\ Len(calls) < MaxDepth
  /\ sink \in Innermost.left
  /\ Innermost.source \in Operands                    \* isAffected
  /\ pulsed' = [pulsed EXCEPT ![sink] = @ + 1]
  /\ LET outer == [calls EXCEPT ![Len(calls)] = Rest(Innermost, sink)]
     IN  calls' = IF sink \in mask THEN Append(outer, [source |-> sink, left |-> entangled]) ELSE outer
  /\ UNCHANGED <<entangled, mask, writes>>

ReturnTrigger == /\ calls # <<>> /\ Innermost.left = {}
                 /\ calls' = SubSeq(calls, 1, Len(calls) - 1)
                 /\ UNCHANGED <<entangled, mask, pulsed, writes>>

RippleNext == \/ \E sink \in Sinks : walia_entangle_register(sink) \/ Propagate(sink)
              \/ \E reg \in Registers_ : Write(reg)
              \/ ReturnTrigger

\* When no source register is itself a sink, a write tells every entangled register
\* exactly once before the next instruction. (A sink among the sources is triggered
\* again from within its own trigger, without end.)
RipplesExact ==
  entangled \cap Operands = {} =>
    /\ Len(calls) <= 1
    /\ calls = <<>> /\ writes > 0 =>
         \/ \A r \in Registers_ : pulsed[r] = 0      \* registered since
         \/ \A r \in Registers_ : pulsed[r] = IF r \in entangled THEN 1 ELSE 0

-----------------------------------------------------------------------------
(* vm_shape.c: the tree of shapes that properties added one by one lead to. *)
VARIABLES shapes,     \* all shapes: propertyName, offset, transitions
          objectShape,\* the shape of an object and the properties it was given (history)
          refusedShape

shapeVars == <<shapes, objectShape, refusedShape>>

NoName == "no name"
NewShape(name, offset) == [propertyName |-> name, offset |-> offset, transitions |-> <<>>]

Instances == {"o1", "o2", "o3"}

\* vm_shape_new_root; all objects start at the root
ShapeInit == /\ shapes = <<NewShape(NoName, 0)>> /\ refusedShape = FALSE
             /\ objectShape = [o \in Instances |-> [shape |-> 1, given |-> <<>>]]

TransitionsBy(s, name) == {i \in DOMAIN shapes[s].transitions : shapes[s].transitions[i].key = name}

\* The shape that this name already leads to.
Found(s, name) == {shapes[s].transitions[i].next : i \in TransitionsBy(s, name)}

vm_shape_transition(o, name) ==
  LET s == objectShape[o].shape
      next == Len(shapes) + 1
  IN  /\ \A i \in DOMAIN objectShape[o].given : objectShape[o].given[i] # name
      /\ IF Found(s, name) # {}
         THEN /\ objectShape' = [objectShape EXCEPT ![o] = [shape |-> CHOOSE t \in Found(s, name) : TRUE,
                                                   given |-> Append(@.given, name)]]
              /\ UNCHANGED <<shapes, refusedShape>>
         ELSE IF Len(shapes[s].transitions) >= MaxTransitions
         THEN refusedShape' = TRUE /\ UNCHANGED <<shapes, objectShape>>
         ELSE /\ shapes' = Append([shapes EXCEPT ![s].transitions = Append(@, [key |-> name, next |-> next])],
                                  NewShape(name, shapes[s].offset + 1))
              /\ objectShape' = [objectShape EXCEPT ![o] = [shape |-> next, given |-> Append(@.given, name)]]
              /\ UNCHANGED refusedShape

\* vm_shape_find_property looks at the last property only.
vm_shape_find_property(s, name) ==
  IF shapes[s].propertyName = name THEN shapes[s].offset ELSE 0

ShapeNext == \E o \in Instances, name \in Names : vm_shape_transition(o, name)

\* Two objects have the same shape exactly when they were given the same properties
\* in the same order; the property found in a shape is at its place in that order.
ShapesExact ==
  /\ \A o, p \in Instances : objectShape[o].shape = objectShape[p].shape
                                  <=> objectShape[o].given = objectShape[p].given
  /\ \A o \in Instances, name \in Names :
       vm_shape_find_property(objectShape[o].shape, name) \in
         {0} \cup {i \in DOMAIN objectShape[o].given : objectShape[o].given[i] = name}

-----------------------------------------------------------------------------
(* web_proxy.c, behind lib_reactive.c and vm_traps.c: a proxy marks the cards of those *)
(* who observe it. A card stands for one object here.                              *)
VARIABLES proxy,     \* its target's kind, subscribers and subCapacity
          fields,    \* the fields of the target
          dirtyCards,
          observing, \* who ever observed (history)
          concerned  \* those who observed when a value was set since the last paint (history)

proxyVars == <<proxy, fields, dirtyCards, observing, concerned>>

Observers == Elements \cup {"proxy"}
NoFields == [n \in {} |-> 0]

\* walia_native_proxy_new, walia_proxy_new: around an instance or any other value
ProxyInit == /\ proxy \in [target : {"instance", "value"}, subscribers : {<<>>}, subCapacity : {4}]
             /\ fields = NoFields /\ dirtyCards = {"proxy"} /\ observing = {} /\ concerned = {}

\* GROW_CAPACITY
Grown(capacity) == IF capacity < 8 THEN 8 ELSE capacity * 2

\* walia_native_observe takes any object tagged OBJ_NATIVE, another time too, the proxy
\* itself included; the array grows in walia_proxy_subscribe.
walia_native_observe(e) ==
  /\ Len(proxy.subscribers) < MaxObserved
  /\ proxy' = [proxy EXCEPT !.subscribers = Append(@, e),
                            !.subCapacity = IF Len(proxy.subscribers) >= @ THEN Grown(@) ELSE @]
  /\ dirtyCards' = dirtyCards \cup {"proxy"}
  /\ observing' = observing \cup {e}
  /\ UNCHANGED <<fields, concerned>>

\* vm_trap_set_property: the target's field, then everyone's card, then its own
walia_proxy_set(name, value) ==
  /\ proxy.target = "instance"
  /\ fields' = [n \in DOMAIN fields \cup {name} |-> IF n = name THEN value ELSE fields[n]]
  /\ dirtyCards' = dirtyCards \cup {proxy.subscribers[i] : i \in DOMAIN proxy.subscribers} \cup {"instance"}
  /\ concerned' = concerned \cup observing
  /\ UNCHANGED <<proxy, observing>>

\* The surface was painted: db_raster_process_surface ends with clearCards.
ClearCards == dirtyCards # {} /\ dirtyCards' = {} /\ concerned' = {}
              /\ UNCHANGED <<proxy, fields, observing>>

ProxyNext == \/ \E e \in Observers : walia_native_observe(e)
             \/ \E name \in Names, value \in Items : walia_proxy_set(name, value)
             \/ ClearCards

\* Whoever observed a proxy before a value was set is dirty until the next paint, however
\* the array grew and however often they observed, and nobody else is.
BindingsExact ==
  /\ concerned \subseteq dirtyCards
  /\ dirtyCards \subseteq concerned \cup {"proxy", "instance"}
  /\ Len(proxy.subscribers) <= proxy.subCapacity
=============================================================================
