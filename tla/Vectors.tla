------------------------------ MODULE Vectors ------------------------------
(***************************************************************************)
(* Vectors of WaliaDB and the search for their neighbours: the index of    *)
(* db/db_hnsw.c with the natives of lib/lib_vector.c, the quantization of   *)
(* db/db_quantize.c, the choice of a branch (db/db_vector_match.c) and the *)
(* loops of db/db_vector_math.c.                                          *)
(*                                                                         *)
(* A vector is the page it starts on; the node of a vector is on the page   *)
(* behind it, by convention.  No function links nodes: the neighbours are   *)
(* whatever these pages hold, graph.  The similarity of two vectors is a    *)
(* number nobody computes before: db_vector_new leaves the magnitude as it  *)
(* finds it.  Components of vectors are whole numbers.                     *)
(***************************************************************************)
EXTENDS Integers, Sequences, FiniteSets, SequencesExt, FiniteSetsExt

CONSTANTS Pages,       \* the pages vectors start on: every other number
          NilPage,     \* WLD_INVALID_PAGE
          Graphs,      \* bound: functions from levels and pages to sequences of pages
          Similarities, \* bound: functions from pages to numbers
          Levels,      \* WLD_HNSW_MAX_LEVELS
          MaxVectors,  \* bound: how many vectors are inserted
          Codes,       \* the greatest code of a quantized component: 255
          Lanes,       \* the numbers one instruction takes: 16, 8, 4, or 1
          MaxPins,     \* bound: pins that are not given back
          MaxDims, Components \* bound: the vectors, and the numbers they are set to

ASSUME VectorsAssumption ==
  Levels \in Nat \ {0} /\ Codes \in Nat \ {0} /\ Lanes \in Nat \ {0} /\ MaxPins \in Nat

VARIABLES entryPoint, maxLevel, totalNodes, \* the index page
          graph, similarity,
          pins,      \* pins that were taken and not given back, by page
          search,    \* the running search, or the last one
          inserted,  \* the vectors that were inserted, with their levels (history)
          vectors    \* two vectors in memory, sequences of components

indexPage == <<entryPoint, maxLevel, totalNodes>>
searchVars == <<indexPage, graph, similarity, pins, search, inserted>>
vectorVars == <<searchVars, vectors>>

NoSearch == [phase |-> "none", level |-> 0, at |-> NilPage, from |-> NilPage, moves |-> 0]

\* db_hnsw_create
VectorsInit == /\ entryPoint = NilPage /\ maxLevel = -1 /\ totalNodes = 0
               /\ graph \in Graphs /\ similarity \in Similarities
               /\ pins = [p \in {q + 1 : q \in Pages} |-> 0]
               /\ search = NoSearch /\ inserted = <<>>
               /\ vectors \in [1 .. 2 -> {<<0>>, <<0, 0>>}]

Idle == search.phase # "layer" /\ SumFunction(pins) <= MaxPins

\* db_hnsw_insert: the level is drawn; nothing but the index page is written.
db_hnsw_insert(page, level) ==
  /\ Idle /\ Len(inserted) < MaxVectors
  /\ maxLevel' = IF level > maxLevel THEN level ELSE maxLevel
  /\ entryPoint' = IF level > maxLevel THEN page ELSE entryPoint
  /\ totalNodes' = totalNodes + 1
  /\ inserted' = Append(inserted, <<page, level>>)
  /\ UNCHANGED <<graph, similarity, pins, search>>

\* db_hnsw_search, up to the first layer
db_hnsw_search ==
  /\ Idle
  /\ search' = IF entryPoint = NilPage THEN [NoSearch EXCEPT !.phase = "nil"]
               ELSE [phase |-> "layer", level |-> maxLevel, at |-> entryPoint,
                     from |-> entryPoint, moves |-> 0]
  /\ UNCHANGED <<indexPage, graph, similarity, pins, inserted>>

\* One pass over the neighbours of a node: the best of them, if it is better.
Better(p, q) == IF similarity[q] > similarity[p] THEN q ELSE p

Climbed(p, level) == FoldLeft(Better, p, graph[level][p])

\* One round of search_layer. It pins the node of the vector it is at, and gives
\* back a pin of the node of the one it comes to; giving back what was not taken is
\* no error.
Released(ps, page) == [ps EXCEPT ![page] = IF @ > 0 THEN @ - 1 ELSE 0]
search_layer ==
  /\ search.phase = "layer"
  /\ LET to == Climbed(search.at, search.level)
     IN  /\ pins' = Released([pins EXCEPT ![search.at + 1] = @ + 1], to + 1)
         /\ search' =
              IF to # search.at THEN [search EXCEPT !.at = to, !.moves = @ + 1]
              ELSE IF search.level > 0 THEN [search EXCEPT !.level = @ - 1]
              ELSE [search EXCEPT !.phase = "done"]
  /\ UNCHANGED <<indexPage, graph, similarity, inserted>>

SearchNext == /\ \/ \E p \in Pages, l \in 0 .. Levels - 1 : db_hnsw_insert(p, l)
                 \/ db_hnsw_search \/ search_layer
              /\ UNCHANGED vectors

-----------------------------------------------------------------------------
(* Quantization *)
Span(xs) == LET range == Max(ToSet(xs)) - Min(ToSet(xs)) IN IF range = 0 THEN 1 ELSE range

db_vector_quantize_sq8(xs) ==
  [min |-> Min(ToSet(xs)), max |-> Max(ToSet(xs)),
   payload |-> [i \in DOMAIN xs |-> ((xs[i] - Min(ToSet(xs))) * Codes) \div Span(xs)]]

\* db_vector_distance_adc: the components it compares the query with, times Codes
Restored(q) == [i \in DOMAIN q.payload |-> q.min * Codes + q.payload[i] * (q.max - q.min)]
SquareSum(xs) == FoldLeft(LAMBDA s, x : s + x * x, 0, xs)
db_vector_distance_adc(xs, q) == SquareSum([i \in DOMAIN xs |-> xs[i] * Codes - Restored(q)[i]])

(* db_vector_match_best: patterns are [dims, similarity], in percent *)
db_vector_match_best(dims, branches) ==
  LET Best(best, i) ==
        IF branches[i].dims = dims /\ branches[i].similarity > best.similarity
        THEN [at |-> i, similarity |-> branches[i].similarity] ELSE best
      best == FoldLeft(Best, [at |-> 0, similarity |-> -200], [i \in DOMAIN branches |-> i])
  IN  IF best.similarity < 80 THEN 0 ELSE best.at

(* A loop over Lanes components at a time and the rest one by one. The bound is an *)
(* unsigned difference: with fewer components than lanes it runs on behind both.   *)
Blocks(count) == IF count >= Lanes THEN count \div Lanes ELSE 0
Overruns(count) == count < Lanes /\ Lanes > 1
Lane(xs, l) == {i \in 1 .. Blocks(Len(xs)) * Lanes : i % Lanes = l}
Remaining(xs) == Blocks(Len(xs)) * Lanes + 1 .. Len(xs)
LanesSum(f) == \* as the lanes are added up, and then the rest
  SumFunctionOnSet([l \in 0 .. Lanes - 1 |-> SumFunctionOnSet(f, Lane(f, l))], 0 .. Lanes - 1)
    + SumFunctionOnSet(f, Remaining(f))
db_vector_dot_product(xs, ys) == LanesSum([i \in DOMAIN xs |-> xs[i] * ys[i]])
db_vector_euclidean_dist_sq(xs, ys) ==
  LanesSum([i \in DOMAIN xs |-> (xs[i] - ys[i]) * (xs[i] - ys[i])])

-----------------------------------------------------------------------------
\* walia_vector_new and db_vector_set: an index behind the vector is not set.
db_vector_new(v, dims) == vectors' = [vectors EXCEPT ![v] = [i \in 1 .. dims |-> 0]]
db_vector_set(v, i, x) == vectors' = [vectors EXCEPT ![v] =
                                        IF i \in DOMAIN @ THEN [@ EXCEPT ![i] = x] ELSE @]
VectorNext == /\ \E v \in 1 .. 2 :
                   \/ \E dims \in 1 .. MaxDims : db_vector_new(v, dims)
                   \/ \E i \in 1 .. MaxDims + 1, x \in Components : db_vector_set(v, i, x)
              /\ UNCHANGED searchVars

-----------------------------------------------------------------------------
\* A search comes from the first vector on the highest level to one that no
\* neighbour on the lowest level beats and that is no worse than where it started;
\* but a search that moved at all leaves a node pinned.
SearchClimbs ==
  /\ totalNodes = Len(inserted)
  /\ inserted # <<>> =>
       LET top == Max({inserted[i][2] : i \in DOMAIN inserted})
           first == SelectInSeq(inserted, LAMBDA v : v[2] = top)
       IN  entryPoint = inserted[first][1] /\ maxLevel = top
  /\ search.phase = "done" =>
       /\ similarity[search.at] >= similarity[search.from]
       /\ \A q \in ToSet(graph[0][search.at]) : similarity[q] <= similarity[search.at]
  /\ search.phase # "none" /\ SumFunction(pins) = 0 => search.at = search.from

\* Every component is restored from its code to less than a step below it, whatever
\* the range and also when all are equal, so the distance of a vector to its own
\* quantization is less than a step in each dimension; and the sums of products and
\* squares take every component once, with any number of lanes, unless there are
\* fewer components than lanes. Of branches (their sizes and similarities are taken
\* from the two vectors) the first of the most similar ones is matched, if it is
\* similar enough.
VectorsExact ==
  \A x, y \in {vectors[1], vectors[2]} :
    LET q == db_vector_quantize_sq8(x)
        step == q.max - q.min
    IN  /\ \A i \in DOMAIN x :
             /\ q.payload[i] \in 0 .. Codes
             /\ x[i] * Codes - Restored(q)[i] \in 0 .. (IF step = 0 THEN 0 ELSE step - 1)
        /\ db_vector_distance_adc(x, q) <= Len(x) * step * step
        /\ Len(x) = Len(y) /\ ~Overruns(Len(x)) =>
             /\ db_vector_dot_product(x, y) = SumFunction([i \in DOMAIN x |-> x[i] * y[i]])
             /\ db_vector_euclidean_dist_sq(x, y) =
                  db_vector_dot_product(x, x) - 2 * db_vector_dot_product(x, y)
                    + db_vector_dot_product(y, y)
        /\ Len(x) = Len(y) =>
             LET branches == [i \in DOMAIN x |-> [dims |-> y[i], similarity |-> 30 * x[i]]]
                 matched == db_vector_match_best(1, branches)
                 near == {i \in DOMAIN x : y[i] = 1 /\ 30 * x[i] >= 80}
             IN  IF near = {} THEN matched = 0
                 ELSE /\ matched \in near
                      /\ \A i \in near : x[i] < x[matched] \/ (x[i] = x[matched] /\ i >= matched)
=============================================================================
