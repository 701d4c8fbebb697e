------------------------------ MODULE Tensors ------------------------------
(***************************************************************************)
(* Tensors: their creation and views (lib/lib_tensor_core.c), broadcasting  *)
(* (db/db_tensor_broadcast.c) and the kernels of db/db_tensor_math.c.       *)
(*                                                                         *)
(* An element is known by the buffer and the byte it starts at, so that a   *)
(* sum is the pair of the elements that were added.                        *)
(***************************************************************************)
EXTENDS Integers, Sequences, FiniteSets, SequencesExt, FiniteSetsExt

CONSTANTS Shapes,    \* bound: shapes of tensors, sequences of positive numbers
          MaxRank,   \* WLD_TENSOR_MAX_RANK
          Float,     \* sizeof(float)
          Tile,      \* TILE_SIZE
          MaxTensors \* bound: tensors and views in memory

ASSUME TensorsAssumption ==
  /\ \A s \in Shapes : s \in Seq(Nat \ {0})
  /\ MaxRank \in Nat \ {0} /\ Float \in Nat \ {0} /\ Tile \in Nat \ {0}

VARIABLES tensors, \* [buffer, shape, strides, isOwner], in the order they came
          sums     \* what the last addition wrote: [a, b, res, cells]

tensorVars == <<tensors, sums>>

TensorsInit == tensors = <<>> /\ sums = [cells |-> <<>>]

Elements(shape) == FoldLeft(LAMBDA n, d : n * d, 1, shape)
Indices(shape) == {x \in [DOMAIN shape -> 0 .. Max(ToSet(shape) \union {0})] :
                     \A d \in DOMAIN shape : x[d] < shape[d]}

\* compute_row_major_strides: the product of the dimensions behind
compute_row_major_strides(shape) ==
  [d \in DOMAIN shape |-> Float * Elements(SubSeq(shape, d + 1, Len(shape)))]

\* walia_tensor_at: bytes from the start of the buffer
At(strides, x) == SumFunctionOnSet([d \in DOMAIN strides |-> x[d] * strides[d]], DOMAIN strides)
walia_tensor_at(t, x) == At(t.strides, x)

Add(t) == Len(tensors) < MaxTensors /\ tensors' = Append(tensors, t) /\ UNCHANGED sums

walia_tensor_new(shape) ==
  /\ Len(shape) <= MaxRank
  /\ Add([buffer |-> Len(tensors) + 1, shape |-> shape, isOwner |-> TRUE,
          strides |-> compute_row_major_strides(shape)])

Swapped(s, d, e) == [s EXCEPT ![d] = s[e], ![e] = s[d]]
walia_tensor_transpose(t, d, e) ==
  /\ d \in DOMAIN t.shape /\ e \in DOMAIN t.shape
  /\ Add([t EXCEPT !.isOwner = FALSE, !.shape = Swapped(@, d, e),
                   !.strides = Swapped(@, d, e)])

\* The strides of a reshaped view are those of a new tensor, also if the source is
\* a transposed view: the elements come in the order of the buffer.
walia_tensor_reshape(t, shape) ==
  /\ Elements(shape) = Elements(t.shape)
  /\ Add([t EXCEPT !.isOwner = FALSE, !.shape = shape,
                   !.strides = compute_row_major_strides(shape)])

-----------------------------------------------------------------------------
\* Dimension d of a result of the given rank, as a tensor of a smaller rank has it.
Aligned(shape, rank, d) == d - (rank - Len(shape))
Extent(shape, rank, d) == IF Aligned(shape, rank, d) >= 1 THEN shape[Aligned(shape, rank, d)] ELSE 1

\* db_tensor_can_broadcast, and db_tensor_reconcile_broadcast, which is the same: the
\* shape of the result, or nothing.
Rank(a, b) == Max({Len(a.shape), Len(b.shape)})
Reconciles(a, b) ==
  \A d \in 1 .. Rank(a, b) :
    LET m == Extent(a.shape, Rank(a, b), d)
        n == Extent(b.shape, Rank(a, b), d)
    IN  m = n \/ m = 1 \/ n = 1
OutShape(a, b) ==
  [d \in 1 .. Rank(a, b) |->
     LET m == Extent(a.shape, Rank(a, b), d)
         n == Extent(b.shape, Rank(a, b), d)
     IN  IF m = n THEN m ELSE IF m = 1 THEN n ELSE m]

\* mutant: dimensions are aligned at the left
NormStridesLeft(t, rank) ==
  [d \in 1 .. rank |->
     IF d <= Len(t.shape) THEN (IF t.shape[d] # 1 THEN t.strides[d] ELSE 0) ELSE 0]

\* The strides db_tensor_add_fused walks an operand with ...
NormStrides(t, rank) ==
  [d \in 1 .. rank |->
     IF Aligned(t.shape, rank, d) >= 1 /\ Extent(t.shape, rank, d) # 1
     THEN t.strides[Aligned(t.shape, rank, d)] ELSE 0]

\* ... and those of db_tensor_get_broadcast_view, where a dimension that differs
\* from the target's is not walked, whatever it is.
db_tensor_get_broadcast_view(t, target) ==
  [d \in DOMAIN target |->
     IF Aligned(t.shape, Len(target), d) >= 1 /\ Extent(t.shape, Len(target), d) = target[d]
     THEN t.strides[Aligned(t.shape, Len(target), d)] ELSE 0]

\* db_tensor_add_fused and tensor_op_recursive. The last dimension is walked by
\* index if all strides there are a float's, by strides otherwise: the same bytes.
Cells(a, b, r) ==
  [x \in Indices(OutShape(a, b)) |->
     [to |-> At(r.strides, x), a |-> At(NormStrides(a, Rank(a, b)), x),
      b |-> At(NormStrides(b, Rank(a, b)), x)]]
db_tensor_add_fused(a, b, r) ==
  /\ IF Reconciles(a, b)
     THEN /\ r.shape = OutShape(a, b)
          /\ sums' = [a |-> a, b |-> b, res |-> r, cells |-> Cells(a, b, r)]
     ELSE UNCHANGED sums
  /\ UNCHANGED tensors

TensorsNext ==
  \/ \E s \in Shapes : walia_tensor_new(s)
  \/ \E t \in ToSet(tensors) :
       \/ \E d, e \in 1 .. MaxRank : d < e /\ walia_tensor_transpose(t, d, e)
       \/ \E s \in Shapes : walia_tensor_reshape(t, s)
  \/ \E a, b, r \in ToSet(tensors) : r.isOwner /\ db_tensor_add_fused(a, b, r)

-----------------------------------------------------------------------------
\* db_tensor_matmul: the products that are summed up for the row ii and the column
\* jj, tile after tile: offsets in floats. The strides are bytes, but the pointers
\* they are added to are floats; and a column is read as if it lay in one piece.
Products(a, b, ii, jj) ==
  LET K == a.shape[2]
      tiles == [n \in 1 .. (K + Tile - 1) \div Tile |-> (n - 1) * Tile]
      Of(k) == [n \in 1 .. (IF k + Tile > K THEN K - k ELSE Tile) |->
                  <<ii * a.strides[1] + k * a.strides[2] + n - 1,
                    k * b.strides[1] + jj * b.strides[2] + n - 1>>]
  IN  FlattenSeq([n \in DOMAIN tiles |-> Of(tiles[n])])

\* What a view of source elements means: the element of a tensor at an index of the
\* result, by the rule that a dimension of one is repeated.
Meant(t, x) ==
  walia_tensor_at(t, [d \in DOMAIN t.shape |->
                        IF t.shape[d] = 1 THEN 0 ELSE x[d + Len(x) - Len(t.shape)]])

\* However views were made of views: a tensor reaches every element of its buffer
\* once; an addition writes every element of the result once, with the elements of
\* both operands that the broadcasting rule names, where the views of
\* get_broadcast_view name the same; and the shape does not depend on the order of
\* the operands.
TensorsAddress ==
  /\ \A t \in ToSet(tensors) :
       {walia_tensor_at(t, x) : x \in Indices(t.shape)} =
         {Float * n : n \in 0 .. Elements(t.shape) - 1}
  /\ sums.cells # <<>> =>
       LET a == sums.a  b == sums.b  cells == sums.cells
       IN  /\ {cells[x].to : x \in DOMAIN cells} =
                {Float * n : n \in 0 .. Elements(sums.res.shape) - 1}
           /\ \A x \in DOMAIN cells :
                /\ cells[x].a = Meant(a, x) /\ cells[x].b = Meant(b, x)
                /\ cells[x].a = At(db_tensor_get_broadcast_view(a, OutShape(a, b)), x)
           /\ Reconciles(b, a) /\ OutShape(b, a) = OutShape(a, b)
  /\ \A a, b \in ToSet(tensors) :
       Len(a.shape) = 2 /\ Len(b.shape) = 2 /\ a.shape[2] = b.shape[1] =>
         \A ii \in 0 .. a.shape[1] - 1, jj \in 0 .. b.shape[2] - 1 :
           Len(Products(a, b, ii, jj)) = a.shape[2]
=============================================================================
