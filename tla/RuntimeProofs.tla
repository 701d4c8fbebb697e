---------------------------- MODULE RuntimeProofs ----------------------------
(***************************************************************************)
(* Proofs about what a running program leans on: captured variables stay    *)
(* shared and handlers nest as the frames do; the arena, the collector,     *)
(* futures, timers and the event loop. For any number and size of them.     *)
(***************************************************************************)
EXTENDS MCRuntime, Searches, FiniteSetTheorems, SequenceTheorems

-----------------------------------------------------------------------------
(* Frames, captured variables and handlers. The operators take the frames F,  *)
(* the upvalues U, the open ones O, the stack S, the variables V and the      *)
(* closures C as parameters.                                                  *)

IsCell(x) == DOMAIN x = {"location", "closed", "of"}
Contents(x, S) == IF x.location = Closed THEN x.closed ELSE S[x.location]

\* A frame has its registers on the stack, and its id names its place among the frames.
FrameWell(f, i, n, C) ==
  /\ f.slots \in Nat /\ f.slots + Registers <= StackMax
  /\ f.returnToReg \in 0 .. Registers - 1 /\ f.closure \in 0 .. Len(C)
  /\ f.id = <<i - 1, f.id[2]>> /\ f.id[2] \in Nat /\ f.id[2] <= n
FramesWell(F, n, C) ==
  /\ IsSeq(F)
  /\ \A i \in DOMAIN F : FrameWell(F[i], i, n, C)
  /\ \A i, j \in DOMAIN F : i < j => F[i].slots < F[j].slots

\* Each captured variable has one upvalue, and each closure an upvalue that exists.
CellsWell(U, V, C) ==
  /\ IsSeq(U) /\ IsSeq(C) /\ \A c \in DOMAIN C : C[c][1] \in DOMAIN U
  /\ V = [v \in DOMAIN V |-> V[v]] /\ IsFiniteSet(DOMAIN V)
  /\ DOMAIN V = {U[u].of : u \in DOMAIN U}
  /\ \A u \in DOMAIN U : /\ IsCell(U[u])
                         /\ U[u].of[1][2] \in Nat /\ U[u].of[1][2] < Cardinality(DOMAIN V)
  /\ \A u, w \in DOMAIN U : U[u].of = U[w].of => u = w

\* An open upvalue points into the registers its frame has to itself; the frame of a
\* closed one is gone.
Owns(F, x, i) ==
  \E r \in 0 .. Registers - 1 : /\ x.location = F[i].slots + r /\ x.of = <<F[i].id, r>>
                                /\ i < Len(F) => x.location < F[i + 1].slots
CellOwned(F, x) == IF x.location = Closed THEN \A i \in DOMAIN F : F[i].id # x.of[1]
                   ELSE \E i \in DOMAIN F : Owns(F, x, i)
Owned(F, U) == \A u \in DOMAIN U : CellOwned(F, U[u])

\* The list of the open ones has each of them, from the highest location down.
Listing(U, O) ==
  /\ IsSeq(O)
  /\ \A k \in DOMAIN O : O[k] \in DOMAIN U /\ U[O[k]].location # Closed
  /\ \A u \in DOMAIN U : U[u].location # Closed => \E k \in DOMAIN O : O[k] = u
  /\ \A j, k \in DOMAIN O : j < k => U[O[k]].location < U[O[j]].location

Agree(U, S, V) == \A u \in DOMAIN U : Contents(U[u], S) = V[U[u].of]

Sharing(F, U, O, S, V, C) ==
  /\ FramesWell(F, Cardinality(DOMAIN V), C) /\ CellsWell(U, V, C)
  /\ Owned(F, U) /\ Listing(U, O)
  /\ DOMAIN S = 0 .. StackMax - 1 /\ Agree(U, S, V)

ClosureInv == ~strayed => Sharing(frames, upvalues, open, stack, variables, closures)

Nesting(F, H, K) ==
  /\ IsSeq(F) /\ IsSeq(H) /\ IsSeq(K)
  /\ \A i \in DOMAIN H : /\ H[i].frameIndex \in 1 .. Len(F)
                         /\ H[i].stackBase = F[H[i].frameIndex].slots
                         /\ \A j \in 1 .. i : H[j].frameIndex <= H[i].frameIndex

EffectInv ==
  /\ DOMAIN upvalues = {}
  /\ ~strayed => Nesting(frames, handlers, continuation.frames)

\* The search down the open upvalues stops somewhere.
Splits(U, O, n, location) ==
  /\ n \in 0 .. Len(O)
  /\ \A k \in 1 .. n : U[O[k]].location >= location
  /\ n < Len(O) => U[O[n + 1]].location < location

LEMMA ReachingIs ==
  ASSUME NEW location, IsSeq(open),
         \A k \in DOMAIN open : upvalues[open[k]].location \in Int, location \in Int
  PROVE  Splits(upvalues, open, Reaching(location), location)
<1> DEFINE L(k) == upvalues[open[k]].location
           stops == {n \in 0 .. Len(open) : n < Len(open) => L(n + 1) < location}
           n == FirstOf(stops)
<1>1. Len(open) \in Nat /\ DOMAIN open = 1 .. Len(open)
  BY SeqFacts
<1>2. n \in stops /\ \A m \in stops : n <= m
  <2>1. stops \in SUBSET Nat /\ Len(open) \in stops
    BY <1>1
  <2> HIDE DEF stops
  <2> QED BY <2>1, LeastElement
<1>3. \A k \in 1 .. n : L(k) >= location
  <2> SUFFICES ASSUME NEW k \in 1 .. n PROVE L(k) >= location
    OBVIOUS
  <2>1. k - 1 \in 0 .. Len(open) /\ k \in DOMAIN open /\ k - 1 < n
    BY <1>1, <1>2
  <2>2. k - 1 \notin stops
    BY <1>2, <2>1
  <2>3. k - 1 < Len(open) /\ ~ L(k - 1 + 1) < location
    BY <2>1, <2>2
  <2>4. k - 1 + 1 = k /\ L(k) \in Int
    BY <2>1
  <2> QED BY <2>3, <2>4
<1>4. n \in 0 .. Len(open) /\ (n < Len(open) => L(n + 1) < location)
  BY <1>2
<1> HIDE DEF n, stops
<1>5. \E m \in 0 .. Len(open) : /\ \A k \in 1 .. m : L(k) >= location
                                /\ m < Len(open) => L(m + 1) < location
  BY <1>3, <1>4
<1> QED BY <1>5 DEF Reaching, Splits

\* What the parts say of one upvalue or one frame.
LEMMA CellFacts ==
  ASSUME NEW F, NEW U, NEW O, NEW S, NEW V, NEW C, Sharing(F, U, O, S, V, C), NEW u \in DOMAIN U,
         U[u].location # Closed
  PROVE  \E i \in DOMAIN F : Owns(F, U[u], i)
BY DEF Sharing, Owned, CellOwned

LEMMA OwnFacts ==
  ASSUME NEW F, NEW n, NEW C, FramesWell(F, n, C), NEW x, NEW i \in DOMAIN F, Owns(F, x, i)
  PROVE  /\ x.location \in 0 .. StackMax - 1 /\ x.location # Closed
         /\ F[i].slots <= x.location /\ x.of[1] = F[i].id
<1>1. F[i].slots \in Nat /\ F[i].slots + Registers <= StackMax
  BY DEF FramesWell, FrameWell
<1>2. PICK r \in 0 .. Registers - 1 : x.location = F[i].slots + r /\ x.of = <<F[i].id, r>>
  BY DEF Owns
<1> QED BY <1>1, <1>2, MachineAssumption DEF Closed

\* An upvalue of a register of the last frame points there, and one that points there is its.
LEMMA TopOwns ==
  ASSUME NEW F, NEW n, NEW C, FramesWell(F, n, C), F # <<>>,
         NEW x, x.location # Closed, CellOwned(F, x), NEW r \in 0 .. Registers - 1
  PROVE  x.location = F[Len(F)].slots + r <=> x.of = <<F[Len(F)].id, r>>
<1> DEFINE top == Len(F)
<1>1. DOMAIN F = 1 .. top /\ top \in Nat /\ top # 0
  BY SeqFacts, EmptySeq DEF FramesWell, IsSeq
<1>2. PICK i \in DOMAIN F : Owns(F, x, i)
  BY DEF CellOwned
<1>3. PICK q \in 0 .. Registers - 1 : /\ x.location = F[i].slots + q /\ x.of = <<F[i].id, q>>
                                      /\ i < Len(F) => x.location < F[i + 1].slots
  BY <1>2 DEF Owns
<1>4. /\ F[i].slots \in Nat /\ F[top].slots \in Nat /\ top \in DOMAIN F
      /\ F[i].id[1] = i - 1 /\ F[top].id[1] = top - 1
  BY <1>1 DEF FramesWell, FrameWell
<1> HIDE DEF top
<1>5. ASSUME x.location = F[top].slots + r PROVE x.of = <<F[top].id, r>>
  <2>1. CASE i = top
    BY <2>1, <1>3, <1>4, <1>5
  <2>2. CASE i # top
    <3>1. i < top /\ i + 1 \in DOMAIN F
      BY <2>2, <1>1
    <3>2. F[i + 1].slots \in Nat /\ F[i + 1].slots <= F[top].slots
      <4>1. CASE i + 1 = top
        BY <4>1, <1>4
      <4>2. CASE i + 1 < top
        BY <4>2, <3>1, <1>4 DEF FramesWell, FrameWell
      <4> QED BY <4>1, <4>2, <3>1, <1>1
    <3>3. x.location < F[i + 1].slots
      BY <1>3, <3>1 DEF top
    <3> QED BY <3>2, <3>3, <1>4, <1>5, MachineAssumption
  <2> QED BY <2>1, <2>2
<1>6. ASSUME x.of = <<F[top].id, r>> PROVE x.location = F[top].slots + r
  <2>1. F[i].id = F[top].id /\ q = r
    BY <1>3, <1>6
  <2>2. i = top
    BY <2>1, <1>4, <1>1
  <2> QED BY <2>1, <2>2, <1>3
<1> QED BY <1>5, <1>6 DEF top

\* What a store to a register of the last frame does to stack and variables.
Storing(F, S, V, T, W, r, value) ==
  /\ T = [S EXCEPT ![F[Len(F)].slots + r] = value]
  /\ W = [v \in DOMAIN V |-> IF v = <<F[Len(F)].id, r>> THEN value ELSE V[v]]

LEMMA StoringFacts ==
  ASSUME NEW F, NEW S, NEW V, NEW T, NEW W, NEW r, NEW value, Storing(F, S, V, T, W, r, value)
  PROVE  /\ DOMAIN T = DOMAIN S /\ DOMAIN W = DOMAIN V /\ W = [v \in DOMAIN W |-> W[v]]
         /\ \A i \in DOMAIN S : T[i] = IF i = F[Len(F)].slots + r THEN value ELSE S[i]
         /\ \A v \in DOMAIN V : W[v] = IF v = <<F[Len(F)].id, r>> THEN value ELSE V[v]
BY DEF Storing

\* The parts that only ask which variables there are.
LEMMA CellsAside ==
  ASSUME NEW U, NEW V, NEW W, NEW C, CellsWell(U, V, C),
         DOMAIN W = DOMAIN V, W = [v \in DOMAIN W |-> W[v]]
  PROVE  CellsWell(U, W, C)
BY DEF CellsWell

LEMMA LastIn ==
  ASSUME NEW F, NEW n, NEW C, FramesWell(F, n, C), F # <<>>
  PROVE  /\ DOMAIN F = 1 .. Len(F) /\ Len(F) \in Nat \ {0} /\ Len(F) \in DOMAIN F
         /\ FrameWell(F[Len(F)], Len(F), n, C)
<1>1. DOMAIN F = 1 .. Len(F) /\ Len(F) \in Nat /\ Len(F) # 0
  BY SeqFacts, EmptySeq DEF FramesWell, IsSeq
<1>2. Len(F) \in DOMAIN F
  BY <1>1
<1> QED BY <1>1, <1>2 DEF FramesWell

LEMMA Stores ==
  ASSUME NEW F, NEW U, NEW O, NEW S, NEW V, NEW C, Sharing(F, U, O, S, V, C), F # <<>>,
         NEW r \in 0 .. Registers - 1, NEW value, NEW T, NEW W, Storing(F, S, V, T, W, r, value)
  PROVE  Sharing(F, U, O, T, W, C)
<1>1. /\ DOMAIN T = DOMAIN S /\ DOMAIN W = DOMAIN V /\ W = [v \in DOMAIN W |-> W[v]]
      /\ \A i \in DOMAIN S : T[i] = IF i = F[Len(F)].slots + r THEN value ELSE S[i]
      /\ \A v \in DOMAIN V : W[v] = IF v = <<F[Len(F)].id, r>> THEN value ELSE V[v]
  BY StoringFacts
<1>2. /\ FramesWell(F, Cardinality(DOMAIN V), C) /\ CellsWell(U, V, C) /\ Owned(F, U)
      /\ Listing(U, O) /\ DOMAIN S = 0 .. StackMax - 1 /\ Agree(U, S, V)
  BY DEF Sharing
<1>3. CellsWell(U, W, C) /\ FramesWell(F, Cardinality(DOMAIN W), C)
  BY <1>1, <1>2, CellsAside
<1>4. Len(F) \in DOMAIN F
  BY <1>2, LastIn
<1>5. ASSUME NEW u \in DOMAIN U PROVE Contents(U[u], T) = W[U[u].of]
  <2>1. U[u].of \in DOMAIN V /\ Contents(U[u], S) = V[U[u].of] /\ CellOwned(F, U[u])
    BY <1>2 DEF CellsWell, Agree, Owned
  <2>2. CASE U[u].location = Closed
    <3>1. U[u].of[1] # F[Len(F)].id
      BY <2>1, <2>2, <1>4 DEF CellOwned
    <3>2. U[u].of # <<F[Len(F)].id, r>>
      BY <3>1
    <3> QED BY <3>2, <2>1, <2>2, <1>1 DEF Contents
  <2>3. CASE U[u].location # Closed
    <3>1. U[u].location = F[Len(F)].slots + r <=> U[u].of = <<F[Len(F)].id, r>>
      BY <2>1, <2>3, <1>2, TopOwns
    <3>2. U[u].location \in DOMAIN S
      BY <2>1, <2>3, <1>2, OwnFacts DEF CellOwned
    <3> QED BY <3>1, <3>2, <2>1, <2>3, <1>1 DEF Contents
  <2> QED BY <2>2, <2>3
<1> QED BY <1>1, <1>2, <1>3, <1>5 DEF Sharing, Agree

-----------------------------------------------------------------------------
(* A frame that returns: its open upvalues are closed, and the others stay.   *)

Kept(O, n) == SubSeq(O, n + 1, Len(O))

\* The upvalues after the first n open ones were closed.
Closing(U, O, S, n, X) ==
  /\ DOMAIN X = DOMAIN U /\ IsSeq(X)
  /\ \A u \in DOMAIN U :
       IF u \in {O[i] : i \in 1 .. n}
       THEN IsCell(X[u]) /\ X[u].location = Closed /\ X[u].closed = S[U[u].location]
            /\ X[u].of = U[u].of
       ELSE X[u] = U[u]

LEMMA ClosingIs ==
  ASSUME NEW U, IsSeq(U), \A u \in DOMAIN U : IsCell(U[u]), NEW O, NEW S, NEW n, NEW X,
         X = [u \in DOMAIN U |-> IF u \in {O[i] : i \in 1 .. n}
                                 THEN [U[u] EXCEPT !.closed = S[U[u].location],
                                                   !.location = Closed]
                                 ELSE U[u]]
  PROVE  Closing(U, O, S, n, X)
<1>1. DOMAIN U = 1 .. Len(U) /\ Len(U) \in Nat
  BY SeqFacts
<1>2. DOMAIN X = DOMAIN U /\ X = [u \in DOMAIN X |-> X[u]]
  OBVIOUS
<1>3. IsSeq(X)
  BY <1>1, <1>2, FunctionIs
<1>4. ASSUME NEW u \in DOMAIN U, u \in {O[i] : i \in 1 .. n}
      PROVE  IsCell(X[u]) /\ X[u].location = Closed /\ X[u].closed = S[U[u].location]
             /\ X[u].of = U[u].of
  <2>1. X[u] = [U[u] EXCEPT !.closed = S[U[u].location], !.location = Closed]
    BY <1>4
  <2>2. DOMAIN U[u] = {"location", "closed", "of"}
    BY DEF IsCell
  <2> QED BY ONLY <2>1, <2>2 DEF IsCell
<1>5. ASSUME NEW u \in DOMAIN U, u \notin {O[i] : i \in 1 .. n} PROVE X[u] = U[u]
  BY <1>5
<1> QED BY <1>2, <1>3, <1>4, <1>5 DEF Closing

\* The search for the slots of the last frame finds the upvalues of its registers.
LEMMA TopIsFirst ==
  ASSUME NEW F, NEW n, NEW C, FramesWell(F, n, C), F # <<>>,
         NEW x, x.location # Closed, CellOwned(F, x)
  PROVE  /\ x.location >= F[Len(F)].slots => x.of[1] = F[Len(F)].id
         /\ x.location < F[Len(F)].slots => \E i \in 1 .. Len(F) - 1 : Owns(F, x, i)
<1>1. DOMAIN F = 1 .. Len(F) /\ Len(F) \in Nat \ {0} /\ Len(F) \in DOMAIN F
  BY LastIn
<1>2. PICK i \in DOMAIN F : Owns(F, x, i)
  BY DEF CellOwned
<1>3. x.location \in Nat /\ F[i].slots <= x.location /\ x.of[1] = F[i].id
  BY <1>2, OwnFacts
<1>4. CASE i = Len(F)
  <2>1. F[Len(F)].slots \in Nat
    BY <1>1 DEF FramesWell, FrameWell
  <2> QED BY <1>4, <1>3, <2>1
<1>5. CASE i # Len(F)
  <2>1. i \in 1 .. Len(F) - 1 /\ i + 1 \in DOMAIN F
    BY <1>5, <1>1
  <2>2. x.location < F[i + 1].slots
    BY <1>2, <2>1, <1>1 DEF Owns
  <2>3. F[i + 1].slots <= F[Len(F)].slots /\ F[i + 1].slots \in Nat /\ F[Len(F)].slots \in Nat
    <3>1. F[i + 1].slots \in Nat /\ F[Len(F)].slots \in Nat
      BY <1>1, <2>1 DEF FramesWell, FrameWell
    <3>2. CASE i + 1 = Len(F)
      BY <3>1, <3>2
    <3>3. CASE i + 1 < Len(F)
      BY <3>1, <3>3, <2>1, <1>1 DEF FramesWell
    <3> QED BY <3>1, <3>2, <3>3, <2>1, <1>1
  <2> QED BY <2>1, <2>2, <2>3, <1>2, <1>3
<1> QED BY <1>4, <1>5

LEMMA CutFrames ==
  ASSUME NEW F, NEW n, NEW C, FramesWell(F, n, C), F # <<>>
  PROVE  /\ FramesWell(Front(F), n, C) /\ Len(Front(F)) = Len(F) - 1
         /\ DOMAIN Front(F) = 1 .. Len(F) - 1
         /\ \A i \in 1 .. Len(F) - 1 : Front(F)[i] = F[i]
<1>1. DOMAIN F = 1 .. Len(F) /\ Len(F) \in Nat \ {0} /\ Len(F) \in DOMAIN F
  BY LastIn
<1>2. IsSeq(F)
  BY DEF FramesWell
<1>3. /\ IsSeq(Front(F)) /\ Len(Front(F)) = Len(F) - 1 - 1 + 1
      /\ DOMAIN Front(F) = 1 .. Len(F) - 1 - 1 + 1
      /\ \A i \in 1 .. Len(F) - 1 - 1 + 1 : Front(F)[i] = F[1 + i - 1]
  <2>1. 1 \in 1 .. Len(F) + 1 /\ Len(F) - 1 \in 1 - 1 .. Len(F)
    BY <1>1
  <2> QED BY <1>2, <2>1, SubSeqIs DEF Front
<1>4. Len(F) - 1 - 1 + 1 = Len(F) - 1 /\ \A i \in 1 .. Len(F) - 1 : 1 + i - 1 = i
  BY <1>1
<1>5. /\ IsSeq(Front(F)) /\ Len(Front(F)) = Len(F) - 1 /\ DOMAIN Front(F) = 1 .. Len(F) - 1
      /\ \A i \in 1 .. Len(F) - 1 : Front(F)[i] = F[i]
  BY <1>3, <1>4
<1>6. \A i \in 1 .. Len(F) - 1 : i \in DOMAIN F
  BY <1>1
<1> QED BY <1>5, <1>6, SMTT(30) DEF FramesWell

\* What is left of the open upvalues once the first n are closed.
LEMMA KeptIs ==
  ASSUME NEW U, NEW O, Listing(U, O), NEW n \in 0 .. Len(O)
  PROVE  /\ IsSeq(Kept(O, n)) /\ DOMAIN Kept(O, n) = 1 .. Len(O) - n
         /\ Len(Kept(O, n)) = Len(O) - n
         /\ \A k \in 1 .. Len(O) - n : Kept(O, n)[k] = O[n + k]
<1>1. DOMAIN O = 1 .. Len(O) /\ Len(O) \in Nat /\ IsSeq(O)
  BY SeqFacts DEF Listing
<1>2. PICK first \in 1 .. Len(O) + 1 : first = n + 1
  BY <1>1
<1>3. Len(O) \in first - 1 .. Len(O)
  BY <1>1, <1>2
<1>4. /\ IsSeq(SubSeq(O, first, Len(O))) /\ Len(SubSeq(O, first, Len(O))) = Len(O) - first + 1
      /\ DOMAIN SubSeq(O, first, Len(O)) = 1 .. Len(O) - first + 1
      /\ \A k \in 1 .. Len(O) - first + 1 : SubSeq(O, first, Len(O))[k] = O[first + k - 1]
  BY <1>1, <1>3, SubSeqIs
<1>5. Kept(O, n) = SubSeq(O, first, Len(O))
  BY <1>2 DEF Kept
<1>6. Len(O) - first + 1 = Len(O) - n /\ \A k \in 1 .. Len(O) - n : first + k - 1 = n + k
  BY <1>1, <1>2
<1> QED BY <1>4, <1>5, <1>6

\* An open upvalue is among the first n or among the rest, by where it points.
LEMMA SplitSides ==
  ASSUME NEW U, NEW O, Listing(U, O), NEW n, NEW location, Splits(U, O, n, location),
         location \in Int, \A k \in DOMAIN O : U[O[k]].location \in Int,
         NEW k \in DOMAIN O
  PROVE  /\ k <= n => U[O[k]].location >= location
         /\ k > n => U[O[k]].location < location
<1>1. DOMAIN O = 1 .. Len(O) /\ Len(O) \in Nat
  BY SeqFacts DEF Listing
<1>2. CASE k <= n
  BY <1>1, <1>2 DEF Splits
<1>3. CASE k > n
  <2>1. n < Len(O) /\ n + 1 \in DOMAIN O /\ n \in Nat
    BY <1>1, <1>3 DEF Splits
  <2>2. U[O[n + 1]].location < location
    BY <2>1 DEF Splits
  <2>3. CASE k = n + 1
    BY <2>2, <2>3, <2>1
  <2>4. CASE k > n + 1
    <3>1. U[O[k]].location < U[O[n + 1]].location
      BY <2>4, <2>1 DEF Listing
    <3> QED BY <3>1, <2>1, <2>2, <2>4
  <2> QED BY <2>3, <2>4, <2>1, <1>1, <1>3
<1> QED BY <1>2, <1>3, <1>1 DEF Splits

LEMMA OpenLocations ==
  ASSUME NEW F, NEW U, NEW O, NEW S, NEW V, NEW C, Sharing(F, U, O, S, V, C)
  PROVE  \A k \in DOMAIN O : /\ U[O[k]].location \in Int /\ O[k] \in DOMAIN U
                             /\ CellOwned(F, U[O[k]]) /\ U[O[k]].location # Closed
<1> SUFFICES ASSUME NEW k \in DOMAIN O
             PROVE  /\ U[O[k]].location \in Int /\ O[k] \in DOMAIN U
                    /\ CellOwned(F, U[O[k]]) /\ U[O[k]].location # Closed
  OBVIOUS
<1>1. O[k] \in DOMAIN U /\ U[O[k]].location # Closed /\ CellOwned(F, U[O[k]])
  BY DEF Sharing, Listing, Owned
<1>2. PICK i \in DOMAIN F : Owns(F, U[O[k]], i)
  BY <1>1 DEF CellOwned
<1>3. FramesWell(F, Cardinality(DOMAIN V), C)
  BY DEF Sharing
<1>4. U[O[k]].location \in 0 .. StackMax - 1
  BY <1>2, <1>3, OwnFacts
<1> QED BY <1>1, <1>4, MachineAssumption

LEMMA Pops ==
  ASSUME NEW F, NEW U, NEW O, NEW S, NEW V, NEW C, Sharing(F, U, O, S, V, C), F # <<>>,
         NEW n, Splits(U, O, n, F[Len(F)].slots), NEW X, Closing(U, O, S, n, X)
  PROVE  Sharing(Front(F), X, Kept(O, n), S, V, C)
<1> DEFINE low == F[Len(F)].slots
           G == Front(F)
           K == Kept(O, n)
<1>1. /\ FramesWell(F, Cardinality(DOMAIN V), C) /\ CellsWell(U, V, C) /\ Owned(F, U)
      /\ Listing(U, O) /\ DOMAIN S = 0 .. StackMax - 1 /\ Agree(U, S, V)
  BY DEF Sharing
<1>2. /\ DOMAIN F = 1 .. Len(F) /\ Len(F) \in Nat \ {0} /\ Len(F) \in DOMAIN F
      /\ FrameWell(F[Len(F)], Len(F), Cardinality(DOMAIN V), C)
  BY <1>1, LastIn
<1>3. /\ FramesWell(G, Cardinality(DOMAIN V), C) /\ Len(G) = Len(F) - 1
      /\ DOMAIN G = 1 .. Len(F) - 1 /\ \A i \in 1 .. Len(F) - 1 : G[i] = F[i]
  BY <1>1, CutFrames
<1>4. DOMAIN O = 1 .. Len(O) /\ Len(O) \in Nat /\ n \in 0 .. Len(O)
  BY <1>1, SeqFacts DEF Listing, Splits
<1>5. /\ IsSeq(K) /\ DOMAIN K = 1 .. Len(O) - n /\ Len(K) = Len(O) - n
      /\ \A k \in 1 .. Len(O) - n : K[k] = O[n + k]
  <2>1. Listing(U, O) /\ n \in 0 .. Len(O)
    BY <1>1, <1>4
  <2> QED BY ONLY <2>1, KeptIs
<1> HIDE DEF K, G
<1>6. \A k \in DOMAIN O : /\ U[O[k]].location \in Int /\ O[k] \in DOMAIN U
                          /\ CellOwned(F, U[O[k]]) /\ U[O[k]].location # Closed
  BY OpenLocations
<1>7. \A k \in DOMAIN O : /\ k <= n => U[O[k]].location >= low
                          /\ k > n => U[O[k]].location < low
  <2>1. low \in Int
    BY <1>2 DEF FrameWell
  <2> QED BY <2>1, <1>1, <1>6, SplitSides
<1> DEFINE shut == {O[i] : i \in 1 .. n}
<1>8. \A u \in DOMAIN U : /\ u \in shut => U[u].location # Closed /\ U[u].location >= low
                          /\ u \notin shut /\ U[u].location # Closed => U[u].location < low
  <2> SUFFICES ASSUME NEW u \in DOMAIN U
               PROVE  /\ u \in shut => U[u].location # Closed /\ U[u].location >= low
                      /\ u \notin shut /\ U[u].location # Closed => U[u].location < low
    OBVIOUS
  <2>1. ASSUME u \in shut PROVE U[u].location # Closed /\ U[u].location >= low
    <3>1. PICK k \in 1 .. n : u = O[k]
      BY <2>1
    <3>2. k \in DOMAIN O /\ k <= n
      BY <1>4
    <3> QED BY <3>1, <3>2, <1>6, <1>7
  <2>2. ASSUME u \notin shut, U[u].location # Closed PROVE U[u].location < low
    <3>1. PICK k \in DOMAIN O : O[k] = u
      BY <2>2, <1>1 DEF Listing
    <3>2. k \notin 1 .. n
      BY <3>1, <2>2
    <3>3. k > n
      BY <3>2, <1>4
    <3> QED BY <3>1, <3>3, <1>7
  <2> QED BY <2>1, <2>2
<1>9. /\ DOMAIN X = DOMAIN U /\ IsSeq(X)
      /\ \A u \in DOMAIN U :
           /\ u \in shut => /\ IsCell(X[u]) /\ X[u].location = Closed
                            /\ X[u].closed = S[U[u].location] /\ X[u].of = U[u].of
           /\ u \notin shut => X[u] = U[u]
  BY DEF Closing
<1> HIDE DEF shut
<1>10. \A u \in DOMAIN U : X[u].of = U[u].of /\ IsCell(X[u])
  BY <1>9, <1>1 DEF CellsWell
<1>11. CellsWell(X, V, C)
  <2>1. {X[u].of : u \in DOMAIN X} = {U[u].of : u \in DOMAIN U}
    BY <1>9, <1>10
  <2> QED BY <2>1, <1>9, <1>10, <1>1 DEF CellsWell
<1>12. Owned(G, X)
  <2> SUFFICES ASSUME NEW u \in DOMAIN U PROVE CellOwned(G, X[u])
    BY <1>9 DEF Owned
  <2>1. CellOwned(F, U[u])
    BY <1>1 DEF Owned
  <2>2. CASE U[u].location = Closed
    <3>1. u \notin shut
      BY <2>2, <1>8
    <3>2. X[u] = U[u]
      BY <3>1, <1>9
    <3>3. \A i \in DOMAIN G : i \in DOMAIN F /\ G[i] = F[i]
      BY <1>2, <1>3
    <3> QED BY <3>2, <3>3, <2>1, <2>2 DEF CellOwned
  <2>3. CASE u \in shut
    <3>1. U[u].location # Closed /\ U[u].location >= low
      BY <2>3, <1>8
    <3>2. X[u].of[1] = F[Len(F)].id /\ X[u].location = Closed
      BY <3>1, <2>1, <2>3, <1>1, <1>9, TopIsFirst
    <3>3. \A i \in DOMAIN G : G[i].id # F[Len(F)].id
      <4> SUFFICES ASSUME NEW i \in DOMAIN G PROVE G[i].id # F[Len(F)].id
        OBVIOUS
      <4>1. i \in DOMAIN F /\ G[i] = F[i] /\ i # Len(F) /\ i \in Int
        BY <1>2, <1>3
      <4>2. F[i].id[1] = i - 1 /\ F[Len(F)].id[1] = Len(F) - 1
        BY <4>1, <1>1, <1>2 DEF FramesWell, FrameWell
      <4> QED BY <4>1, <4>2, <1>2
    <3> QED BY <3>2, <3>3 DEF CellOwned
  <2>4. CASE U[u].location # Closed /\ u \notin shut
    <3>1. U[u].location < low /\ X[u] = U[u]
      BY <2>4, <1>8, <1>9
    <3>2. PICK i \in 1 .. Len(F) - 1 : Owns(F, U[u], i)
      BY <3>1, <2>1, <2>4, <1>1, TopIsFirst
    <3>3. i \in DOMAIN G /\ G[i] = F[i]
      BY <1>3
    <3>4. i < Len(G) => G[i + 1] = F[i + 1] /\ i < Len(F)
      BY <1>2, <1>3
    <3>5. Owns(G, U[u], i)
      BY <3>2, <3>3, <3>4 DEF Owns
    <3> QED BY <3>1, <3>3, <3>5, <2>4 DEF CellOwned
  <2> QED BY <2>2, <2>3, <2>4
<1>13. Listing(X, K)
  <2>1. ASSUME NEW k \in DOMAIN K
        PROVE  /\ n + k \in DOMAIN O /\ K[k] = O[n + k] /\ K[k] \in DOMAIN U
               /\ U[K[k]].location # Closed /\ X[K[k]] = U[K[k]]
    <3>1. n + k \in DOMAIN O /\ n + k > n /\ K[k] = O[n + k]
      BY <1>4, <1>5
    <3>2. K[k] \in DOMAIN U /\ U[K[k]].location # Closed /\ U[K[k]].location < low
          /\ U[K[k]].location \in Int
      BY <3>1, <1>6, <1>7
    <3>3. K[k] \notin shut
      <4>1. low \in Int
        BY <1>2 DEF FrameWell
      <4> QED BY <3>2, <4>1, <1>8
    <3> QED BY <3>1, <3>2, <3>3, <1>9
  <2>2. ASSUME NEW u \in DOMAIN U, X[u].location # Closed PROVE \E k \in DOMAIN K : K[k] = u
    <3>1. u \notin shut /\ X[u] = U[u]
      BY <2>2, <1>9
    <3>2. PICK k \in DOMAIN O : O[k] = u
      BY <3>1, <2>2, <1>1 DEF Listing
    <3>3. k \notin 1 .. n
      BY <3>1, <3>2 DEF shut
    <3>4. k - n \in DOMAIN K /\ K[k - n] = O[n + (k - n)] /\ n + (k - n) = k
      BY <3>3, <1>4, <1>5
    <3> QED BY <3>2, <3>4
  <2>3. ASSUME NEW j \in DOMAIN K, NEW k \in DOMAIN K, j < k
        PROVE  X[K[k]].location < X[K[j]].location
    <3>1. n + j < n + k
      BY <2>3, <1>4, <1>5
    <3>2. U[O[n + k]].location < U[O[n + j]].location
      BY <3>1, <2>1, <1>1 DEF Listing
    <3> QED BY <3>2, <2>1
  <2> QED BY <2>1, <2>2, <2>3, <1>5, <1>9 DEF Listing
<1>14. Agree(X, S, V)
  <2> SUFFICES ASSUME NEW u \in DOMAIN U PROVE Contents(X[u], S) = V[X[u].of]
    BY <1>9 DEF Agree
  <2>1. Contents(U[u], S) = V[U[u].of]
    BY <1>1 DEF Agree
  <2>2. CASE u \in shut
    <3>1. Contents(U[u], S) = S[U[u].location] /\ Contents(X[u], S) = X[u].closed
      BY <2>2, <1>8, <1>9 DEF Contents
    <3> QED BY <3>1, <2>1, <2>2, <1>9, <1>10
  <2>3. CASE u \notin shut
    BY <2>3, <2>1, <1>9
  <2> QED BY <2>2, <2>3
<1> QED BY <1>1, <1>3, <1>11, <1>12, <1>13, <1>14 DEF Sharing, G, K

-----------------------------------------------------------------------------
(* A closure captures a register of the last frame.                           *)

Inserted(O, n, e) == SubSeq(O, 1, n) \o <<e>> \o SubSeq(O, n + 1, Len(O))

LEMMA InsertedIs ==
  ASSUME NEW O, IsSeq(O), NEW n \in 0 .. Len(O), NEW e
  PROVE  /\ IsSeq(Inserted(O, n, e)) /\ DOMAIN Inserted(O, n, e) = 1 .. Len(O) + 1
         /\ \A k \in 1 .. Len(O) + 1 :
              Inserted(O, n, e)[k] = IF k <= n THEN O[k] ELSE IF k = n + 1 THEN e ELSE O[k - 1]
<1> DEFINE A == SubSeq(O, 1, n)
           B == Kept(O, n)
           E == <<e>>
<1>1. DOMAIN O = 1 .. Len(O) /\ Len(O) \in Nat
  BY SeqFacts
<1>2. IsSeq(A) /\ Len(A) = n /\ \A k \in 1 .. n : A[k] = O[k]
  <2>1. 1 \in 1 .. Len(O) + 1 /\ n \in 1 - 1 .. Len(O)
    BY <1>1
  <2>2. /\ IsSeq(A) /\ Len(A) = n - 1 + 1
        /\ \A k \in 1 .. n - 1 + 1 : A[k] = O[1 + k - 1]
    BY <2>1, SubSeqIs
  <2>3. n - 1 + 1 = n /\ \A k \in 1 .. n : 1 + k - 1 = k
    BY <1>1
  <2> QED BY <2>2, <2>3
<1>3. IsSeq(B) /\ Len(B) = Len(O) - n /\ \A k \in 1 .. Len(O) - n : B[k] = O[n + k]
  <2>1. PICK first \in 1 .. Len(O) + 1 : first = n + 1
    BY <1>1
  <2>2. Len(O) \in first - 1 .. Len(O)
    BY <1>1, <2>1
  <2>3. /\ IsSeq(SubSeq(O, first, Len(O))) /\ Len(SubSeq(O, first, Len(O))) = Len(O) - first + 1
        /\ \A k \in 1 .. Len(O) - first + 1 : SubSeq(O, first, Len(O))[k] = O[first + k - 1]
    BY <1>1, <2>2, SubSeqIs
  <2>4. B = SubSeq(O, first, Len(O))
    BY <2>1 DEF Kept
  <2>5. Len(O) - first + 1 = Len(O) - n /\ \A k \in 1 .. Len(O) - n : first + k - 1 = n + k
    BY <1>1, <2>1
  <2> QED BY <2>3, <2>4, <2>5
<1>4. IsSeq(E) /\ Len(E) = 1 /\ E[1] = e
  <2>1. <<e>> \in Seq({e})
    OBVIOUS
  <2> QED BY <2>1, SeqIs
<1>5. Inserted(O, n, e) = A \o E \o B
  BY DEF Inserted, Kept
<1> HIDE DEF A, B, E
<1>6. /\ IsSeq(A \o E) /\ Len(A \o E) = n + 1
      /\ \A k \in 1 .. n + 1 : (A \o E)[k] = IF k <= n THEN A[k] ELSE E[k - n]
  <2>1. /\ IsSeq(A \o E) /\ Len(A \o E) = Len(A) + Len(E)
        /\ \A k \in 1 .. Len(A) + Len(E) :
             (A \o E)[k] = IF k <= Len(A) THEN A[k] ELSE E[k - Len(A)]
    <3>1. IsSeq(A) /\ IsSeq(E)
      BY <1>2, <1>4
    <3> QED BY ONLY <3>1, ConcatIs
  <2> QED BY <2>1, <1>2, <1>4
<1> DEFINE D == A \o E
<1>7. /\ IsSeq(D \o B) /\ DOMAIN (D \o B) = 1 .. n + 1 + (Len(O) - n)
      /\ \A k \in 1 .. n + 1 + (Len(O) - n) :
           (D \o B)[k] = IF k <= n + 1 THEN D[k] ELSE B[k - (n + 1)]
  <2>1. IsSeq(D) /\ Len(D) = n + 1
    BY <1>6
  <2> HIDE DEF D
  <2>2. /\ IsSeq(D \o B) /\ DOMAIN (D \o B) = 1 .. Len(D) + Len(B)
        /\ \A k \in 1 .. Len(D) + Len(B) :
             (D \o B)[k] = IF k <= Len(D) THEN D[k] ELSE B[k - Len(D)]
    BY <2>1, <1>3, ConcatIs
  <2> QED BY <2>1, <2>2, <1>3
<1>8. n + 1 + (Len(O) - n) = Len(O) + 1
  BY <1>1
<1>9. ASSUME NEW k \in 1 .. Len(O) + 1
      PROVE  Inserted(O, n, e)[k] = IF k <= n THEN O[k] ELSE IF k = n + 1 THEN e ELSE O[k - 1]
  <2>1. CASE k <= n
    BY <2>1, <1>1, <1>2, <1>5, <1>6, <1>7, <1>8
  <2>2. CASE k = n + 1
    <3>1. k - n = 1 /\ ~(k <= n)
      BY <2>2, <1>1
    <3> QED BY <3>1, <2>2, <1>1, <1>4, <1>5, <1>6, <1>7, <1>8
  <2>3. CASE k > n + 1
    <3>1. k - (n + 1) \in 1 .. Len(O) - n /\ n + (k - (n + 1)) = k - 1 /\ ~(k <= n + 1)
          /\ ~(k <= n) /\ k # n + 1
      BY <2>3, <1>1
    <3>2. B[k - (n + 1)] = O[k - 1]
      BY <3>1, <1>3
    <3> QED BY <3>1, <3>2, <1>5, <1>7, <1>8
  <2> QED BY <2>1, <2>2, <2>3, <1>1
<1> QED BY <1>5, <1>7, <1>8, <1>9

\* Appending to the closures leaves the rest as it is.
LEMMA ClosureAdded ==
  ASSUME NEW F, NEW U, NEW O, NEW S, NEW V, NEW C, Sharing(F, U, O, S, V, C),
         NEW c, c[1] \in DOMAIN U
  PROVE  Sharing(F, U, O, S, V, Append(C, c))
<1>1. IsSeq(C) /\ \A k \in DOMAIN C : C[k][1] \in DOMAIN U
  BY DEF Sharing, CellsWell
<1>2. DOMAIN C = 1 .. Len(C) /\ Len(C) \in Nat
  BY <1>1, SeqFacts
<1>3. /\ IsSeq(Append(C, c)) /\ Len(Append(C, c)) = Len(C) + 1
      /\ DOMAIN Append(C, c) = 1 .. Len(C) + 1
      /\ \A i \in 1 .. Len(C) : Append(C, c)[i] = C[i]
      /\ Append(C, c)[Len(C) + 1] = c
  BY <1>1, AppendIs
<1>4. \A k \in 1 .. Len(C) + 1 : k \in 1 .. Len(C) \/ k = Len(C) + 1
  BY <1>2
<1>5. \A k \in DOMAIN Append(C, c) : Append(C, c)[k][1] \in DOMAIN U
  BY <1>1, <1>2, <1>3, <1>4
<1>6. CellsWell(U, V, Append(C, c))
  BY <1>3, <1>5 DEF Sharing, CellsWell
<1>7. 0 .. Len(C) \subseteq 0 .. Len(Append(C, c))
  BY <1>2, <1>3
<1>8. FramesWell(F, Cardinality(DOMAIN V), Append(C, c))
  BY <1>7 DEF Sharing, FramesWell, FrameWell
<1> QED BY <1>6, <1>8 DEF Sharing

\* What creating the upvalue of a register does.
Created(F, U, O, S, V, n, r, X, P, W) ==
  /\ X = Append(U, [location |-> F[Len(F)].slots + r, closed |-> Object,
                    of |-> <<F[Len(F)].id, r>>])
  /\ P = Inserted(O, n, Len(U) + 1)
  /\ W = [v \in DOMAIN V \cup {<<F[Len(F)].id, r>>} |->
            IF v = <<F[Len(F)].id, r>> THEN S[F[Len(F)].slots + r] ELSE V[v]]

CreatedSoundly(F, U, S, V, r, X, W) ==
  /\ IsSeq(X) /\ DOMAIN X = DOMAIN U \cup {Len(U) + 1} /\ Len(U) + 1 \notin DOMAIN U
  /\ \A u \in DOMAIN U : X[u] = U[u]
  /\ IsCell(X[Len(U) + 1]) /\ X[Len(U) + 1].location = F[Len(F)].slots + r
  /\ X[Len(U) + 1].of = <<F[Len(F)].id, r>>
  /\ W = [v \in DOMAIN W |-> W[v]] /\ DOMAIN W = DOMAIN V \cup {<<F[Len(F)].id, r>>}
  /\ W[<<F[Len(F)].id, r>>] = S[F[Len(F)].slots + r]
  /\ \A v \in DOMAIN V : v # <<F[Len(F)].id, r>> => W[v] = V[v]

LEMMA CreatedFacts ==
  ASSUME NEW F, NEW U, IsSeq(U), NEW O, NEW S, NEW V, NEW n, NEW r, NEW X, NEW P, NEW W,
         Created(F, U, O, S, V, n, r, X, P, W)
  PROVE  CreatedSoundly(F, U, S, V, r, X, W)
<1> DEFINE c == [location |-> F[Len(F)].slots + r, closed |-> Object, of |-> <<F[Len(F)].id, r>>]
<1>1. IsCell(c) /\ c.location = F[Len(F)].slots + r /\ c.of = <<F[Len(F)].id, r>>
  BY DEF IsCell
<1>2. X = Append(U, c)
  BY DEF Created
<1> HIDE DEF c
<1>3. DOMAIN U = 1 .. Len(U) /\ Len(U) \in Nat
  BY SeqFacts
<1>4. /\ IsSeq(X) /\ DOMAIN X = 1 .. Len(U) + 1
      /\ \A i \in 1 .. Len(U) : X[i] = U[i]
      /\ X[Len(U) + 1] = c
  BY <1>2, AppendIs
<1>5. 1 .. Len(U) + 1 = 1 .. Len(U) \cup {Len(U) + 1} /\ Len(U) + 1 \notin 1 .. Len(U)
  BY <1>3
<1>6. /\ W = [v \in DOMAIN W |-> W[v]] /\ DOMAIN W = DOMAIN V \cup {<<F[Len(F)].id, r>>}
      /\ W[<<F[Len(F)].id, r>>] = S[F[Len(F)].slots + r]
      /\ \A v \in DOMAIN V : v # <<F[Len(F)].id, r>> => W[v] = V[v]
  BY DEF Created
<1> QED BY <1>1, <1>3, <1>4, <1>5, <1>6 DEF CreatedSoundly

LEMMA Widths == StackMax \in Nat /\ Registers \in Nat \ {0} /\ Registers <= StackMax
<1>1. StackMax \in Nat /\ Registers \in Nat \ {0} /\ FramesMax \in Nat \ {0}
      /\ FramesMax * Registers <= StackMax
  BY MachineAssumption
<1>2. FramesMax * Registers >= Registers
  BY <1>1, Z3
<1> QED BY <1>1, <1>2

\* The captured register has no upvalue yet when the search does not find one.
LEMMA NotCaptured ==
  ASSUME NEW F, NEW U, NEW O, NEW S, NEW V, NEW C, Sharing(F, U, O, S, V, C), F # <<>>,
         NEW r \in 0 .. Registers - 1, NEW n, Splits(U, O, n, F[Len(F)].slots + r + 1),
         n < Len(O) => U[O[n + 1]].location # F[Len(F)].slots + r
  PROVE  /\ n \in 0 .. Len(O) /\ F[Len(F)].slots + r \in 0 .. StackMax - 1
         /\ <<F[Len(F)].id, r>> \notin DOMAIN V
         /\ \A k \in DOMAIN O : /\ k <= n => U[O[k]].location > F[Len(F)].slots + r
                                /\ k > n => U[O[k]].location < F[Len(F)].slots + r
<1> DEFINE at == F[Len(F)].slots + r
<1>1. /\ FramesWell(F, Cardinality(DOMAIN V), C) /\ CellsWell(U, V, C) /\ Owned(F, U)
      /\ Listing(U, O) /\ DOMAIN S = 0 .. StackMax - 1 /\ Agree(U, S, V)
  BY DEF Sharing
<1>2. /\ DOMAIN F = 1 .. Len(F) /\ Len(F) \in Nat \ {0} /\ Len(F) \in DOMAIN F
      /\ FrameWell(F[Len(F)], Len(F), Cardinality(DOMAIN V), C)
  BY <1>1, LastIn
<1>3. at \in 0 .. StackMax - 1 /\ at \in Int /\ at + 1 \in Int
  <2>1. F[Len(F)].slots \in Nat /\ F[Len(F)].slots + Registers <= StackMax
    BY <1>2 DEF FrameWell
  <2> QED BY ONLY <2>1, Widths, r \in 0 .. Registers - 1
<1>4. DOMAIN O = 1 .. Len(O) /\ Len(O) \in Nat /\ n \in 0 .. Len(O)
  BY <1>1, SeqFacts DEF Listing, Splits
<1>5. \A k \in DOMAIN O : /\ U[O[k]].location \in Int /\ O[k] \in DOMAIN U
                          /\ CellOwned(F, U[O[k]]) /\ U[O[k]].location # Closed
  BY OpenLocations
<1>6. \A k \in DOMAIN O : /\ k <= n => U[O[k]].location >= at + 1
                          /\ k > n => U[O[k]].location < at + 1
  <2>1. Splits(U, O, n, at + 1)
    OBVIOUS
  <2> HIDE DEF at
  <2> QED BY <2>1, <1>1, <1>3, <1>5, SplitSides
<1>7. ASSUME NEW k \in DOMAIN O, k > n PROVE U[O[k]].location < at
  <2>1. n < Len(O) /\ n + 1 \in DOMAIN O
    BY <1>4, <1>7
  <2>2. U[O[n + 1]].location # at /\ U[O[n + 1]].location < at + 1
    BY <2>1, <1>4, <1>6
  <2>3. CASE k = n + 1
    BY <2>1, <2>2, <2>3, <1>3, <1>5
  <2>4. CASE k > n + 1
    <3>1. U[O[k]].location < U[O[n + 1]].location
      BY <2>1, <2>4, <1>1 DEF Listing
    <3> HIDE DEF at
    <3> QED BY <3>1, <2>1, <2>2, <1>3, <1>5
  <2> QED BY <2>3, <2>4, <1>4, <1>7
<1>8. \A k \in DOMAIN O : /\ k <= n => U[O[k]].location > at
                          /\ k > n => U[O[k]].location < at
  <2> HIDE DEF at
  <2> QED BY <1>3, <1>5, <1>6, <1>7
<1>9. <<F[Len(F)].id, r>> \notin DOMAIN V
  <2> SUFFICES ASSUME NEW u \in DOMAIN U, U[u].of = <<F[Len(F)].id, r>> PROVE FALSE
    BY <1>1 DEF CellsWell
  <2>1. CellOwned(F, U[u])
    BY <1>1 DEF Owned
  <2>2. CASE U[u].location = Closed
    BY <2>1, <2>2, <1>2 DEF CellOwned
  <2>3. CASE U[u].location # Closed
    <3>1. U[u].location = at
      BY <2>1, <2>3, <1>1, TopOwns
    <3>2. PICK k \in DOMAIN O : O[k] = u
      BY <2>3, <1>1 DEF Listing
    <3>3. k <= n \/ k > n
      BY <1>4
    <3> HIDE DEF at
    <3> QED BY <3>1, <3>2, <3>3, <1>8, <1>3
  <2> QED BY <2>2, <2>3
<1> QED BY <1>3, <1>4, <1>8, <1>9

LEMMA Creates ==
  ASSUME NEW F, NEW U, NEW O, NEW S, NEW V, NEW C, Sharing(F, U, O, S, V, C), F # <<>>,
         NEW r \in 0 .. Registers - 1, NEW n, Splits(U, O, n, F[Len(F)].slots + r + 1),
         n < Len(O) => U[O[n + 1]].location # F[Len(F)].slots + r,
         NEW X, NEW P, NEW W, Created(F, U, O, S, V, n, r, X, P, W)
  PROVE  Sharing(F, X, P, S, W, C) /\ Len(U) + 1 \in DOMAIN X
<1> DEFINE at == F[Len(F)].slots + r
           variable == <<F[Len(F)].id, r>>
           new == Len(U) + 1
<1>1. /\ FramesWell(F, Cardinality(DOMAIN V), C) /\ CellsWell(U, V, C) /\ Owned(F, U)
      /\ Listing(U, O) /\ DOMAIN S = 0 .. StackMax - 1 /\ Agree(U, S, V)
  BY DEF Sharing
<1>2. /\ DOMAIN F = 1 .. Len(F) /\ Len(F) \in Nat \ {0} /\ Len(F) \in DOMAIN F
      /\ FrameWell(F[Len(F)], Len(F), Cardinality(DOMAIN V), C)
  BY <1>1, LastIn
<1>3. /\ n \in 0 .. Len(O) /\ at \in 0 .. StackMax - 1 /\ variable \notin DOMAIN V
      /\ \A k \in DOMAIN O : /\ k <= n => U[O[k]].location > at
                             /\ k > n => U[O[k]].location < at
  BY NotCaptured
<1>4. /\ IsSeq(X) /\ DOMAIN X = DOMAIN U \cup {new} /\ new \notin DOMAIN U
      /\ \A u \in DOMAIN U : X[u] = U[u]
      /\ IsCell(X[new]) /\ X[new].location = at /\ X[new].of = variable
      /\ W = [v \in DOMAIN W |-> W[v]] /\ DOMAIN W = DOMAIN V \cup {variable}
      /\ W[variable] = S[at]
      /\ \A v \in DOMAIN V : v # variable => W[v] = V[v]
  <2>1. IsSeq(U)
    BY <1>1 DEF CellsWell
  <2>2. CreatedSoundly(F, U, S, V, r, X, W)
    BY <2>1, CreatedFacts
  <2> QED BY <2>2 DEF CreatedSoundly
<1>5. /\ DOMAIN O = 1 .. Len(O) /\ Len(O) \in Nat
      /\ IsSeq(P) /\ DOMAIN P = 1 .. Len(O) + 1
      /\ \A k \in 1 .. Len(O) + 1 :
           P[k] = IF k <= n THEN O[k] ELSE IF k = n + 1 THEN new ELSE O[k - 1]
  <2>1. IsSeq(O) /\ P = Inserted(O, n, new)
    BY <1>1 DEF Listing, Created
  <2>2. DOMAIN O = 1 .. Len(O) /\ Len(O) \in Nat
    BY <2>1, SeqFacts
  <2> HIDE DEF new
  <2> QED BY <2>1, <2>2, <1>3, InsertedIs
<1>6. variable[1][2] \in Nat /\ variable[1][2] <= Cardinality(DOMAIN V)
  BY <1>2 DEF FrameWell
<1>7. at \in Nat /\ at # Closed
  BY <1>3, Widths DEF Closed
<1>8. Owns(F, X[new], Len(F))
  BY <1>2, <1>4 DEF Owns
<1>9. \A k \in DOMAIN O : /\ U[O[k]].location \in Int /\ O[k] \in DOMAIN U
                          /\ CellOwned(F, U[O[k]]) /\ U[O[k]].location # Closed
  BY OpenLocations
<1> HIDE DEF at, variable, new
<1>10. /\ IsFiniteSet(DOMAIN W) /\ Cardinality(DOMAIN W) = Cardinality(DOMAIN V) + 1
       /\ Cardinality(DOMAIN V) \in Nat
  <2>1. IsFiniteSet(DOMAIN V)
    BY <1>1 DEF CellsWell
  <2>2. DOMAIN W = DOMAIN V \cup {variable} /\ variable \notin DOMAIN V
    BY <1>3, <1>4
  <2> QED BY ONLY <2>1, <2>2, FS_AddElement, FS_CardinalityType
<1>11. FramesWell(F, Cardinality(DOMAIN W), C)
  <2> SUFFICES ASSUME NEW i \in DOMAIN F PROVE FrameWell(F[i], i, Cardinality(DOMAIN W), C)
    BY <1>1 DEF FramesWell
  <2>1. FrameWell(F[i], i, Cardinality(DOMAIN V), C)
    BY <1>1 DEF FramesWell
  <2> QED BY <2>1, <1>10 DEF FrameWell
<1>12. \A u \in DOMAIN U : U[u].of \in DOMAIN V /\ U[u].of # variable
  BY <1>1, <1>3 DEF CellsWell
<1>13. CellsWell(X, W, C)
  <2>1. IsSeq(C) /\ \A c \in DOMAIN C : C[c][1] \in DOMAIN X
    BY <1>1, <1>4 DEF CellsWell
  <2>2. DOMAIN W = {X[u].of : u \in DOMAIN X}
    <3>1. DOMAIN V = {U[u].of : u \in DOMAIN U}
      BY <1>1 DEF CellsWell
    <3>2. {X[u].of : u \in DOMAIN X} = {X[u].of : u \in DOMAIN U} \cup {X[new].of}
      BY <1>4
    <3>3. {X[u].of : u \in DOMAIN U} = {U[u].of : u \in DOMAIN U}
      BY <1>4
    <3> QED BY <3>1, <3>2, <3>3, <1>4
  <2>3. ASSUME NEW u \in DOMAIN X
        PROVE  /\ IsCell(X[u]) /\ X[u].of[1][2] \in Nat
               /\ X[u].of[1][2] < Cardinality(DOMAIN W)
    <3>1. CASE u = new
      BY <3>1, <1>4, <1>6, <1>10
    <3>2. CASE u \in DOMAIN U
      <4>1. /\ IsCell(U[u]) /\ U[u].of[1][2] \in Nat
            /\ U[u].of[1][2] < Cardinality(DOMAIN V)
        BY <3>2, <1>1 DEF CellsWell
      <4> QED BY <4>1, <3>2, <1>4, <1>10
    <3> QED BY <3>1, <3>2, <1>4
  <2>4. ASSUME NEW u \in DOMAIN X, NEW w \in DOMAIN X, X[u].of = X[w].of PROVE u = w
    <3>1. CASE u \in DOMAIN U /\ w \in DOMAIN U
      BY <3>1, <2>4, <1>1, <1>4 DEF CellsWell
    <3>2. CASE u = new
      BY <3>2, <2>4, <1>4, <1>12
    <3>3. CASE w = new
      BY <3>3, <2>4, <1>4, <1>12
    <3> QED BY <3>1, <3>2, <3>3, <1>4
  <2> QED BY <2>1, <2>2, <2>3, <2>4, <1>4, <1>10 DEF CellsWell
<1>14. Owned(F, X)
  <2> SUFFICES ASSUME NEW u \in DOMAIN X PROVE CellOwned(F, X[u])
    BY DEF Owned
  <2>1. CASE u = new
    BY <2>1, <1>2, <1>4, <1>7, <1>8 DEF CellOwned
  <2>2. CASE u \in DOMAIN U
    BY <2>2, <1>1, <1>4 DEF Owned
  <2> QED BY <2>1, <2>2, <1>4
<1>15. ASSUME NEW k \in DOMAIN P
       PROVE  \/ k \in DOMAIN O /\ k <= n /\ P[k] = O[k]
              \/ k = n + 1 /\ P[k] = new
              \/ k - 1 \in DOMAIN O /\ k - 1 > n /\ P[k] = O[k - 1]
  <2>1. CASE k <= n
    BY <2>1, <1>3, <1>5
  <2>2. CASE k = n + 1
    BY <2>2, <1>3, <1>5
  <2>3. CASE k > n + 1
    BY <2>3, <1>3, <1>5
  <2> QED BY <2>1, <2>2, <2>3, <1>3, <1>5
<1>16. Listing(X, P)
  <2>1. ASSUME NEW k \in DOMAIN P PROVE P[k] \in DOMAIN X /\ X[P[k]].location # Closed
    BY <1>15, <1>4, <1>7, <1>9
  <2>2. ASSUME NEW u \in DOMAIN X, X[u].location # Closed PROVE \E k \in DOMAIN P : P[k] = u
    <3>1. CASE u = new
      <4>1. n + 1 \in DOMAIN P /\ ~(n + 1 <= n)
        BY <1>3, <1>5
      <4> QED BY <4>1, <3>1, <1>5
    <3>2. CASE u \in DOMAIN U
      <4>1. PICK k \in DOMAIN O : O[k] = u
        BY <3>2, <2>2, <1>1, <1>4 DEF Listing
      <4>2. CASE k <= n
        <5>1. k \in DOMAIN P
          BY <1>5
        <5> QED BY <5>1, <4>1, <4>2, <1>5
      <4>3. CASE k > n
        <5>1. k + 1 \in DOMAIN P /\ ~(k + 1 <= n) /\ k + 1 # n + 1 /\ k + 1 - 1 = k
          BY <4>3, <1>3, <1>5
        <5>2. P[k + 1] = O[k]
          BY <5>1, <1>5
        <5> QED BY <5>1, <5>2, <4>1
      <4> QED BY <4>2, <4>3, <1>3, <1>5
    <3> QED BY <3>1, <3>2, <1>4
  <2>3. ASSUME NEW j \in DOMAIN P, NEW k \in DOMAIN P, j < k
        PROVE  X[P[k]].location < X[P[j]].location
    <3>1. \A a, b \in DOMAIN O : a < b => U[O[b]].location < U[O[a]].location
      BY <1>1 DEF Listing
    <3>2. \A a \in DOMAIN O : X[O[a]] = U[O[a]]
      BY <1>4, <1>9
    <3>3. j \in Int /\ k \in Int /\ n \in Int /\ at \in Int
      BY <1>3, <1>5, <1>7
    <3>4. CASE j \in DOMAIN O /\ j <= n /\ P[j] = O[j]
      BY <3>4, <3>1, <3>2, <3>3, <2>3, <1>3, <1>4, <1>9, <1>15, SMTT(30)
    <3>5. CASE j = n + 1 /\ P[j] = new
      BY <3>5, <3>2, <3>3, <2>3, <1>3, <1>4, <1>15
    <3>6. CASE j - 1 \in DOMAIN O /\ j - 1 > n /\ P[j] = O[j - 1]
      <4>1. k - 1 \in DOMAIN O /\ P[k] = O[k - 1] /\ j - 1 < k - 1
        BY <3>6, <3>3, <2>3, <1>15
      <4> QED BY <4>1, <3>6, <3>1, <3>2
    <3> QED BY <3>4, <3>5, <3>6, <1>15
  <2> QED BY <2>1, <2>2, <2>3, <1>5 DEF Listing
<1>17. Agree(X, S, W)
  <2> SUFFICES ASSUME NEW u \in DOMAIN X PROVE Contents(X[u], S) = W[X[u].of]
    BY DEF Agree
  <2>1. CASE u = new
    BY <2>1, <1>4, <1>7 DEF Contents
  <2>2. CASE u \in DOMAIN U
    <3>1. X[u] = U[u] /\ Contents(U[u], S) = V[U[u].of]
      BY <2>2, <1>1, <1>4 DEF Agree
    <3>2. W[U[u].of] = V[U[u].of]
      BY <2>2, <1>4, <1>12
    <3> QED BY <3>1, <3>2
  <2> QED BY <2>1, <2>2, <1>4
<1> QED BY <1>1, <1>4, <1>11, <1>13, <1>14, <1>16, <1>17 DEF Sharing, new

-----------------------------------------------------------------------------
(* A frame is laid over the stack above what is captured.                     *)

LEMMA Pushes ==
  ASSUME NEW F, NEW U, NEW O, NEW S, NEW V, NEW C, Sharing(F, U, O, S, V, C),
         NEW f, FrameWell(f, Len(F) + 1, Cardinality(DOMAIN V), C),
         f.id[2] = Cardinality(DOMAIN V), \A i \in DOMAIN F : F[i].slots < f.slots,
         NEW T, DOMAIN T = DOMAIN S,
         \A u \in DOMAIN U : U[u].location # Closed =>
           U[u].location < f.slots /\ T[U[u].location] = S[U[u].location]
  PROVE  Sharing(Append(F, f), U, O, T, V, C)
<1> DEFINE G == Append(F, f)
<1>1. /\ FramesWell(F, Cardinality(DOMAIN V), C) /\ CellsWell(U, V, C) /\ Owned(F, U)
      /\ Listing(U, O) /\ DOMAIN S = 0 .. StackMax - 1 /\ Agree(U, S, V)
  BY DEF Sharing
<1>2. /\ DOMAIN F = 1 .. Len(F) /\ Len(F) \in Nat
      /\ IsSeq(G) /\ Len(G) = Len(F) + 1 /\ DOMAIN G = 1 .. Len(F) + 1
      /\ \A i \in DOMAIN F : G[i] = F[i]
      /\ G[Len(F) + 1] = f
  <2>1. IsSeq(F)
    BY <1>1 DEF FramesWell
  <2>2. DOMAIN F = 1 .. Len(F) /\ Len(F) \in Nat
    BY <2>1, SeqFacts
  <2>3. /\ IsSeq(G) /\ Len(G) = Len(F) + 1 /\ DOMAIN G = 1 .. Len(F) + 1
        /\ \A i \in 1 .. Len(F) : G[i] = F[i]
        /\ G[Len(F) + 1] = f
    BY <2>1, AppendIs
  <2> QED BY <2>2, <2>3
<1> HIDE DEF G
<1>3. \A i \in DOMAIN G : i \in DOMAIN F \/ i = Len(F) + 1
  BY <1>2
<1>4. FramesWell(G, Cardinality(DOMAIN V), C)
  <2>1. ASSUME NEW i \in DOMAIN G PROVE FrameWell(G[i], i, Cardinality(DOMAIN V), C)
    BY <1>1, <1>2, <1>3 DEF FramesWell
  <2>2. ASSUME NEW i \in DOMAIN G, NEW j \in DOMAIN G, i < j PROVE G[i].slots < G[j].slots
    <3>1. i \in DOMAIN F
      BY <2>2, <1>2
    <3>2. CASE j \in DOMAIN F
      BY <3>1, <3>2, <2>2, <1>1, <1>2 DEF FramesWell
    <3>3. CASE j = Len(F) + 1
      BY <3>1, <3>3, <1>2
    <3> QED BY <3>2, <3>3, <1>3
  <2> QED BY <2>1, <2>2, <1>2 DEF FramesWell
<1>5. ASSUME NEW u \in DOMAIN U PROVE CellOwned(G, U[u])
  <2>1. CellOwned(F, U[u]) /\ U[u].of[1][2] \in Nat /\ U[u].of[1][2] < Cardinality(DOMAIN V)
    BY <1>1 DEF Owned, CellsWell
  <2>2. CASE U[u].location = Closed
    <3>1. f.id # U[u].of[1]
      BY <2>1
    <3> QED BY <3>1, <2>1, <2>2, <1>2, <1>3 DEF CellOwned
  <2>3. CASE U[u].location # Closed
    <3>1. PICK i \in DOMAIN F : Owns(F, U[u], i)
      BY <2>1, <2>3 DEF CellOwned
    <3>2. PICK r \in 0 .. Registers - 1 : /\ U[u].location = F[i].slots + r
                                          /\ U[u].of = <<F[i].id, r>>
                                          /\ i < Len(F) => U[u].location < F[i + 1].slots
      BY <3>1 DEF Owns
    <3>3. i \in DOMAIN G /\ G[i] = F[i]
      BY <1>2
    <3>4. U[u].location < G[i + 1].slots
      <4>1. CASE i < Len(F)
        <5>1. i + 1 \in DOMAIN F
          BY <4>1, <1>2
        <5> QED BY <5>1, <4>1, <3>2, <1>2
      <4>2. CASE i = Len(F)
        BY <4>2, <2>3, <1>2
      <4> QED BY <4>1, <4>2, <1>2
    <3>5. Owns(G, U[u], i)
      BY <3>2, <3>3, <3>4 DEF Owns
    <3> QED BY <3>3, <3>5, <2>3 DEF CellOwned
  <2> QED BY <2>2, <2>3
<1>6. Agree(U, T, V)
  <2> SUFFICES ASSUME NEW u \in DOMAIN U PROVE Contents(U[u], T) = V[U[u].of]
    BY DEF Agree
  <2>1. Contents(U[u], S) = V[U[u].of]
    BY <1>1 DEF Agree
  <2> QED BY <2>1 DEF Contents
<1> QED BY <1>1, <1>4, <1>5, <1>6 DEF Sharing, Owned, G

\* A closure writes to what it captured.
Written(U, S, V, w, value, X, T, W) ==
  /\ W = [V EXCEPT ![U[w].of] = value]
  /\ IF U[w].location = Closed THEN X = [U EXCEPT ![w].closed = value] /\ T = S
     ELSE X = U /\ T = [S EXCEPT ![U[w].location] = value]

LEMMA Writes ==
  ASSUME NEW F, NEW U, NEW O, NEW S, NEW V, NEW C, Sharing(F, U, O, S, V, C),
         NEW w \in DOMAIN U, NEW value, NEW X, NEW T, NEW W, Written(U, S, V, w, value, X, T, W)
  PROVE  Sharing(F, X, O, T, W, C)
<1>1. /\ FramesWell(F, Cardinality(DOMAIN V), C) /\ CellsWell(U, V, C) /\ Owned(F, U)
      /\ Listing(U, O) /\ DOMAIN S = 0 .. StackMax - 1 /\ Agree(U, S, V)
  BY DEF Sharing
<1>2. /\ DOMAIN W = DOMAIN V /\ W = [v \in DOMAIN W |-> W[v]] /\ U[w].of \in DOMAIN V
      /\ \A v \in DOMAIN V : W[v] = IF v = U[w].of THEN value ELSE V[v]
  BY <1>1 DEF CellsWell, Written
<1>3. \A u \in DOMAIN U : /\ U[u].of \in DOMAIN V /\ IsCell(U[u])
                          /\ W[U[u].of] = IF u = w THEN value ELSE V[U[u].of]
  BY <1>1, <1>2 DEF CellsWell
<1>4. CellsWell(U, W, C) /\ FramesWell(F, Cardinality(DOMAIN W), C)
  BY <1>1, <1>2, CellsAside
<1>5. CASE U[w].location = Closed
  <2>1. X = [U EXCEPT ![w].closed = value] /\ T = S
    BY <1>5 DEF Written
  <2>2. /\ DOMAIN X = DOMAIN U /\ X = [u \in DOMAIN X |-> X[u]]
        /\ \A u \in DOMAIN U : u # w => X[u] = U[u]
        /\ X[w] = [U[w] EXCEPT !.closed = value]
    <3>1. U = [u \in DOMAIN U |-> U[u]]
      <4>1. U \in Seq({U[i] : i \in DOMAIN U})
        BY <1>1 DEF CellsWell, IsSeq
      <4> QED BY <4>1, LenProperties
    <3> QED BY <2>1, <3>1
  <2>3. IsCell(X[w]) /\ X[w].location = U[w].location /\ X[w].of = U[w].of /\ X[w].closed = value
    <3>1. DOMAIN U[w] = {"location", "closed", "of"}
      BY <1>3 DEF IsCell
    <3>2. X[w] = [U[w] EXCEPT !.closed = value]
      BY <2>2
    <3> QED BY ONLY <3>1, <3>2 DEF IsCell
  <2>4. /\ DOMAIN X = DOMAIN U
        /\ \A u \in DOMAIN U : /\ IsCell(X[u]) /\ X[u].location = U[u].location
                               /\ X[u].of = U[u].of
                               /\ X[u].closed = IF u = w THEN value ELSE U[u].closed
    BY <2>2, <2>3, <1>3
  <2>5. IsSeq(X)
    <3>1. DOMAIN X = 1 .. Len(U) /\ Len(U) \in Nat
      BY <1>1, <2>2, SeqFacts DEF CellsWell
    <3>2. X = [u \in 1 .. Len(U) |-> X[u]]
      BY <2>2, <3>1
    <3> QED BY ONLY <3>1, <3>2, FunctionIs
  <2>6. CellsWell(X, W, C)
    <3>1. {X[u].of : u \in DOMAIN X} = {U[u].of : u \in DOMAIN U}
      BY <2>4
    <3> QED BY <3>1, <2>4, <2>5, <1>4 DEF CellsWell
  <2>7. Owned(F, X)
    BY <1>1, <2>4 DEF Owned, CellOwned, Owns
  <2>8. Listing(X, O)
    BY <1>1, <2>4 DEF Listing
  <2>9. Agree(X, T, W)
    <3> SUFFICES ASSUME NEW u \in DOMAIN U PROVE Contents(X[u], S) = W[X[u].of]
      BY <2>1, <2>4 DEF Agree
    <3>1. Contents(U[u], S) = V[U[u].of]
      BY <1>1 DEF Agree
    <3> QED BY <3>1, <2>4, <1>3, <1>5 DEF Contents
  <2> QED BY <1>1, <1>4, <2>1, <2>6, <2>7, <2>8, <2>9 DEF Sharing
<1>6. CASE U[w].location # Closed
  <2>1. X = U /\ T = [S EXCEPT ![U[w].location] = value]
    BY <1>6 DEF Written
  <2>2. \A u \in DOMAIN U : U[u].location # Closed => U[u].location \in DOMAIN S
    <3> SUFFICES ASSUME NEW u \in DOMAIN U, U[u].location # Closed
                 PROVE  U[u].location \in DOMAIN S
      OBVIOUS
    <3>1. CellOwned(F, U[u])
      BY <1>1 DEF Owned
    <3>2. PICK i \in DOMAIN F : Owns(F, U[u], i)
      BY <3>1 DEF CellOwned
    <3> QED BY <3>2, <1>1, OwnFacts
  <2>3. DOMAIN T = DOMAIN S /\ \A i \in DOMAIN S : T[i] = IF i = U[w].location THEN value ELSE S[i]
    BY <2>1
  <2>4. ASSUME NEW u \in DOMAIN U, U[u].location # Closed, U[u].location = U[w].location
        PROVE  u = w
    <3>1. PICK j \in DOMAIN O : O[j] = u
      BY <2>4, <1>1 DEF Listing
    <3>2. PICK k \in DOMAIN O : O[k] = w
      BY <1>6, <1>1 DEF Listing
    <3>3. U[u].location \in Int
      BY <2>2, <2>4, <1>1
    <3>4. ~(j < k) /\ ~(k < j)
      BY <3>1, <3>2, <3>3, <2>4, <1>1 DEF Listing
    <3>5. j \in Int /\ k \in Int
      BY <1>1, SeqFacts DEF Listing
    <3> QED BY <3>1, <3>2, <3>4, <3>5
  <2>5. Agree(U, T, W)
    <3> SUFFICES ASSUME NEW u \in DOMAIN U PROVE Contents(U[u], T) = W[U[u].of]
      BY DEF Agree
    <3>1. Contents(U[u], S) = V[U[u].of]
      BY <1>1 DEF Agree
    <3>2. CASE u = w
      BY <3>2, <2>2, <2>3, <1>3, <1>6 DEF Contents
    <3>3. CASE u # w
      BY <3>1, <3>3, <2>2, <2>3, <2>4, <1>3 DEF Contents
    <3> QED BY <3>2, <3>3
  <2> QED BY <1>1, <1>4, <2>1, <2>3, <2>5 DEF Sharing
<1> QED BY <1>5, <1>6

-----------------------------------------------------------------------------
(* Every step keeps captured variables shared.                                *)

Shares == Sharing(frames, upvalues, open, stack, variables, closures)

LEMMA ClosureStarts == MachineInit => ClosureInv
<1> SUFFICES ASSUME MachineInit PROVE Shares
  BY DEF ClosureInv, Shares
<1>1. /\ frames = <<>> /\ closures = <<>> /\ upvalues = <<>> /\ open = <<>>
      /\ variables = [v \in {} |-> Object] /\ DOMAIN stack = 0 .. StackMax - 1
  BY DEF MachineInit
<1>2. DOMAIN variables = {} /\ variables = [v \in DOMAIN variables |-> variables[v]]
  BY <1>1
<1>3. IsSeq(<<>>) /\ DOMAIN <<>> = {}
  <2>1. <<>> \in Seq({})
    OBVIOUS
  <2>2. IsSeq(<<>>) /\ DOMAIN <<>> = 1 .. Len(<<>>) /\ Len(<<>>) = 0
    BY <2>1, SeqIs
  <2> QED BY <2>2
<1>4. IsFiniteSet(DOMAIN variables)
  BY <1>2, FS_EmptySet
<1>5. FramesWell(<<>>, Cardinality(DOMAIN variables), <<>>)
  BY <1>3 DEF FramesWell
<1>6. CellsWell(<<>>, variables, <<>>)
  BY <1>2, <1>3, <1>4 DEF CellsWell
<1>7. Owned(<<>>, <<>>) /\ Listing(<<>>, <<>>) /\ Agree(<<>>, stack, variables)
  BY <1>3 DEF Owned, Listing, Agree
<1> QED BY <1>1, <1>5, <1>6, <1>7 DEF Shares, Sharing

\* Nothing is open when no frame is.
LEMMA NoneOpen ==
  ASSUME NEW U, NEW O, NEW S, NEW V, NEW C, Sharing(<<>>, U, O, S, V, C)
  PROVE  \A u \in DOMAIN U : U[u].location = Closed
<1>1. DOMAIN <<>> = {}
  OBVIOUS
<1> QED BY <1>1 DEF Sharing, Owned, CellOwned

LEMMA FrameIs ==
  ASSUME Shares, frames # <<>>
  PROVE  /\ Len(frames) \in Nat \ {0} /\ Len(frames) \in DOMAIN frames /\ frame = frames[Len(frames)]
         /\ DOMAIN frames = 1 .. Len(frames)
         /\ FrameWell(frame, Len(frames), Cardinality(DOMAIN variables), closures)
         /\ FramesWell(frames, Cardinality(DOMAIN variables), closures)
         /\ IsFiniteSet(DOMAIN variables) /\ Cardinality(DOMAIN variables) \in Nat
<1>1. FramesWell(frames, Cardinality(DOMAIN variables), closures)
  BY DEF Shares, Sharing
<1>2. IsFiniteSet(DOMAIN variables) /\ Cardinality(DOMAIN variables) \in Nat
  BY FS_CardinalityType DEF Shares, Sharing, CellsWell
<1>3. frame = frames[Len(frames)]
  BY DEF frame, Last
<1> QED BY <1>1, <1>2, <1>3, LastIn

LEMMA StoredPuts ==
  ASSUME NEW r, NEW value, Stored(frame, r, value)
  PROVE  Storing(frames, stack, variables, stack', variables', r, value)
BY DEF Stored, Storing, Slot, frame, Last

LEMMA InterpretShares ==
  ASSUME Shares, NEW isCorrect, walia_interpret(isCorrect)
  PROVE  Shares'
<1>1. frames = <<>> /\ UNCHANGED <<closures, upvalues, open, variables>>
  BY DEF walia_interpret
<1>2. Sharing(<<>>, upvalues, open, stack, variables, closures)
  BY <1>1 DEF Shares
<1>3. CASE isCorrect
  <2> DEFINE f == [closure |-> 0, slots |-> 0, returnToReg |-> 0, id |-> NewId(0)]
  <2>1. frames' = <<f>> /\ DOMAIN stack' = DOMAIN stack
    BY <1>3 DEF walia_interpret
  <2>2. Append(<<>>, f) = <<f>> /\ Len(<<>>) = 0 /\ DOMAIN <<>> = {}
    OBVIOUS
  <2>3. Cardinality(DOMAIN variables) \in Nat
    BY <1>2, FS_CardinalityType DEF Sharing, CellsWell
  <2>4. /\ FrameWell(f, Len(<<>>) + 1, Cardinality(DOMAIN variables), closures)
        /\ f.id[2] = Cardinality(DOMAIN variables)
    <3>1. Len(closures) \in Nat
      BY <1>2, SeqFacts DEF Sharing, CellsWell
    <3> QED BY <3>1, <2>2, <2>3, Widths DEF FrameWell, NewId
  <2>5. \A u \in DOMAIN upvalues : upvalues[u].location = Closed
    BY <1>2, NoneOpen
  <2>6. Sharing(Append(<<>>, f), upvalues, open, stack', variables, closures)
    <3> HIDE DEF f
    <3> QED BY <1>2, <2>1, <2>2, <2>4, <2>5, Pushes
  <2> QED BY <1>1, <2>1, <2>2, <2>6 DEF Shares
<1>4. CASE ~isCorrect
  BY <1>1, <1>4 DEF walia_interpret, Shares
<1> QED BY <1>3, <1>4

LEMMA LoadShares ==
  ASSUME Shares, frames # <<>>, NEW a \in 0 .. Registers - 1, NEW value, Stored(frame, a, value),
         UNCHANGED <<frames, closures, upvalues, open>>
  PROVE  Shares'
<1>1. Storing(frames, stack, variables, stack', variables', a, value)
  BY StoredPuts
<1>2. Sharing(frames, upvalues, open, stack', variables', closures)
  BY <1>1, Stores DEF Shares
<1> QED BY <1>2 DEF Shares

LEMMA CallShares ==
  ASSUME Shares, frames # <<>>, NEW dest \in 0 .. Registers - 1, NEW base \in dest .. Registers - 1,
         NEW c \in 0 .. Len(closures), OP_CALL(dest, base, c), ~strayed'
  PROVE  Shares'
<1> DEFINE f == [closure |-> c, slots |-> Slot(frame, base) + 1, returnToReg |-> dest,
                 id |-> NewId(Len(frames))]
<1>1. /\ frames' = Append(frames, f)
      /\ UNCHANGED <<stack, closures, upvalues, open, variables>>
  BY DEF OP_CALL, runtimeError
<1>2. /\ Slot(frame, base) + Registers < StackMax
      /\ \A r \in base + 1 .. Registers - 1 : <<frame.id, r>> \notin DOMAIN variables
  BY DEF OP_CALL
<1>3. /\ Len(frames) \in Nat \ {0} /\ Len(frames) \in DOMAIN frames /\ frame = frames[Len(frames)]
      /\ DOMAIN frames = 1 .. Len(frames)
      /\ FrameWell(frame, Len(frames), Cardinality(DOMAIN variables), closures)
      /\ FramesWell(frames, Cardinality(DOMAIN variables), closures)
      /\ Cardinality(DOMAIN variables) \in Nat
  BY FrameIs
<1>4. frame.slots \in Nat /\ base \in Nat /\ base < Registers
  BY <1>3, Widths DEF FrameWell
<1>5. f.slots = frame.slots + base + 1 /\ f.id[2] = Cardinality(DOMAIN variables)
  BY DEF Slot, NewId
<1>6. FrameWell(f, Len(frames) + 1, Cardinality(DOMAIN variables), closures)
  <2>1. f.slots \in Nat /\ f.slots + Registers <= StackMax
    BY <1>2, <1>4, <1>5, Widths, SMTT(30) DEF Slot
  <2>2. f.id = <<Len(frames) + 1 - 1, f.id[2]>>
    BY <1>3 DEF NewId
  <2> QED BY <2>1, <2>2, <1>3, <1>5 DEF FrameWell
<1> HIDE DEF f
<1>7. \A i \in DOMAIN frames : frames[i].slots < f.slots
  <2> SUFFICES ASSUME NEW i \in DOMAIN frames PROVE frames[i].slots < f.slots
    OBVIOUS
  <2>1. frames[i].slots \in Nat
    BY <1>3 DEF FramesWell, FrameWell
  <2>2. frames[i].slots <= frame.slots
    <3>1. CASE i = Len(frames)
      BY <3>1, <1>3, <1>4
    <3>2. CASE i < Len(frames)
      BY <3>2, <2>1, <1>3, <1>4 DEF FramesWell
    <3> QED BY <3>1, <3>2, <1>3
  <2> QED BY <2>1, <2>2, <1>4, <1>5
<1>8. ASSUME NEW u \in DOMAIN upvalues, upvalues[u].location # Closed
      PROVE  upvalues[u].location < f.slots
  <2> DEFINE at == upvalues[u].location
  <2>1. CellOwned(frames, upvalues[u]) /\ upvalues[u].of \in DOMAIN variables
    BY DEF Shares, Sharing, Owned, CellsWell
  <2>2. PICK i \in DOMAIN frames : Owns(frames, upvalues[u], i)
    BY <2>1, <1>8 DEF CellOwned
  <2>3. PICK r \in 0 .. Registers - 1 :
          /\ at = frames[i].slots + r /\ upvalues[u].of = <<frames[i].id, r>>
          /\ i < Len(frames) => at < frames[i + 1].slots
    BY <2>2 DEF Owns
  <2>4. frames[i].slots \in Nat
    BY <1>3 DEF FramesWell, FrameWell
  <2> HIDE DEF at
  <2>5. CASE i = Len(frames)
    <3>1. r \notin base + 1 .. Registers - 1
      BY <2>1, <2>3, <2>5, <1>2, <1>3
    <3>2. r <= base
      BY <3>1, <1>4
    <3> QED BY <3>2, <2>3, <2>5, <1>3, <1>4, <1>5 DEF at
  <2>6. CASE i < Len(frames)
    <3>1. i + 1 \in DOMAIN frames /\ at < frames[i + 1].slots
      BY <2>3, <2>6, <1>3
    <3>2. frames[i + 1].slots \in Nat /\ frames[i + 1].slots < f.slots
      BY <3>1, <1>3, <1>7 DEF FramesWell, FrameWell
    <3> QED BY <3>1, <3>2, <2>3, <2>4, <1>5, <1>4, SMTT(30) DEF at
  <2> QED BY <2>5, <2>6, <1>3
<1>9. Sharing(Append(frames, f), upvalues, open, stack, variables, closures)
  <2>1. \A u \in DOMAIN upvalues : upvalues[u].location # Closed =>
          upvalues[u].location < f.slots /\ stack[upvalues[u].location] = stack[upvalues[u].location]
    BY <1>8
  <2>2. Sharing(frames, upvalues, open, stack, variables, closures)
    BY DEF Shares
  <2> QED BY <2>1, <2>2, <1>5, <1>6, <1>7, Pushes
<1> QED BY <1>1, <1>9 DEF Shares

LEMMA OpenIs ==
  ASSUME Shares
  PROVE  /\ IsSeq(open) /\ DOMAIN open = 1 .. Len(open) /\ Len(open) \in Nat
         /\ \A k \in DOMAIN open : /\ upvalues[open[k]].location \in Int
                                   /\ open[k] \in DOMAIN upvalues
<1>1. IsSeq(open)
  BY DEF Shares, Sharing, Listing
<1>2. \A k \in DOMAIN open : upvalues[open[k]].location \in Int /\ open[k] \in DOMAIN upvalues
  BY OpenLocations DEF Shares
<1> QED BY <1>1, <1>2, SeqFacts

\* The pieces captureUpvalue cuts the open upvalues into.
LEMMA AboveIs ==
  ASSUME Shares, NEW at \in Int
  PROVE  LET n == Reaching(at + 1)
             rest == SubSeq(open, Len(Above(at)) + 1, Len(open))
         IN  /\ Splits(upvalues, open, n, at + 1) /\ Above(at) = SubSeq(open, 1, n)
             /\ Len(Above(at)) = n
             /\ rest # <<>> <=> n < Len(open)
             /\ n < Len(open) => Head(rest) = open[n + 1]
<1> DEFINE n == Reaching(at + 1)
           rest == SubSeq(open, Len(Above(at)) + 1, Len(open))
<1>1. Splits(upvalues, open, n, at + 1)
  BY OpenIs, ReachingIs
<1>2. n \in 0 .. Len(open) /\ Len(open) \in Nat
  BY <1>1, OpenIs DEF Splits
<1>3. Above(at) = SubSeq(open, 1, n)
  BY DEF Above
<1> HIDE DEF n
<1>4. Len(SubSeq(open, 1, n)) = n
  <2>1. 1 \in 1 .. Len(open) + 1 /\ n \in 1 - 1 .. Len(open)
    BY <1>2
  <2>2. Len(SubSeq(open, 1, n)) = n - 1 + 1
    BY <2>1, OpenIs, SubSeqIs
  <2> QED BY <2>2, <1>2
<1>5. PICK first \in 1 .. Len(open) + 1 : first = n + 1
  BY <1>2
<1>6. rest = SubSeq(open, first, Len(open))
  BY <1>3, <1>4, <1>5
<1>7. /\ IsSeq(rest) /\ Len(rest) = Len(open) - first + 1
      /\ \A k \in 1 .. Len(open) - first + 1 : rest[k] = open[first + k - 1]
  <2>1. Len(open) \in first - 1 .. Len(open)
    BY <1>2, <1>5
  <2> QED BY <2>1, <1>6, OpenIs, SubSeqIs, ZenonT(40)
<1> HIDE DEF rest
<1>8. rest # <<>> <=> Len(rest) # 0
  BY <1>7, EmptySeq DEF IsSeq
<1>9. n < Len(open) => Head(rest) = open[n + 1]
  <2> SUFFICES ASSUME n < Len(open) PROVE Head(rest) = open[n + 1]
    OBVIOUS
  <2>1. Len(rest) >= 1 /\ rest[1] = open[n + 1]
    <3>1. 1 \in 1 .. Len(open) - first + 1 /\ first + 1 - 1 = n + 1
      BY <1>2, <1>5
    <3> QED BY <3>1, <1>7, <1>2, <1>5
  <2>2. rest # <<>>
    BY <2>1, <1>8
  <2>3. Head(rest) = rest[1]
    BY <2>2, <1>7, HeadTailProperties DEF IsSeq
  <2> QED BY <2>1, <2>3
<1> QED BY <1>1, <1>2, <1>3, <1>4, <1>5, <1>7, <1>8, <1>9 DEF n, rest

LEMMA CaptureShares ==
  ASSUME Shares, frames # <<>>, NEW r \in 0 .. Registers - 1,
         Capture(Slot(frame, r), <<frame.id, r>>), UNCHANGED <<stack, frames>>
  PROVE  Shares'
<1> DEFINE at == Slot(frame, r)
           n == Reaching(at + 1)
           rest == SubSeq(open, Len(Above(at)) + 1, Len(open))
           new == Len(upvalues) + 1
<1>1. frame = frames[Len(frames)] /\ frame.slots \in Nat /\ at = frame.slots + r /\ at \in Nat
  BY FrameIs DEF FrameWell, Slot
<1>2. /\ Splits(upvalues, open, n, at + 1) /\ Above(at) = SubSeq(open, 1, n)
      /\ Len(Above(at)) = n
      /\ rest # <<>> <=> n < Len(open)
      /\ n < Len(open) => Head(rest) = open[n + 1]
  <2>1. at \in Int
    BY <1>1
  <2> HIDE DEF at
  <2> QED BY <2>1, AboveIs
<1>3. n \in 0 .. Len(open) /\ Len(open) \in Nat
  BY <1>2, OpenIs DEF Splits
<1>4. CASE n < Len(open) /\ upvalues[open[n + 1]].location = at
  <2>1. rest # <<>> /\ upvalues[Head(rest)].location = at
    BY <1>2, <1>4
  <2>2. closures' = Append(closures, <<Head(rest)>>) /\ UNCHANGED <<upvalues, open, variables>>
    BY <2>1 DEF Capture
  <2>3. open[n + 1] \in DOMAIN upvalues
    <3>1. n + 1 \in DOMAIN open
      BY <1>3, <1>4, OpenIs
    <3> QED BY <3>1, OpenIs
  <2> DEFINE c == <<Head(rest)>>
  <2>4. c[1] \in DOMAIN upvalues
    BY <2>3, <1>2, <1>4
  <2>5. closures' = Append(closures, c)
    BY <2>2
  <2> HIDE DEF c
  <2>6. Sharing(frames, upvalues, open, stack, variables, Append(closures, c))
    BY <2>4, ClosureAdded DEF Shares
  <2> QED BY <2>2, <2>5, <2>6 DEF Shares
<1>5. CASE ~(n < Len(open) /\ upvalues[open[n + 1]].location = at)
  <2>1. ~(rest # <<>> /\ upvalues[Head(rest)].location = at)
    BY <1>2, <1>5
  <2>2. /\ upvalues' = Append(upvalues, [location |-> at, closed |-> Object,
                                         of |-> <<frame.id, r>>])
        /\ open' = Above(at) \o <<new>> \o rest
        /\ closures' = Append(closures, <<new>>)
        /\ variables' = [v \in DOMAIN variables \cup {<<frame.id, r>>} |->
                           IF v = <<frame.id, r>> THEN stack[at] ELSE variables[v]]
    BY <2>1 DEF Capture
  <2>3. open' = Inserted(open, n, new)
    BY <2>2, <1>2 DEF Inserted
  <2>4. Created(frames, upvalues, open, stack, variables, n, r, upvalues', open', variables')
    BY <2>2, <2>3, <1>1 DEF Created
  <2>5. Splits(upvalues, open, n, frames[Len(frames)].slots + r + 1)
        /\ (n < Len(open) => upvalues[open[n + 1]].location # frames[Len(frames)].slots + r)
    BY <1>1, <1>2, <1>5
  <2>6. Sharing(frames, upvalues', open', stack, variables', closures) /\ new \in DOMAIN upvalues'
    <3> HIDE DEF n, new
    <3> QED BY <2>4, <2>5, Creates DEF Shares, new
  <2> DEFINE c == <<new>>
  <2>7. c[1] \in DOMAIN upvalues' /\ closures' = Append(closures, c)
    BY <2>2, <2>6
  <2> HIDE DEF c
  <2>8. Sharing(frames, upvalues', open', stack, variables', Append(closures, c))
    BY <2>6, <2>7, ClosureAdded
  <2> QED BY <2>7, <2>8 DEF Shares
<1> QED BY <1>4, <1>5

LEMMA ClosureShares ==
  ASSUME Shares, frames # <<>>, NEW local \in BOOLEAN, NEW a \in 0 .. Registers - 1,
         OP_CLOSURE(local, a)
  PROVE  Shares'
<1>1. UNCHANGED <<stack, frames>>
  BY DEF OP_CLOSURE
<1>2. CASE local
  BY <1>1, <1>2, CaptureShares DEF OP_CLOSURE
<1>3. CASE ~local
  <2>1. /\ frame.closure # 0 /\ closures' = Append(closures, closures[frame.closure])
        /\ UNCHANGED <<upvalues, open, variables>>
    BY <1>3 DEF OP_CLOSURE
  <2>2. frame.closure \in 1 .. Len(closures)
    <3>1. frame.closure \in 0 .. Len(closures)
      BY FrameIs DEF FrameWell
    <3>2. Len(closures) \in Nat
      BY SeqFacts DEF Shares, Sharing, CellsWell
    <3> QED BY <3>1, <3>2, <2>1
  <2>3. closures[frame.closure][1] \in DOMAIN upvalues
    BY <2>2, SeqFacts DEF Shares, Sharing, CellsWell
  <2>4. Sharing(frames, upvalues, open, stack, variables, Append(closures, closures[frame.closure]))
    BY <2>3, ClosureAdded DEF Shares
  <2> QED BY <2>1, <2>4, <1>1 DEF Shares
<1> QED BY <1>2, <1>3

LEMMA SetShares ==
  ASSUME Shares, frames # <<>>, NEW a \in 0 .. Registers - 1, OP_SET_UPVALUE(a)
  PROVE  Shares'
<1> DEFINE w == closures[frame.closure][1]
           value == stack[Slot(frame, a)]
<1>1. frame.closure # 0 /\ UNCHANGED <<frames, closures, open>>
  BY DEF OP_SET_UPVALUE
<1>2. w \in DOMAIN upvalues
  <2>1. frame.closure \in 0 .. Len(closures)
    BY FrameIs DEF FrameWell
  <2>2. DOMAIN closures = 1 .. Len(closures) /\ Len(closures) \in Nat
    BY SeqFacts DEF Shares, Sharing, CellsWell
  <2>3. frame.closure \in DOMAIN closures
    BY <2>1, <2>2, <1>1
  <2> QED BY <2>3 DEF Shares, Sharing, CellsWell
<1>3. /\ variables' = [variables EXCEPT ![upvalues[w].of] = value]
      /\ IF upvalues[w].location = Closed
         THEN upvalues' = [upvalues EXCEPT ![w].closed = value] /\ stack' = stack
         ELSE upvalues' = upvalues /\ stack' = [stack EXCEPT ![upvalues[w].location] = value]
  BY DEF OP_SET_UPVALUE, UpvalueOf
<1> HIDE DEF w, value
<1>4. Written(upvalues, stack, variables, w, value, upvalues', stack', variables')
  BY <1>3 DEF Written
<1>5. Sharing(frames, upvalues', open, stack', variables', closures)
  BY <1>2, <1>4, Writes DEF Shares
<1> QED BY <1>1, <1>5 DEF Shares

LEMMA ReturnShares ==
  ASSUME Shares, frames # <<>>, NEW a \in 0 .. Registers - 1, OP_RETURN(a)
  PROVE  Shares'
<1> DEFINE n == Reaching(frame.slots)
           G == Front(frames)
<1>1. /\ Len(frames) \in Nat \ {0} /\ Len(frames) \in DOMAIN frames /\ frame = frames[Len(frames)]
      /\ DOMAIN frames = 1 .. Len(frames)
      /\ FrameWell(frame, Len(frames), Cardinality(DOMAIN variables), closures)
      /\ FramesWell(frames, Cardinality(DOMAIN variables), closures)
  BY FrameIs
<1>2. /\ upvalues' = [u \in DOMAIN upvalues |->
                        IF u \in {open[i] : i \in 1 .. n}
                        THEN [upvalues[u] EXCEPT !.closed = stack[upvalues[u].location],
                                                 !.location = Closed]
                        ELSE upvalues[u]]
      /\ open' = Kept(open, n) /\ frames' = G /\ UNCHANGED closures
  BY DEF OP_RETURN, Kept
<1>3. Splits(upvalues, open, n, frames[Len(frames)].slots)
  <2>1. frame.slots \in Int
    BY <1>1 DEF FrameWell
  <2> QED BY <2>1, <1>1, OpenIs, ReachingIs
<1> HIDE DEF n
<1>4. Closing(upvalues, open, stack, n, upvalues')
  <2>1. IsSeq(upvalues) /\ \A u \in DOMAIN upvalues : IsCell(upvalues[u])
    BY DEF Shares, Sharing, CellsWell
  <2>2. upvalues' = [u \in DOMAIN upvalues |->
                       IF u \in {open[i] : i \in 1 .. n}
                       THEN [upvalues[u] EXCEPT !.closed = stack[upvalues[u].location],
                                                !.location = Closed]
                       ELSE upvalues[u]]
    BY <1>2
  <2> QED BY ONLY <2>1, <2>2, ClosingIs
<1>5. Sharing(G, upvalues', open', stack, variables, closures)
  <2>1. Sharing(frames, upvalues, open, stack, variables, closures)
    BY DEF Shares
  <2>2. Sharing(G, upvalues', Kept(open, n), stack, variables, closures)
    BY <2>1, <1>3, <1>4, Pops
  <2> QED BY <2>2, <1>2
<1>6. CASE Len(frames) = 1
  <2>1. UNCHANGED <<stack, variables>>
    BY <1>6 DEF OP_RETURN
  <2> QED BY <2>1, <1>2, <1>5 DEF Shares
<1>7. CASE Len(frames) # 1
  <2> DEFINE result == stack[Slot(frame, a)]
             r == frame.returnToReg
  <2>1. Stored(frames[Len(frames) - 1], frame.returnToReg, result)
    BY <1>7 DEF OP_RETURN
  <2>2. Len(G) = Len(frames) - 1 /\ G[Len(G)] = frames[Len(frames) - 1] /\ G # <<>>
    <3>1. /\ Len(G) = Len(frames) - 1 /\ \A i \in 1 .. Len(frames) - 1 : G[i] = frames[i]
      BY <1>1, CutFrames
    <3>2. Len(frames) - 1 \in 1 .. Len(frames) - 1
      BY <1>1, <1>7
    <3>3. Len(<<>>) = 0
      OBVIOUS
    <3> QED BY <3>1, <3>2, <3>3
  <2> HIDE DEF result, G
  <2>3. Storing(G, stack, variables, stack', variables', r, result)
    BY <2>1, <2>2 DEF Stored, Storing, Slot
  <2>4. r \in 0 .. Registers - 1
    BY <1>1 DEF FrameWell
  <2> HIDE DEF r
  <2>5. Sharing(G, upvalues', open', stack', variables', closures)
    BY <1>5, <2>2, <2>3, <2>4, Stores
  <2> QED BY <2>5, <1>2 DEF Shares, G
<1> QED BY <1>6, <1>7

LEMMA ClosureSteps == ClosureInv /\ (CallNext \/ ClosureNext) => ClosureInv'
<1> SUFFICES ASSUME ClosureInv, CallNext \/ ClosureNext, ~strayed' PROVE Shares'
  BY DEF ClosureInv, Shares
<1>1. ASSUME NEW isCorrect, walia_interpret(isCorrect) PROVE Shares'
  <2>1. Shares
    BY <1>1 DEF walia_interpret, ClosureInv, Shares
  <2> QED BY <1>1, <2>1, InterpretShares
<1>2. ASSUME ~strayed PROVE Shares
  BY <1>2 DEF ClosureInv, Shares
<1>3. ASSUME NEW a \in 0 .. Registers - 1, NEW value, Running(OP_LOAD_CONST(a, value)) PROVE Shares'
  BY <1>2, <1>3, LoadShares DEF Running, OP_LOAD_CONST
<1>4. ASSUME NEW a \in 0 .. Registers - 1, Running(OP_RETURN(a)) PROVE Shares'
  BY <1>2, <1>4, ReturnShares DEF Running
<1>5. ASSUME NEW a \in 0 .. Registers - 1, NEW base \in a .. Registers - 1,
             NEW c \in 0 .. Len(closures), Running(OP_CALL(a, base, c))
      PROVE  Shares'
  BY <1>2, <1>5, CallShares DEF Running
<1>6. ASSUME NEW a \in 0 .. Registers - 1, NEW local \in BOOLEAN, Running(OP_CLOSURE(local, a))
      PROVE  Shares'
  BY <1>2, <1>6, ClosureShares DEF Running
<1>7. ASSUME NEW a \in 0 .. Registers - 1, Running(OP_GET_UPVALUE(a)) PROVE Shares'
  BY <1>2, <1>7, LoadShares DEF Running, OP_GET_UPVALUE
<1>8. ASSUME NEW a \in 0 .. Registers - 1, Running(OP_SET_UPVALUE(a)) PROVE Shares'
  BY <1>2, <1>8, SetShares DEF Running
<1> QED BY <1>1, <1>3, <1>4, <1>5, <1>6, <1>7, <1>8 DEF CallNext, ClosureNext

LEMMA SharedByClosures == ClosureInv => VariablesShared
<1> SUFFICES ASSUME ~strayed, ClosureInv, NEW u \in DOMAIN upvalues
             PROVE  Content(upvalues[u]) = variables[upvalues[u].of]
  BY DEF VariablesShared
<1>1. Contents(upvalues[u], stack) = variables[upvalues[u].of]
  BY DEF ClosureInv, Sharing, Agree
<1> QED BY <1>1 DEF Content, Contents

-----------------------------------------------------------------------------
(* Every step keeps handlers nested as the frames are.                        *)

LEMMA Largest ==
  ASSUME NEW n \in Nat, NEW A \in SUBSET (1 .. n), A # {}
  PROVE  \E j \in A : \A k \in A : k <= j
<1> DEFINE B == {n - j : j \in A}
           m == FirstOf(B)
<1>1. B \in SUBSET Nat /\ B # {}
  <2>1. \A j \in A : j \in 1 .. n
    OBVIOUS
  <2>2. \A j \in A : n - j \in Nat
    BY <2>1
  <2>3. PICK j \in A : TRUE
    OBVIOUS
  <2>4. n - j \in B
    BY <2>3
  <2> QED BY <2>2, <2>4
<1>2. m \in B /\ \A k \in B : m <= k
  <2> HIDE DEF B
  <2> QED BY <1>1, LeastElement
<1> HIDE DEF m
<1>3. PICK j \in A : m = n - j
  BY <1>2
<1>4. \A k \in A : n - j <= n - k
  BY <1>2, <1>3
<1>5. \A k \in A : k \in Nat /\ j \in Nat
  OBVIOUS
<1>6. \A k \in A : k <= j
  BY <1>4, <1>5
<1> QED BY <1>6

Nests == Nesting(frames, handlers, continuation.frames)

LEMMA EffectStarts == MachineInit => EffectInv
<1> SUFFICES ASSUME MachineInit PROVE EffectInv
  OBVIOUS
<1>1. /\ frames = <<>> /\ upvalues = <<>> /\ handlers = <<>> /\ continuation.frames = <<>>
  BY DEF MachineInit, NoContinuation
<1>2. IsSeq(<<>>) /\ DOMAIN <<>> = {}
  <2>1. <<>> \in Seq({}) /\ DOMAIN <<>> = {}
    OBVIOUS
  <2> QED BY <2>1, SeqIs
<1> QED BY <1>1, <1>2 DEF EffectInv, Nesting

\* Frames may be added above, and those above every handler's may go.
LEMMA NestsUnder ==
  ASSUME NEW F, NEW H, NEW K, Nesting(F, H, K), NEW G, IsSeq(G),
         \A i \in DOMAIN H : H[i].frameIndex \in 1 .. Len(G),
         \A i \in DOMAIN F : i \in DOMAIN G => G[i].slots = F[i].slots
  PROVE  Nesting(G, H, K)
<1>1. DOMAIN F = 1 .. Len(F) /\ DOMAIN G = 1 .. Len(G) /\ IsSeq(H) /\ IsSeq(K)
  BY SeqFacts DEF Nesting
<1>2. ASSUME NEW i \in DOMAIN H PROVE H[i].stackBase = G[H[i].frameIndex].slots
  BY <1>1 DEF Nesting
<1> QED BY <1>1, <1>2 DEF Nesting

LEMMA FirstFrame ==
  ASSUME NEW H, NEW K, Nesting(<<>>, H, K), NEW f
  PROVE  Nesting(<<f>>, H, K)
<1>1. DOMAIN <<>> = {} /\ Len(<<>>) = 0
  OBVIOUS
<1>2. DOMAIN H = {}
  <2>1. \A i \in DOMAIN H : H[i].frameIndex \in 1 .. Len(<<>>)
    BY DEF Nesting
  <2>2. \A i \in DOMAIN H : H[i].frameIndex \in 1 .. 0
    BY <1>1, <2>1
  <2>3. \A i \in DOMAIN H : FALSE
    BY <2>2
  <2> QED BY <2>3, Zenon
<1>3. <<f>> \in Seq({f})
  OBVIOUS
<1>4. IsSeq(<<f>>)
  BY <1>3, SeqIs
<1> QED BY <1>2, <1>4 DEF Nesting

LEMMA CallNests ==
  ASSUME Nests, NEW f, frames' = Append(frames, f), UNCHANGED <<handlers, continuation>>
  PROVE  Nests'
<1>1. IsSeq(frames)
  BY DEF Nests, Nesting
<1>2. DOMAIN frames = 1 .. Len(frames) /\ Len(frames) \in Nat
  BY <1>1, SeqFacts
<1>3. /\ IsSeq(frames') /\ Len(frames') = Len(frames) + 1
      /\ \A i \in 1 .. Len(frames) : frames'[i] = frames[i]
  BY <1>1, AppendIs
<1>4. 1 .. Len(frames) \subseteq 1 .. Len(frames')
  BY <1>2, <1>3
<1>5. \A i \in DOMAIN handlers : handlers[i].frameIndex \in 1 .. Len(frames')
  BY <1>4 DEF Nests, Nesting
<1>6. Nesting(frames', handlers, continuation.frames)
  BY <1>2, <1>3, <1>5, NestsUnder DEF Nests
<1> QED BY <1>6 DEF Nests

LEMMA ReturnNests ==
  ASSUME Nests, frames # <<>>, NEW a, OP_RETURN(a), ~strayed'
  PROVE  Nests'
<1>1. frames' = Front(frames) /\ UNCHANGED <<handlers, continuation>>
      /\ ~(\E i \in DOMAIN handlers : handlers[i].frameIndex >= Len(frames))
  BY DEF OP_RETURN
<1>2. IsSeq(frames)
  BY DEF Nests, Nesting
<1>3. DOMAIN frames = 1 .. Len(frames) /\ Len(frames) \in Nat \ {0}
  BY <1>2, SeqFacts, EmptySeq DEF IsSeq
<1>4. /\ IsSeq(frames') /\ Len(frames') = Len(frames) - 1
      /\ \A i \in 1 .. Len(frames) - 1 : frames'[i] = frames[i]
      /\ DOMAIN frames' = 1 .. Len(frames) - 1
  <2>1. 1 \in 1 .. Len(frames) + 1 /\ Len(frames) - 1 \in 1 - 1 .. Len(frames)
    BY <1>3
  <2>2. /\ IsSeq(SubSeq(frames, 1, Len(frames) - 1))
        /\ Len(SubSeq(frames, 1, Len(frames) - 1)) = Len(frames) - 1 - 1 + 1
        /\ DOMAIN SubSeq(frames, 1, Len(frames) - 1) = 1 .. Len(frames) - 1 - 1 + 1
        /\ \A i \in 1 .. Len(frames) - 1 - 1 + 1 :
             SubSeq(frames, 1, Len(frames) - 1)[i] = frames[1 + i - 1]
    BY <1>2, <2>1, SubSeqIs, ZenonT(40)
  <2>3. Len(frames) - 1 - 1 + 1 = Len(frames) - 1 /\ \A i \in 1 .. Len(frames) - 1 : 1 + i - 1 = i
    BY <1>3
  <2> QED BY <2>2, <2>3, <1>1 DEF Front
<1>5. \A i \in DOMAIN handlers : handlers[i].frameIndex \in 1 .. Len(frames')
  BY <1>1, <1>3, <1>4 DEF Nests, Nesting
<1>6. Nesting(frames', handlers, continuation.frames)
  BY <1>3, <1>4, <1>5, NestsUnder DEF Nests
<1> QED BY <1>1, <1>6 DEF Nests

LEMMA HandleNests ==
  ASSUME Nests, frames # <<>>, NEW effect, OP_HANDLE(effect)
  PROVE  Nests'
<1> DEFINE h == [effectName |-> effect, frameIndex |-> Len(frames), stackBase |-> frame.slots]
<1>1. handlers' = Append(handlers, h) /\ UNCHANGED <<frames, continuation>>
  BY DEF OP_HANDLE
<1>2. h.frameIndex = Len(frames) /\ h.stackBase = frames[Len(frames)].slots
  BY DEF frame, Last
<1> HIDE DEF h
<1>3. IsSeq(frames) /\ IsSeq(handlers) /\ IsSeq(continuation.frames)
  BY DEF Nests, Nesting
<1>4. Len(frames) \in Nat \ {0} /\ DOMAIN handlers = 1 .. Len(handlers) /\ Len(handlers) \in Nat
  BY <1>3, SeqFacts, EmptySeq DEF IsSeq
<1>5. /\ IsSeq(handlers') /\ DOMAIN handlers' = 1 .. Len(handlers) + 1
      /\ \A i \in 1 .. Len(handlers) : handlers'[i] = handlers[i]
      /\ handlers'[Len(handlers) + 1] = h
  BY <1>1, <1>3, AppendIs
<1>6. \A i \in DOMAIN handlers : /\ handlers[i].frameIndex \in 1 .. Len(frames)
                                 /\ handlers[i].stackBase = frames[handlers[i].frameIndex].slots
                                 /\ \A j \in 1 .. i : handlers[j].frameIndex <= handlers[i].frameIndex
  BY DEF Nests, Nesting
<1>7. ASSUME NEW i \in DOMAIN handlers'
      PROVE  /\ handlers'[i].frameIndex \in 1 .. Len(frames)
             /\ handlers'[i].stackBase = frames[handlers'[i].frameIndex].slots
             /\ \A j \in 1 .. i : handlers'[j].frameIndex <= handlers'[i].frameIndex
  <2>1. CASE i \in 1 .. Len(handlers)
    <3>1. \A j \in 1 .. i : j \in 1 .. Len(handlers)
      BY <2>1, <1>4
    <3> QED BY <2>1, <3>1, <1>4, <1>5, <1>6
  <2>2. CASE i = Len(handlers) + 1
    <3>1. \A j \in 1 .. i : j \in 1 .. Len(handlers) \/ j = i
      BY <2>2, <1>4
    <3>2. \A j \in 1 .. Len(handlers) : handlers'[j].frameIndex <= Len(frames)
      BY <1>4, <1>5, <1>6
    <3> QED BY <2>2, <3>1, <3>2, <1>2, <1>4, <1>5
  <2> QED BY <2>1, <2>2, <1>4, <1>5
<1>8. Nesting(frames, handlers', continuation.frames)
  BY <1>3, <1>5, <1>7 DEF Nesting
<1> QED BY <1>1, <1>8 DEF Nests

LEMMA PerformNests ==
  ASSUME Nests, frames # <<>>, NEW effect, NEW dest, OP_PERFORM(effect, dest), ~strayed'
  PROVE  Nests'
<1> DEFINE answering == {i \in DOMAIN handlers : handlers[i].effectName = effect}
           at == CHOOSE j \in answering : \A k \in answering : k <= j
           handler == handlers[at]
<1>1. /\ answering # {} /\ continuation' = captureContinuation(handler, dest)
      /\ handlers' = HandlersBelow(at) /\ frames' = SubSeq(frames, 1, handler.frameIndex)
  BY DEF OP_PERFORM, GivesUp
<1>2. IsSeq(frames) /\ IsSeq(handlers) /\ IsSeq(continuation.frames)
  BY DEF Nests, Nesting
<1>3. DOMAIN handlers = 1 .. Len(handlers) /\ Len(handlers) \in Nat
      /\ DOMAIN frames = 1 .. Len(frames) /\ Len(frames) \in Nat
  BY <1>2, SeqFacts
<1>4. at \in answering
  <2>1. answering \in SUBSET (1 .. Len(handlers))
    BY <1>3
  <2> HIDE DEF answering
  <2>2. \E j \in answering : \A k \in answering : k <= j
    BY <1>1, <1>3, <2>1, Largest
  <2> QED BY <2>2
<1>5. at \in 1 .. Len(handlers)
  BY <1>3, <1>4
<1> HIDE DEF at, answering
<1>6. \A i \in DOMAIN handlers : /\ handlers[i].frameIndex \in 1 .. Len(frames)
                                 /\ handlers[i].stackBase = frames[handlers[i].frameIndex].slots
                                 /\ \A j \in 1 .. i : handlers[j].frameIndex <= handlers[i].frameIndex
  BY DEF Nests, Nesting
<1>7. PICK n \in 1 .. Len(frames) : n = handler.frameIndex
  BY <1>3, <1>5, <1>6
<1>8. /\ IsSeq(frames') /\ Len(frames') = n
      /\ \A i \in 1 .. n : frames'[i] = frames[i]
  <2>1. 1 \in 1 .. Len(frames) + 1 /\ n \in 1 - 1 .. Len(frames)
    BY <1>3
  <2>2. /\ IsSeq(SubSeq(frames, 1, n)) /\ Len(SubSeq(frames, 1, n)) = n - 1 + 1
        /\ \A i \in 1 .. n - 1 + 1 : SubSeq(frames, 1, n)[i] = frames[1 + i - 1]
    BY <1>2, <2>1, SubSeqIs
  <2>3. n - 1 + 1 = n /\ \A i \in 1 .. n : 1 + i - 1 = i
    BY <1>3
  <2> QED BY <2>2, <2>3, <1>1, <1>7
<1>9. PICK m \in 0 .. Len(handlers) : m = at - 1
  BY <1>3, <1>5
<1>10. /\ IsSeq(handlers') /\ DOMAIN handlers' = 1 .. m
       /\ \A i \in 1 .. m : handlers'[i] = handlers[i]
  <2>1. 1 \in 1 .. Len(handlers) + 1 /\ m \in 1 - 1 .. Len(handlers)
    BY <1>3
  <2>2. /\ IsSeq(SubSeq(handlers, 1, m)) /\ DOMAIN SubSeq(handlers, 1, m) = 1 .. m - 1 + 1
        /\ \A i \in 1 .. m - 1 + 1 : SubSeq(handlers, 1, m)[i] = handlers[1 + i - 1]
    BY <1>2, <2>1, SubSeqIs
  <2>3. m - 1 + 1 = m /\ \A i \in 1 .. m : 1 + i - 1 = i
    BY <1>3
  <2> QED BY <2>2, <2>3, <1>1, <1>9 DEF HandlersBelow
<1>11. ASSUME NEW i \in DOMAIN handlers'
       PROVE  /\ handlers'[i].frameIndex \in 1 .. n
              /\ handlers'[i].stackBase = frames'[handlers'[i].frameIndex].slots
              /\ \A j \in 1 .. i : handlers'[j].frameIndex <= handlers'[i].frameIndex
  <2>1. i \in 1 .. m /\ i \in DOMAIN handlers /\ at \in DOMAIN handlers /\ i \in 1 .. at
    BY <1>3, <1>5, <1>9, <1>10
  <2>2. handlers[i].frameIndex <= n /\ handlers[i].frameIndex \in 1 .. Len(frames)
    BY <2>1, <1>6, <1>7
  <2>3. handlers[i].frameIndex \in 1 .. n
    BY <2>2, <1>3
  <2>4. \A j \in 1 .. i : j \in 1 .. m
    BY <2>1, <1>3
  <2> QED BY <2>1, <2>3, <2>4, <1>6, <1>8, <1>10
<1>12. IsSeq(continuation'.frames)
  <2> DEFINE above == SubSeq(frames, handler.frameIndex + 1, Len(frames))
             lifted == [i \in DOMAIN above |-> [above[i] EXCEPT !.slots = @ - handler.stackBase]]
  <2>1. continuation'.frames = lifted
    BY <1>1 DEF captureContinuation
  <2>2. PICK first \in 1 .. Len(frames) + 1 : first = n + 1
    BY <1>3
  <2>3. Len(frames) \in first - 1 .. Len(frames) /\ above = SubSeq(frames, first, Len(frames))
    BY <2>2, <1>3, <1>7
  <2>4. DOMAIN above = 1 .. Len(frames) - first + 1 /\ Len(frames) - first + 1 \in Nat
    BY <2>2, <2>3, <1>2, <1>3, SubSeqIs
  <2>5. lifted = [i \in 1 .. Len(frames) - first + 1 |-> lifted[i]]
    BY <2>4
  <2> HIDE DEF lifted, above
  <2>6. IsSeq(lifted)
    BY <2>4, <2>5, FunctionIs
  <2> QED BY <2>1, <2>6
<1>13. Nesting(frames', handlers', continuation'.frames)
  BY <1>8, <1>10, <1>11, <1>12 DEF Nesting
<1> QED BY <1>13 DEF Nests

LEMMA ResumeNests ==
  ASSUME Nests, NEW value, OP_RESUME(value)
  PROVE  Nests'
<1>1. UNCHANGED <<handlers, continuation>>
  BY DEF OP_RESUME
<1>2. CASE UNCHANGED frames
  BY <1>1, <1>2 DEF Nests
<1>3. CASE frames' # frames
  <2> DEFINE K == continuation.frames
             laid == [i \in DOMAIN K |-> [K[i] EXCEPT !.slots = @ + stackTop,
                                                      !.id = NewId(Len(frames) + i - 1)]]
  <2>1. frames' = frames \o laid
    BY <1>3 DEF OP_RESUME
  <2>2. IsSeq(frames) /\ IsSeq(K)
    BY DEF Nests, Nesting
  <2>3. DOMAIN K = 1 .. Len(K) /\ Len(K) \in Nat
    BY <2>2, SeqFacts
  <2>4. laid = [i \in 1 .. Len(K) |-> laid[i]]
    BY <2>3
  <2> HIDE DEF laid, K
  <2>5. IsSeq(laid) /\ Len(laid) \in Nat
    BY <2>3, <2>4, FunctionIs
  <2>6. DOMAIN frames = 1 .. Len(frames) /\ Len(frames) \in Nat
    BY <2>2, SeqFacts
  <2>7. /\ IsSeq(frames') /\ Len(frames') = Len(frames) + Len(laid)
        /\ \A i \in 1 .. Len(frames) + Len(laid) :
             frames'[i] = IF i <= Len(frames) THEN frames[i] ELSE laid[i - Len(frames)]
    BY <2>1, <2>2, <2>5, ConcatIs
  <2>8. 1 .. Len(frames) \subseteq 1 .. Len(frames')
    BY <2>5, <2>6, <2>7
  <2>9. \A i \in DOMAIN handlers : handlers[i].frameIndex \in 1 .. Len(frames')
    BY <2>8 DEF Nests, Nesting
  <2>10. \A i \in DOMAIN frames : frames'[i] = frames[i]
    BY <2>5, <2>6, <2>7
  <2>11. Nesting(frames', handlers, continuation.frames)
    BY <2>7, <2>9, <2>10, NestsUnder DEF Nests
  <2> QED BY <1>1, <2>11 DEF Nests
<1> QED BY <1>2, <1>3

LEMMA EffectSteps == EffectInv /\ (CallNext \/ EffectNext) => EffectInv'
<1> SUFFICES ASSUME EffectInv, CallNext \/ EffectNext PROVE EffectInv'
  OBVIOUS
<1>1. DOMAIN upvalues' = DOMAIN upvalues
  <2>1. CASE CallNext
    BY <2>1 DEF CallNext, Running, walia_interpret, OP_LOAD_CONST, OP_RETURN, OP_CALL, runtimeError
  <2>2. CASE EffectNext
    BY <2>2 DEF EffectNext, Running, OP_HANDLE, OP_PERFORM, OP_RESUME, GivesUp
  <2> QED BY <2>1, <2>2
<1> SUFFICES ASSUME ~strayed' PROVE Nests'
  BY <1>1 DEF EffectInv, Nests
<1>2. ASSUME ~strayed PROVE Nests
  BY <1>2 DEF EffectInv, Nests
<1>3. ASSUME NEW isCorrect, walia_interpret(isCorrect) PROVE Nests'
  <2>1. Nesting(<<>>, handlers, continuation.frames) /\ UNCHANGED <<handlers, continuation>>
    BY <1>2, <1>3 DEF walia_interpret, Nests
  <2>2. UNCHANGED frames \/ \E f : frames' = <<f>>
    BY <1>3 DEF walia_interpret
  <2>3. frames = <<>>
    BY <1>3 DEF walia_interpret
  <2> QED BY <2>1, <2>2, <2>3, FirstFrame DEF Nests
<1>4. ASSUME NEW a, NEW value, Running(OP_LOAD_CONST(a, value)) PROVE Nests'
  BY <1>2, <1>4 DEF Running, OP_LOAD_CONST, Nests
<1>5. ASSUME NEW a, Running(OP_RETURN(a)) PROVE Nests'
  BY <1>2, <1>5, ReturnNests DEF Running
<1>6. ASSUME NEW a, NEW base, NEW c, Running(OP_CALL(a, base, c)) PROVE Nests'
  <2>1. Nests /\ UNCHANGED <<handlers, continuation>>
    BY <1>2, <1>6 DEF Running, OP_CALL, runtimeError
  <2>2. \E f : frames' = Append(frames, f)
    BY <1>6 DEF Running, OP_CALL, runtimeError
  <2> QED BY <2>1, <2>2, CallNests
<1>7. ASSUME NEW effect, Running(OP_HANDLE(effect)) PROVE Nests'
  BY <1>2, <1>7, HandleNests DEF Running
<1>8. ASSUME NEW effect, NEW a, Running(OP_PERFORM(effect, a)) PROVE Nests'
  BY <1>2, <1>8, PerformNests DEF Running
<1>9. ASSUME NEW value, Running(OP_RESUME(value)) PROVE Nests'
  BY <1>2, <1>9, ResumeNests DEF Running
<1> QED BY <1>3, <1>4, <1>5, <1>6, <1>7, <1>8, <1>9 DEF CallNext, EffectNext

LEMMA NestedByEffects == EffectInv => HandlersNest /\ VariablesShared
<1> SUFFICES ASSUME EffectInv PROVE HandlersNest /\ VariablesShared
  OBVIOUS
<1>1. VariablesShared
  BY DEF EffectInv, VariablesShared
<1>2. ASSUME ~strayed PROVE HandlersNest
  <2>1. /\ IsSeq(frames)
        /\ \A i \in DOMAIN handlers :
             /\ handlers[i].frameIndex \in 1 .. Len(frames)
             /\ handlers[i].stackBase = frames[handlers[i].frameIndex].slots
             /\ \A j \in 1 .. i : handlers[j].frameIndex <= handlers[i].frameIndex
    BY <1>2 DEF EffectInv, Nesting
  <2>2. Len(frames) \in Nat
    BY <2>1, SeqFacts
  <2> QED BY <2>1, <2>2 DEF HandlersNest
<1> QED BY <1>1, <1>2 DEF HandlersNest


-----------------------------------------------------------------------------
(* The arena. The operators take the blocks as a parameter A, to speak of   *)
(* them before, between and after the merges of one release.               *)

Fields == {"size", "isFree", "next", "prev"}
EndIn(A, b) == b + Header + A[b].size

Shaped(A) == /\ DOMAIN A \subseteq Nat
             /\ \A b \in DOMAIN A : DOMAIN A[b] = Fields /\ A[b].size \in Nat

\* The links lead to the neighbours, in both directions, and no two blocks overlap.
NextSound(A, b) ==
  IF A[b].next = NULL THEN EndIn(A, b) = ArenaStart + ArenaSize
  ELSE A[b].next = EndIn(A, b) /\ EndIn(A, b) \in DOMAIN A /\ A[EndIn(A, b)].prev = b
PrevSound(A, b) ==
  A[b].prev # NULL => A[b].prev \in DOMAIN A /\ A[A[b].prev].next = b
Linking(A) ==
  /\ ArenaStart \in DOMAIN A /\ A[ArenaStart].prev = NULL
  /\ \A b \in DOMAIN A : ArenaStart <= b /\ NextSound(A, b) /\ PrevSound(A, b)
  /\ \A b, c \in DOMAIN A : b < c => EndIn(A, b) <= c

FreeApart(A, b) == A[b].next # NULL => ~(A[b].isFree /\ A[A[b].next].isFree)
Taken(A) == {b \in DOMAIN A : ~A[b].isFree}
Held(A, G) ==
  /\ DOMAIN G \subseteq Nat
  /\ Taken(A) = {p - Header : p \in DOMAIN G}
  /\ \A p \in DOMAIN G : G[p] \in Nat /\ G[p] <= A[p - Header].size

Tiling(A, G) ==
  /\ Shaped(A) /\ Linking(A) /\ Held(A, G)
  /\ \A b \in DOMAIN A : FreeApart(A, b)

ArenaInv == /\ HasArena => Tiling(blocks, granted)
            /\ ~HasArena => DOMAIN granted = {}

LEMMA ArenaFacts ==
  /\ ArenaStart \in Nat /\ ArenaSize \in Nat /\ Header \in Nat \ {0} /\ MinBlock \in Nat
  /\ ArenaSize > Header /\ NULL \notin Nat
  BY HeapAssumption

LEMMA TilingImplies == ArenaInv => ArenaTiled
<1> SUFFICES ASSUME ArenaInv, HasArena PROVE ArenaTiled
  BY DEF ArenaTiled
<1>1. Tiling(blocks, granted)
  BY DEF ArenaInv
<1>2. \A b \in DOMAIN blocks : EndIn(blocks, b) = End(b)
  BY DEF EndIn, End
<1>3. \A b \in DOMAIN blocks : NextSound(blocks, b) /\ FreeApart(blocks, b)
  BY <1>1 DEF Tiling, Linking
<1>4. \A b \in DOMAIN blocks :
         IF blocks[b].next = NULL THEN End(b) = ArenaStart + ArenaSize
         ELSE /\ blocks[b].next = End(b) /\ End(b) \in DOMAIN blocks
              /\ blocks[End(b)].prev = b
              /\ ~(blocks[b].isFree /\ blocks[End(b)].isFree)
  BY <1>2, <1>3 DEF NextSound, FreeApart
<1>5. ArenaStart \in DOMAIN blocks /\ blocks[ArenaStart].prev = NULL
  BY <1>1 DEF Tiling, Linking
<1>6. {b \in DOMAIN blocks : ~blocks[b].isFree} = {p - Header : p \in DOMAIN granted}
  BY <1>1 DEF Tiling, Held, Taken
<1>7. \A p \in DOMAIN granted : granted[p] <= blocks[p - Header].size
  BY <1>1 DEF Tiling, Held
<1> QED BY <1>4, <1>5, <1>6, <1>7 DEF ArenaTiled

-----------------------------------------------------------------------------
(* A block takes in the one after it.                                       *)

\* What A and S, the blocks after b took in n, have to do with each other.
Joined(A, S, b, n) ==
  /\ DOMAIN S = DOMAIN A \ {n}
  /\ \A c \in DOMAIN S : DOMAIN S[c] = Fields
  /\ \A c \in DOMAIN S : S[c].isFree = A[c].isFree
  /\ \A c \in DOMAIN S : S[c].size = IF c = b THEN A[b].size + Header + A[n].size ELSE A[c].size
  /\ \A c \in DOMAIN S : S[c].next = IF c = b THEN A[n].next ELSE A[c].next
  /\ \A c \in DOMAIN S : S[c].prev = IF c = A[n].next THEN b ELSE A[c].prev

LEMMA NextBlock ==
  ASSUME NEW A, Shaped(A), Linking(A), NEW b \in DOMAIN A, A[b].next # NULL
  PROVE  /\ A[b].next \in DOMAIN A /\ A[b].next = EndIn(A, b) /\ b < A[b].next
         /\ A[A[b].next].prev = b
BY ArenaFacts DEF Shaped, Linking, NextSound, EndIn

LEMMA AbsorbedJoins ==
  ASSUME NEW A, Shaped(A), Linking(A), NEW b \in DOMAIN A, A[b].next # NULL
  PROVE  Joined(A, Absorbed(A, b), b, A[b].next)
<1> DEFINE n == A[b].next
           grown == [A EXCEPT ![b].size = A[b].size + Header + A[n].size]
           m == A[n].next
           S == [p \in DOMAIN A \ {n} |-> Linked(grown, b, m)[p]]
<1>1. Absorbed(A, b) = S
  BY DEF Absorbed
<1>2. n \in DOMAIN A /\ b < n /\ b \in Nat /\ n \in Nat
  BY NextBlock DEF Shaped
<1>3. m # b
  <2> SUFFICES ASSUME m = b PROVE FALSE
    OBVIOUS
  <2>1. m # NULL
    BY ArenaFacts, <1>2
  <2>2. n < m
    BY <1>2, <2>1, NextBlock
  <2> QED BY <1>2, <2>2
<1>4. \A c \in DOMAIN A : DOMAIN A[c] = Fields
  BY DEF Shaped
<1> HIDE DEF n, m
<1>5. DOMAIN grown = DOMAIN A /\ \A c \in DOMAIN A : c # b => grown[c] = A[c]
  OBVIOUS
<1>6. grown[b] = [A[b] EXCEPT !.size = A[b].size + Header + A[n].size]
  OBVIOUS
<1> HIDE DEF grown
<1>7. \A c \in DOMAIN A \ {n} :
        S[c] = IF c = b THEN [grown[c] EXCEPT !.next = m]
               ELSE IF c = m THEN [grown[c] EXCEPT !.prev = b] ELSE grown[c]
  BY <1>5 DEF Linked
<1>8. DOMAIN S = DOMAIN A \ {n}
  OBVIOUS
<1> HIDE DEF S
<1>9. \A c \in DOMAIN S : c # b /\ c # m => S[c] = A[c]
  BY <1>5, <1>7, <1>8
<1>10. b \in DOMAIN S
  BY <1>2, <1>8
<1>11. /\ DOMAIN S[b] = Fields /\ S[b].isFree = A[b].isFree /\ S[b].prev = A[b].prev
       /\ S[b].size = A[b].size + Header + A[n].size /\ S[b].next = m
  BY <1>4, <1>6, <1>7, <1>8, <1>10 DEF Fields
<1>12. m \in DOMAIN S => /\ DOMAIN S[m] = Fields /\ S[m].isFree = A[m].isFree /\ S[m].prev = b
                         /\ S[m].size = A[m].size /\ S[m].next = A[m].next
  <2> SUFFICES ASSUME m \in DOMAIN S
               PROVE  /\ DOMAIN S[m] = Fields /\ S[m].isFree = A[m].isFree /\ S[m].prev = b
                      /\ S[m].size = A[m].size /\ S[m].next = A[m].next
    OBVIOUS
  <2>1. S[m] = [A[m] EXCEPT !.prev = b]
    BY <1>3, <1>5, <1>7, <1>8
  <2>2. DOMAIN A[m] = Fields
    BY <1>4, <1>8
  <2> QED BY <2>1, <2>2 DEF Fields
<1>13. Joined(A, S, b, n)
  BY <1>3, <1>4, <1>8, <1>9, <1>10, <1>11, <1>12 DEF Joined, m
<1> QED BY <1>1, <1>13 DEF n

LEMMA JoinedLinks ==
  ASSUME NEW A, NEW S, Shaped(A), Linking(A), NEW b \in DOMAIN A, A[b].next # NULL,
         Joined(A, S, b, A[b].next)
  PROVE  Shaped(S) /\ Linking(S)
<1> DEFINE n == A[b].next
           m == A[n].next
<1>1. n \in DOMAIN A /\ n = EndIn(A, b) /\ b < n /\ A[n].prev = b /\ b \in Nat /\ n \in Nat
  BY NextBlock DEF Shaped
<1>2. m # NULL => m \in DOMAIN A /\ m = EndIn(A, n) /\ n < m /\ A[m].prev = n /\ m \in Nat
  BY <1>1, NextBlock DEF Shaped
<1>3. /\ DOMAIN S = DOMAIN A \ {n}
      /\ \A c \in DOMAIN S : S[c].size = IF c = b THEN A[b].size + Header + A[n].size ELSE A[c].size
      /\ \A c \in DOMAIN S : S[c].next = IF c = b THEN m ELSE A[c].next
      /\ \A c \in DOMAIN S : S[c].prev = IF c = m THEN b ELSE A[c].prev
  BY DEF Joined
<1>4. DOMAIN A \subseteq Nat /\ \A c \in DOMAIN A : A[c].size \in Nat
  BY DEF Shaped
<1>5. /\ ArenaStart \in DOMAIN A /\ A[ArenaStart].prev = NULL
      /\ \A c \in DOMAIN A : ArenaStart <= c /\ NextSound(A, c) /\ PrevSound(A, c)
      /\ \A c, d \in DOMAIN A : c < d => EndIn(A, c) <= d
  BY DEF Linking
<1>6. Shaped(S)
  BY <1>1, <1>3, <1>4, ArenaFacts DEF Shaped, Joined
<1> HIDE DEF n, m
<1>7. EndIn(S, b) = EndIn(A, n) /\ \A c \in DOMAIN S : c # b => EndIn(S, c) = EndIn(A, c)
  BY <1>1, <1>3, <1>4, ArenaFacts DEF EndIn
<1>8. ArenaStart \in DOMAIN S /\ S[ArenaStart].prev = NULL
  <2>1. n # ArenaStart /\ m # ArenaStart
    BY <1>1, <1>2, <1>4, <1>5, ArenaFacts
  <2> QED BY <1>3, <1>5, <2>1
<1>9. ASSUME NEW c \in DOMAIN S PROVE NextSound(S, c)
  <2>1. CASE c = b
    <3>1. NextSound(A, n) /\ S[b].next = m
      BY <1>1, <1>3, <1>5, <2>1
    <3>2. m # NULL => m \in DOMAIN S /\ S[m].prev = b
      BY <1>1, <1>2, <1>3
    <3>3. m # NULL => m = EndIn(S, b)
      BY <1>2, <1>7
    <3>4. m = NULL => EndIn(S, b) = ArenaStart + ArenaSize
      BY <1>7, <3>1 DEF NextSound, m
    <3> QED BY <2>1, <3>1, <3>2, <3>3, <3>4 DEF NextSound
  <2>2. CASE c # b
    <3>1. NextSound(A, c) /\ S[c].next = A[c].next /\ EndIn(S, c) = EndIn(A, c) /\ c \in DOMAIN A
      BY <1>3, <1>5, <1>7, <2>2
    <3>2. ASSUME A[c].next # NULL
          PROVE  EndIn(A, c) \in DOMAIN S /\ S[EndIn(A, c)].prev = c
      <4>1. EndIn(A, c) \in DOMAIN A /\ A[EndIn(A, c)].prev = c
        BY <3>1, <3>2 DEF NextSound
      <4>2. EndIn(A, c) # n
        BY <1>1, <2>2, <4>1
      <4>3. EndIn(A, c) # m
        <5> SUFFICES ASSUME EndIn(A, c) = m PROVE FALSE
          OBVIOUS
        <5>1. m # NULL
          BY <1>4, <4>1, ArenaFacts
        <5>2. A[m].prev = n
          BY <1>2, <5>1
        <5> QED BY <1>3, <4>1, <5>2
      <4> QED BY <1>3, <4>1, <4>2, <4>3
    <3> QED BY <3>1, <3>2 DEF NextSound
  <2> QED BY <2>1, <2>2
<1>10. ASSUME NEW c \in DOMAIN S PROVE PrevSound(S, c)
  <2>1. CASE c = m
    <3>1. S[c].prev = b /\ b \in DOMAIN S /\ S[b].next = c
      BY <1>1, <1>3, <2>1
    <3> QED BY <3>1 DEF PrevSound
  <2>2. CASE c # m
    <3> SUFFICES ASSUME A[c].prev # NULL
                 PROVE  A[c].prev \in DOMAIN S /\ S[A[c].prev].next = c
      BY <1>3, <2>2 DEF PrevSound
    <3>1. A[c].prev \in DOMAIN A /\ A[A[c].prev].next = c
      BY <1>3, <1>5 DEF PrevSound
    <3>2. A[c].prev # n
      BY <2>2, <3>1 DEF m
    <3>3. A[c].prev # b
      BY <1>3, <3>1 DEF n
    <3> QED BY <1>3, <3>1, <3>2, <3>3
  <2> QED BY <2>1, <2>2
<1>11. ASSUME NEW c \in DOMAIN S, NEW d \in DOMAIN S, c < d PROVE EndIn(S, c) <= d
  <2>1. CASE c = b
    <3>1. EndIn(A, b) <= d /\ d # n
      BY <1>3, <1>5, <1>11, <2>1
    <3>2. n < d
      BY <1>1, <1>3, <1>4, <3>1
    <3> QED BY <1>1, <1>3, <1>5, <1>7, <2>1, <3>2
  <2>2. CASE c # b
    BY <1>3, <1>5, <1>7, <1>11, <2>2
  <2> QED BY <2>1, <2>2
<1>12. \A c \in DOMAIN S : ArenaStart <= c
  BY <1>3, <1>5
<1>13. Linking(S)
  BY <1>8, <1>9, <1>10, <1>11, <1>12 DEF Linking
<1> QED BY <1>6, <1>13

\* If what b takes in was free, the taken blocks are the same, and no two free blocks
\* have come to lie side by side.
LEMMA JoinedFree ==
  ASSUME NEW A, NEW S, Shaped(A), Linking(A), NEW b \in DOMAIN A, A[b].next # NULL,
         Joined(A, S, b, A[b].next), A[A[b].next].isFree, FreeApart(A, A[b].next)
  PROVE  /\ Taken(S) = Taken(A)
         /\ FreeApart(S, b)
         /\ \A c \in DOMAIN S : FreeApart(A, c) => FreeApart(S, c)
<1> DEFINE n == A[b].next
           m == A[n].next
<1>1. n \in DOMAIN A /\ A[n].prev = b /\ b # n
  BY NextBlock DEF Shaped
<1>2. m # NULL => m \in DOMAIN A /\ n # m /\ ~A[m].isFree
  BY <1>1, NextBlock DEF Shaped, FreeApart
<1>3. /\ DOMAIN S = DOMAIN A \ {n}
      /\ \A c \in DOMAIN S : S[c].isFree = A[c].isFree
      /\ \A c \in DOMAIN S : S[c].next = IF c = b THEN m ELSE A[c].next
  BY DEF Joined
<1>4. Taken(S) = Taken(A)
  BY <1>3 DEF Taken
<1>5. FreeApart(S, b)
  BY <1>1, <1>2, <1>3 DEF FreeApart
<1>6. ASSUME NEW c \in DOMAIN S, FreeApart(A, c), c # b PROVE FreeApart(S, c)
  <2> SUFFICES ASSUME A[c].next # NULL PROVE ~(S[c].isFree /\ S[A[c].next].isFree)
    BY <1>3, <1>6 DEF FreeApart
  <2>1. A[c].next \in DOMAIN A /\ A[A[c].next].prev = c
    BY <1>3, NextBlock
  <2>2. A[c].next \in DOMAIN S
    BY <1>1, <1>3, <1>6, <2>1
  <2> QED BY <1>3, <1>6, <2>2 DEF FreeApart
<1> QED BY <1>4, <1>5, <1>6

-----------------------------------------------------------------------------
(* A block is taken or freed, and a block that is too large is split.       *)

IsFlagged(A, S, b, v) == S = [A EXCEPT ![b].isFree = v]
IsTaken(A, S, b) == IsFlagged(A, S, b, FALSE)
IsFreed(A, S, b) == IsFlagged(A, S, b, TRUE)

LEMMA Flagged ==
  ASSUME NEW A, NEW S, Shaped(A), Linking(A), NEW b \in DOMAIN A, NEW v, IsFlagged(A, S, b, v)
  PROVE  /\ Shaped(S) /\ Linking(S) /\ DOMAIN S = DOMAIN A
         /\ S[b].isFree = v /\ S[b].size = A[b].size /\ S[b].next = A[b].next /\ S[b].prev = A[b].prev
         /\ \A c \in DOMAIN A : c # b => S[c] = A[c]
<1>1. DOMAIN S = DOMAIN A /\ \A c \in DOMAIN A : c # b => S[c] = A[c]
  BY DEF IsFlagged
<1>2. S[b] = [A[b] EXCEPT !.isFree = v] /\ DOMAIN A[b] = Fields
  BY DEF Shaped, IsFlagged
<1>3. /\ S[b].isFree = v /\ S[b].size = A[b].size /\ S[b].next = A[b].next /\ S[b].prev = A[b].prev
      /\ DOMAIN S[b] = Fields
  BY <1>2 DEF Fields
<1>4. \A c \in DOMAIN A : S[c].size = A[c].size /\ S[c].next = A[c].next /\ S[c].prev = A[c].prev
  BY <1>1, <1>3
<1>5. Shaped(S)
  BY <1>1, <1>3 DEF Shaped
<1>6. \A c \in DOMAIN A : EndIn(S, c) = EndIn(A, c)
  BY <1>4 DEF EndIn
<1>7. /\ ArenaStart \in DOMAIN A /\ A[ArenaStart].prev = NULL
      /\ \A c \in DOMAIN A : ArenaStart <= c /\ NextSound(A, c) /\ PrevSound(A, c)
      /\ \A c, d \in DOMAIN A : c < d => EndIn(A, c) <= d
  BY DEF Linking
<1>8. ASSUME NEW c \in DOMAIN A PROVE NextSound(S, c)
  <2>1. S[c].next = A[c].next /\ EndIn(S, c) = EndIn(A, c) /\ NextSound(A, c)
    BY <1>4, <1>6, <1>7
  <2>2. EndIn(A, c) \in DOMAIN A => S[EndIn(A, c)].prev = A[EndIn(A, c)].prev
    BY <1>4
  <2> QED BY <1>1, <2>1, <2>2 DEF NextSound
<1>9. \A c \in DOMAIN A : PrevSound(S, c)
  BY <1>1, <1>4, <1>7 DEF PrevSound
<1>10. Linking(S)
  BY <1>1, <1>4, <1>6, <1>7, <1>8, <1>9 DEF Linking
<1> QED BY <1>1, <1>3, <1>5, <1>10

\* What A and S, the blocks after b was cut at rest, have to do with each other.
CutAt(A, S, b, rest) ==
  /\ DOMAIN S = DOMAIN A \cup {rest}
  /\ \A c \in DOMAIN S : DOMAIN S[c] = Fields
  /\ S[rest].isFree /\ \A c \in DOMAIN A : S[c].isFree = A[c].isFree
  /\ S[rest].size = A[b].size - (rest - b)
  /\ \A c \in DOMAIN A : S[c].size = IF c = b THEN rest - b - Header ELSE A[c].size
  /\ S[rest].next = A[b].next
  /\ \A c \in DOMAIN A : S[c].next = IF c = b THEN rest ELSE A[c].next
  /\ S[rest].prev = b
  /\ \A c \in DOMAIN A : S[c].prev = IF c = A[b].next THEN rest ELSE A[c].prev

LEMMA SplitCuts ==
  ASSUME NEW A, Shaped(A), Linking(A), NEW b \in DOMAIN A, NEW size \in Nat,
         A[b].size > size + Header + MinBlock
  PROVE  /\ CutAt(A, Split(A, b, size), b, b + Header + size)
         /\ b + Header + size \notin DOMAIN A
<1> DEFINE rest == b + Header + size
           after == A[b].next
           first == [size |-> A[b].size - size - Header, isFree |-> TRUE, next |-> after, prev |-> b]
           with == [p \in DOMAIN A \cup {rest} |-> IF p = rest THEN first ELSE Linked(A, b, rest)[p]]
           linked == Linked(with, rest, after)
           S == [linked EXCEPT ![b].size = size]
<1>1. Split(A, b, size) = S
  BY DEF Split
<1>2. DOMAIN A \subseteq Nat /\ (\A c \in DOMAIN A : DOMAIN A[c] = Fields /\ A[c].size \in Nat) /\ b \in Nat
  BY DEF Shaped
<1>3. b < rest /\ rest < EndIn(A, b) /\ rest \in Nat
  BY <1>2, ArenaFacts DEF EndIn
<1>4. rest \notin DOMAIN A
  <2> SUFFICES ASSUME rest \in DOMAIN A PROVE FALSE
    OBVIOUS
  <2>1. EndIn(A, b) <= rest
    BY <1>3 DEF Linking
  <2>2. EndIn(A, b) \in Nat
    BY <1>2, ArenaFacts DEF EndIn
  <2> QED BY <1>3, <2>1, <2>2
<1>5. after # b /\ after # rest
  <2>1. after = NULL \/ (after \in DOMAIN A /\ b < after)
    BY NextBlock
  <2>2. NULL # b /\ NULL # rest
    BY <1>2, <1>3, ArenaFacts
  <2> QED BY <1>2, <1>4, <2>1, <2>2
<1>6. /\ first.size = A[b].size - size - Header /\ first.isFree = TRUE /\ first.next = after
      /\ first.prev = b /\ DOMAIN first = Fields
  BY DEF Fields
<1>7. A[b].size - size - Header = A[b].size - (rest - b) /\ size = rest - b - Header
  BY <1>2, ArenaFacts
<1> HIDE DEF rest, after, first
<1>8. /\ DOMAIN with = DOMAIN A \cup {rest}
      /\ with[rest] = first
      /\ \A c \in DOMAIN A : with[c] = IF c = b THEN [A[c] EXCEPT !.next = rest] ELSE A[c]
  BY <1>4 DEF Linked
<1> HIDE DEF with
<1>9. /\ DOMAIN linked = DOMAIN A \cup {rest}
      /\ linked[rest] = [first EXCEPT !.next = after]
      /\ \A c \in DOMAIN A : linked[c] = IF c = after THEN [with[c] EXCEPT !.prev = rest] ELSE with[c]
  BY <1>4, <1>5, <1>8 DEF Linked
<1> HIDE DEF linked
<1>10. /\ DOMAIN S = DOMAIN A \cup {rest}
       /\ S[b] = [linked[b] EXCEPT !.size = size]
       /\ \A c \in DOMAIN S : c # b => S[c] = linked[c]
  BY <1>9
<1> HIDE DEF S
<1>11. S[rest] = [first EXCEPT !.next = after]
  BY <1>3, <1>9, <1>10
<1>12. /\ DOMAIN S[rest] = Fields /\ S[rest].isFree = TRUE /\ S[rest].size = A[b].size - (rest - b)
       /\ S[rest].next = after /\ S[rest].prev = b
  BY <1>6, <1>7, <1>11 DEF Fields
<1>13. linked[b] = [A[b] EXCEPT !.next = rest]
  BY <1>5, <1>8, <1>9
<1>14. /\ DOMAIN S[b] = Fields /\ S[b].isFree = A[b].isFree /\ S[b].size = size
       /\ S[b].next = rest /\ S[b].prev = A[b].prev
  BY <1>2, <1>10, <1>13 DEF Fields
<1>15. after \in DOMAIN A => S[after] = [A[after] EXCEPT !.prev = rest]
  BY <1>5, <1>8, <1>9, <1>10
<1>16. after \in DOMAIN A =>
         /\ DOMAIN S[after] = Fields /\ S[after].isFree = A[after].isFree /\ S[after].size = A[after].size
         /\ S[after].next = A[after].next /\ S[after].prev = rest
  BY <1>2, <1>15 DEF Fields
<1>17. \A c \in DOMAIN A : c # b /\ c # after => S[c] = A[c]
  BY <1>8, <1>9, <1>10
<1>18. CutAt(A, S, b, rest)
  BY <1>2, <1>5, <1>7, <1>10, <1>12, <1>14, <1>16, <1>17, ZenonT(40) DEF CutAt, after
<1> QED BY <1>1, <1>4, <1>18 DEF rest

LEMMA CutLinks ==
  ASSUME NEW A, NEW S, Shaped(A), Linking(A), NEW b \in DOMAIN A, NEW rest \in Nat,
         rest \notin DOMAIN A, CutAt(A, S, b, rest), b + Header <= rest, rest + Header <= EndIn(A, b)
  PROVE  Shaped(S) /\ Linking(S)
<1> DEFINE m == A[b].next
<1>1. /\ DOMAIN S = DOMAIN A \cup {rest}
      /\ S[rest].size = A[b].size - (rest - b)
      /\ \A c \in DOMAIN A : S[c].size = IF c = b THEN rest - b - Header ELSE A[c].size
      /\ S[rest].next = m
      /\ \A c \in DOMAIN A : S[c].next = IF c = b THEN rest ELSE A[c].next
      /\ S[rest].prev = b
      /\ \A c \in DOMAIN A : S[c].prev = IF c = m THEN rest ELSE A[c].prev
  BY DEF CutAt
<1>2. DOMAIN A \subseteq Nat /\ (\A c \in DOMAIN A : A[c].size \in Nat) /\ b \in Nat
  BY DEF Shaped
<1>3. /\ ArenaStart \in DOMAIN A /\ A[ArenaStart].prev = NULL
      /\ \A c \in DOMAIN A : ArenaStart <= c /\ NextSound(A, c) /\ PrevSound(A, c)
      /\ \A c, d \in DOMAIN A : c < d => EndIn(A, c) <= d
  BY DEF Linking
<1>4. m # NULL => m \in DOMAIN A /\ m = EndIn(A, b) /\ b < m /\ A[m].prev = b /\ m \in Nat
  BY <1>2, NextBlock
<1> HIDE DEF m
<1>5. Shaped(S)
  <2>1. S[rest].size \in Nat
    BY <1>1, <1>2, ArenaFacts DEF EndIn
  <2>2. \A c \in DOMAIN A : S[c].size \in Nat
    BY <1>1, <1>2, ArenaFacts
  <2>3. \A c \in DOMAIN S : DOMAIN S[c] = Fields
    BY DEF CutAt
  <2> QED BY <1>1, <1>2, <2>1, <2>2, <2>3 DEF Shaped
<1>6. EndIn(S, b) = rest /\ EndIn(S, rest) = EndIn(A, b)
  BY <1>1, <1>2, ArenaFacts DEF EndIn
<1>7. \A c \in DOMAIN A : c # b => EndIn(S, c) = EndIn(A, c)
  BY <1>1 DEF EndIn
<1>8. ArenaStart \in DOMAIN S /\ S[ArenaStart].prev = NULL
  <2>1. m # ArenaStart
    BY <1>2, <1>3, <1>4, ArenaFacts
  <2> QED BY <1>1, <1>3, <2>1
<1>9. \A c \in DOMAIN S : ArenaStart <= c
  BY <1>1, <1>2, <1>3, ArenaFacts
<1>10. NextSound(S, b)
  <2>1. rest # NULL
    BY ArenaFacts
  <2> QED BY <1>1, <1>6, <2>1 DEF NextSound
<1>11. NextSound(S, rest)
  <2>1. CASE m = NULL
    <3>1. EndIn(A, b) = ArenaStart + ArenaSize
      BY <1>3, <2>1 DEF NextSound, m
    <3> QED BY <1>1, <1>6, <2>1, <3>1 DEF NextSound
  <2>2. CASE m # NULL
    BY <1>1, <1>4, <1>6, <2>2 DEF NextSound
  <2> QED BY <2>1, <2>2
<1>12. ASSUME NEW c \in DOMAIN A, c # b PROVE NextSound(S, c)
  <2>1. NextSound(A, c) /\ S[c].next = A[c].next /\ EndIn(S, c) = EndIn(A, c)
    BY <1>1, <1>3, <1>7, <1>12
  <2>2. ASSUME A[c].next # NULL PROVE EndIn(A, c) \in DOMAIN S /\ S[EndIn(A, c)].prev = c
    <3>1. EndIn(A, c) \in DOMAIN A /\ A[EndIn(A, c)].prev = c
      BY <2>1, <2>2 DEF NextSound
    <3>2. EndIn(A, c) # m
      <4> SUFFICES ASSUME EndIn(A, c) = m PROVE FALSE
        OBVIOUS
      <4>1. m # NULL
        BY <1>2, <3>1, ArenaFacts
      <4> QED BY <1>4, <1>12, <3>1, <4>1
    <3> QED BY <1>1, <3>1, <3>2
  <2> QED BY <2>1, <2>2 DEF NextSound
<1>13. ASSUME NEW c \in DOMAIN S PROVE PrevSound(S, c)
  <2>1. CASE c = rest
    BY <1>1, <2>1 DEF PrevSound
  <2>2. CASE c = m
    BY <1>1, <2>2 DEF PrevSound
  <2>3. CASE c # rest /\ c # m
    <3> SUFFICES ASSUME A[c].prev # NULL
                 PROVE  A[c].prev \in DOMAIN S /\ S[A[c].prev].next = c
      BY <1>1, <2>3 DEF PrevSound
    <3>1. A[c].prev \in DOMAIN A /\ A[A[c].prev].next = c
      BY <1>1, <1>3, <2>3 DEF PrevSound
    <3>2. A[c].prev # b
      BY <2>3, <3>1 DEF m
    <3> QED BY <1>1, <3>1, <3>2
  <2> QED BY <2>1, <2>2, <2>3
<1>14. ASSUME NEW c \in DOMAIN S, NEW d \in DOMAIN S, c < d PROVE EndIn(S, c) <= d
  <2>1. b < rest /\ rest < EndIn(A, b) /\ EndIn(A, b) \in Nat
    BY <1>2, ArenaFacts DEF EndIn
  <2>2. CASE c = rest
    <3>1. d \in DOMAIN A /\ b < d
      BY <1>1, <1>2, <1>14, <2>1, <2>2
    <3> QED BY <1>3, <1>6, <2>2, <3>1
  <2>3. CASE c = b
    <3>1. CASE d = rest
      BY <1>6, <2>3, <3>1
    <3>2. CASE d # rest
      <4>1. EndIn(A, b) <= d
        BY <1>1, <1>3, <1>14, <2>3, <3>2
      <4> QED BY <1>1, <1>2, <1>6, <2>1, <2>3, <3>2, <4>1
    <3> QED BY <3>1, <3>2
  <2>4. CASE c # rest /\ c # b
    <3>1. CASE d # rest
      BY <1>1, <1>3, <1>7, <1>14, <2>4, <3>1
    <3>2. CASE d = rest
      <4>1. c \in DOMAIN A /\ EndIn(S, c) = EndIn(A, c) /\ c \in Nat
        BY <1>1, <1>2, <1>7, <2>4
      <4>2. c < b
        <5> SUFFICES ASSUME b < c PROVE FALSE
          BY <1>2, <2>4, <4>1
        <5>1. EndIn(A, b) <= c
          BY <1>3, <4>1
        <5> QED BY <1>14, <2>1, <3>2, <4>1, <5>1
      <4>3. EndIn(A, c) <= b /\ EndIn(A, c) \in Nat
        BY <1>2, <1>3, <4>1, <4>2, ArenaFacts DEF EndIn
      <4> QED BY <1>2, <2>1, <3>2, <4>1, <4>3
    <3> QED BY <3>1, <3>2
  <2> QED BY <2>2, <2>3, <2>4
<1>15. \A c \in DOMAIN S : NextSound(S, c)
  BY <1>1, <1>10, <1>11, <1>12
<1>16. Linking(S)
  BY <1>8, <1>9, <1>13, <1>14, <1>15 DEF Linking
<1> QED BY <1>5, <1>16

-----------------------------------------------------------------------------
(* The actions.                                                             *)

LEMMA ArenaInit == ASSUME blocks = NoBlocks, granted = NothingHeld PROVE ArenaInv
  BY DEF ArenaInv, NoBlocks, NothingHeld, HasArena

LEMMA ArenaStarts == ASSUME ArenaInv, sys_allocator_init PROVE ArenaInv'
<1> DEFINE first == [size |-> ArenaSize - Header, isFree |-> TRUE, next |-> NULL, prev |-> NULL]
<1>1. blocks' = [b \in {ArenaStart} |-> first] /\ granted' = granted /\ DOMAIN granted = {}
  BY DEF sys_allocator_init, ArenaInv
<1>2. /\ first.size = ArenaSize - Header /\ first.isFree = TRUE /\ first.next = NULL
      /\ first.prev = NULL /\ DOMAIN first = Fields
  BY DEF Fields
<1> HIDE DEF first
<1>3. DOMAIN blocks' = {ArenaStart} /\ blocks'[ArenaStart] = first
  BY <1>1
<1>4. Shaped(blocks')
  BY <1>2, <1>3, ArenaFacts DEF Shaped
<1>5. Linking(blocks')
  <2>1. EndIn(blocks', ArenaStart) = ArenaStart + ArenaSize
    BY <1>2, <1>3, ArenaFacts DEF EndIn
  <2> QED BY <1>2, <1>3, <2>1, ArenaFacts DEF Linking, NextSound, PrevSound
<1>6. Held(blocks', granted')
  BY <1>1, <1>2, <1>3 DEF Held, Taken
<1>7. Tiling(blocks', granted')
  BY <1>2, <1>3, <1>4, <1>5, <1>6 DEF Tiling, FreeApart
<1>8. HasArena'
  BY <1>3 DEF HasArena
<1> QED BY <1>7, <1>8 DEF ArenaInv

\* The block sys_alloc settles on is one that fits.
LEMMA BestFits ==
  ASSUME NEW A, Shaped(A), NEW fitting \in SUBSET DOMAIN A, fitting # {}
  PROVE  (CHOOSE b \in fitting : \A c \in fitting : \/ A[b].size < A[c].size
                                                    \/ A[b].size = A[c].size /\ b <= c) \in fitting
<1> DEFINE sizes == {A[b].size : b \in fitting}
           small == FirstOf(sizes)
           smallest == {b \in fitting : A[b].size = small}
           first == FirstOf(smallest)
<1>1. sizes \in SUBSET Nat /\ sizes # {}
  BY DEF Shaped
<1> HIDE DEF sizes
<1>2. small \in sizes /\ \A n \in sizes : small <= n
  BY <1>1, LeastElement
<1> HIDE DEF small
<1>3. smallest \in SUBSET Nat /\ smallest # {}
  BY <1>2 DEF Shaped, sizes
<1> HIDE DEF smallest
<1>4. first \in smallest /\ \A b \in smallest : first <= b
  BY <1>3, LeastElement
<1> HIDE DEF first
<1>5. first \in fitting /\ A[first].size = small
  BY <1>4 DEF smallest
<1>6. ASSUME NEW c \in fitting
      PROVE  A[first].size < A[c].size \/ (A[first].size = A[c].size /\ first <= c)
  <2>1. small <= A[c].size /\ small \in Nat /\ A[c].size \in Nat
    BY <1>1, <1>2 DEF sizes
  <2>2. A[c].size = small => first <= c
    BY <1>4 DEF smallest
  <2> QED BY <1>5, <2>1, <2>2
<1>7. \E b \in fitting : \A c \in fitting : \/ A[b].size < A[c].size
                                            \/ A[b].size = A[c].size /\ b <= c
  BY <1>5, <1>6
<1> QED BY <1>7

Handed(G, p, size) == [q \in DOMAIN G \cup {p} |-> IF q = p THEN size ELSE G[q]]

\* Taking a free block, cut or not, and handing it out.
LEMMA TakenKeeps ==
  ASSUME NEW A, NEW G, NEW M, NEW S, Shaped(A), Held(A, G), NEW b \in DOMAIN A, A[b].isFree,
         Shaped(M), Linking(M), b \in DOMAIN M, Taken(M) = Taken(A),
         \A c \in Taken(A) : M[c].size = A[c].size,
         \A c \in DOMAIN M : c # b => FreeApart(M, c) \/ M[c].next = b,
         NEW size \in Nat, size <= M[b].size,
         IsTaken(M, S, b)
  PROVE  Tiling(S, Handed(G, b + Header, size))
<1> DEFINE H == Handed(G, b + Header, size)
<1>1. /\ Shaped(S) /\ Linking(S) /\ DOMAIN S = DOMAIN M
      /\ S[b].isFree = FALSE /\ S[b].size = M[b].size /\ S[b].next = M[b].next
      /\ \A c \in DOMAIN M : c # b => S[c] = M[c]
  <2> HIDE DEF H
  <2>1. \A v : IsFlagged(M, S, b, v) =>
           /\ Shaped(S) /\ Linking(S) /\ DOMAIN S = DOMAIN M
           /\ S[b].isFree = v /\ S[b].size = M[b].size /\ S[b].next = M[b].next
           /\ \A c \in DOMAIN M : c # b => S[c] = M[c]
    BY Flagged
  <2> QED BY <2>1 DEF IsTaken
<1>2. b \in Nat /\ b \notin Taken(A) /\ DOMAIN S \subseteq Nat
  BY <1>1 DEF Shaped, Taken
<1>3. DOMAIN G \subseteq Nat /\ Taken(A) = {p - Header : p \in DOMAIN G}
      /\ \A p \in DOMAIN G : G[p] \in Nat /\ G[p] <= A[p - Header].size
  BY DEF Held
<1>4. Taken(S) = Taken(A) \cup {b}
  BY <1>1 DEF Taken
<1>5. DOMAIN H = DOMAIN G \cup {b + Header} /\ H[b + Header] = size
      /\ \A p \in DOMAIN G : p # b + Header => H[p] = G[p]
  BY DEF Handed
<1> HIDE DEF H
<1>6. \A p \in DOMAIN G : p - Header \in Taken(A) /\ p # b + Header
  <2> SUFFICES ASSUME NEW p \in DOMAIN G PROVE p - Header \in Taken(A) /\ p # b + Header
    OBVIOUS
  <2>1. p - Header \in Taken(A)
    BY <1>3
  <2>2. p - Header # b
    BY <1>2, <2>1
  <2> QED BY <1>2, <1>3, <2>1, <2>2, ArenaFacts
<1>7. (b + Header) - Header = b
  BY <1>2, ArenaFacts
<1>8. {p - Header : p \in DOMAIN H} = Taken(A) \cup {b}
  BY <1>3, <1>5, <1>7
<1>9. \A p \in DOMAIN H : H[p] \in Nat /\ H[p] <= S[p - Header].size
  <2> SUFFICES ASSUME NEW p \in DOMAIN H PROVE H[p] \in Nat /\ H[p] <= S[p - Header].size
    OBVIOUS
  <2>1. CASE p = b + Header
    BY <1>1, <1>5, <1>7, <2>1
  <2>2. CASE p # b + Header
    <3>1. p \in DOMAIN G /\ H[p] = G[p] /\ p - Header \in Taken(A)
      BY <1>5, <1>6, <2>2
    <3>2. p - Header # b /\ p - Header \in DOMAIN M
      BY <1>2, <3>1 DEF Taken
    <3>3. S[p - Header].size = A[p - Header].size
      BY <1>1, <3>1, <3>2
    <3> QED BY <1>3, <3>1, <3>3
  <2> QED BY <2>1, <2>2
<1>10. DOMAIN H \subseteq Nat
  BY <1>2, <1>3, <1>5, ArenaFacts
<1>11. Held(S, H)
  BY <1>4, <1>8, <1>9, <1>10 DEF Held
<1>12. ASSUME NEW c \in DOMAIN S PROVE FreeApart(S, c)
  <2>1. CASE c = b
    BY <1>1, <2>1 DEF FreeApart
  <2>2. CASE c # b
    <3>1. S[c] = M[c] /\ (FreeApart(M, c) \/ M[c].next = b)
      BY <1>1, <2>2
    <3>2. CASE M[c].next = b
      BY <1>1, <3>1, <3>2 DEF FreeApart
    <3>3. CASE M[c].next # b
      <4>1. M[c].next # NULL => M[c].next \in DOMAIN M
        BY <1>1, NextBlock
      <4> QED BY <1>1, <3>1, <3>3, <4>1 DEF FreeApart
    <3> QED BY <3>2, <3>3
  <2> QED BY <2>1, <2>2
<1> QED BY <1>1, <1>11, <1>12 DEF Tiling, H

\* The rest of a block that is cut off is free; the block after it was not, since the
\* block was free itself.
LEMMA CutFree ==
  ASSUME NEW A, NEW S, Shaped(A), Linking(A), NEW b \in DOMAIN A, NEW rest \in Nat,
         rest \notin DOMAIN A, CutAt(A, S, b, rest), A[b].isFree,
         \A c \in DOMAIN A : FreeApart(A, c)
  PROVE  /\ Taken(S) = Taken(A)
         /\ \A c \in Taken(A) : S[c].size = A[c].size
         /\ \A c \in DOMAIN S : c # b => FreeApart(S, c)
<1> DEFINE m == A[b].next
<1>1. /\ DOMAIN S = DOMAIN A \cup {rest} /\ S[rest].isFree
      /\ \A c \in DOMAIN A : S[c].isFree = A[c].isFree
      /\ \A c \in DOMAIN A : S[c].size = IF c = b THEN rest - b - Header ELSE A[c].size
      /\ S[rest].next = m
      /\ \A c \in DOMAIN A : S[c].next = IF c = b THEN rest ELSE A[c].next
  BY DEF CutAt
<1>2. Taken(S) = Taken(A)
  BY <1>1 DEF Taken
<1>3. \A c \in Taken(A) : S[c].size = A[c].size
  BY <1>1 DEF Taken
<1>4. m # NULL => m \in DOMAIN A /\ ~A[m].isFree
  BY NextBlock DEF FreeApart
<1>5. FreeApart(S, rest)
  BY <1>1, <1>4 DEF FreeApart
<1>6. ASSUME NEW c \in DOMAIN A, c # b PROVE FreeApart(S, c)
  <2>1. A[c].next # NULL => A[c].next \in DOMAIN A
    BY NextBlock
  <2>2. FreeApart(A, c) /\ S[c].next = A[c].next
    BY <1>1, <1>6
  <2> QED BY <1>1, <2>1, <2>2 DEF FreeApart
<1> QED BY <1>1, <1>2, <1>3, <1>5, <1>6

LEMMA ArenaAllocates ==
  ASSUME ArenaInv, NEW size \in Requests, sys_alloc(size)
  PROVE  ArenaInv'
<1> DEFINE fitting == {b \in DOMAIN blocks : blocks[b].isFree /\ blocks[b].size >= size}
           best == CHOOSE b \in fitting :
                     \A c \in fitting : \/ blocks[b].size < blocks[c].size
                                        \/ blocks[b].size = blocks[c].size /\ b <= c
           given == IF blocks[best].size > size + Header + MinBlock
                    THEN Split(blocks, best, size) ELSE blocks
<1>1. /\ HasArena
      /\ IF fitting = {} THEN UNCHANGED <<blocks, granted>>
         ELSE /\ blocks' = [given EXCEPT ![best].isFree = FALSE]
              /\ granted' = [p \in DOMAIN granted \cup {best + Header} |->
                               IF p = best + Header THEN size ELSE granted[p]]
  BY DEF sys_alloc
<1>2. Tiling(blocks, granted)
  BY <1>1 DEF ArenaInv
<1>3. CASE fitting = {}
  <2>1. blocks' = blocks /\ granted' = granted
    BY <1>1, <1>3
  <2> QED BY <2>1 DEF ArenaInv, HasArena
<1>4. CASE fitting # {}
  <2>1. Shaped(blocks) /\ Linking(blocks) /\ Held(blocks, granted)
        /\ \A b \in DOMAIN blocks : FreeApart(blocks, b)
    BY <1>2 DEF Tiling
  <2>2. best \in fitting
    <3>1. fitting \in SUBSET DOMAIN blocks
      OBVIOUS
    <3> HIDE DEF fitting
    <3> QED BY <1>4, <2>1, <3>1, BestFits
  <2>3. size \in Nat
    BY HeapAssumption
  <2> HIDE DEF best
  <2>4. best \in DOMAIN blocks /\ blocks[best].isFree /\ blocks[best].size >= size
        /\ blocks[best].size \in Nat /\ best \in Nat
    BY <2>1, <2>2 DEF Shaped
  <2>5. /\ Shaped(given) /\ Linking(given) /\ best \in DOMAIN given /\ Taken(given) = Taken(blocks)
        /\ \A c \in Taken(blocks) : given[c].size = blocks[c].size
        /\ \A c \in DOMAIN given : c # best => FreeApart(given, c) \/ given[c].next = best
        /\ size <= given[best].size
    <3>1. CASE blocks[best].size > size + Header + MinBlock
      <4> DEFINE rest == best + Header + size
                 S == Split(blocks, best, size)
      <4>1. CutAt(blocks, S, best, rest) /\ rest \notin DOMAIN blocks
        BY <2>1, <2>3, <2>4, <3>1, SplitCuts
      <4>2. rest \in Nat /\ best + Header <= rest /\ rest + Header <= EndIn(blocks, best)
            /\ rest - best - Header = size
        BY <2>3, <2>4, <3>1, ArenaFacts DEF EndIn
      <4>3. given = S
        BY <3>1
      <4> HIDE DEF given, S, rest
      <4>4. Shaped(S) /\ Linking(S)
        BY <2>1, <2>4, <4>1, <4>2, CutLinks
      <4>5. /\ Taken(S) = Taken(blocks)
            /\ \A c \in Taken(blocks) : S[c].size = blocks[c].size
            /\ \A c \in DOMAIN S : c # best => FreeApart(S, c)
        BY <2>1, <2>4, <4>1, <4>2, CutFree
      <4>6. best \in DOMAIN S /\ S[best].size = size
        BY <2>4, <4>1, <4>2 DEF CutAt
      <4> QED BY <2>3, <4>3, <4>4, <4>5, <4>6
    <3>2. CASE ~(blocks[best].size > size + Header + MinBlock)
      <4>1. given = blocks
        BY <3>2
      <4> HIDE DEF given
      <4> QED BY <2>1, <2>3, <2>4, <4>1
    <3> QED BY <3>1, <3>2
  <2> HIDE DEF given, fitting
  <2>6. IsTaken(given, blocks', best)
    BY <1>1, <1>4 DEF IsTaken, IsFlagged
  <2>7. Tiling(blocks', Handed(granted, best + Header, size))
    BY <2>1, <2>3, <2>4, <2>5, <2>6, TakenKeeps
  <2>8. Tiling(blocks', granted')
    BY <1>1, <1>4, <2>7 DEF Handed
  <2>9. HasArena'
    <3>1. DOMAIN blocks' = DOMAIN given
      BY <1>1, <1>4
    <3> QED BY <2>5, <3>1 DEF HasArena
  <2> QED BY <2>8, <2>9 DEF ArenaInv
<1> QED BY <1>3, <1>4

\* The pointers that stay point to the blocks that stay taken; a merge leaves these alone.
LEMMA ReleasedHeld ==
  ASSUME NEW A, NEW G, NEW S, Held(A, G), NEW p \in DOMAIN G,
         Taken(S) = Taken(A) \ {p - Header},
         \A c \in Taken(S) : S[c].size >= A[c].size /\ S[c].size \in Nat /\ A[c].size \in Nat
  PROVE  Held(S, Restrict(G, DOMAIN G \ {p}))
<1> DEFINE H == Restrict(G, DOMAIN G \ {p})
<1>1. DOMAIN H = DOMAIN G \ {p} /\ \A q \in DOMAIN H : H[q] = G[q]
  BY DEF Restrict
<1> HIDE DEF H
<1>2. /\ DOMAIN G \subseteq Nat /\ Taken(A) = {q - Header : q \in DOMAIN G}
      /\ \A q \in DOMAIN G : G[q] \in Nat /\ G[q] <= A[q - Header].size
  BY DEF Held
<1>3. \A q \in DOMAIN G : q - Header = p - Header => q = p
  BY <1>2, ArenaFacts
<1>4. {q - Header : q \in DOMAIN H} = Taken(S)
  BY <1>1, <1>2, <1>3
<1>5. ASSUME NEW q \in DOMAIN H PROVE H[q] \in Nat /\ H[q] <= S[q - Header].size
  <2>1. q - Header \in Taken(S)
    BY <1>4
  <2>2. G[q] <= A[q - Header].size /\ G[q] \in Nat
    BY <1>1, <1>2
  <2> QED BY <1>1, <2>1, <2>2
<1> QED BY <1>1, <1>2, <1>4, <1>5 DEF Held, H

\* A merge leaves the sizes of the taken blocks, and grows at most b.
LEMMA JoinedSizes ==
  ASSUME NEW A, NEW S, Shaped(A), NEW b \in DOMAIN A, A[b].next \in DOMAIN A,
         Joined(A, S, b, A[b].next)
  PROVE  \A c \in DOMAIN S : c \in DOMAIN A /\ S[c].size >= A[c].size
BY ArenaFacts DEF Joined, Shaped

LEMMA ArenaReleases ==
  ASSUME ArenaInv, NEW p \in DOMAIN granted, sys_release(p)
  PROVE  ArenaInv'
<1> DEFINE b == p - Header
           freed == [blocks EXCEPT ![b].isFree = TRUE]
           n == freed[b].next
           merges == n # NULL /\ freed[n].isFree
           W == IF merges THEN Absorbed(freed, b) ELSE freed
           q == W[b].prev
           S == IF q # NULL /\ W[q].isFree THEN Absorbed(W, q) ELSE W
<1>1. /\ HasArena
      /\ blocks' = S
      /\ granted' = Restrict(granted, DOMAIN granted \ {p})
  BY DEF sys_release
<1>2. /\ Shaped(blocks) /\ Linking(blocks) /\ Held(blocks, granted)
      /\ \A c \in DOMAIN blocks : FreeApart(blocks, c)
  BY <1>1 DEF ArenaInv, Tiling
<1>3. b \in DOMAIN blocks /\ ~blocks[b].isFree
  <2>1. b \in Taken(blocks)
    BY <1>2 DEF Held
  <2> QED BY <2>1 DEF Taken
<1>4. IsFreed(blocks, freed, b)
  BY DEF IsFreed, IsFlagged
<1> HIDE DEF S, q, W, merges, n, freed, b
<1>5. /\ Shaped(freed) /\ Linking(freed) /\ DOMAIN freed = DOMAIN blocks
      /\ freed[b].isFree /\ freed[b].size = blocks[b].size
      /\ freed[b].next = blocks[b].next /\ freed[b].prev = blocks[b].prev
      /\ \A c \in DOMAIN blocks : c # b => freed[c] = blocks[c]
  <2>1. \A v : IsFlagged(blocks, freed, b, v) =>
           /\ Shaped(freed) /\ Linking(freed) /\ DOMAIN freed = DOMAIN blocks
           /\ freed[b].isFree = v /\ freed[b].size = blocks[b].size
           /\ freed[b].next = blocks[b].next /\ freed[b].prev = blocks[b].prev
           /\ \A c \in DOMAIN blocks : c # b => freed[c] = blocks[c]
    BY <1>2, <1>3, Flagged
  <2> QED BY <1>4, <2>1 DEF IsFreed
<1>6. Taken(freed) = Taken(blocks) \ {b}
  BY <1>3, <1>5 DEF Taken
<1>7. \A c \in DOMAIN freed : FreeApart(freed, c) \/ c = b \/ freed[c].next = b
  <2> SUFFICES ASSUME NEW c \in DOMAIN freed, c # b, freed[c].next # b PROVE FreeApart(freed, c)
    OBVIOUS
  <2>1. freed[c].next # NULL => freed[c].next \in DOMAIN freed
    BY <1>5, NextBlock
  <2> QED BY <1>2, <1>5, <2>1 DEF FreeApart
<1>8. \A c \in DOMAIN freed : freed[c].size = blocks[c].size
  BY <1>5
\* The block after b.
<1>9. /\ Shaped(W) /\ Linking(W) /\ b \in DOMAIN W /\ W[b].isFree /\ W[b].prev = freed[b].prev
      /\ Taken(W) = Taken(freed) /\ FreeApart(W, b)
      /\ \A c \in DOMAIN W : FreeApart(W, c) \/ c = b \/ W[c].next = b
      /\ \A c \in DOMAIN W : c \in DOMAIN freed /\ W[c].size >= freed[c].size
  <2>1. CASE merges
    <3>1. n # NULL /\ freed[n].isFree /\ n = freed[b].next /\ W = Absorbed(freed, b)
      BY <2>1 DEF merges, n, W
    <3>2. n \in DOMAIN freed /\ b < n /\ freed[n].prev = b /\ b \in Nat /\ n \in Nat
      BY <1>3, <1>5, <3>1, NextBlock DEF Shaped
    <3>3. Joined(freed, W, b, n)
      BY <1>3, <1>5, <3>1, AbsorbedJoins
    <3>4. Shaped(W) /\ Linking(W)
      BY <1>3, <1>5, <3>1, <3>3, JoinedLinks
    <3>5. FreeApart(freed, n)
      <4>1. freed[n].next # b
        <5> SUFFICES ASSUME freed[n].next = b PROVE FALSE
          OBVIOUS
        <5>1. freed[n].next # NULL
          BY <3>2, ArenaFacts
        <5>2. n < freed[n].next
          BY <1>5, <3>2, <5>1, NextBlock
        <5> QED BY <3>2, <5>2
      <4> QED BY <1>7, <3>2, <4>1
    <3>6. /\ Taken(W) = Taken(freed) /\ FreeApart(W, b)
          /\ \A c \in DOMAIN W : FreeApart(freed, c) => FreeApart(W, c)
      BY <1>3, <1>5, <3>1, <3>3, <3>5, JoinedFree
    <3>7. b \in DOMAIN W /\ W[b].isFree
      BY <1>3, <1>5, <3>2, <3>3 DEF Joined
    <3>8. W[b].prev = freed[b].prev
      <4>1. freed[n].next # b
        <5> SUFFICES ASSUME freed[n].next = b PROVE FALSE
          OBVIOUS
        <5>1. freed[n].next # NULL
          BY <3>2, ArenaFacts
        <5>2. n < freed[n].next
          BY <1>5, <3>2, <5>1, NextBlock
        <5> QED BY <3>2, <5>2
      <4> QED BY <3>3, <3>7, <4>1 DEF Joined
    <3>9. \A c \in DOMAIN W : c # b => W[c].next = freed[c].next
      BY <3>3 DEF Joined
    <3>10. \A c \in DOMAIN W : FreeApart(W, c) \/ c = b \/ W[c].next = b
      <4> SUFFICES ASSUME NEW c \in DOMAIN W, c # b, W[c].next # b PROVE FreeApart(W, c)
        OBVIOUS
      <4>1. c \in DOMAIN freed
        BY <3>3 DEF Joined
      <4> QED BY <1>7, <3>6, <3>9, <4>1
    <3>11. \A c \in DOMAIN W : c \in DOMAIN freed /\ W[c].size >= freed[c].size
      BY <1>3, <1>5, <3>1, <3>2, <3>3, JoinedSizes
    <3> QED BY <3>4, <3>6, <3>7, <3>8, <3>10, <3>11
  <2>2. CASE ~merges
    <3>1. W = freed /\ (freed[b].next = NULL \/ ~freed[freed[b].next].isFree)
      BY <2>2 DEF merges, n, W
    <3>2. FreeApart(freed, b)
      BY <3>1 DEF FreeApart
    <3>3. \A c \in DOMAIN freed : freed[c].size \in Nat
      BY <1>5 DEF Shaped
    <3> QED BY <1>3, <1>5, <1>7, <3>1, <3>2, <3>3
  <2> QED BY <2>1, <2>2
\* The block before b.
<1>10. \A c \in DOMAIN W : W[c].next = b => c = q /\ q # NULL
  <2> SUFFICES ASSUME NEW c \in DOMAIN W, W[c].next = b PROVE c = q /\ q # NULL
    OBVIOUS
  <2>1. b # NULL /\ c \in Nat
    BY <1>9, ArenaFacts DEF Shaped
  <2>2. W[b].prev = c
    BY <1>9, <2>1, NextBlock
  <2> QED BY <2>1, <2>2, ArenaFacts DEF q
<1>11. q # NULL => q \in DOMAIN W /\ W[q].next = b /\ b # NULL
  <2>1. PrevSound(W, b) /\ b \in Nat
    BY <1>9 DEF Linking, Shaped
  <2> QED BY <2>1, ArenaFacts DEF PrevSound, q
<1>12. /\ Shaped(S) /\ Linking(S) /\ DOMAIN S # {} /\ Taken(S) = Taken(freed)
       /\ \A c \in DOMAIN S : FreeApart(S, c)
       /\ \A c \in DOMAIN S : c \in DOMAIN W /\ S[c].size >= W[c].size
  <2>1. CASE q # NULL /\ W[q].isFree
    <3>1. S = Absorbed(W, q) /\ q \in DOMAIN W /\ W[q].next = b /\ W[q].next # NULL
      BY <1>11, <2>1 DEF S
    <3>2. Joined(W, S, q, b)
      BY <1>9, <3>1, AbsorbedJoins
    <3>3. Shaped(S) /\ Linking(S)
      BY <1>9, <3>1, <3>2, JoinedLinks
    <3>4. /\ Taken(S) = Taken(W) /\ FreeApart(S, q)
          /\ \A c \in DOMAIN S : FreeApart(W, c) => FreeApart(S, c)
      BY <1>9, <3>1, <3>2, JoinedFree
    <3>5. \A c \in DOMAIN S : c \in DOMAIN W /\ c # b
      BY <3>2 DEF Joined
    <3>6. \A c \in DOMAIN S : FreeApart(S, c)
      BY <1>9, <1>10, <3>4, <3>5
    <3>7. \A c \in DOMAIN S : c \in DOMAIN W /\ S[c].size >= W[c].size
      BY <1>9, <3>1, <3>2, JoinedSizes
    <3>8. DOMAIN S # {}
      BY <3>3 DEF Linking
    <3> QED BY <1>9, <3>3, <3>4, <3>6, <3>7, <3>8
  <2>2. CASE ~(q # NULL /\ W[q].isFree)
    <3>1. S = W
      BY <2>2 DEF S
    <3>2. ASSUME NEW c \in DOMAIN W PROVE FreeApart(W, c)
      <4>1. CASE W[c].next = b
        BY <1>10, <2>2, <4>1 DEF FreeApart
      <4>2. CASE W[c].next # b
        BY <1>9, <4>2
      <4> QED BY <4>1, <4>2
    <3>3. \A c \in DOMAIN W : W[c].size \in Nat
      BY <1>9 DEF Shaped
    <3> QED BY <1>9, <3>1, <3>2, <3>3
  <2> QED BY <2>1, <2>2
<1>13. Held(S, Restrict(granted, DOMAIN granted \ {p}))
  <2>1. Taken(S) = Taken(blocks) \ {p - Header}
    BY <1>6, <1>12 DEF b
  <2>2. ASSUME NEW c \in Taken(S)
        PROVE  S[c].size >= blocks[c].size /\ S[c].size \in Nat /\ blocks[c].size \in Nat
    <3>1. c \in DOMAIN S /\ c \in DOMAIN W /\ c \in DOMAIN freed
      BY <1>9, <1>12 DEF Taken
    <3>2. S[c].size \in Nat /\ W[c].size \in Nat /\ freed[c].size \in Nat
      BY <1>5, <1>9, <1>12, <3>1 DEF Shaped
    <3>3. S[c].size >= W[c].size /\ W[c].size >= freed[c].size /\ freed[c].size = blocks[c].size
      BY <1>8, <1>9, <1>12, <3>1
    <3> QED BY <3>2, <3>3
  <2> QED BY <1>2, <2>1, <2>2, ReleasedHeld
<1>14. Tiling(blocks', granted')
  BY <1>1, <1>12, <1>13 DEF Tiling
<1>15. HasArena'
  BY <1>1, <1>12 DEF HasArena
<1> QED BY <1>14, <1>15 DEF ArenaInv


-----------------------------------------------------------------------------
(* The arena as a whole: whatever is asked of it, and when the session ends. *)

LEMMA ArenaSteps == ASSUME ArenaInv, ArenaNext PROVE ArenaInv'
<1> USE DEF ArenaNext
<1>1. CASE walia_boot
  BY <1>1 DEF walia_boot, ArenaInv, HasArena
<1>2. ASSUME blocks' = NoBlocks, granted' = NothingHeld PROVE ArenaInv'
  BY <1>2 DEF NoBlocks, NothingHeld, ArenaInv, HasArena
<1>3. CASE Stop
  BY <1>2, <1>3 DEF Stop
<1>4. CASE sys_allocator_init
  BY <1>4, ArenaStarts
<1>5. ASSUME NEW size \in Sizes, reallocate(size) PROVE ArenaInv'
  <2>1. CASE blocks' = NoBlocks /\ granted' = NothingHeld
    BY <1>2, <2>1
  <2>2. CASE blocks' = blocks /\ granted' = granted
    BY <2>2 DEF ArenaInv, HasArena
  <2> QED BY <1>5, <2>1, <2>2 DEF reallocate
<1>6. ASSUME NEW size \in Requests, sys_alloc(size) PROVE ArenaInv'
  BY <1>6, ArenaAllocates
<1>7. ASSUME NEW p \in DOMAIN granted, sys_release(p) PROVE ArenaInv'
  BY <1>7, ArenaReleases
<1> QED BY <1>1, <1>3, <1>4, <1>5, <1>6, <1>7

LEMMA ArenaRests == ArenaInv /\ UNCHANGED <<blocks, granted>> => ArenaInv'
  BY DEF ArenaInv, HasArena

-----------------------------------------------------------------------------
(* The collector, by the three colours: what is marked and not gray has been *)
(* looked into, and nothing is marked that a closed set could do without.    *)

\* s holds what the session starts from, and what its objects lead the collector to.
Gathered(g, s) == /\ g.roots \cup g.strings \subseteq s
                /\ \A o \in s : Children(g, o) \subseteq s

Colours ==
  /\ heap.graph.roots \cup heap.graph.strings \subseteq heap.marked
  /\ heap.gray \subseteq heap.marked /\ heap.marked \subseteq heap.graph.all
  /\ \A o \in heap.marked \ heap.gray : Children(heap.graph, o) \subseteq heap.marked
  /\ \A s \in SUBSET heap.graph.all : Gathered(heap.graph, s) => heap.marked \subseteq s

GarbageInv ==
  /\ heap.graph \in Graphs
  /\ DOMAIN heap = {"graph", "objects", "strings", "marked", "gray", "phase"}
  /\ heap.phase \in {"idle", "marking", "swept"}
  /\ heap.phase # "idle" => Colours
  /\ heap.phase # "swept" => heap.objects = heap.graph.all
  /\ heap.phase = "swept" => heap.gray = {} /\ heap.objects = heap.marked

LEMMA ClosedIs ==
  ASSUME NEW g, NEW s
  PROVE  Gathered(g, s) <=>
           /\ g.roots \cup g.strings \subseteq s
           /\ \A o \in s : g.type[o] \in {"upvalue", "function", "closure", "continuation"}
                             => g.refs[o] \subseteq s
BY DEF Gathered, Children

LEMMA ColoursImply == GarbageInv => ReachableKept
<1> SUFFICES ASSUME GarbageInv, heap.phase = "swept" PROVE ReachableKept
  BY DEF ReachableKept
<1> DEFINE g == heap.graph
<1>1. Colours /\ heap.gray = {} /\ heap.objects = heap.marked
  BY DEF GarbageInv
<1>2. Gathered(g, heap.objects)
  BY <1>1 DEF Colours, Gathered
<1>3. ASSUME NEW s \in SUBSET heap.objects, Gathered(g, s) PROVE s = heap.objects
  <2>1. s \in SUBSET g.all
    BY <1>1 DEF Colours
  <2> QED BY <1>1, <1>3, <2>1 DEF Colours
<1> QED BY <1>2, <1>3, ClosedIs DEF ReachableKept

LEMMA GarbageStarts == HeapInit => GarbageInv
  BY DEF HeapInit, GarbageInv

LEMMA RootsMarked == ASSUME GarbageInv, MarkRoots PROVE GarbageInv'
<1> DEFINE roots == heap.graph.roots \cup heap.graph.strings
<1>1. /\ heap.graph' = heap.graph /\ heap.objects' = heap.objects /\ heap.marked' = roots
      /\ heap.gray' = roots /\ heap.phase' = "marking" /\ DOMAIN heap' = DOMAIN heap
      /\ heap.phase = "idle"
  BY DEF MarkRoots, GarbageInv
<1>2. roots \subseteq heap.graph.all
  BY GraphsAssumption DEF GarbageInv
<1>3. Colours'
  BY <1>1, <1>2 DEF Colours, Gathered
<1> QED BY <1>1, <1>3 DEF GarbageInv

LEMMA ObjectBlackened ==
  ASSUME GarbageInv, NEW o \in heap.gray, blackenObject(o)
  PROVE  GarbageInv'
<1> DEFINE g == heap.graph
           found == Children(g, o) \ heap.marked
<1>1. /\ heap.graph' = g /\ heap.objects' = heap.objects
      /\ heap.marked' = heap.marked \cup found /\ heap.gray' = (heap.gray \ {o}) \cup found
      /\ heap.phase' = "marking" /\ DOMAIN heap' = DOMAIN heap /\ heap.phase = "marking"
  BY DEF blackenObject, GarbageInv
<1>2. Colours
  BY <1>1 DEF GarbageInv
<1>3. o \in heap.marked /\ o \in g.all
  BY <1>2 DEF Colours
<1>4. Children(g, o) \subseteq g.all
  BY <1>3, GraphsAssumption DEF GarbageInv, Children
<1>5. \A s \in SUBSET g.all : Gathered(g, s) => heap.marked \cup found \subseteq s
  BY <1>2, <1>3 DEF Colours, Gathered
<1>6. \A c \in heap.marked' \ heap.gray' : Children(g, c) \subseteq heap.marked'
  BY <1>1, <1>2 DEF Colours
<1>7. Colours'
  BY <1>1, <1>2, <1>4, <1>5, <1>6 DEF Colours
<1> QED BY <1>1, <1>7 DEF GarbageInv

LEMMA ObjectsSwept == ASSUME GarbageInv, sweep PROVE GarbageInv'
<1>1. /\ heap.graph' = heap.graph /\ heap.objects' = heap.objects \cap heap.marked
      /\ heap.marked' = heap.marked /\ heap.gray' = heap.gray /\ heap.gray = {}
      /\ heap.phase' = "swept" /\ DOMAIN heap' = DOMAIN heap /\ heap.phase = "marking"
  BY DEF sweep, GarbageInv
<1>2. Colours /\ heap.objects = heap.graph.all
  BY <1>1 DEF GarbageInv
<1>3. Colours'
  BY <1>1, <1>2 DEF Colours
<1>4. heap.objects \cap heap.marked = heap.marked
  BY <1>2 DEF Colours
<1> QED BY <1>1, <1>3, <1>4 DEF GarbageInv

LEMMA GarbageSteps == ASSUME GarbageInv, collectGarbage PROVE GarbageInv'
  BY RootsMarked, ObjectBlackened, ObjectsSwept DEF collectGarbage

-----------------------------------------------------------------------------
(* What a step of the composition leaves alone.                             *)

HeapInv == /\ scenario = "arena" => ArenaInv
           /\ scenario = "garbage" => GarbageInv

LEMMA HeapOnly == Next => scenario' = scenario /\ (HeapNext \/ UNCHANGED heapVars)
  BY DEF Next, MachineNext, HeapNext

LEMMA HeapStarts == Init => HeapInv
<1> SUFFICES ASSUME Init PROVE HeapInv
  OBVIOUS
<1>1. scenario = "garbage" => GarbageInv
  BY GarbageStarts DEF Init
<1>2. scenario # "garbage" => blocks = NoBlocks /\ granted = NothingHeld
  BY DEF Init
<1>3. blocks = NoBlocks /\ granted = NothingHeld => ArenaInv
  BY DEF NoBlocks, NothingHeld, ArenaInv, HasArena
<1> QED BY <1>1, <1>2, <1>3 DEF HeapInv

LEMMA HeapSteps == HeapInv /\ [Next]_runtimeVars => HeapInv'
<1> SUFFICES ASSUME HeapInv, [Next]_runtimeVars PROVE HeapInv'
  OBVIOUS
<1>1. scenario' = scenario /\ (HeapNext \/ UNCHANGED heapVars)
  BY HeapOnly DEF runtimeVars
<1>2. CASE UNCHANGED heapVars
  <2>1. UNCHANGED <<blocks, granted>> /\ UNCHANGED heap
    BY <1>2 DEF heapVars, arenaVars
  <2>2. GarbageInv => GarbageInv'
    BY <2>1 DEF GarbageInv, Colours
  <2> QED BY <1>1, <2>1, <2>2, ArenaRests DEF HeapInv
<1>3. CASE HeapNext
  <2>1. CASE scenario = "arena"
    <3>1. ArenaNext
      BY <1>3, <2>1 DEF HeapNext
    <3> QED BY <1>1, <2>1, <3>1, ArenaSteps DEF HeapInv
  <2>2. CASE scenario = "garbage"
    <3>1. collectGarbage
      BY <1>3, <2>2 DEF HeapNext
    <3> QED BY <1>1, <2>2, <3>1, GarbageSteps DEF HeapInv
  <2> QED BY <1>3, <2>1, <2>2 DEF HeapNext
<1> QED BY <1>1, <1>2, <1>3

\* In every session the headers tile the arena whatever is split and merged
\* (sys_allocator.c:40), and every collection keeps exactly what the collector can reach
\* (gc.c:76), whatever the graph, the sizes asked for and the alignment.
THEOREM RuntimeHeapSound == Spec => []HeapSound
<1>1. HeapInv => HeapSound
  BY TilingImplies, ColoursImply DEF HeapInv, HeapSound
<1> QED BY HeapStarts, HeapSteps, <1>1, PTL DEF Spec


-----------------------------------------------------------------------------
(* The timing wheel: B are the buckets, N the nodes and L those that have    *)
(* neither fired nor been lost. In a bucket the younger come first: its head *)
(* is the youngest of its live nodes, and each is followed by the next older. *)

Timers == [expireTime : Nat, isInterval : BOOLEAN, intervalMs : Nat, next : Nat]
Slots == 0 .. TimerSlots - 1
SlotIn(N, n) == SlotOf(N[n].expireTime)

Ordered(B, N, L) ==
  /\ L \subseteq DOMAIN N
  /\ \A s \in Slots : B[s] = NoNode \/ (B[s] \in L /\ SlotIn(N, B[s]) = s)
  /\ \A n \in L : n <= B[SlotIn(N, n)]
  /\ \A m \in L : \/ N[m].next = NoNode
                  \/ N[m].next \in L /\ N[m].next < m /\ SlotIn(N, N[m].next) = SlotIn(N, m)
  /\ \A m, n \in L : n < m /\ SlotIn(N, n) = SlotIn(N, m) => n <= N[m].next

LEMMA SlotInRange == \A t \in Nat : SlotOf(t) \in Slots
<1> SUFFICES ASSUME NEW t \in Nat PROVE SlotOf(t) \in Slots
  OBVIOUS
<1>1. TimerSlots \in Nat \ {0}
  BY AsyncAssumption
<1>2. \E q \in Nat, r \in 0 .. TimerSlots - 1 :
         t = r + q * TimerSlots /\ t % TimerSlots = r /\ t \div TimerSlots = q
  BY <1>1, Division
<1> QED BY <1>2 DEF SlotOf, Slots

LEMMA TimersShape ==
  ASSUME NEW N \in Seq(Timers)
  PROVE  /\ DOMAIN N = 1 .. Len(N) /\ Len(N) \in Nat
         /\ \A n \in DOMAIN N : /\ N[n] \in Timers /\ n \in Nat /\ SlotIn(N, n) \in Slots
                                /\ N[n].expireTime \in Nat /\ N[n].intervalMs \in Nat
                                /\ N[n].next \in Nat
<1>1. \A n \in DOMAIN N : N[n] \in Timers
  OBVIOUS
<1> QED BY <1>1, SlotInRange DEF Timers, SlotIn

\* What adding a node to live nodes L does.
AddedSoundly(B, N, L, delay, added) ==
  /\ added.nodes \in Seq(Timers) /\ DOMAIN added.buckets = Slots
  /\ Len(added.nodes) = Len(N) + 1
  /\ \A n \in DOMAIN N : added.nodes[n] = N[n]
  /\ added.nodes[Len(N) + 1].expireTime = now + delay
  /\ added.nodes[Len(N) + 1].intervalMs = delay
  /\ added.nodes[Len(N) + 1].next = B[SlotOf(now + delay)]
  /\ added.buckets = [B EXCEPT ![SlotOf(now + delay)] = Len(N) + 1]
  /\ Ordered(added.buckets, added.nodes, L \cup {Len(N) + 1})

LEMMA NodeAdded ==
  ASSUME NEW B, DOMAIN B = Slots, NEW N \in Seq(Timers), NEW L, Ordered(B, N, L),
         NEW delay \in Nat, NEW isInterval \in BOOLEAN, now \in Nat
  PROVE  AddedSoundly(B, N, L, delay, Added(B, N, delay, isInterval))
<1> DEFINE at == SlotOf(now + delay)
           new == [expireTime |-> now + delay, isInterval |-> isInterval, intervalMs |-> delay,
                   next |-> B[at]]
           M == Append(N, new)
           C == [B EXCEPT ![at] = Len(N) + 1]
           K == L \cup {Len(N) + 1}
<1>1. at \in Slots
  BY SlotInRange
<1>2. \A s \in Slots : B[s] \in Nat
  BY TimersShape DEF Ordered, NoNode
<1>3. new \in Timers
  BY <1>1, <1>2 DEF Timers
<1>4. /\ M \in Seq(Timers) /\ Len(M) = Len(N) + 1 /\ DOMAIN M = 1 .. Len(N) + 1
      /\ \A n \in DOMAIN N : M[n] = N[n]
      /\ M[Len(N) + 1] = new
  BY <1>3, AppendProperties
<1>5. DOMAIN C = Slots /\ C[at] = Len(N) + 1 /\ \A s \in Slots \ {at} : C[s] = B[s]
  BY <1>1
<1>6. DOMAIN N = 1 .. Len(N) /\ Len(N) \in Nat /\ \A n \in DOMAIN N : n \in Nat
  BY TimersShape
<1>7. /\ M[Len(N) + 1].expireTime = now + delay /\ M[Len(N) + 1].next = B[at]
      /\ M[Len(N) + 1].intervalMs = delay
  BY <1>4
<1> HIDE DEF M, C, new, at
<1>8. \A n \in DOMAIN N : SlotIn(M, n) = SlotIn(N, n)
  BY <1>4 DEF SlotIn
<1>9. SlotIn(M, Len(N) + 1) = at
  BY <1>7 DEF SlotIn, at
<1>10. Len(N) + 1 \notin DOMAIN N /\ \A n \in DOMAIN N : n < Len(N) + 1
  BY <1>6
<1>11. L \subseteq DOMAIN N
  BY DEF Ordered
<1>12. K \subseteq DOMAIN M
  BY <1>4, <1>6, <1>11
<1>13. \A s \in Slots : C[s] = NoNode \/ (C[s] \in K /\ SlotIn(M, C[s]) = s)
  BY <1>1, <1>5, <1>8, <1>9, <1>11 DEF Ordered
<1>14. \A n \in K : n <= C[SlotIn(M, n)]
  <2> SUFFICES ASSUME NEW n \in K PROVE n <= C[SlotIn(M, n)]
    OBVIOUS
  <2>1. CASE n = Len(N) + 1
    BY <2>1, <1>5, <1>6, <1>9
  <2>2. CASE n \in L
    <3>1. n \in DOMAIN N /\ SlotIn(M, n) = SlotIn(N, n) /\ SlotIn(N, n) \in Slots /\ n <= Len(N) + 1
      BY <2>2, <1>6, <1>8, <1>10, <1>11, TimersShape
    <3>2. n <= B[SlotIn(N, n)]
      BY <2>2 DEF Ordered
    <3> QED BY <3>1, <3>2, <1>5
  <2> QED BY <2>1, <2>2
<1>15. \A m \in K : \/ M[m].next = NoNode
                    \/ M[m].next \in K /\ M[m].next < m /\ SlotIn(M, M[m].next) = SlotIn(M, m)
  <2> SUFFICES ASSUME NEW m \in K
               PROVE  \/ M[m].next = NoNode
                      \/ M[m].next \in K /\ M[m].next < m /\ SlotIn(M, M[m].next) = SlotIn(M, m)
    OBVIOUS
  <2>1. CASE m = Len(N) + 1
    <3>1. B[at] = NoNode \/ (B[at] \in L /\ SlotIn(N, B[at]) = at)
      BY <1>1 DEF Ordered
    <3> QED BY <2>1, <3>1, <1>7, <1>8, <1>9, <1>10, <1>11
  <2>2. CASE m \in L
    <3>1. \/ N[m].next = NoNode
          \/ N[m].next \in L /\ N[m].next < m /\ SlotIn(N, N[m].next) = SlotIn(N, m)
      BY <2>2 DEF Ordered
    <3> QED BY <2>2, <3>1, <1>4, <1>8, <1>11
  <2> QED BY <2>1, <2>2
<1>16. \A m, n \in K : n < m /\ SlotIn(M, n) = SlotIn(M, m) => n <= M[m].next
  <2> SUFFICES ASSUME NEW m \in K, NEW n \in K, n < m, SlotIn(M, n) = SlotIn(M, m)
               PROVE  n <= M[m].next
    OBVIOUS
  <2>1. n \in L /\ n \in DOMAIN N /\ SlotIn(M, n) = SlotIn(N, n)
    BY <1>6, <1>8, <1>10, <1>11
  <2>2. CASE m = Len(N) + 1
    BY <2>1, <2>2, <1>7, <1>9 DEF Ordered
  <2>3. CASE m \in L
    BY <2>1, <2>3, <1>4, <1>8, <1>11 DEF Ordered
  <2> QED BY <2>2, <2>3
<1>17. Ordered(C, M, K)
  BY <1>12, <1>13, <1>14, <1>15, <1>16 DEF Ordered
<1>18. Added(B, N, delay, isInterval).nodes = M /\ Added(B, N, delay, isInterval).buckets = C
  BY DEF Added, M, C, new, at
<1> QED BY <1>4, <1>5, <1>7, <1>17, <1>18 DEF AddedSoundly, C, at


\* Where a scan of a bucket is: at node, which follows prev; before prev is set, node
\* is the head or comes right after a head that was added meanwhile.
Scanning(B, N, L, slot, node, prev) ==
  /\ node = NoNode \/ (node \in L /\ SlotIn(N, node) = slot)
  /\ prev = NoNode => B[slot] = node \/ (B[slot] \in L /\ N[B[slot]].next = node)
  /\ prev # NoNode => prev \in L /\ SlotIn(N, prev) = slot /\ N[prev].next = node

LEMMA HeadDetached ==
  ASSUME NEW B, DOMAIN B = Slots, NEW N \in Seq(Timers), NEW L, Ordered(B, N, L),
         NEW slot \in Slots, NEW e \in L, Scanning(B, N, L, slot, e, NoNode),
         NEW C, C = [B EXCEPT ![slot] = N[e].next], NEW K, K = L \ {e, B[slot]}
  PROVE  DOMAIN C = Slots /\ Ordered(C, N, K) /\ Scanning(C, N, K, slot, N[e].next, NoNode)
<1> DEFINE h == B[slot]
<1>1. L \subseteq DOMAIN N /\ \A n \in DOMAIN N : n \in Nat /\ SlotIn(N, n) \in Slots /\ N[n].next \in Nat
  BY TimersShape DEF Ordered
<1>2. e \in DOMAIN N /\ e # NoNode /\ SlotIn(N, e) = slot
  BY <1>1, TimersShape DEF Scanning, NoNode
<1>3. h # NoNode /\ h \in L /\ SlotIn(N, h) = slot /\ (h = e \/ (h # e /\ N[h].next = e /\ e < h))
  <2>1. h = e \/ (h \in L /\ N[h].next = e)
    BY DEF Scanning
  <2>2. h # NoNode
    BY <1>1, <1>2, <2>1, TimersShape DEF NoNode
  <2> QED BY <1>2, <2>1, <2>2 DEF Ordered
<1>4. DOMAIN C = Slots /\ C[slot] = N[e].next /\ \A s \in Slots \ {slot} : C[s] = B[s]
  OBVIOUS
<1> HIDE DEF h
<1>5. \A n \in K : n \in L /\ n # e /\ n # h /\ n \in DOMAIN N
  BY <1>1 DEF h
<1>6. \A n \in K : SlotIn(N, n) = slot => n < e /\ n <= N[e].next
  <2> SUFFICES ASSUME NEW n \in K, SlotIn(N, n) = slot PROVE n < e /\ n <= N[e].next
    OBVIOUS
  <2>1. n <= h
    BY <1>5 DEF Ordered, h
  <2>2. n < e
    BY <1>1, <1>2, <1>3, <1>5, <2>1 DEF Ordered
  <2> QED BY <1>2, <1>5, <2>2 DEF Ordered
<1>7. \/ N[e].next = NoNode
      \/ N[e].next \in K /\ N[e].next < e /\ SlotIn(N, N[e].next) = slot
  <2>1. \/ N[e].next = NoNode
        \/ N[e].next \in L /\ N[e].next < e /\ SlotIn(N, N[e].next) = slot
    BY <1>2 DEF Ordered
  <2>2. N[e].next \in Nat /\ e \in Nat /\ h \in Nat
    BY <1>1, <1>2, <1>3
  <2> QED BY <1>3, <2>1, <2>2 DEF h
<1>8. \A s \in Slots : C[s] = NoNode \/ (C[s] \in K /\ SlotIn(N, C[s]) = s)
  <2> SUFFICES ASSUME NEW s \in Slots PROVE C[s] = NoNode \/ (C[s] \in K /\ SlotIn(N, C[s]) = s)
    OBVIOUS
  <2>1. CASE s = slot
    BY <2>1, <1>4, <1>7
  <2>2. CASE s # slot
    <3>1. B[s] = NoNode \/ (B[s] \in L /\ SlotIn(N, B[s]) = s)
      BY DEF Ordered
    <3> QED BY <2>2, <3>1, <1>2, <1>3, <1>4 DEF h
  <2> QED BY <2>1, <2>2
<1>9. \A n \in K : n <= C[SlotIn(N, n)]
  <2> SUFFICES ASSUME NEW n \in K PROVE n <= C[SlotIn(N, n)]
    OBVIOUS
  <2>1. n <= B[SlotIn(N, n)]
    BY <1>5 DEF Ordered
  <2> QED BY <2>1, <1>1, <1>4, <1>5, <1>6
<1>10. \A m \in K : \/ N[m].next = NoNode
                    \/ N[m].next \in K /\ N[m].next < m /\ SlotIn(N, N[m].next) = SlotIn(N, m)
  <2> SUFFICES ASSUME NEW m \in K, N[m].next # NoNode
               PROVE  N[m].next \in K /\ N[m].next < m /\ SlotIn(N, N[m].next) = SlotIn(N, m)
    OBVIOUS
  <2>1. N[m].next \in L /\ N[m].next < m /\ SlotIn(N, N[m].next) = SlotIn(N, m)
    BY <1>5 DEF Ordered
  <2>2. SlotIn(N, m) = slot => m < e
    BY <1>6
  <2>3. N[m].next # e /\ N[m].next # h
    BY <1>1, <1>2, <1>3, <1>5, <2>1, <2>2
  <2> QED BY <2>1, <2>3 DEF h
<1>11. \A m, n \in K : n < m /\ SlotIn(N, n) = SlotIn(N, m) => n <= N[m].next
  BY <1>5 DEF Ordered
<1>12. Ordered(C, N, K)
  BY <1>1, <1>5, <1>8, <1>9, <1>10, <1>11 DEF Ordered
<1> QED BY <1>4, <1>7, <1>12 DEF Scanning

Relinked(N, prev, e) == [N EXCEPT ![prev].next = N[e].next]

InnerSoundly(B, N, slot, e, prev, M, K) ==
  /\ M \in Seq(Timers) /\ DOMAIN M = DOMAIN N /\ Len(M) = Len(N)
  /\ \A n \in DOMAIN N : /\ M[n].expireTime = N[n].expireTime
                         /\ M[n].intervalMs = N[n].intervalMs
                         /\ M[n].isInterval = N[n].isInterval
  /\ M[e] = N[e]
  /\ Ordered(B, M, K) /\ Scanning(B, M, K, slot, N[e].next, prev)

LEMMA InnerDetached ==
  ASSUME NEW B, DOMAIN B = Slots, NEW N \in Seq(Timers), NEW L, Ordered(B, N, L),
         NEW slot \in Slots, NEW e \in L, NEW prev, prev # NoNode, Scanning(B, N, L, slot, e, prev),
         NEW M, M = Relinked(N, prev, e), NEW K, K = L \ {e}
  PROVE  InnerSoundly(B, N, slot, e, prev, M, K)
<1>1. L \subseteq DOMAIN N /\ \A n \in DOMAIN N : n \in Nat /\ SlotIn(N, n) \in Slots /\ N[n].next \in Nat
  BY TimersShape DEF Ordered
<1>2. e \in DOMAIN N /\ e # NoNode /\ SlotIn(N, e) = slot
  BY <1>1, TimersShape DEF Scanning, NoNode
<1>3. prev \in L /\ prev \in DOMAIN N /\ SlotIn(N, prev) = slot /\ N[prev].next = e /\ e < prev
  BY <1>1, <1>2 DEF Scanning, Ordered
<1>4. /\ DOMAIN M = DOMAIN N /\ M[prev] = [N[prev] EXCEPT !.next = N[e].next]
      /\ \A n \in DOMAIN N : n # prev => M[n] = N[n]
  BY <1>3 DEF Relinked
<1>5. N[prev] \in Timers /\ N[e].next \in Nat
  BY <1>1, <1>2, <1>3, TimersShape
<1>6. /\ M[prev] \in Timers /\ M[prev].next = N[e].next /\ M[prev].expireTime = N[prev].expireTime
      /\ M[prev].intervalMs = N[prev].intervalMs /\ M[prev].isInterval = N[prev].isInterval
  <2> DEFINE r == N[prev]
             q == [r EXCEPT !.next = N[e].next]
  <2>1. r \in Timers
    BY <1>5
  <2> HIDE DEF r
  <2>2. q \in Timers
    BY <1>5, <2>1 DEF Timers
  <2>3. /\ q.next = N[e].next /\ q.expireTime = r.expireTime /\ q.intervalMs = r.intervalMs
        /\ q.isInterval = r.isInterval
    BY <2>1 DEF Timers
  <2>4. M[prev] = q
    BY <1>4 DEF r
  <2> QED BY <2>2, <2>3, <2>4 DEF r
<1>7. M \in Seq(Timers) /\ Len(M) = Len(N)
  <2>1. M \in [1 .. Len(N) -> Timers]
    <3>1. M = [n \in DOMAIN N |-> M[n]] /\ DOMAIN N = 1 .. Len(N) /\ Len(N) \in Nat
      BY TimersShape DEF Relinked
    <3>2. \A n \in DOMAIN N : M[n] \in Timers
      BY <1>4, <1>6, TimersShape
    <3> QED BY <3>1, <3>2
  <2>2. Len(N) \in Nat
    BY TimersShape
  <2> QED BY <2>1, <2>2, SeqDef
<1>8. \A n \in DOMAIN N : /\ M[n].expireTime = N[n].expireTime /\ M[n].intervalMs = N[n].intervalMs
                          /\ M[n].isInterval = N[n].isInterval
  BY <1>4, <1>6
<1>9. \A n \in DOMAIN N : SlotIn(M, n) = SlotIn(N, n)
  BY <1>8 DEF SlotIn
<1>10. \A n \in DOMAIN N : n # prev => M[n].next = N[n].next
  BY <1>4
<1>11. \/ N[e].next = NoNode
       \/ N[e].next \in K /\ N[e].next < e /\ SlotIn(N, N[e].next) = slot
  <2>1. \/ N[e].next = NoNode
        \/ N[e].next \in L /\ N[e].next < e /\ SlotIn(N, N[e].next) = slot
    BY <1>2 DEF Ordered
  <2> QED BY <1>1, <1>2, <2>1
<1>12. \A n \in K : n \in L /\ n # e /\ n \in DOMAIN N /\ n \in Nat
  BY <1>1
<1>13. \A s \in Slots : B[s] = NoNode \/ (B[s] \in K /\ SlotIn(M, B[s]) = s)
  <2> SUFFICES ASSUME NEW s \in Slots, B[s] # NoNode PROVE B[s] \in K /\ SlotIn(M, B[s]) = s
    OBVIOUS
  <2>1. B[s] \in L /\ SlotIn(N, B[s]) = s
    BY DEF Ordered
  <2>2. B[s] # e
    <3> SUFFICES ASSUME B[s] = e PROVE FALSE
      OBVIOUS
    <3>1. s = slot
      BY <1>2, <2>1
    <3>2. prev <= B[s]
      BY <1>3, <3>1 DEF Ordered
    <3> QED BY <1>1, <1>2, <1>3, <3>2
  <2> QED BY <1>1, <1>9, <2>1, <2>2
<1>14. \A n \in K : n <= B[SlotIn(M, n)]
  BY <1>9, <1>12 DEF Ordered
<1>15. \A m \in K : \/ M[m].next = NoNode
                    \/ M[m].next \in K /\ M[m].next < m /\ SlotIn(M, M[m].next) = SlotIn(M, m)
  <2> SUFFICES ASSUME NEW m \in K, M[m].next # NoNode
               PROVE  M[m].next \in K /\ M[m].next < m /\ SlotIn(M, M[m].next) = SlotIn(M, m)
    OBVIOUS
  <2>1. CASE m = prev
    <3>1. N[e].next \in Nat /\ e \in Nat /\ prev \in Nat
      BY <1>1, <1>2, <1>3
    <3> QED BY <2>1, <3>1, <1>3, <1>6, <1>9, <1>11, <1>12
  <2>2. CASE m # prev
    <3>1. M[m].next = N[m].next
      BY <2>2, <1>10, <1>12
    <3>2. N[m].next \in L /\ N[m].next < m /\ SlotIn(N, N[m].next) = SlotIn(N, m)
      BY <3>1, <1>12 DEF Ordered
    <3>3. N[m].next # e
      <4> SUFFICES ASSUME N[m].next = e PROVE FALSE
        OBVIOUS
      <4>1. SlotIn(N, m) = slot /\ e < m
        BY <1>2, <3>2
      <4>2. m < prev => m <= e
        BY <1>3, <1>12, <4>1 DEF Ordered
      <4>3. prev < m => prev <= e
        BY <1>3, <1>12, <4>1 DEF Ordered
      <4> QED BY <2>2, <1>1, <1>2, <1>3, <1>12, <4>1, <4>2, <4>3
    <3> QED BY <1>1, <1>9, <1>12, <3>1, <3>2, <3>3
  <2> QED BY <2>1, <2>2
<1>16. \A m, n \in K : n < m /\ SlotIn(M, n) = SlotIn(M, m) => n <= M[m].next
  <2> SUFFICES ASSUME NEW m \in K, NEW n \in K, n < m, SlotIn(M, n) = SlotIn(M, m)
               PROVE  n <= M[m].next
    OBVIOUS
  <2>1. SlotIn(N, n) = SlotIn(N, m)
    BY <1>9, <1>12
  <2>2. n <= N[m].next
    BY <1>12, <2>1 DEF Ordered
  <2>3. CASE m # prev
    BY <2>2, <2>3, <1>10, <1>12
  <2>4. CASE m = prev
    <3>1. n < e /\ SlotIn(N, n) = slot
      BY <2>1, <2>2, <2>4, <1>1, <1>2, <1>3, <1>12
    <3>2. n <= N[e].next
      BY <3>1, <1>2, <1>12 DEF Ordered
    <3> QED BY <2>4, <3>2, <1>6
  <2> QED BY <2>3, <2>4
<1>17. Ordered(B, M, K)
  <2>1. K \subseteq DOMAIN M
    BY <1>4, <1>12
  <2> QED BY <2>1, <1>13, <1>14, <1>15, <1>16 DEF Ordered
<1>18. Scanning(B, M, K, slot, N[e].next, prev)
  <2>1. N[e].next = NoNode \/ (N[e].next \in K /\ SlotIn(M, N[e].next) = slot)
    BY <1>9, <1>11, <1>12
  <2>2. prev \in K /\ SlotIn(M, prev) = slot /\ M[prev].next = N[e].next
    BY <1>1, <1>2, <1>3, <1>6, <1>9
  <2> QED BY <2>1, <2>2 DEF Scanning
<1>19. M[e] = N[e]
  BY <1>1, <1>2, <1>3, <1>4
<1> QED BY <1>4, <1>7, <1>8, <1>17, <1>18, <1>19 DEF InnerSoundly


\* A scan goes on where it was when a node is added before the bucket's head.
LEMMA ScanAdded ==
  ASSUME NEW B, DOMAIN B = Slots, NEW N \in Seq(Timers), NEW L, Ordered(B, N, L),
         NEW slot \in Slots, NEW node, NEW prev, Scanning(B, N, L, slot, node, prev),
         prev = NoNode => B[slot] = node,
         NEW delay \in Nat, now \in Nat, NEW added, AddedSoundly(B, N, L, delay, added)
  PROVE  Scanning(added.buckets, added.nodes, L \cup {Len(N) + 1}, slot, node, prev)
<1> DEFINE at == SlotOf(now + delay)
           M == added.nodes
           K == L \cup {Len(N) + 1}
<1>1. L \subseteq DOMAIN N
  BY DEF Ordered
<1>2. /\ \A n \in DOMAIN N : M[n] = N[n]
      /\ M[Len(N) + 1].next = B[at]
      /\ added.buckets = [B EXCEPT ![at] = Len(N) + 1]
  BY DEF AddedSoundly
<1>3. \A n \in DOMAIN N : SlotIn(M, n) = SlotIn(N, n)
  BY <1>2 DEF SlotIn
<1>4. /\ \A s \in Slots : s # at => added.buckets[s] = B[s]
      /\ slot = at => added.buckets[slot] = Len(N) + 1
  BY <1>2
<1> HIDE DEF M, at
<1>5. node = NoNode \/ (node \in K /\ SlotIn(M, node) = slot)
  BY <1>1, <1>3 DEF Scanning
<1>6. ASSUME prev = NoNode
      PROVE  added.buckets[slot] = node \/ (added.buckets[slot] \in K /\ M[added.buckets[slot]].next = node)
  <2>1. CASE slot = at
    <3>1. added.buckets[slot] = Len(N) + 1 /\ M[Len(N) + 1].next = node
      BY <2>1, <1>2, <1>4, <1>6
    <3> QED BY <3>1
  <2>2. CASE slot # at
    BY <2>2, <1>4, <1>6
  <2> QED BY <2>1, <2>2
<1>7. prev # NoNode => prev \in K /\ SlotIn(M, prev) = slot /\ M[prev].next = node
  BY <1>1, <1>2, <1>3 DEF Scanning
<1> QED BY <1>5, <1>6, <1>7 DEF Scanning, M

-----------------------------------------------------------------------------
(* The timers as a whole.                                                    *)

Unfired == {n \in DOMAIN nodes : fires[n] = 0 /\ n \notin lostTimers}

TimerTypes ==
  /\ now \in Nat /\ nodes \in Seq(Timers) /\ fires \in Seq({0, 1}) /\ Len(fires) = Len(nodes)
  /\ lostTimers \subseteq DOMAIN nodes
  /\ DOMAIN wheel = {"buckets", "currentTick"} /\ DOMAIN wheel.buckets = Slots
  /\ wheel.currentTick \in Nat
  /\ DOMAIN process = {"running", "now", "count", "node", "prev"}
  /\ process.running => /\ process.now \in Nat
                        /\ wheel.currentTick <= process.now /\ process.now <= now
  /\ ~process.running => wheel.currentTick <= now + 1

\* What is due at the tick of a scan lies ahead of it, and nothing due was passed.
InTime ==
  ~cut => \A n \in Unfired :
            nodes[n].intervalMs > 0 =>
              /\ nodes[n].expireTime >= wheel.currentTick
              /\ process.running /\ nodes[n].expireTime = wheel.currentTick => n <= process.node

TimerInv ==
  /\ TimerTypes
  /\ Ordered(wheel.buckets, nodes, Unfired)
  /\ process.running => Scanning(wheel.buckets, nodes, Unfired, SlotOf(wheel.currentTick),
                                 process.node, process.prev)
  /\ InTime

\* Following the links from its head, every live node of a bucket is found.
LEMMA LiveInChain == ASSUME TimerInv, NEW n \in Unfired PROVE n \in Chain(SlotIn(nodes, n))
<1> DEFINE slot == SlotIn(nodes, n)
           L == Unfired
<1>1. nodes \in Seq(Timers) /\ Ordered(wheel.buckets, nodes, L)
  BY DEF TimerInv, TimerTypes
<1>2. L \subseteq DOMAIN nodes /\ \A m \in DOMAIN nodes : m \in Nat /\ SlotIn(nodes, m) \in Slots /\ m > 0
  BY <1>1, TimersShape DEF Ordered
<1> HIDE DEF L
<1>3. slot \in Slots /\ n \in DOMAIN nodes /\ n \in Nat /\ n > 0 /\ n \in L
  BY <1>2 DEF L
<1> SUFFICES ASSUME NEW s \in SUBSET DOMAIN nodes,
                    wheel.buckets[slot] \in s \cup {NoNode},
                    \A i \in s : nodes[i].next \in s \cup {NoNode}
             PROVE  n \in s
  BY <1>3 DEF Chain
<1> DEFINE Farther == {m \in s \cap L : SlotIn(nodes, m) = slot /\ m >= n}
<1>4. wheel.buckets[slot] \in Farther
  <2>1. n <= wheel.buckets[slot]
    BY <1>1, <1>3 DEF Ordered
  <2>2. wheel.buckets[slot] # NoNode
    BY <1>3, <2>1 DEF NoNode
  <2>3. wheel.buckets[slot] \in L /\ SlotIn(nodes, wheel.buckets[slot]) = slot
    BY <1>1, <1>3, <2>2 DEF Ordered
  <2>4. wheel.buckets[slot] \in Nat
    BY <1>2, <2>3
  <2> QED BY <1>3, <2>1, <2>2, <2>3, <2>4
<1>5. Farther \in SUBSET Nat /\ Farther # {}
  BY <1>2, <1>4
<1>6. PICK m \in Farther : \A c \in Farther : m <= c
  BY <1>5, LeastElement
<1>7. CASE m = n
  BY <1>6, <1>7
<1>8. CASE m # n
  <2>1. m \in L /\ m \in s /\ SlotIn(nodes, m) = slot /\ n < m /\ m \in Nat
    BY <1>2, <1>3, <1>6, <1>8
  <2>2. n <= nodes[m].next
    BY <1>1, <1>3, <2>1 DEF Ordered
  <2>3. nodes[m].next # NoNode
    BY <1>3, <2>2 DEF NoNode
  <2>4. nodes[m].next \in L /\ nodes[m].next < m /\ SlotIn(nodes, nodes[m].next) = slot
    BY <1>1, <2>1, <2>3 DEF Ordered
  <2>5. nodes[m].next \in s /\ nodes[m].next \in Nat
    BY <1>2, <2>1, <2>3, <2>4
  <2>6. nodes[m].next \in Farther
    BY <2>2, <2>4, <2>5, <1>3
  <2> QED BY <1>6, <2>1, <2>4, <2>5, <2>6
<1> QED BY <1>7, <1>8

LEMMA TimersImply == TimerInv => TimersFire
<1> SUFFICES ASSUME TimerInv PROVE TimersFire
  OBVIOUS
<1>1. \A n \in DOMAIN nodes : fires[n] \in {0, 1}
  <2>1. nodes \in Seq(Timers) /\ fires \in Seq({0, 1}) /\ Len(fires) = Len(nodes)
    BY DEF TimerInv, TimerTypes
  <2> QED BY <2>1
<1>2. \A n \in DOMAIN nodes : n \in Unfired => n \in Chain(SlotOf(nodes[n].expireTime))
  BY LiveInChain DEF SlotIn
<1>3. ASSUME ~cut, ~process.running, NEW n \in DOMAIN nodes, nodes[n].intervalMs > 0,
             n \notin lostTimers, nodes[n].expireTime < wheel.currentTick
      PROVE  fires[n] = 1
  <2>1. nodes \in Seq(Timers) /\ wheel.currentTick \in Nat
    BY DEF TimerInv, TimerTypes
  <2>2. nodes[n].expireTime \in Nat
    BY <2>1, TimersShape
  <2>3. n \notin Unfired
    BY <1>3, <2>1, <2>2 DEF TimerInv, InTime
  <2> QED BY <1>1, <1>3, <2>3 DEF Unfired
<1> QED BY <1>1, <1>2, <1>3 DEF TimersFire, Unfired


LEMMA TimerStarts == TimerInit => TimerInv
<1> SUFFICES ASSUME TimerInit PROVE TimerInv
  OBVIOUS
<1>1. /\ now = 0 /\ nodes = <<>> /\ fires = <<>> /\ lostTimers = {} /\ ~process.running
      /\ wheel.buckets = [s \in Slots |-> NoNode] /\ wheel.currentTick = 0
      /\ DOMAIN wheel = {"buckets", "currentTick"}
      /\ DOMAIN process = {"running", "now", "count", "node", "prev"}
  BY DEF TimerInit, IdleProcess, Slots
<1>2. <<>> \in Seq(Timers) /\ <<>> \in Seq({0, 1}) /\ Len(<<>>) = 0 /\ DOMAIN <<>> = {}
  OBVIOUS
<1>3. Unfired = {}
  BY <1>1, <1>2 DEF Unfired
<1>4. TimerTypes
  BY <1>1, <1>2 DEF TimerTypes
<1>5. Ordered(wheel.buckets, nodes, Unfired)
  BY <1>1, <1>2, <1>3 DEF Ordered
<1> QED BY <1>1, <1>3, <1>4, <1>5 DEF TimerInv, InTime

\* What the invariant says of the nodes.
LEMMA TimerFacts ==
  ASSUME TimerInv
  PROVE  /\ nodes \in Seq(Timers) /\ DOMAIN nodes = 1 .. Len(nodes) /\ Len(nodes) \in Nat
         /\ \A n \in DOMAIN nodes : /\ n \in Nat /\ SlotIn(nodes, n) \in Slots /\ nodes[n].next \in Nat
                                    /\ nodes[n].expireTime \in Nat /\ nodes[n].intervalMs \in Nat
         /\ Ordered(wheel.buckets, nodes, Unfired) /\ Unfired \subseteq DOMAIN nodes
         /\ DOMAIN wheel = {"buckets", "currentTick"} /\ DOMAIN wheel.buckets = Slots
         /\ now \in Nat /\ wheel.currentTick \in Nat /\ SlotOf(wheel.currentTick) \in Slots
         /\ DOMAIN process = {"running", "now", "count", "node", "prev"}
<1>1. TimerTypes /\ Ordered(wheel.buckets, nodes, Unfired)
  BY DEF TimerInv
<1>2. nodes \in Seq(Timers) /\ wheel.currentTick \in Nat
  BY <1>1 DEF TimerTypes
<1>3. SlotOf(wheel.currentTick) \in Slots
  BY <1>2, SlotInRange
<1> QED BY <1>1, <1>2, <1>3, TimersShape DEF TimerTypes, Unfired

LEMMA TimerIsAdded ==
  ASSUME TimerInv, NEW delay \in Delays, NEW isInterval \in BOOLEAN, lib_timer_add(delay, isInterval)
  PROVE  TimerInv'
<1> DEFINE added == Added(wheel.buckets, nodes, delay, isInterval)
           k == Len(nodes) + 1
<1>1. /\ nodes' = added.nodes /\ wheel' = [wheel EXCEPT !.buckets = added.buckets]
      /\ fires' = Append(fires, 0)
      /\ UNCHANGED <<now, process, lostTimers, cut>> /\ ~process.running
  BY DEF lib_timer_add
<1>2. delay \in Nat
  BY AsyncAssumption
<1>3. AddedSoundly(wheel.buckets, nodes, Unfired, delay, added)
  BY <1>2, TimerFacts, NodeAdded
<1> HIDE DEF added
<1>4. /\ wheel'.buckets = added.buckets /\ wheel'.currentTick = wheel.currentTick
      /\ DOMAIN wheel' = DOMAIN wheel
  BY <1>1, TimerFacts
<1>5. /\ nodes' \in Seq(Timers) /\ Len(nodes') = k /\ DOMAIN wheel'.buckets = Slots
      /\ \A n \in DOMAIN nodes : nodes'[n] = nodes[n]
      /\ nodes'[k].expireTime = now + delay /\ nodes'[k].intervalMs = delay
      /\ Ordered(wheel'.buckets, nodes', Unfired \cup {k})
  BY <1>1, <1>3, <1>4 DEF AddedSoundly
<1>6. /\ fires \in Seq({0, 1}) /\ Len(fires) = Len(nodes) /\ lostTimers \subseteq DOMAIN nodes
      /\ wheel.currentTick <= now + 1
  BY <1>1 DEF TimerInv, TimerTypes
<1>7. DOMAIN nodes = 1 .. Len(nodes) /\ Len(nodes) \in Nat /\ DOMAIN nodes' = 1 .. k
  BY <1>5, TimerFacts, TimersShape
<1>8. /\ fires' \in Seq({0, 1}) /\ Len(fires') = k /\ fires'[k] = 0
      /\ \A n \in DOMAIN nodes : fires'[n] = fires[n]
  BY <1>1, <1>6, <1>7, AppendProperties
<1>9. Unfired' = Unfired \cup {k}
  <2>1. DOMAIN nodes' = DOMAIN nodes \cup {k} /\ k \notin DOMAIN nodes
    BY <1>7
  <2>2. lostTimers' = lostTimers /\ k \notin lostTimers
    BY <1>1, <1>6, <2>1
  <2> QED BY <1>8, <2>1, <2>2 DEF Unfired
<1>10. TimerTypes'
  BY <1>1, <1>4, <1>5, <1>6, <1>7, <1>8, TimerFacts DEF TimerTypes
<1>11. InTime'
  <2> SUFFICES ASSUME ~cut, NEW n \in Unfired', nodes'[n].intervalMs > 0
               PROVE  nodes'[n].expireTime >= wheel.currentTick
    BY <1>1, <1>4 DEF InTime
  <2>1. CASE n = k
    <3>1. delay > 0 /\ nodes'[n].expireTime = now + delay
      BY <2>1, <1>5
    <3> QED BY <3>1, <1>2, <1>6, TimerFacts
  <2>2. CASE n \in Unfired
    <3>1. nodes'[n] = nodes[n]
      BY <2>2, <1>5, TimerFacts
    <3> QED BY <2>2, <3>1 DEF TimerInv, InTime
  <2> QED BY <1>9, <2>1, <2>2
<1>12. Ordered(wheel'.buckets, nodes', Unfired')
  BY <1>5, <1>9
<1> QED BY <1>1, <1>10, <1>11, <1>12 DEF TimerInv

LEMMA ScanBegins == ASSUME TimerInv, ProcessBegin PROVE TimerInv'
<1> DEFINE slot == SlotOf(wheel.currentTick)
<1>1. /\ UNCHANGED <<now, wheel, nodes, fires, lostTimers, cut>>
      /\ process'.running /\ process'.now = now /\ process'.prev = NoNode
      /\ process'.node = wheel.buckets[slot]
      /\ DOMAIN process' = {"running", "now", "count", "node", "prev"}
      /\ wheel.currentTick <= now
  BY DEF ProcessBegin
<1>2. Unfired' = Unfired
  BY <1>1 DEF Unfired
<1>3. TimerTypes'
  <2>1. TimerTypes
    BY DEF TimerInv
  <2> QED BY <1>1, <2>1 DEF TimerTypes
<1>4. Ordered(wheel.buckets, nodes, Unfired)
  BY DEF TimerInv
<1>5. Scanning(wheel.buckets, nodes, Unfired, slot, wheel.buckets[slot], NoNode)
  BY <1>4, TimerFacts DEF Scanning, Ordered
<1>6. InTime'
  <2> SUFFICES ASSUME ~cut, NEW n \in Unfired, nodes[n].intervalMs > 0
               PROVE  /\ nodes[n].expireTime >= wheel.currentTick
                      /\ nodes[n].expireTime = wheel.currentTick => n <= wheel.buckets[slot]
    BY <1>1, <1>2 DEF InTime
  <2>1. nodes[n].expireTime >= wheel.currentTick
    BY DEF TimerInv, InTime
  <2>2. n <= wheel.buckets[SlotIn(nodes, n)]
    BY <1>4 DEF Ordered
  <2> QED BY <2>1, <2>2 DEF SlotIn
<1> QED BY <1>1, <1>2, <1>3, <1>4, <1>5, <1>6 DEF TimerInv

LEMMA NodePassed == ASSUME TimerInv, PassOver PROVE TimerInv'
<1> DEFINE slot == SlotOf(wheel.currentTick)
           p == process.node
<1>1. /\ UNCHANGED <<now, wheel, nodes, fires, lostTimers, cut>>
      /\ process.running /\ p # NoNode /\ nodes[p].expireTime > process.now
      /\ process' = [process EXCEPT !.prev = process.node, !.node = nodes[process.node].next]
  BY DEF PassOver
<1>2. /\ process'.prev = p /\ process'.node = nodes[p].next /\ process'.now = process.now
      /\ process'.running = process.running /\ DOMAIN process' = DOMAIN process
  BY <1>1, TimerFacts
<1>3. Unfired' = Unfired
  BY <1>1 DEF Unfired
<1>4. TimerTypes /\ Ordered(wheel.buckets, nodes, Unfired)
      /\ Scanning(wheel.buckets, nodes, Unfired, slot, p, process.prev)
  BY <1>1 DEF TimerInv
<1>5. process'.running
  BY <1>1, <1>2
<1>6. TimerTypes'
  BY <1>1, <1>2, <1>4 DEF TimerTypes
<1>7. p \in Unfired /\ SlotIn(nodes, p) = slot /\ p \in DOMAIN nodes
  BY <1>1, <1>4, TimerFacts DEF Scanning
<1>8. /\ \/ nodes[p].next = NoNode
         \/ nodes[p].next \in Unfired /\ nodes[p].next < p /\ SlotIn(nodes, nodes[p].next) = slot
      /\ \A n \in Unfired : n < p /\ SlotIn(nodes, n) = slot => n <= nodes[p].next
  BY <1>4, <1>7 DEF Ordered
<1>9. Scanning(wheel.buckets, nodes, Unfired, slot, nodes[p].next, p)
  BY <1>1, <1>7, <1>8 DEF Scanning
<1>10. InTime'
  <2> SUFFICES ASSUME ~cut, NEW n \in Unfired, nodes[n].intervalMs > 0
               PROVE  /\ nodes[n].expireTime >= wheel.currentTick
                      /\ nodes[n].expireTime = wheel.currentTick => n <= nodes[p].next
    BY <1>1, <1>2, <1>3 DEF InTime
  <2>1. /\ nodes[n].expireTime >= wheel.currentTick
        /\ nodes[n].expireTime = wheel.currentTick => n <= p
    BY <1>1 DEF TimerInv, InTime
  <2>2. process.now \in Nat /\ wheel.currentTick <= process.now
    BY <1>1, <1>4 DEF TimerTypes
  <2>3. nodes[n].expireTime = wheel.currentTick => n # p
    BY <1>1, <2>2, TimerFacts
  <2>4. n \in Nat /\ p \in Nat
    BY <1>7, TimerFacts
  <2>5. nodes[n].expireTime = wheel.currentTick => SlotIn(nodes, n) = slot
    BY DEF SlotIn
  <2> QED BY <1>8, <2>1, <2>3, <2>4, <2>5
<1>11. Ordered(wheel.buckets, nodes, Unfired)'
  BY <1>1, <1>3, <1>4
<1>12. Scanning(wheel.buckets, nodes, Unfired, SlotOf(wheel.currentTick), process.node, process.prev)'
  BY <1>1, <1>2, <1>3, <1>9
<1> QED BY <1>6, <1>10, <1>11, <1>12 DEF TimerInv


LEMMA TickAdvances == ASSUME TimerInv, Advance PROVE TimerInv'
<1> DEFINE next == wheel.currentTick + 1
           goesOn == next <= process.now /\ process.count < MaxCount
<1>1. /\ UNCHANGED <<now, nodes, fires, lostTimers>>
      /\ process.running /\ (process.node = NoNode \/ process.count = MaxCount)
      /\ wheel'.currentTick = next /\ wheel'.buckets = wheel.buckets /\ DOMAIN wheel' = DOMAIN wheel
      /\ cut' = (cut \/ process.count = MaxCount)
  BY TimerFacts DEF Advance
<1>2. Unfired' = Unfired
  BY <1>1 DEF Unfired
<1>3. TimerTypes /\ Ordered(wheel.buckets, nodes, Unfired)
  BY DEF TimerInv
<1>4. Ordered(wheel.buckets, nodes, Unfired)'
  BY <1>1, <1>2, <1>3
<1>5. next \in Nat /\ SlotOf(next) \in Slots /\ wheel.currentTick \in Nat
      /\ process.now \in Nat /\ now \in Nat /\ wheel.currentTick <= process.now /\ process.now <= now
  BY <1>1, <1>3, SlotInRange DEF TimerTypes
<1>6. ASSUME ~cut', NEW n \in Unfired, nodes[n].intervalMs > 0
      PROVE  nodes[n].expireTime >= next
  <2>1. process.node = NoNode /\ ~cut
    BY <1>1, <1>6
  <2>2. /\ nodes[n].expireTime >= wheel.currentTick
        /\ nodes[n].expireTime = wheel.currentTick => n <= process.node
    BY <1>1, <1>6, <2>1 DEF TimerInv, InTime
  <2>3. n \in Nat /\ n > 0 /\ nodes[n].expireTime \in Nat
    BY TimerFacts
  <2> QED BY <1>5, <2>1, <2>2, <2>3 DEF NoNode
<1>7. CASE goesOn
  <2>1. process' = [process EXCEPT !.prev = NoNode, !.node = wheel.buckets[SlotOf(next)]]
    BY <1>7 DEF Advance
  <2>2. /\ process'.running = process.running /\ process'.now = process.now
        /\ process'.prev = NoNode /\ process'.node = wheel.buckets[SlotOf(next)]
        /\ DOMAIN process' = DOMAIN process
    BY <2>1, TimerFacts
  <2>3. TimerTypes'
    BY <1>1, <1>3, <1>5, <1>7, <2>2 DEF TimerTypes
  <2>4. Scanning(wheel.buckets, nodes, Unfired, SlotOf(next), wheel.buckets[SlotOf(next)], NoNode)
    BY <1>3, <1>5 DEF Scanning, Ordered
  <2>5. Scanning(wheel.buckets, nodes, Unfired, SlotOf(wheel.currentTick), process.node, process.prev)'
    BY <1>1, <1>2, <2>2, <2>4
  <2>6. InTime'
    <3> SUFFICES ASSUME ~cut', NEW n \in Unfired, nodes[n].intervalMs > 0
                 PROVE  /\ nodes[n].expireTime >= next
                        /\ nodes[n].expireTime = next => n <= wheel.buckets[SlotOf(next)]
      BY <1>1, <1>2, <2>2 DEF InTime
    <3>1. n <= wheel.buckets[SlotIn(nodes, n)]
      BY <1>3 DEF Ordered
    <3> QED BY <1>6, <3>1 DEF SlotIn
  <2> QED BY <1>4, <2>3, <2>5, <2>6 DEF TimerInv
<1>8. CASE ~goesOn
  <2>1. process' = IdleProcess
    BY <1>8 DEF Advance
  <2>2. ~process'.running /\ DOMAIN process' = {"running", "now", "count", "node", "prev"}
    BY <2>1 DEF IdleProcess
  <2>3. wheel'.currentTick <= now + 1
    BY <1>1, <1>5
  <2>4. TimerTypes'
    BY <1>1, <1>3, <1>5, <2>2, <2>3 DEF TimerTypes
  <2>5. InTime'
    BY <1>1, <1>2, <1>6, <2>2 DEF InTime
  <2> QED BY <1>4, <2>2, <2>4, <2>5 DEF TimerInv
<1> QED BY <1>7, <1>8

LEMMA TimersRest == ASSUME TimerInv, ClockTicks PROVE TimerInv'
<1>1. /\ UNCHANGED <<wheel, nodes, process, fires, lostTimers, cut>> /\ now' = now + 1
      /\ now \in Nat
  BY TimerFacts DEF ClockTicks
<1>2. Unfired' = Unfired
  BY <1>1 DEF Unfired
<1>3. TimerTypes'
  <2>1. TimerTypes
    BY DEF TimerInv
  <2>2. wheel.currentTick \in Nat
    BY TimerFacts
  <2> QED BY <1>1, <2>1, <2>2 DEF TimerTypes
<1>4. InTime'
  BY <1>1, <1>2 DEF InTime, TimerInv
<1>5. Ordered(wheel.buckets, nodes, Unfired)'
  BY <1>1, <1>2 DEF TimerInv
<1>6. (process.running => Scanning(wheel.buckets, nodes, Unfired, SlotOf(wheel.currentTick),
                                   process.node, process.prev))'
  BY <1>1, <1>2 DEF TimerInv
<1> QED BY <1>3, <1>4, <1>5, <1>6 DEF TimerInv

\* The node handed out leaves its bucket, and with it a head added before it.
DetachedSoundly(rest, K) ==
  /\ rest.nodes \in Seq(Timers) /\ DOMAIN rest.nodes = DOMAIN nodes /\ Len(rest.nodes) = Len(nodes)
  /\ \A n \in DOMAIN nodes : /\ rest.nodes[n].expireTime = nodes[n].expireTime
                             /\ rest.nodes[n].intervalMs = nodes[n].intervalMs
                             /\ rest.nodes[n].isInterval = nodes[n].isInterval
  /\ DOMAIN rest.buckets = Slots
  /\ Ordered(rest.buckets, rest.nodes, K)
  /\ Scanning(rest.buckets, rest.nodes, K, SlotOf(wheel.currentTick), nodes[process.node].next,
              process.prev)
  /\ process.prev = NoNode => rest.buckets[SlotOf(wheel.currentTick)] = nodes[process.node].next

LEMMA NodeDetached ==
  ASSUME TimerInv, process.running, process.node # NoNode, NEW K,
         K = IF process.prev = NoNode
             THEN Unfired \ {process.node, wheel.buckets[SlotOf(wheel.currentTick)]}
             ELSE Unfired \ {process.node}
  PROVE  DetachedSoundly(Detached(SlotOf(wheel.currentTick), process.node), K)
<1> DEFINE slot == SlotOf(wheel.currentTick)
           e == process.node
           rest == Detached(slot, e)
<1>1. /\ nodes \in Seq(Timers) /\ Ordered(wheel.buckets, nodes, Unfired) /\ slot \in Slots
      /\ DOMAIN wheel.buckets = Slots
  BY TimerFacts
<1>2. Scanning(wheel.buckets, nodes, Unfired, slot, e, process.prev)
  BY DEF TimerInv
<1>3. e \in Unfired
  BY <1>2 DEF Scanning
<1>4. CASE process.prev = NoNode
  <2> DEFINE C == [wheel.buckets EXCEPT ![slot] = nodes[e].next]
  <2>1. rest.nodes = nodes /\ rest.buckets = C
    BY <1>4 DEF Detached
  <2>2. K = Unfired \ {e, wheel.buckets[slot]}
    BY <1>4
  <2>3. Scanning(wheel.buckets, nodes, Unfired, slot, e, NoNode)
    BY <1>2, <1>4
  <2>4. DOMAIN C = Slots /\ Ordered(C, nodes, K) /\ Scanning(C, nodes, K, slot, nodes[e].next, NoNode)
    BY <1>1, <1>3, <2>2, <2>3, HeadDetached
  <2>5. C[slot] = nodes[e].next
    BY <1>1
  <2> HIDE DEF C, rest, slot, e
  <2>6. DetachedSoundly(rest, K)
    BY <1>1, <1>4, <2>1, <2>4, <2>5 DEF DetachedSoundly, slot, e
  <2> QED BY <2>6 DEF rest, slot, e
<1>5. CASE process.prev # NoNode
  <2> DEFINE M == Relinked(nodes, process.prev, e)
  <2>1. rest.nodes = M /\ rest.buckets = wheel.buckets
    BY <1>5 DEF Detached, Relinked
  <2>2. K = Unfired \ {e}
    BY <1>5
  <2> HIDE DEF M, rest, slot, e
  <2>3. M = Relinked(nodes, process.prev, e)
    BY DEF M
  <2>4. InnerSoundly(wheel.buckets, nodes, slot, e, process.prev, M, K)
    BY ONLY <1>1, <1>2, <1>3, <1>5, <2>2, <2>3, InnerDetached
  <2>5. DetachedSoundly(rest, K)
    BY <1>1, <1>5, <2>1, <2>4 DEF DetachedSoundly, InnerSoundly, slot, e
  <2> QED BY <2>5 DEF rest, slot, e
<1> QED BY <1>4, <1>5


\* What handing out a node, and adding an interval timer again, does: k nodes are new.
WithNew(K, n, k) == K \cup (n + 1 .. n + k)
Handing(B, N, K, slot, node, prev, again, k) ==
  /\ again.nodes \in Seq(Timers) /\ DOMAIN again.buckets = Slots
  /\ Len(again.nodes) = Len(N) + k
  /\ \A n \in DOMAIN N : /\ again.nodes[n].expireTime = N[n].expireTime
                         /\ again.nodes[n].intervalMs = N[n].intervalMs
  /\ k = 1 => /\ again.nodes[Len(N) + 1].intervalMs > 0
                   => again.nodes[Len(N) + 1].expireTime > now
  /\ Ordered(again.buckets, again.nodes, WithNew(K, Len(N), k))
  /\ Scanning(again.buckets, again.nodes, WithNew(K, Len(N), k), slot, node, prev)

LEMMA HandedOut ==
  ASSUME TimerInv, process.running, process.node # NoNode, NEW K, NEW rest, DetachedSoundly(rest, K),
         NEW again, again = IF nodes[process.node].isInterval
                            THEN Added(rest.buckets, rest.nodes, nodes[process.node].intervalMs, TRUE)
                            ELSE rest
  PROVE  \E k \in {0, 1} : Handing(rest.buckets, nodes, K, SlotOf(wheel.currentTick),
                                   nodes[process.node].next, process.prev, again, k)
<1> DEFINE slot == SlotOf(wheel.currentTick)
           e == process.node
           B == rest.buckets
           N == rest.nodes
<1>1. /\ N \in Seq(Timers) /\ DOMAIN N = DOMAIN nodes /\ Len(N) = Len(nodes) /\ DOMAIN B = Slots
      /\ \A n \in DOMAIN nodes : /\ N[n].expireTime = nodes[n].expireTime
                                 /\ N[n].intervalMs = nodes[n].intervalMs
      /\ Ordered(B, N, K) /\ Scanning(B, N, K, slot, nodes[e].next, process.prev)
      /\ process.prev = NoNode => B[slot] = nodes[e].next
  BY DEF DetachedSoundly
<1>2. slot \in Slots /\ now \in Nat /\ Len(nodes) \in Nat
  BY TimerFacts
<1>3. e \in DOMAIN nodes /\ nodes[e].intervalMs \in Nat
  BY TimerFacts DEF TimerInv, Scanning
<1> HIDE DEF slot, e, B, N
<1>4. CASE ~nodes[e].isInterval
  <2>1. again.nodes = N /\ again.buckets = B
    BY <1>4 DEF N, B, e
  <2>2. WithNew(K, Len(nodes), 0) = K
    BY <1>2 DEF WithNew
  <2>3. /\ Ordered(again.buckets, again.nodes, WithNew(K, Len(nodes), 0))
        /\ Scanning(again.buckets, again.nodes, WithNew(K, Len(nodes), 0), slot, nodes[e].next,
                    process.prev)
    BY <1>1, <2>1, <2>2
  <2>4. Handing(B, nodes, K, slot, nodes[e].next, process.prev, again, 0)
    <3>1. Len(again.nodes) = Len(nodes) + 0
      BY ONLY <1>1, <1>2, <2>1
    <3> QED BY ONLY <1>1, <2>1, <2>3, <3>1 DEF Handing
  <2> QED BY <2>4 DEF slot, e, B
<1>5. CASE nodes[e].isInterval
  <2>1. again = Added(B, N, nodes[e].intervalMs, TRUE)
    BY <1>5 DEF N, B, e
  <2>2. \A v \in BOOLEAN : AddedSoundly(B, N, K, nodes[e].intervalMs,
                                        Added(B, N, nodes[e].intervalMs, v))
    BY <1>1, <1>2, <1>3, NodeAdded
  <2>3. AddedSoundly(B, N, K, nodes[e].intervalMs, again)
    BY <2>1, <2>2, Zenon
  <2>4. Scanning(again.buckets, again.nodes, K \cup {Len(N) + 1}, slot, nodes[e].next, process.prev)
    BY ONLY <1>1, <1>2, <1>3, <2>3, ScanAdded
  <2>5. WithNew(K, Len(nodes), 1) = K \cup {Len(N) + 1}
    BY <1>1, <1>2 DEF WithNew
  <2>6. /\ again.nodes \in Seq(Timers) /\ DOMAIN again.buckets = Slots
        /\ Len(again.nodes) = Len(nodes) + 1
        /\ \A n \in DOMAIN nodes : again.nodes[n] = N[n]
        /\ again.nodes[Len(nodes) + 1].expireTime = now + nodes[e].intervalMs
        /\ again.nodes[Len(nodes) + 1].intervalMs = nodes[e].intervalMs
        /\ Ordered(again.buckets, again.nodes, K \cup {Len(N) + 1})
    BY <1>1, <2>3 DEF AddedSoundly
  <2>7. \A n \in DOMAIN nodes : /\ again.nodes[n].expireTime = nodes[n].expireTime
                                /\ again.nodes[n].intervalMs = nodes[n].intervalMs
    BY <1>1, <2>6
  <2>8. /\ Ordered(again.buckets, again.nodes, WithNew(K, Len(nodes), 1))
        /\ Scanning(again.buckets, again.nodes, WithNew(K, Len(nodes), 1), slot, nodes[e].next,
                    process.prev)
    BY <2>4, <2>5, <2>6
  <2>9. /\ again.nodes[Len(nodes) + 1].intervalMs > 0
            => again.nodes[Len(nodes) + 1].expireTime > now
    BY ONLY <1>2, <1>3, <2>6
  <2>10. Handing(B, nodes, K, slot, nodes[e].next, process.prev, again, 1)
    BY <2>6, <2>7, <2>8, <2>9 DEF Handing
  <2> QED BY <2>10 DEF slot, e, B
<1> QED BY <1>4, <1>5

LEMMA NodeExpires == ASSUME TimerInv, Expire PROVE TimerInv'
<1> DEFINE slot == SlotOf(wheel.currentTick)
           e == process.node
           rest == Detached(slot, e)
           again == IF nodes[e].isInterval
                    THEN Added(rest.buckets, rest.nodes, nodes[e].intervalMs, TRUE)
                    ELSE rest
           h == wheel.buckets[slot]
           K == IF process.prev = NoNode THEN Unfired \ {e, h} ELSE Unfired \ {e}
           L == Len(nodes)
<1>1. /\ process.running /\ e # NoNode
      /\ nodes' = again.nodes /\ wheel' = [wheel EXCEPT !.buckets = again.buckets]
      /\ fires' = [i \in DOMAIN again.nodes |-> IF i = e THEN fires[i] + 1
                                                ELSE IF i \in DOMAIN fires THEN fires[i] ELSE 0]
      /\ lostTimers' = IF process.prev = NoNode /\ h # e THEN lostTimers \cup {h} ELSE lostTimers
      /\ process' = [process EXCEPT !.node = nodes[e].next, !.count = @ + 1]
      /\ UNCHANGED <<now, cut>>
  BY DEF Expire
<1>2. /\ TimerTypes /\ Scanning(wheel.buckets, nodes, Unfired, slot, e, process.prev)
      /\ Ordered(wheel.buckets, nodes, Unfired)
  BY <1>1 DEF TimerInv
<1>3. DetachedSoundly(rest, K)
  BY <1>1, NodeDetached
<1>4. PICK k \in {0, 1} : Handing(rest.buckets, nodes, K, slot, nodes[e].next, process.prev, again, k)
  <2> HIDE DEF rest, K
  <2>1. DetachedSoundly(rest, K) /\ process.running /\ process.node # NoNode
    BY <1>1, <1>3
  <2> QED BY ONLY TimerInv, <2>1, HandedOut
<1>5. e \in Unfired /\ slot \in Slots /\ L \in Nat /\ DOMAIN nodes = 1 .. L /\ DOMAIN fires = 1 .. L
      /\ e \in DOMAIN nodes
  <2>1. fires \in Seq({0, 1}) /\ Len(fires) = L
    BY <1>2 DEF TimerTypes
  <2>2. DOMAIN fires = 1 .. L
    BY <2>1
  <2> QED BY <1>1, <1>2, <2>2, TimerFacts DEF Scanning
<1> HIDE DEF slot, e, rest, again, K
<1>6. /\ nodes' \in Seq(Timers) /\ Len(nodes') = L + k /\ DOMAIN nodes' = 1 .. L + k
      /\ \A n \in DOMAIN nodes : /\ nodes'[n].expireTime = nodes[n].expireTime
                                 /\ nodes'[n].intervalMs = nodes[n].intervalMs
      /\ k = 1 => (nodes'[L + 1].intervalMs > 0 => nodes'[L + 1].expireTime > now)
  <2>1. again.nodes \in Seq(Timers) /\ Len(again.nodes) = L + k
    BY <1>4 DEF Handing
  <2>2. DOMAIN again.nodes = 1 .. L + k
    BY <2>1, TimersShape
  <2> QED BY <1>1, <1>4, <2>1, <2>2 DEF Handing
<1>7. /\ wheel'.buckets = again.buckets /\ wheel'.currentTick = wheel.currentTick
      /\ DOMAIN wheel' = DOMAIN wheel /\ DOMAIN wheel'.buckets = Slots
  BY <1>1, <1>4, TimerFacts DEF Handing
<1>8. /\ process'.node = nodes[e].next /\ process'.prev = process.prev /\ process'.now = process.now
      /\ process'.running = process.running /\ DOMAIN process' = DOMAIN process
  BY <1>1, TimerFacts
<1>9. process.prev = NoNode => h \in DOMAIN nodes /\ h \in Unfired
  BY <1>2, <1>5, TimerFacts DEF Scanning, slot
<1>10. \A n \in DOMAIN fires : fires[n] \in {0, 1}
  BY <1>2 DEF TimerTypes
<1>11. /\ DOMAIN fires' = 1 .. L + k
       /\ \A n \in 1 .. L + k : fires'[n] = IF n = e THEN 1 ELSE IF n \in DOMAIN nodes THEN fires[n] ELSE 0
  <2>1. DOMAIN again.nodes = 1 .. L + k /\ fires[e] = 0
    BY <1>1, <1>5, <1>6 DEF Unfired
  <2> QED BY <1>1, <1>5, <2>1
<1>12. fires' \in Seq({0, 1}) /\ Len(fires') = L + k
  <2>1. fires' = [n \in 1 .. L + k |-> fires'[n]]
    BY <1>1, <1>6
  <2>2. \A n \in 1 .. L + k : fires'[n] \in {0, 1}
    BY <1>5, <1>10, <1>11
  <2>3. L + k \in Nat
    BY <1>5
  <2>4. fires' \in [1 .. L + k -> {0, 1}]
    BY <2>1, <2>2
  <2> QED BY <2>3, <2>4, SeqDef
<1>13. Unfired' = WithNew(K, L, k)
  <2>1. lostTimers \subseteq DOMAIN nodes /\ lostTimers' \subseteq DOMAIN nodes
    BY <1>1, <1>2, <1>9 DEF TimerTypes
  <2>2. ASSUME NEW n \in DOMAIN nodes PROVE n \in Unfired' <=> n \in K
    <3>1. n \in Unfired' <=> n # e /\ fires[n] = 0 /\ n \notin lostTimers'
      BY <1>5, <1>6, <1>11 DEF Unfired
    <3>2. n \in K <=> /\ n # e /\ fires[n] = 0 /\ n \notin lostTimers
                      /\ ~(process.prev = NoNode /\ n = h)
      BY <1>5, <1>9 DEF K, Unfired
    <3> QED BY <1>1, <1>5, <3>1, <3>2 DEF e, slot
  <2>3. ASSUME NEW n \in L + 1 .. L + k PROVE n \in Unfired'
    BY <1>5, <1>6, <1>11, <2>1 DEF Unfired
  <2>4. K \subseteq DOMAIN nodes /\ Unfired' \subseteq 1 .. L + k
    BY <1>6 DEF K, Unfired
  <2>5. 1 .. L + k = DOMAIN nodes \cup (L + 1 .. L + k)
    BY <1>5
  <2> QED BY <2>2, <2>3, <2>4, <2>5 DEF WithNew
<1>14. TimerTypes'
  <2>1. lostTimers' \subseteq DOMAIN nodes'
    BY <1>1, <1>2, <1>5, <1>6, <1>9 DEF TimerTypes
  <2> QED BY <1>1, <1>2, <1>6, <1>7, <1>8, <1>12, <2>1 DEF TimerTypes
<1>15. Ordered(wheel.buckets, nodes, Unfired)'
  BY <1>1, <1>4, <1>7, <1>13 DEF Handing
<1>16. Scanning(wheel.buckets, nodes, Unfired, SlotOf(wheel.currentTick), process.node, process.prev)'
  BY <1>1, <1>4, <1>7, <1>8, <1>13 DEF Handing, slot
<1>17. InTime'
  <2> SUFFICES ASSUME ~cut, NEW n \in Unfired', nodes'[n].intervalMs > 0
               PROVE  /\ nodes'[n].expireTime >= wheel.currentTick
                      /\ nodes'[n].expireTime = wheel.currentTick => n <= nodes[e].next
    BY <1>1, <1>7, <1>8 DEF InTime
  <2>1. process.now \in Nat /\ wheel.currentTick <= process.now /\ process.now <= now
        /\ now \in Nat /\ wheel.currentTick \in Nat
    BY <1>1, <1>2 DEF TimerTypes
  <2>2. CASE n \in K
    <3>1. n \in Unfired /\ n # e /\ n \in DOMAIN nodes /\ n \in Nat /\ e \in Nat
      BY <2>2, <1>5, TimerFacts DEF K
    <3>2. /\ nodes[n].expireTime >= wheel.currentTick
          /\ nodes[n].expireTime = wheel.currentTick => n <= e
      BY <1>1, <1>6, <3>1 DEF TimerInv, InTime, e
    <3>3. nodes[n].expireTime = wheel.currentTick => SlotIn(nodes, n) = SlotIn(nodes, e)
      BY <1>2, <1>5, TimerFacts DEF SlotIn, Scanning, slot, e, NoNode
    <3>4. n < e /\ SlotIn(nodes, n) = SlotIn(nodes, e) => n <= nodes[e].next
      BY <1>2, <1>5, <3>1 DEF Ordered
    <3> QED BY <1>6, <3>1, <3>2, <3>3, <3>4
  <2>3. CASE n \in L + 1 .. L + k
    <3>1. k = 1 /\ n = L + 1
      BY <2>3, <1>5
    <3>2. n \in DOMAIN nodes'
      BY <1>5, <1>6, <3>1
    <3>3. \A N \in Seq(Timers) : \A m \in DOMAIN N : N[m].expireTime \in Nat
      BY TimersShape
    <3>4. nodes'[n].expireTime \in Nat
      BY <1>6, <3>2, <3>3
    <3> QED BY <1>6, <2>1, <3>1, <3>4
  <2> QED BY <1>13, <2>2, <2>3 DEF WithNew
<1> QED BY <1>14, <1>15, <1>16, <1>17 DEF TimerInv

LEMMA TimerSteps == ASSUME TimerInv, TimerNext PROVE TimerInv'
  BY TimerIsAdded, ScanBegins, NodePassed, NodeExpires, TickAdvances, TimersRest DEF TimerNext


-----------------------------------------------------------------------------
(* The event loop. What its property says is inductive once the keys are     *)
(* known to be of descriptors and of the two types of event.                 *)

EventInv == /\ waiting \subseteq Descriptors \X EventTypes
            /\ DOMAIN interest = Descriptors
            /\ EventsReachWaiters

LEMMA EventStarts == EventInit => EventInv
  BY DEF EventInit, EventInv, EventsReachWaiters

LEMMA EventSteps == ASSUME EventInv, EventNext PROVE EventInv'
<1> USE DEF EventInv
<1>1. ASSUME NEW fd \in Descriptors, NEW type \in EventTypes, NEW ready \in BOOLEAN,
             db_event_loop_register(fd, type, ready)
      PROVE  EventInv'
  <2>1. /\ waiting' = waiting \cup {<<fd, type>>} /\ use_uring' = use_uring
        /\ overflowed' = overflowed \ {<<fd, type>>}
    BY <1>1 DEF db_event_loop_register
  <2>2. CASE Adds(fd)
    <3>1. /\ ~use_uring /\ interest[fd] = Unwatched /\ interest' = [interest EXCEPT ![fd] = type]
          /\ accepted' = accepted \cup {<<fd, type>>}
          /\ edges \subseteq edges' /\ (ready => fd \in edges')
          /\ \A key \in woken' : key # <<fd, type>> => key \in woken
          /\ ~ready => <<fd, type>> \notin woken'
      BY <1>1, <2>2 DEF db_event_loop_register, Adds, SerOk
    <3>2. \A key \in waiting \cap accepted : key[1] # fd
      BY <3>1 DEF EventsReachWaiters, EventTypes, Unwatched
    <3> QED BY <2>1, <3>1, <3>2 DEF EventsReachWaiters
  <2>3. CASE ~Adds(fd)
    <3>1. /\ interest' = interest /\ edges' = edges /\ woken' = woken \ {<<fd, type>>}
          /\ use_uring \/ accepted' = accepted \ {<<fd, type>>}
      BY <1>1, <2>3 DEF db_event_loop_register, Adds, SerOk
    <3> QED BY <2>1, <3>1 DEF EventsReachWaiters
  <2> QED BY <2>2, <2>3
<1>2. ASSUME NEW fd \in Descriptors, Ready(fd) PROVE EventInv'
  BY <1>2 DEF Ready, EventsReachWaiters
<1>3. ASSUME NEW fd \in Descriptors, Hup(fd) PROVE EventInv'
  BY <1>3 DEF Hup, EventsReachWaiters
<1>4. CASE db_event_loop_step
  <2>1. /\ ~use_uring /\ UNCHANGED <<use_uring, interest>> /\ edges' = {}
        /\ waiting' = waiting \ {<<fd, ReportedType(fd)>> : fd \in Harvested}
        /\ accepted' \subseteq accepted /\ woken' \subseteq woken
        /\ overflowed' = overflowed \cup {<<fd, interest[fd]>> : fd \in edges \ Harvested}
    BY <1>4 DEF db_event_loop_step
  <2>2. ASSUME NEW key \in waiting' \cap accepted'
        PROVE  /\ interest[key[1]] = key[2]
               /\ key \in woken' => key \in overflowed'
    <3>1. key \in waiting \cap accepted /\ interest[key[1]] = key[2]
      BY <2>1 DEF EventsReachWaiters
    <3>2. key = <<key[1], key[2]>> /\ key[2] \in {"read", "write"}
      BY <3>1 DEF EventTypes
    <3>3. key[2] = ReportedType(key[1])
      BY <3>1, <3>2 DEF ReportedType
    <3>4. key[1] \notin Harvested
      BY <2>1, <3>2, <3>3
    <3>5. key[1] \in edges => key \in overflowed'
      BY <2>1, <3>1, <3>2, <3>4
    <3> QED BY <2>1, <3>1, <3>5 DEF EventsReachWaiters
  <2> QED BY <2>1, <2>2 DEF EventsReachWaiters
<1>5. CASE db_event_loop_shutdown
  BY <1>5 DEF db_event_loop_shutdown, EventsReachWaiters
<1> QED BY <1>1, <1>2, <1>3, <1>4, <1>5 DEF EventNext

-----------------------------------------------------------------------------
(* Futures and their groups. The count of a well-formed group is the number  *)
(* of its elements that have not resolved; a caller is resumed when the      *)
(* count of its group passes from one to none, which happens once.           *)

Groups == [mode : {"all"}, pendingCount : Int, list : Lists, fresh : BOOLEAN]
Statuses == {"pending", "resolved", "faulted"}
Unresolved(F, asked) == {i \in DOMAIN asked : F[asked[i]].status # "resolved"}

FutureTypes ==
  /\ groups \in Seq(Groups) /\ resumed \in Seq({0, 1}) /\ Len(resumed) = Len(groups)
  /\ DOMAIN future = Futures
  /\ \A f \in Futures : /\ DOMAIN future[f] = {"status", "groupOwner", "waiter"}
                        /\ future[f].status \in Statuses
                        /\ future[f].groupOwner \in 0 .. Len(groups)
                        /\ future[f].groupOwner # NoGroup
                             => f \in ElementsOf(groups[future[f].groupOwner].list)

Counted(g) ==
  /\ resumed[g] = 1 => groups[g].pendingCount <= 0
  /\ groups[g].list # <<>> /\ groups[g].pendingCount <= 0 => resumed[g] = 1
  /\ WellFormed(g) => groups[g].pendingCount = Cardinality(Unresolved(future, groups[g].list))

FutureInv == FutureTypes /\ \A g \in DOMAIN groups : Counted(g)

LEMMA ListFacts ==
  ASSUME NEW asked \in Lists
  PROVE  /\ Len(asked) \in Nat /\ DOMAIN asked = 1 .. Len(asked)
         /\ asked = <<>> <=> Len(asked) = 0
         /\ IsFiniteSet(DOMAIN asked) /\ Cardinality(DOMAIN asked) = Len(asked)
<1>1. asked \in Seq({asked[i] : i \in DOMAIN asked})
  BY AsyncAssumption
<1>2. Len(asked) \in Nat /\ DOMAIN asked = 1 .. Len(asked) /\ (asked = <<>> <=> Len(asked) = 0)
  BY <1>1, LenProperties, EmptySeq
<1>3. /\ IsFiniteSet(1 .. Len(asked))
      /\ Cardinality(1 .. Len(asked)) = IF 1 > Len(asked) THEN 0 ELSE Len(asked) - 1 + 1
  BY <1>2, FS_Interval
<1> QED BY <1>2, <1>3

LEMMA FutureStarts == FutureInit => FutureInv
<1> SUFFICES ASSUME FutureInit PROVE FutureInv
  OBVIOUS
<1>1. groups = <<>> /\ resumed = <<>> /\ future = [f \in Futures |-> PendingFuture]
  BY DEF FutureInit
<1>2. <<>> \in Seq(Groups) /\ <<>> \in Seq({0, 1}) /\ Len(<<>>) = 0 /\ DOMAIN <<>> = {}
  OBVIOUS
<1>3. /\ DOMAIN PendingFuture = {"status", "groupOwner", "waiter"}
      /\ PendingFuture.status = "pending" /\ PendingFuture.groupOwner = NoGroup
  BY DEF PendingFuture
<1> QED BY <1>1, <1>2, <1>3 DEF FutureInv, FutureTypes, Statuses, NoGroup

LEMMA FuturesImply == FutureInv => JoinsExact
<1> SUFFICES ASSUME FutureInv, NEW g \in DOMAIN groups
             PROVE  /\ resumed[g] <= 1
                    /\ WellFormed(g) /\ groups[g].list # <<>> =>
                         (resumed[g] = 1 <=> \A f \in ElementsOf(groups[g].list) : future[f].status = "resolved")
  BY DEF JoinsExact
<1> DEFINE asked == groups[g].list
           U == Unresolved(future, asked)
<1>1. FutureTypes /\ Counted(g)
  BY DEF FutureInv
<1>2. resumed[g] \in {0, 1} /\ groups[g] \in Groups
  BY <1>1 DEF FutureTypes
<1>3. asked \in Lists /\ groups[g].pendingCount \in Int
  BY <1>2 DEF Groups
<1>4. ASSUME WellFormed(g), asked # <<>>
      PROVE  resumed[g] = 1 <=> \A f \in ElementsOf(asked) : future[f].status = "resolved"
  <2>1. IsFiniteSet(DOMAIN asked) /\ U \subseteq DOMAIN asked
    BY <1>3, ListFacts DEF Unresolved
  <2>2. Cardinality(U) \in Nat /\ (Cardinality(U) = 0 <=> U = {})
    BY <2>1, FS_Subset, FS_CardinalityType, FS_EmptySet
  <2>3. groups[g].pendingCount = Cardinality(U)
    BY <1>1, <1>4 DEF Counted
  <2>4. resumed[g] = 1 <=> U = {}
    BY <1>1, <1>3, <1>4, <2>2, <2>3 DEF Counted
  <2>5. \A i \in DOMAIN asked : asked[i] \in Futures
    BY <1>4 DEF WellFormed
  <2>6. U = {} <=> \A f \in ElementsOf(asked) : future[f].status = "resolved"
    BY <2>5 DEF Unresolved, ElementsOf
  <2> QED BY <2>4, <2>6
<1> QED BY <1>2, <1>4


\* A step that resolves nothing and leaves the groups alone.
LEMMA FuturesRest ==
  ASSUME FutureInv, groups' = groups, resumed' = resumed, DOMAIN future' = Futures,
         \A f \in Futures : /\ DOMAIN future'[f] = DOMAIN future[f]
                            /\ future'[f].groupOwner = future[f].groupOwner
                            /\ future'[f].status \in Statuses
                            /\ future'[f].status = "resolved" <=> future[f].status = "resolved"
  PROVE  FutureInv'
<1>1. FutureTypes'
  BY DEF FutureInv, FutureTypes
<1>2. ASSUME NEW g \in DOMAIN groups PROVE Counted(g)'
  <2>1. Counted(g)
    BY DEF FutureInv
  <2>2. WellFormed(g)' =>
          /\ WellFormed(g)
          /\ Unresolved(future, groups[g].list)' = Unresolved(future, groups[g].list)
    BY DEF WellFormed, Unresolved
  <2> QED BY <2>1, <2>2 DEF Counted
<1> QED BY <1>1, <1>2 DEF FutureInv

LEMMA FutureFacts ==
  ASSUME FutureInv
  PROVE  /\ groups \in Seq(Groups) /\ DOMAIN groups = 1 .. Len(groups) /\ Len(groups) \in Nat
         /\ DOMAIN resumed = 1 .. Len(groups) /\ Len(resumed) = Len(groups)
         /\ \A g \in DOMAIN groups :
              /\ groups[g] \in Groups /\ groups[g].mode = "all" /\ groups[g].pendingCount \in Int
              /\ groups[g].list \in Lists /\ resumed[g] \in {0, 1}
         /\ \A f \in Futures : /\ DOMAIN future[f] = {"status", "groupOwner", "waiter"}
                               /\ future[f].groupOwner # NoGroup => future[f].groupOwner \in DOMAIN groups
<1>1. groups \in Seq(Groups) /\ resumed \in Seq({0, 1}) /\ Len(resumed) = Len(groups)
  BY DEF FutureInv, FutureTypes
<1>2. DOMAIN groups = 1 .. Len(groups) /\ Len(groups) \in Nat /\ DOMAIN resumed = 1 .. Len(groups)
  BY <1>1, LenProperties
<1>3. \A g \in DOMAIN groups : groups[g] \in Groups /\ resumed[g] \in {0, 1}
  BY <1>1, <1>2
<1>4. \A g \in DOMAIN groups :
        groups[g].mode = "all" /\ groups[g].pendingCount \in Int /\ groups[g].list \in Lists
  BY <1>3 DEF Groups
<1> QED BY <1>1, <1>2, <1>3, <1>4 DEF FutureInv, FutureTypes, NoGroup

LEMMA FutureResolves ==
  ASSUME FutureInv, NEW f \in Futures, walia_future_resolve(f)
  PROVE  FutureInv'
<1> DEFINE g == future[f].groupOwner
<1>1. /\ future[f].status = "pending" /\ future' = [future EXCEPT ![f].status = "resolved"]
      /\ groups' = IF g = NoGroup THEN groups ELSE [groups EXCEPT ![g].pendingCount = Remaining(g)]
      /\ resumed' = IF g # NoGroup /\ Completes(g) THEN [resumed EXCEPT ![g] = @ + 1] ELSE resumed
  BY DEF walia_future_resolve
<1>2. /\ DOMAIN future' = Futures
      /\ \A x \in Futures : /\ DOMAIN future'[x] = DOMAIN future[x]
                            /\ future'[x].groupOwner = future[x].groupOwner
                            /\ future'[x].status = IF x = f THEN "resolved" ELSE future[x].status
  BY <1>1, FutureFacts DEF FutureInv, FutureTypes
<1>3. g # NoGroup => /\ g \in DOMAIN groups /\ f \in ElementsOf(groups[g].list)
                     /\ Remaining(g) = groups[g].pendingCount - 1
                     /\ Completes(g) <=> groups[g].pendingCount = 1
  BY FutureFacts DEF FutureInv, FutureTypes, Remaining, Completes
<1>4. /\ groups' \in Seq(Groups) /\ Len(groups') = Len(groups)
      /\ \A x \in DOMAIN groups : /\ groups'[x].list = groups[x].list
                                  /\ groups'[x].fresh = groups[x].fresh
                                  /\ groups'[x].pendingCount =
                                       IF x = g THEN groups[x].pendingCount - 1 ELSE groups[x].pendingCount
  <2>1. CASE g = NoGroup
    BY <1>1, <2>1, FutureFacts DEF NoGroup
  <2>2. CASE g # NoGroup
    <3> DEFINE r == groups[g]
               q == [r EXCEPT !.pendingCount = r.pendingCount - 1]
    <3>1. r \in Groups /\ r.pendingCount - 1 \in Int
      BY <1>3, <2>2, FutureFacts
    <3>2. groups' = [groups EXCEPT ![g] = q]
      BY <1>1, <1>3, <2>2
    <3> HIDE DEF r, g
    <3>3. q \in Groups
      BY <3>1 DEF Groups
    <3>4. q.list = r.list /\ q.fresh = r.fresh /\ q.pendingCount = r.pendingCount - 1
      BY <3>1 DEF Groups
    <3> HIDE DEF q
    <3>5. groups' \in Seq(Groups) /\ Len(groups') = Len(groups)
      BY <1>3, <2>2, <3>2, <3>3, FutureFacts, ExceptSeq
    <3>6. \A x \in DOMAIN groups : groups'[x] = IF x = g THEN q ELSE groups[x]
      BY <1>3, <2>2, <3>2
    <3> QED BY <3>4, <3>5, <3>6 DEF r
  <2> QED BY <2>1, <2>2
<1>5. /\ resumed' \in Seq({0, 1}) /\ Len(resumed') = Len(resumed)
      /\ \A x \in DOMAIN groups : resumed'[x] = IF x = g /\ groups[x].pendingCount = 1 THEN 1
                                                ELSE resumed[x]
  <2>1. CASE ~(g # NoGroup /\ Completes(g))
    <3>1. resumed' = resumed
      BY <1>1, <2>1
    <3>2. \A x \in DOMAIN groups : ~(x = g /\ groups[x].pendingCount = 1)
      BY <1>3, <2>1, FutureFacts DEF NoGroup
    <3> QED BY <3>1, <3>2 DEF FutureInv, FutureTypes
  <2>2. CASE g # NoGroup /\ Completes(g)
    <3>1. groups[g].pendingCount = 1 /\ g \in DOMAIN groups
      BY <1>3, <2>2
    <3>2. resumed[g] = 0
      BY <3>1, FutureFacts DEF FutureInv, Counted
    <3>3. resumed' = [resumed EXCEPT ![g] = 1] /\ resumed \in Seq({0, 1}) /\ g \in 1 .. Len(resumed)
      BY <1>1, <2>2, <3>1, <3>2, FutureFacts DEF FutureInv, FutureTypes
    <3>4. resumed' \in Seq({0, 1}) /\ Len(resumed') = Len(resumed)
      BY <3>3, ExceptSeq
    <3> QED BY <3>1, <3>3, <3>4, FutureFacts
  <2> QED BY <2>1, <2>2
<1> HIDE DEF g
<1>6. Len(groups') = Len(groups) /\ DOMAIN groups' = DOMAIN groups
  BY <1>4, FutureFacts, LenProperties
<1>7. FutureTypes'
  <2>1. \A x \in Futures : future'[x].status \in Statuses
    BY <1>2 DEF FutureInv, FutureTypes, Statuses
  <2>2. \A x \in Futures : /\ future'[x].groupOwner \in 0 .. Len(groups')
                           /\ future'[x].groupOwner # NoGroup
                                => x \in ElementsOf(groups'[future'[x].groupOwner].list)
    BY <1>2, <1>4, FutureFacts DEF FutureInv, FutureTypes
  <2> QED BY <1>2, <1>4, <1>5, <2>1, <2>2 DEF FutureInv, FutureTypes
<1>8. ASSUME NEW x \in DOMAIN groups PROVE Counted(x)'
  <2> DEFINE asked == groups[x].list
  <2>1. Counted(x) /\ groups[x].pendingCount \in Int /\ resumed[x] \in {0, 1} /\ asked \in Lists
    BY FutureFacts DEF FutureInv
  <2>2. resumed'[x] = 1 => groups'[x].pendingCount <= 0
    BY <1>4, <1>5, <2>1 DEF Counted
  <2>3. groups'[x].list # <<>> /\ groups'[x].pendingCount <= 0 => resumed'[x] = 1
    BY <1>4, <1>5, <2>1 DEF Counted
  <2>4. ASSUME WellFormed(x)'
        PROVE  groups'[x].pendingCount = Cardinality(Unresolved(future', asked))
    <3>1. /\ WellFormed(x)
          /\ \A i \in DOMAIN asked : asked[i] \in Futures /\ future[asked[i]].groupOwner = x
          /\ \A i, j \in DOMAIN asked : i # j => asked[i] # asked[j]
      BY <1>2, <1>4, <2>4 DEF WellFormed
    <3>2. groups[x].pendingCount = Cardinality(Unresolved(future, asked))
      BY <2>1, <3>1 DEF Counted
    <3>3. IsFiniteSet(Unresolved(future, asked))
      <4>1. IsFiniteSet(DOMAIN asked) /\ Unresolved(future, asked) \subseteq DOMAIN asked
        BY <2>1, ListFacts DEF Unresolved
      <4> QED BY <4>1, FS_Subset
    <3>4. CASE x = g
      <4>1. f \in ElementsOf(asked)
        BY <3>4, <1>3, FutureFacts DEF NoGroup
      <4>2. PICK i \in DOMAIN asked : asked[i] = f
        BY <4>1 DEF ElementsOf
      <4>3. i \in Unresolved(future, asked)
        BY <1>1, <4>2 DEF Unresolved
      <4>4. Unresolved(future', asked) = Unresolved(future, asked) \ {i}
        BY <1>2, <3>1, <4>2 DEF Unresolved
      <4>5. Cardinality(Unresolved(future', asked)) = Cardinality(Unresolved(future, asked)) - 1
        BY <3>3, <4>3, <4>4, FS_RemoveElement
      <4> QED BY <1>4, <3>2, <3>4, <4>5
    <3>5. CASE x # g
      <4>1. \A i \in DOMAIN asked : asked[i] # f
        BY <3>1, <3>5 DEF g
      <4>2. Unresolved(future', asked) = Unresolved(future, asked)
        BY <1>2, <3>1, <4>1 DEF Unresolved
      <4> QED BY <1>4, <3>2, <3>5, <4>2
    <3> QED BY <3>4, <3>5
  <2> QED BY <1>4, <2>2, <2>3, <2>4 DEF Counted
<1> QED BY <1>6, <1>7, <1>8 DEF FutureInv

LEMMA GroupMade ==
  ASSUME FutureInv, NEW asked \in Lists, native_async_all(asked)
  PROVE  FutureInv'
<1> PICK k \in Nat : k = Len(groups) + 1
  BY FutureFacts
<1> DEFINE isFresh == \A f \in ElementsOf(asked) : future[f].status = "pending"
           group == [mode |-> "all", pendingCount |-> Len(asked), list |-> asked, fresh |-> isFresh]
<1>1. /\ groups' = Append(groups, group) /\ resumed' = Append(resumed, 0)
      /\ future' = [f \in Futures |-> IF f \in ElementsOf(asked)
                                      THEN [future[f] EXCEPT !.groupOwner = k] ELSE future[f]]
  BY DEF native_async_all
<1>2. Len(asked) \in Nat /\ isFresh \in BOOLEAN
  BY ListFacts
<1>3. group.pendingCount = Len(asked) /\ group.list = asked /\ (group.fresh <=> isFresh)
  OBVIOUS
<1>4. group \in Groups
  <2> HIDE DEF isFresh
  <2> QED BY <1>2 DEF Groups
<1> HIDE DEF group
<1>5. /\ groups' \in Seq(Groups) /\ Len(groups') = k /\ groups'[k] = group
      /\ \A g \in DOMAIN groups : groups'[g] = groups[g]
  BY <1>1, <1>4, FutureFacts, AppendProperties
<1>6. /\ resumed' \in Seq({0, 1}) /\ Len(resumed') = k /\ resumed'[k] = 0
      /\ \A g \in DOMAIN groups : resumed'[g] = resumed[g]
  <2>1. resumed \in Seq({0, 1}) /\ 0 \in {0, 1}
    BY DEF FutureInv, FutureTypes
  <2> QED BY <1>1, <2>1, FutureFacts, AppendProperties
<1>7. DOMAIN groups' = DOMAIN groups \cup {k} /\ k \notin DOMAIN groups /\ k \in Nat
  BY <1>5, FutureFacts, LenProperties
<1>8. /\ DOMAIN future' = Futures
      /\ \A f \in Futures : /\ DOMAIN future'[f] = DOMAIN future[f]
                            /\ future'[f].status = future[f].status
                            /\ future'[f].groupOwner = IF f \in ElementsOf(asked) THEN k
                                                       ELSE future[f].groupOwner
  BY <1>1, FutureFacts
<1>9. FutureTypes'
  <2>1. \A f \in Futures : future'[f].status \in Statuses
    BY <1>8 DEF FutureInv, FutureTypes
  <2>2. ASSUME NEW f \in Futures
        PROVE  /\ future'[f].groupOwner \in 0 .. k
               /\ future'[f].groupOwner # NoGroup => f \in ElementsOf(groups'[future'[f].groupOwner].list)
    <3>1. CASE f \in ElementsOf(asked)
      BY <3>1, <1>3, <1>5, <1>7, <1>8
    <3>2. CASE f \notin ElementsOf(asked)
      BY <3>2, <1>5, <1>8, FutureFacts DEF FutureInv, FutureTypes
    <3> QED BY <3>1, <3>2
  <2> QED BY <1>5, <1>6, <1>8, <2>1, <2>2, FutureFacts DEF FutureTypes
<1>10. ASSUME NEW g \in DOMAIN groups PROVE Counted(g)'
  <2>1. Counted(g) /\ groups'[g] = groups[g] /\ resumed'[g] = resumed[g] /\ g # k
    BY <1>5, <1>6, <1>7 DEF FutureInv
  <2>2. ASSUME WellFormed(g)'
        PROVE  WellFormed(g) /\ Unresolved(future', groups[g].list) = Unresolved(future, groups[g].list)
    BY <1>8, <2>1, <2>2 DEF WellFormed, Unresolved
  <2> QED BY <2>1, <2>2 DEF Counted
<1>11. Counted(k)'
  <2>1. /\ groups'[k].pendingCount = Len(asked) /\ groups'[k].list = asked
        /\ groups'[k].fresh <=> isFresh
    BY <1>3, <1>5
  <2>2. asked # <<>> => Len(asked) > 0
    BY ListFacts
  <2>3. ASSUME WellFormed(k)' PROVE Unresolved(future', asked) = DOMAIN asked
    <3>1. isFresh /\ \A i \in DOMAIN asked : asked[i] \in Futures
      BY <2>1, <2>3 DEF WellFormed
    <3>2. \A i \in DOMAIN asked : future'[asked[i]].status = "pending"
      BY <1>8, <3>1 DEF ElementsOf
    <3> QED BY <3>2 DEF Unresolved
  <2> QED BY <1>2, <1>6, <2>1, <2>2, <2>3, ListFacts DEF Counted
<1> QED BY <1>7, <1>9, <1>10, <1>11 DEF FutureInv

LEMMA FutureSteps == ASSUME FutureInv, FutureNext PROVE FutureInv'
<1>1. ASSUME NEW f \in Futures, walia_future_resolve(f) PROVE FutureInv'
  BY <1>1, FutureResolves
<1>2. ASSUME NEW f \in Futures, walia_future_fail(f) PROVE FutureInv'
  <2>1. /\ future[f].status = "pending" /\ future' = [future EXCEPT ![f].status = "faulted"]
        /\ groups' = groups /\ resumed' = resumed
    BY <1>2 DEF walia_future_fail
  <2>2. /\ DOMAIN future' = Futures
        /\ \A x \in Futures : /\ DOMAIN future'[x] = DOMAIN future[x]
                              /\ future'[x].groupOwner = future[x].groupOwner
                              /\ future'[x].status = IF x = f THEN "faulted" ELSE future[x].status
    BY <2>1, FutureFacts DEF FutureInv, FutureTypes
  <2> QED BY <2>1, <2>2, FuturesRest DEF FutureInv, FutureTypes, Statuses
<1>3. ASSUME NEW f \in Futures, walia_future_add_waiter(f) PROVE FutureInv'
  <2>1. future' = [future EXCEPT ![f].waiter = TRUE] /\ groups' = groups /\ resumed' = resumed
    BY <1>3 DEF walia_future_add_waiter
  <2>2. /\ DOMAIN future' = Futures
        /\ \A x \in Futures : /\ DOMAIN future'[x] = DOMAIN future[x]
                              /\ future'[x].groupOwner = future[x].groupOwner
                              /\ future'[x].status = future[x].status
    BY <2>1, FutureFacts DEF FutureInv, FutureTypes
  <2> QED BY <2>1, <2>2, FuturesRest DEF FutureInv, FutureTypes
<1>4. ASSUME NEW asked \in Lists, native_async_all(asked) PROVE FutureInv'
  BY <1>4, GroupMade
<1> QED BY <1>1, <1>2, <1>3, <1>4 DEF FutureNext


-----------------------------------------------------------------------------
(* What programs wait for, in the composition.                               *)

AsyncInv == FutureInv /\ TimerInv /\ EventInv

LEMMA AsyncOnly ==
  Next => /\ FutureNext \/ UNCHANGED futureVars
          /\ TimerNext \/ UNCHANGED timerVars
          /\ EventNext \/ UNCHANGED eventVars
<1> SUFFICES ASSUME Next
             PROVE  /\ FutureNext \/ UNCHANGED futureVars
                    /\ TimerNext \/ UNCHANGED timerVars
                    /\ EventNext \/ UNCHANGED eventVars
  OBVIOUS
<1>1. CASE AsyncNext
  BY <1>1 DEF AsyncNext
<1>2. CASE UNCHANGED asyncVars
  BY <1>2 DEF asyncVars
<1>3. AsyncNext \/ UNCHANGED asyncVars
  BY DEF Next, MachineNext, HeapNext
<1> QED BY <1>1, <1>2, <1>3

LEMMA AsyncStarts == Init => AsyncInv
  BY FutureStarts, TimerStarts, EventStarts DEF Init, AsyncInv

LEMMA AsyncSteps == AsyncInv /\ [Next]_runtimeVars => AsyncInv'
<1> SUFFICES ASSUME AsyncInv, [Next]_runtimeVars PROVE AsyncInv'
  OBVIOUS
<1>1. /\ FutureNext \/ UNCHANGED futureVars
      /\ TimerNext \/ UNCHANGED timerVars
      /\ EventNext \/ UNCHANGED eventVars
  BY AsyncOnly DEF runtimeVars, asyncVars
<1>2. ASSUME UNCHANGED futureVars PROVE FutureInv'
  BY <1>2, FuturesRest DEF AsyncInv, FutureInv, FutureTypes, futureVars
<1>3. ASSUME UNCHANGED timerVars PROVE TimerInv'
  <2>1. UNCHANGED <<now, wheel, nodes, process, fires, lostTimers, cut>>
    BY <1>3 DEF timerVars
  <2>2. Unfired' = Unfired
    BY <2>1 DEF Unfired
  <2>3. TimerTypes' /\ InTime'
    BY <2>1, <2>2 DEF AsyncInv, TimerInv, TimerTypes, InTime
  <2> QED BY <2>1, <2>2, <2>3 DEF AsyncInv, TimerInv
<1>4. ASSUME UNCHANGED eventVars PROVE EventInv'
  BY <1>4 DEF eventVars, AsyncInv, EventInv, EventsReachWaiters
<1> QED BY <1>1, <1>2, <1>3, <1>4, FutureSteps, TimerSteps, EventSteps DEF AsyncInv

\* A caller of all() is resumed once, and exactly when its last element has resolved
\* (vm_async_core.c:38); a timer is found until it fires, fires once and in the round it
\* is due (lib_timer.c:69); an event reaches who waits for it (wld_event_loop.c:48).
THEOREM RuntimeAsyncExact == Spec => []AsyncExact
<1>1. AsyncInv => AsyncExact
  BY FuturesImply, TimersImply DEF AsyncInv, EventInv, AsyncExact
<1> QED BY AsyncStarts, AsyncSteps, <1>1, PTL DEF Spec


-----------------------------------------------------------------------------
(* The machine, in the composition. Closures and effects are looked at in    *)
(* scenarios of their own, each with the steps of calls.                     *)

MachineInv ==
  /\ scenario = "closures" => ClosureInv
  /\ scenario = "effects" => EffectInv
  /\ scenario \notin {"closures", "effects"} => DOMAIN upvalues = {}

LEMMA MachineOnly ==
  Next => \/ UNCHANGED machineVars
          \/ scenario = "closures" /\ (CallNext \/ ClosureNext)
          \/ scenario = "effects" /\ (CallNext \/ EffectNext)
BY DEF Next, MachineNext, HeapNext

LEMMA MachineStarts == Init => MachineInv
<1>1. MachineInit => DOMAIN upvalues = {}
  <2>1. DOMAIN <<>> = {}
    OBVIOUS
  <2> QED BY <2>1 DEF MachineInit
<1> QED BY <1>1, ClosureStarts, EffectStarts DEF Init, MachineInv

LEMMA MachineSteps == MachineInv /\ [Next]_runtimeVars => MachineInv'
<1> SUFFICES ASSUME MachineInv, [Next]_runtimeVars PROVE MachineInv'
  OBVIOUS
<1>1. scenario' = scenario
  BY DEF Next, runtimeVars
<1>2. CASE UNCHANGED machineVars
  BY <1>1, <1>2 DEF machineVars, MachineInv, ClosureInv, EffectInv
<1>3. CASE scenario = "closures" /\ (CallNext \/ ClosureNext)
  BY <1>1, <1>3, ClosureSteps DEF MachineInv
<1>4. CASE scenario = "effects" /\ (CallNext \/ EffectNext)
  BY <1>1, <1>4, EffectSteps DEF MachineInv
<1> QED BY <1>2, <1>3, <1>4, MachineOnly DEF runtimeVars

\* Whoever reads a captured variable finds what was last written to it, while its frame
\* runs and after it returned (vm.c:152), and handlers nest as the frames do, whatever
\* calls, returns, performs and resumptions came since (vm.c:308).
THEOREM RuntimeMachineSound == Spec => []MachineSound
<1>1. MachineInv => MachineSound
  <2> SUFFICES ASSUME MachineInv PROVE MachineSound
    OBVIOUS
  <2>1. VariablesShared
    <3>1. CASE scenario = "closures"
      BY <3>1, SharedByClosures DEF MachineInv
    <3>2. CASE scenario = "effects"
      BY <3>2, NestedByEffects DEF MachineInv
    <3>3. CASE scenario \notin {"closures", "effects"}
      BY <3>3 DEF MachineInv, VariablesShared
    <3> QED BY <3>1, <3>2, <3>3
  <2>2. scenario = "effects" => HandlersNest
    BY NestedByEffects DEF MachineInv
  <2> QED BY <2>1, <2>2 DEF MachineSound
<1> QED BY MachineStarts, MachineSteps, <1>1, PTL DEF Spec
=============================================================================
