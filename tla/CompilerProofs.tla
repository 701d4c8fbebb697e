--------------------------- MODULE CompilerProofs ---------------------------
(***************************************************************************)
(* Proofs about the compiler, for any program, any number of registers and  *)
(* any nesting: registers that are live are never given away, and the       *)
(* machine prints what the text of the program says.                        *)
(***************************************************************************)
EXTENDS Compiler, Searches, FiniteSetTheorems, SequenceTheorems

----------------------------------------
(* Activations. F is the stack of activations; B gives the register that each *)
(* one asked for first and D the number of scopes open inside it; f is the    *)
(* activation that compiles a function, or 0.                                 *)

Roots == {"print", "global", "var", "condition"}
Operators == {"left", "right", "operand", "id", "argument"}
Branches == {"then", "else"}
Activations == Roots \union Operators \union Branches \union {"block", "function"}

\* The activations that wait for an expression, those with a register of their own, and
\* those that open a scope.
Asks(fr) == fr.at \in Roots \union Operators
Keeps(fr) == fr.at \in Roots \union Operators \union Branches
Opens(fr) == IF fr.at \in {"block", "function"} THEN 1 ELSE 0

\* The registers an activation has allocated while it waits, and the one it asked for.
Width(fr) == IF fr.at \in {"right", "argument"} THEN 2 ELSE 1
Asked(fr, b) == CASE fr.at = "right" -> b + 1
                  [] fr.at = "argument" -> b + Len(fr.vals)
                  [] OTHER -> b

Counted(fr, b) ==
  /\ {"at", "dst", "id", "start", "count"} \subseteq DOMAIN fr /\ {"vals", "spoilt"} \subseteq DOMAIN fr
  /\ fr.id = b /\ fr.start = b + 1 /\ fr.count \in 1 .. MaxArgs
  /\ IsSeq(fr.vals) /\ Len(fr.vals) \in 1 .. fr.count

\* Activation i fits into the one before it.
Fits(F, B, D, f, i) ==
  /\ F[i].at \in Activations
  /\ F[i].at = "function" <=> i = f
  /\ F[i].at \in Operators <=> (i > 1 /\ Asks(F[i - 1]))
  /\ F[i].at \in Operators => /\ F[i].dst = Asked(F[i - 1], B[i - 1])
                              /\ B[i] = B[i - 1] + Width(F[i - 1])
  /\ F[i].at \in Branches \union {"right"} => F[i].reg = B[i]
  /\ F[i].at = "id" => F[i].count \in 0 .. MaxArgs
  /\ F[i].at = "argument" => Counted(F[i], B[i])
  /\ D[i] = D[i - 1] + Opens(F[i])

Numbers(B) == \A i \in Nat : B[i] \in Nat

Stacked(F, B, D, f) ==
  /\ IsSeq(F) /\ Numbers(B) /\ Numbers(D) /\ D[0] = 0 /\ f \in 0 .. Len(F)
  /\ \A i \in 1 .. Len(F) : Fits(F, B, D, f, i)
  /\ \A i, j \in 0 .. Len(F) : i <= j => D[i] <= D[j]
  /\ \A i, j \in 1 .. Len(F) : i <= j /\ Asks(F[i]) => Asks(F[j])

\* F2 has the first m activations of F, and at most one more.
Continues(F, F2, m) ==
  /\ IsSeq(F2) /\ m \in 0 .. Len(F) /\ Len(F2) \in {m, m + 1}
  /\ \A i \in 1 .. m : F2[i] = F[i]

LEMMA Unchanged ==
  ASSUME NEW F, IsSeq(F)
  PROVE  Continues(F, F, Len(F))
<1>1. Len(F) \in Nat
  BY SeqFacts
<1> QED BY <1>1 DEF Continues

LEMMA Pushed ==
  ASSUME NEW F, IsSeq(F), NEW fr, NEW F2, F2 = Append(F, fr)
  PROVE  Continues(F, F2, Len(F)) /\ Len(F2) = Len(F) + 1 /\ F2[Len(F) + 1] = fr /\ Len(F) \in Nat
<1>1. Len(F) \in Nat
  BY SeqFacts
<1>2. /\ IsSeq(F2) /\ Len(F2) = Len(F) + 1 /\ \A i \in 1 .. Len(F) : F2[i] = F[i]
      /\ F2[Len(F) + 1] = fr
  BY AppendIs
<1> QED BY <1>1, <1>2 DEF Continues

LEMMA Popped ==
  ASSUME NEW F, IsSeq(F), F # <<>>, NEW F2, F2 = Front(F)
  PROVE  /\ Continues(F, F2, Len(F) - 1) /\ Len(F2) = Len(F) - 1 /\ Len(F) \in Nat \ {0}
         /\ Last(F) = F[Len(F)]
<1>1. Len(F) \in Nat /\ Len(F) # 0
  BY SeqFacts, EmptySeq DEF IsSeq
<1>2. 1 \in 1 .. Len(F) + 1 /\ Len(F) - 1 \in 1 - 1 .. Len(F)
  BY <1>1
<1>3. F2 = SubSeq(F, 1, Len(F) - 1)
  BY DEF Front
<1>4. IsSeq(F2) /\ Len(F2) = Len(F) - 1 - 1 + 1 /\ \A i \in 1 .. Len(F) - 1 - 1 + 1 : F2[i] = F[1 + i - 1]
  <2> DEFINE n == Len(F) - 1
  <2>1. n \in 1 - 1 .. Len(F) /\ F2 = SubSeq(F, 1, n)
    BY <1>2, <1>3
  <2> HIDE DEF n
  <2>2. IsSeq(F2) /\ Len(F2) = n - 1 + 1 /\ \A i \in 1 .. n - 1 + 1 : F2[i] = F[1 + i - 1]
    BY <1>2, <2>1, SubSeqIs
  <2> QED BY <2>2 DEF n
<1>5. Len(F2) = Len(F) - 1 /\ \A i \in 1 .. Len(F) - 1 : F2[i] = F[i]
  BY <1>1, <1>4
<1> QED BY <1>1, <1>4, <1>5 DEF Continues, Last

LEMMA Swapped ==
  ASSUME NEW F, IsSeq(F), F # <<>>, NEW fr, NEW F2, F2 = Append(Front(F), fr)
  PROVE  /\ Continues(F, F2, Len(F) - 1) /\ Len(F2) = Len(F) /\ F2[Len(F)] = fr
         /\ Len(F) \in Nat \ {0} /\ Last(F) = F[Len(F)]
<1> DEFINE P == Front(F)
<1>1. /\ Continues(F, P, Len(F) - 1) /\ Len(P) = Len(F) - 1 /\ Len(F) \in Nat \ {0}
      /\ Last(F) = F[Len(F)]
  BY Popped
<1> HIDE DEF P
<1>2. F2 = Append(P, fr)
  BY DEF P
<1>3. IsSeq(P)
  BY <1>1 DEF Continues
<1>4. /\ Continues(P, F2, Len(P)) /\ Len(F2) = Len(P) + 1 /\ F2[Len(P) + 1] = fr
  BY <1>2, <1>3, Pushed
<1>5. Len(F2) = Len(F) /\ F2[Len(F)] = fr
  BY <1>1, <1>4
<1> QED BY <1>1, <1>4, <1>5 DEF Continues

\* The bases and depths of the activations that stay.
SameUpTo(B, B2, m) == Numbers(B2) /\ \A i \in 0 .. m : B2[i] = B[i]

\* The same one of the first m activations compiles a function, and the one above fits.
SameFunction(f, f2, m) == \A i \in 1 .. m : i = f <=> i = f2
TopFits(F2, B2, D2, f2, m) == Len(F2) = m + 1 => Fits(F2, B2, D2, f2, m + 1)

LEMMA StackMoves ==
  ASSUME NEW m \in Nat, NEW f2 \in Nat, NEW F, NEW B, NEW D, NEW f, Stacked(F, B, D, f),
         NEW F2, Continues(F, F2, m), NEW B2, NEW D2, SameUpTo(B, B2, m), SameUpTo(D, D2, m),
         f2 <= Len(F2), SameFunction(f, f2, m), TopFits(F2, B2, D2, f2, m)
  PROVE  Stacked(F2, B2, D2, f2)
<1>1. m \in Nat /\ Len(F2) \in {m, m + 1} /\ IsSeq(F2) /\ m <= Len(F) /\ Len(F) \in Nat
  BY SeqFacts DEF Stacked, Continues
<1>2. Numbers(B2) /\ Numbers(D2) /\ D2[0] = 0
  BY <1>1 DEF SameUpTo, Stacked
<1>3. ASSUME NEW i \in 1 .. m PROVE Fits(F2, B2, D2, f2, i)
  <2>1. F2[i] = F[i] /\ B2[i] = B[i] /\ D2[i] = D[i] /\ B2[i - 1] = B[i - 1] /\ D2[i - 1] = D[i - 1]
    BY <1>1 DEF Continues, SameUpTo
  <2>2. i > 1 => F2[i - 1] = F[i - 1]
    BY <1>1 DEF Continues
  <2>3. i \in 1 .. Len(F)
    BY <1>1
  <2>4. Fits(F, B, D, f, i)
    BY <2>3 DEF Stacked
  <2>5. i = f <=> i = f2
    BY DEF SameFunction
  <2>6. CASE i > 1
    BY <2>1, <2>2, <2>4, <2>5, <2>6 DEF Fits
  <2>7. CASE ~ (i > 1)
    BY <2>1, <2>4, <2>5, <2>7 DEF Fits
  <2> QED BY <2>6, <2>7
<1>4. \A i \in 1 .. Len(F2) : Fits(F2, B2, D2, f2, i)
  <2>1. ASSUME NEW i \in 1 .. Len(F2) PROVE i \in 1 .. m \/ (i = m + 1 /\ Len(F2) = m + 1)
    BY <1>1
  <2> QED BY <1>3, <2>1 DEF TopFits
<1>5. \A i, j \in 0 .. m : i <= j => D2[i] <= D2[j]
  BY <1>1 DEF SameUpTo, Stacked
<1>6. Len(F2) = m + 1 => D2[m + 1] \in Nat /\ D2[m + 1] >= D2[m] /\ D2[m] \in Nat
  <2> SUFFICES ASSUME Len(F2) = m + 1 PROVE D2[m + 1] \in Nat /\ D2[m + 1] >= D2[m] /\ D2[m] \in Nat
    OBVIOUS
  <2>1. D2[m + 1] = D2[m + 1 - 1] + Opens(F2[m + 1])
    BY DEF Fits, TopFits
  <2>2. m + 1 - 1 = m /\ D2[m] \in Nat /\ Opens(F2[m + 1]) \in {0, 1}
    BY <1>1, <1>2 DEF Opens, Numbers
  <2> QED BY <2>1, <2>2
<1>7. ASSUME NEW i \in 0 .. Len(F2), NEW j \in 0 .. Len(F2), i <= j PROVE D2[i] <= D2[j]
  <2>1. CASE j \in 0 .. m
    BY <1>1, <1>5, <1>7, <2>1
  <2>2. CASE j = m + 1 /\ i = m + 1
    BY <1>1, <1>2, <2>2 DEF Numbers
  <2>3. CASE j = m + 1 /\ i \in 0 .. m
    <3>1. D2[i] <= D2[m] /\ D2[i] \in Nat
      BY <1>1, <1>2, <1>5, <2>3 DEF Numbers
    <3>2. D2[m + 1] \in Nat /\ D2[m + 1] >= D2[m] /\ D2[m] \in Nat
      BY <1>1, <1>6, <2>3
    <3> QED BY <2>3, <3>1, <3>2
  <2> QED BY <1>1, <1>7, <2>1, <2>2, <2>3
<1>8. ASSUME NEW i \in 1 .. Len(F2), NEW j \in 1 .. Len(F2), i <= j, Asks(F2[i]) PROVE Asks(F2[j])
  <2>1. \A k \in 1 .. m : k \in 1 .. Len(F) /\ F2[k] = F[k]
    BY <1>1 DEF Continues
  <2>2. \A k, l \in 1 .. m : k <= l /\ Asks(F2[k]) => Asks(F2[l])
    BY <2>1 DEF Stacked
  <2>3. CASE j \in 1 .. m
    BY <1>8, <2>2, <2>3
  <2>4. CASE j = m + 1 /\ i \in 1 .. m
    <3>1. m \in 1 .. m /\ m + 1 - 1 = m /\ m + 1 > 1
      BY <2>4
    <3>2. Asks(F2[m])
      BY <1>8, <2>2, <2>4, <3>1
    <3>3. Fits(F2, B2, D2, f2, m + 1)
      BY <1>1, <2>4 DEF TopFits
    <3>4. F2[m + 1].at \in Operators
      BY <3>1, <3>2, <3>3 DEF Fits
    <3> QED BY <2>4, <3>4 DEF Asks
  <2>5. j \in 1 .. m \/ (j = m + 1 /\ (i \in 1 .. m \/ i = j))
    BY <1>1, <1>8
  <2> QED BY <1>8, <2>3, <2>4, <2>5
<1> QED BY <1>1, <1>2, <1>4, <1>7, <1>8 DEF Stacked

----------------------------------------
(* Registers. H is the set of registers of variables that are held, top the   *)
(* first register that is free.                                               *)

\* Activations lo + 1 .. hi of one function keep registers below top, one above the
\* other, and no variable is in them; an activation that waits for an expression has all
\* variables below it.
Layout(F, B, H, top, lo, hi) ==
  /\ \A r \in H : r \in Nat /\ r < top
  /\ \A i \in lo + 1 .. hi : Keeps(F[i]) => B[i] < top /\ B[i] \notin H
  /\ \A i \in lo + 1 .. hi : Asks(F[i]) => \A r \in H : r < B[i]
  /\ \A i, j \in lo + 1 .. hi :
       i < j /\ Keeps(F[i]) /\ Keeps(F[j]) => B[i] + Width(F[i]) <= B[j]

\* What the activation on top adds.
Above(F, B, H, top, lo, hi) ==
  LET n == hi + 1
  IN  /\ Keeps(F[n]) => B[n] < top /\ B[n] \notin H
      /\ Asks(F[n]) => \A r \in H : r < B[n]
      /\ Keeps(F[n]) => \A i \in lo + 1 .. hi : Keeps(F[i]) => B[i] + Width(F[i]) <= B[n]

LEMMA LayoutUp ==
  ASSUME NEW lo \in Nat, NEW hi \in Nat, NEW F, NEW B, NEW H, NEW top,
         Layout(F, B, H, top, lo, hi), Above(F, B, H, top, lo, hi)
  PROVE  Layout(F, B, H, top, lo, hi + 1)
<1>1. ASSUME NEW i \in lo + 1 .. hi + 1 PROVE i \in lo + 1 .. hi \/ i = hi + 1
  OBVIOUS
<1>2. \A r \in H : r \in Nat /\ r < top
  BY DEF Layout
<1>3. \A i \in lo + 1 .. hi + 1 : Keeps(F[i]) => B[i] < top /\ B[i] \notin H
  BY <1>1 DEF Layout, Above
<1>4. \A i \in lo + 1 .. hi + 1 : Asks(F[i]) => \A r \in H : r < B[i]
  BY <1>1 DEF Layout, Above
<1>5. ASSUME NEW i \in lo + 1 .. hi + 1, NEW j \in lo + 1 .. hi + 1,
             i < j, Keeps(F[i]), Keeps(F[j])
      PROVE  B[i] + Width(F[i]) <= B[j]
  <2>1. i \in lo + 1 .. hi
    BY <1>5
  <2>2. CASE j \in lo + 1 .. hi
    BY <1>5, <2>1, <2>2 DEF Layout
  <2>3. CASE j = hi + 1
    BY <1>5, <2>1, <2>3 DEF Above
  <2> QED BY <1>1, <2>2, <2>3
<1> QED BY <1>2, <1>3, <1>4, <1>5 DEF Layout

\* What is kept when activations end, variables go and the first free register moves.
LEMMA LayoutKept ==
  ASSUME NEW lo \in Nat, NEW hi \in Nat, NEW m \in Nat, NEW F, NEW B, NEW H, NEW top, m <= hi,
         Layout(F, B, H, top, lo, hi),
         NEW F2, \A i \in 1 .. m : F2[i] = F[i], NEW B2, SameUpTo(B, B2, m),
         NEW H2 \in SUBSET H, NEW top2,
         \A r \in H2 : r < top2, \A i \in lo + 1 .. m : Keeps(F[i]) => B[i] < top2
  PROVE  Layout(F2, B2, H2, top2, lo, m)
<1>1. ASSUME NEW i \in lo + 1 .. m PROVE i \in lo + 1 .. hi /\ F2[i] = F[i] /\ B2[i] = B[i]
  BY DEF SameUpTo
<1>2. \A r \in H2 : r \in Nat /\ r < top2
  BY DEF Layout
<1>3. \A i \in lo + 1 .. m : Keeps(F2[i]) => B2[i] < top2 /\ B2[i] \notin H2
  BY <1>1 DEF Layout
<1>4. \A i \in lo + 1 .. m : Asks(F2[i]) => \A r \in H2 : r < B2[i]
  BY <1>1 DEF Layout
<1>5. ASSUME NEW i \in lo + 1 .. m, NEW j \in lo + 1 .. m, i < j, Keeps(F2[i]), Keeps(F2[j])
      PROVE  B2[i] + Width(F2[i]) <= B2[j]
  <2>1. B[i] + Width(F[i]) <= B[j]
    BY <1>1, <1>5 DEF Layout
  <2> QED BY <1>1, <2>1
<1> QED BY <1>2, <1>3, <1>4, <1>5 DEF Layout

\* More registers are taken.
LEMMA LayoutGrows ==
  ASSUME NEW lo \in Nat, NEW hi \in Nat, NEW F, NEW B, Numbers(B), NEW H, NEW top \in Nat,
         Layout(F, B, H, top, lo, hi),
         NEW F2, \A i \in 1 .. hi : F2[i] = F[i], NEW B2, SameUpTo(B, B2, hi),
         NEW H2 \in SUBSET H, NEW top2 \in Nat, top <= top2
  PROVE  Layout(F2, B2, H2, top2, lo, hi)
<1>1. \A r \in H2 : r < top2
  BY DEF Layout
<1>2. \A i \in lo + 1 .. hi : Keeps(F[i]) => B[i] < top2
  <2>1. ASSUME NEW i \in lo + 1 .. hi, Keeps(F[i]) PROVE B[i] < top2
    <3>1. B[i] < top /\ B[i] \in Nat
      BY <2>1 DEF Layout, Numbers
    <3> QED BY <3>1
  <2> QED BY <2>1
<1> QED BY <1>1, <1>2, LayoutKept

\* The activation on top gives its registers back.
LEMMA LayoutDown ==
  ASSUME NEW lo \in Nat, NEW hi \in Nat, NEW F, NEW B, Numbers(B), NEW H, NEW top \in Nat,
         lo <= hi, Layout(F, B, H, top, lo, hi + 1), Keeps(F[hi + 1]),
         Asks(F[hi + 1]) \/ \A r \in H : r < B[hi + 1],
         NEW F2, \A i \in 1 .. hi : F2[i] = F[i], NEW B2, SameUpTo(B, B2, hi),
         NEW H2 \in SUBSET H, NEW top2 \in Nat, top2 >= B[hi + 1]
  PROVE  Layout(F2, B2, H2, top2, lo, hi)
<1>0. hi + 1 \in lo + 1 .. hi + 1 /\ B[hi + 1] \in Nat
  BY DEF Numbers
<1>1. \A r \in H2 : r < top2
  <2>1. ASSUME NEW r \in H2 PROVE r < top2
    <3>1. r \in Nat /\ r < B[hi + 1]
      BY <1>0 DEF Layout
    <3> QED BY <1>0, <3>1
  <2> QED BY <2>1
<1>2. \A i \in lo + 1 .. hi : Keeps(F[i]) => B[i] < top2
  <2>1. ASSUME NEW i \in lo + 1 .. hi, Keeps(F[i]) PROVE B[i] < top2
    <3>1. i \in lo + 1 .. hi + 1 /\ i < hi + 1
      OBVIOUS
    <3>2. B[i] + Width(F[i]) <= B[hi + 1]
      BY <1>0, <2>1, <3>1 DEF Layout
    <3>3. B[i] \in Nat /\ Width(F[i]) \in {1, 2}
      BY <2>1 DEF Numbers, Width
    <3> QED BY <1>0, <3>2, <3>3
  <2> QED BY <2>1
<1>3. hi + 1 \in Nat /\ hi <= hi + 1
  OBVIOUS
<1> QED BY <1>1, <1>2, <1>3, LayoutKept

\* A variable that gets its first value.
LEMMA LayoutAdds ==
  ASSUME NEW lo \in Nat, NEW hi \in Nat, NEW F, NEW B, NEW H, NEW top \in Nat,
         Layout(F, B, H, top, lo, hi), \A i \in lo + 1 .. hi : ~ Asks(F[i]),
         NEW p \in Nat, p < top, \A i \in lo + 1 .. hi : Keeps(F[i]) => B[i] # p,
         NEW H2 \in SUBSET (H \union {p})
  PROVE  Layout(F, B, H2, top, lo, hi)
<1>1. \A r \in H2 : r \in Nat /\ r < top
  BY DEF Layout
<1>2. \A i \in lo + 1 .. hi : Keeps(F[i]) => B[i] < top /\ B[i] \notin H2
  BY DEF Layout
<1> QED BY <1>1, <1>2 DEF Layout

----------------------------------------
(* The compiler's record: a register for small variables is the first free one. *)

Compiler(c) ==
  /\ DOMAIN c = {"regTop", "packReg", "packOffset", "locals", "scopeDepth", "code"}
  /\ c.regTop \in Nat /\ c.packReg \in Nat /\ c.packOffset \in Nat
  /\ c.packOffset > 0 => c.packReg = c.regTop
  /\ IsSeq(c.locals) /\ \A i \in DOMAIN c.locals : c.locals[i].reg \in Nat
  /\ IsSeq(c.code)

\* What code generation leaves alone.
SameNames(c, c2) == c2.locals = c.locals /\ c2.scopeDepth = c.scopeDepth
SameTop(c, c2) == c2.regTop = c.regTop /\ c2.packOffset = c.packOffset

LEMMA NewCompilerIs ==
  ASSUME NEW d
  PROVE  /\ Compiler(NewCompiler(d)) /\ NewCompiler(d).locals = <<>>
         /\ NewCompiler(d).scopeDepth = d /\ NewCompiler(d).code = <<>>
<1>1. IsSeq(<<>>) /\ Len(<<>>) = 0
  BY SeqIs, EmptySeq
<1>2. DOMAIN <<>> = {}
  <2>1. DOMAIN <<>> = 1 .. 0
    BY <1>1, SeqFacts
  <2> QED BY <2>1
<1> QED BY <1>1, <1>2 DEF Compiler, NewCompiler

LEMMA AllocatedIs ==
  ASSUME NEW c, Compiler(c), ~ Exhausted(c), MaxReg \in Nat
  PROVE  /\ Compiler(Allocated(c)) /\ SameNames(c, Allocated(c)) /\ Allocated(c).code = c.code
         /\ allocReg(c) = Flushed(c) /\ Flushed(c) \in Nat /\ Flushed(c) < MaxReg
         /\ Allocated(c).regTop = Flushed(c) + 1 /\ Allocated(c).packOffset = 0
         /\ c.regTop <= Flushed(c) /\ (c.packOffset = 0 => Flushed(c) = c.regTop)
<1>1. Allocated(c) = [c EXCEPT !.regTop = Flushed(c) + 1, !.packOffset = 0]
  BY DEF Allocated
<1>2. /\ Flushed(c) \in Nat /\ Flushed(c) < MaxReg /\ c.regTop <= Flushed(c)
      /\ (c.packOffset = 0 => Flushed(c) = c.regTop) /\ allocReg(c) = Flushed(c)
  BY DEF Exhausted, Flushed, Compiler, allocReg
<1>3. /\ DOMAIN Allocated(c) = DOMAIN c /\ Allocated(c).regTop = Flushed(c) + 1
      /\ Allocated(c).packOffset = 0 /\ Allocated(c).packReg = c.packReg
      /\ Allocated(c).locals = c.locals /\ Allocated(c).scopeDepth = c.scopeDepth
      /\ Allocated(c).code = c.code
  BY <1>1 DEF Compiler
<1> QED BY <1>2, <1>3 DEF Compiler, SameNames

LEMMA FreedIs ==
  ASSUME NEW c, Compiler(c), NEW reg \in Nat
  PROVE  /\ Compiler(freeReg(c, reg)) /\ SameNames(c, freeReg(c, reg))
         /\ freeReg(c, reg).code = c.code
         /\ reg = c.regTop - 1 => freeReg(c, reg).regTop = reg /\ freeReg(c, reg).packOffset = 0
         /\ reg # c.regTop - 1 => SameTop(c, freeReg(c, reg))
<1>1. CASE reg = c.regTop - 1
  <2>1. freeReg(c, reg) = [c EXCEPT !.regTop = reg, !.packOffset = 0]
    BY <1>1 DEF freeReg
  <2>2. /\ DOMAIN freeReg(c, reg) = DOMAIN c /\ freeReg(c, reg).regTop = reg
        /\ freeReg(c, reg).packOffset = 0 /\ freeReg(c, reg).packReg = c.packReg
        /\ freeReg(c, reg).locals = c.locals /\ freeReg(c, reg).scopeDepth = c.scopeDepth
        /\ freeReg(c, reg).code = c.code
    BY <2>1 DEF Compiler
  <2> QED BY <1>1, <2>2 DEF Compiler, SameNames
<1>2. CASE reg # c.regTop - 1
  <2>1. freeReg(c, reg) = c
    BY <1>2 DEF freeReg
  <2> QED BY <1>2, <2>1 DEF SameNames, SameTop
<1> QED BY <1>1, <1>2

LEMMA EmittedIs ==
  ASSUME NEW c, Compiler(c), NEW inst
  PROVE  /\ Compiler(Emitted(c, inst)) /\ SameNames(c, Emitted(c, inst)) /\ SameTop(c, Emitted(c, inst))
         /\ Emitted(c, inst).code = Append(c.code, inst)
<1>1. Emitted(c, inst) = [c EXCEPT !.code = Append(c.code, inst)]
  BY DEF Emitted
<1>2. IsSeq(Append(c.code, inst))
  BY AppendIs DEF Compiler
<1>3. /\ DOMAIN Emitted(c, inst) = DOMAIN c /\ Emitted(c, inst).regTop = c.regTop
      /\ Emitted(c, inst).packOffset = c.packOffset /\ Emitted(c, inst).packReg = c.packReg
      /\ Emitted(c, inst).locals = c.locals /\ Emitted(c, inst).scopeDepth = c.scopeDepth
      /\ Emitted(c, inst).code = Append(c.code, inst)
  BY <1>1 DEF Compiler
<1> QED BY <1>2, <1>3 DEF Compiler, SameNames, SameTop

LEMMA PatchedIs ==
  ASSUME NEW c, Compiler(c), NEW offset
  PROVE  /\ Compiler(patchJump(c, offset)) /\ SameNames(c, patchJump(c, offset))
         /\ SameTop(c, patchJump(c, offset))
         /\ patchJump(c, offset).code = [c.code EXCEPT ![offset][3] = Len(c.code) - offset]
<1> DEFINE code2 == [c.code EXCEPT ![offset][3] = Len(c.code) - offset]
<1>1. patchJump(c, offset) = [c EXCEPT !.code = code2]
  BY DEF patchJump, Compiler
<1>2. IsSeq(code2)
  <2>1. c.code \in [1 .. Len(c.code) -> {c.code[i] : i \in DOMAIN c.code}] /\ Len(c.code) \in Nat
    BY LenProperties DEF Compiler, IsSeq
  <2>2. code2 = [i \in 1 .. Len(c.code) |-> code2[i]]
    BY <2>1
  <2> HIDE DEF code2
  <2> QED BY <2>1, <2>2, FunctionIs
<1> HIDE DEF code2
<1>3. /\ DOMAIN patchJump(c, offset) = DOMAIN c /\ patchJump(c, offset).regTop = c.regTop
      /\ patchJump(c, offset).packOffset = c.packOffset /\ patchJump(c, offset).packReg = c.packReg
      /\ patchJump(c, offset).locals = c.locals /\ patchJump(c, offset).scopeDepth = c.scopeDepth
      /\ patchJump(c, offset).code = code2
  BY <1>1 DEF Compiler
<1> QED BY <1>2, <1>3 DEF Compiler, SameNames, SameTop, code2

LEMMA ReservedIs ==
  ASSUME NEW c, Compiler(c), NEW size \in 0 .. 8, size = 8 => ~ Exhausted(c), MaxReg \in Nat
  PROVE  /\ Compiler(Reserved(c, size)) /\ SameNames(c, Reserved(c, size))
         /\ Reserved(c, size).code = c.code /\ c.regTop <= Reserved(c, size).regTop
         /\ Placed(c, size).reg \in Nat /\ Placed(c, size).reg >= c.regTop
         /\ Placed(c, size).reg <= Flushed(Reserved(c, size))
         /\ size # 0 => Placed(c, size).reg < Flushed(Reserved(c, size))
<1>1. CASE size = 8
  <2>1. Reserved(c, size) = Allocated(c) /\ Placed(c, size).reg = allocReg(c)
    BY <1>1 DEF Reserved, Placed
  <2>2. /\ Compiler(Allocated(c)) /\ SameNames(c, Allocated(c)) /\ Allocated(c).code = c.code
        /\ allocReg(c) = Flushed(c) /\ Flushed(c) \in Nat
        /\ Allocated(c).regTop = Flushed(c) + 1 /\ Allocated(c).packOffset = 0
        /\ c.regTop <= Flushed(c)
    BY <1>1, AllocatedIs
  <2>3. Flushed(Allocated(c)) = Flushed(c) + 1 /\ c.regTop \in Nat
    BY <2>2 DEF Flushed, Compiler
  <2> QED BY <2>1, <2>2, <2>3
<1>2. CASE size # 8
  <2> DEFINE off == PackOffset(c, size)
             reg == PackReg(c, size)
             end == off + size
             top == IF Packs(c, size) THEN c.regTop ELSE c.regTop + 1
             regTop2 == IF end = 8 THEN top + 1 ELSE top
             off2 == IF end = 8 THEN 0 ELSE end
  <2>1. Reserved(c, size) = [c EXCEPT !.packReg = reg, !.regTop = regTop2, !.packOffset = off2]
    BY <1>2 DEF Reserved
  <2>2. Placed(c, size).reg = reg
    BY <1>2 DEF Placed
  <2>3. /\ off \in Nat /\ reg \in Nat /\ end \in Nat /\ top \in Nat /\ end \in 0 .. 8 /\ reg = top
        /\ (size # 0 => end # 0)
        /\ c.regTop \in Nat /\ top >= c.regTop
    BY <1>2 DEF PackOffset, PackReg, Packs, Compiler
  <2> HIDE DEF off, reg, end, top
  <2>4. regTop2 \in Nat /\ off2 \in Nat /\ (off2 > 0 => reg = regTop2) /\ regTop2 >= c.regTop
    BY <2>3
  <2>5. /\ reg <= (IF off2 > 0 THEN regTop2 + 1 ELSE regTop2)
        /\ size # 0 => reg < (IF off2 > 0 THEN regTop2 + 1 ELSE regTop2)
    BY <2>3
  <2> HIDE DEF regTop2, off2
  <2>6. /\ DOMAIN Reserved(c, size) = DOMAIN c /\ Reserved(c, size).regTop = regTop2
        /\ Reserved(c, size).packOffset = off2 /\ Reserved(c, size).packReg = reg
        /\ Reserved(c, size).locals = c.locals /\ Reserved(c, size).scopeDepth = c.scopeDepth
        /\ Reserved(c, size).code = c.code
    BY <2>1 DEF Compiler
  <2>7. Compiler(Reserved(c, size)) /\ SameNames(c, Reserved(c, size))
    BY <2>3, <2>4, <2>6 DEF Compiler, SameNames
  <2> QED BY <2>2, <2>3, <2>4, <2>5, <2>6, <2>7 DEF Flushed
<1> QED BY <1>1, <1>2

\* Declaring a local adds one register, at or above the first free one; that of a void,
\* for which no register is kept, may be the next free one itself.
Declared(c, c2, x) ==
  /\ Compiler(c2) /\ c2.scopeDepth = c.scopeDepth /\ c2.code = c.code
  /\ Len(c2.locals) = Len(c.locals) + 1
  /\ \A i \in 1 .. Len(c.locals) : c2.locals[i] = c.locals[i]
  /\ LET l == c2.locals[Len(c.locals) + 1]
     IN  l.name = x /\ l.reg \in Nat /\ l.reg >= c.regTop /\ l.reg <= Flushed(c2)
  /\ c.regTop <= c2.regTop

LEMMA DeclaredIs ==
  ASSUME NEW c, Compiler(c), NEW x, NEW size \in 0 .. 8, size = 8 => ~ Exhausted(c), MaxReg \in Nat
  PROVE  /\ Declared(c, declareLocal(c, x, size), x)
         /\ size # 0 => declareLocal(c, x, size).locals[Len(c.locals) + 1].reg
                          < Flushed(declareLocal(c, x, size))
<1> DEFINE r == Reserved(c, size)
           p == Placed(c, size)
           l == [name |-> x, size |-> size, reg |-> p.reg, offset |-> p.offset]
           d == declareLocal(c, x, size)
<1>1. /\ Compiler(r) /\ r.locals = c.locals /\ r.scopeDepth = c.scopeDepth
      /\ r.code = c.code /\ c.regTop <= r.regTop
      /\ p.reg \in Nat /\ p.reg >= c.regTop /\ p.reg <= Flushed(r)
      /\ (size # 0 => p.reg < Flushed(r))
  BY ReservedIs DEF SameNames
<1>3. l.name = x /\ l.reg = p.reg
  OBVIOUS
<1>4. d = [r EXCEPT !.locals = Append(r.locals, l)]
  BY DEF declareLocal
<1> HIDE DEF r, p, l, d
<1>5. /\ IsSeq(Append(r.locals, l)) /\ Len(Append(r.locals, l)) = Len(r.locals) + 1
      /\ DOMAIN Append(r.locals, l) = 1 .. Len(r.locals) + 1
      /\ \A i \in 1 .. Len(r.locals) : Append(r.locals, l)[i] = r.locals[i]
      /\ Append(r.locals, l)[Len(r.locals) + 1] = l
  BY <1>1, AppendIs DEF Compiler
<1>6. /\ DOMAIN d = DOMAIN r /\ d.regTop = r.regTop /\ d.packOffset = r.packOffset
      /\ d.packReg = r.packReg /\ d.scopeDepth = r.scopeDepth /\ d.code = r.code
      /\ d.locals = Append(r.locals, l)
  BY <1>1, <1>4 DEF Compiler
<1>7. DOMAIN r.locals = 1 .. Len(r.locals) /\ Len(r.locals) \in Nat
  BY <1>1, SeqFacts DEF Compiler
<1>8. \A i \in 1 .. Len(r.locals) + 1 : Append(r.locals, l)[i].reg \in Nat
  BY <1>1, <1>3, <1>5, <1>7 DEF Compiler
<1>9. Compiler(d)
  BY <1>1, <1>5, <1>6, <1>8 DEF Compiler
<1>10. Flushed(d) = Flushed(r)
  BY <1>6 DEF Flushed
<1> QED BY <1>1, <1>3, <1>5, <1>6, <1>9, <1>10 DEF Declared, d

----------------------------------------
(* Names. S is the chain of open scopes; the scopes of the function that is     *)
(* being compiled, if there is one, begin with D[f].                            *)

Valued(S, x) == \E s \in DOMAIN S : x \in DOMAIN S[s] /\ S[s][x] # Unset
HeldIn(L, S) == {i \in DOMAIN L : Valued(S, L[i].name)}
HeldRegs(L, S) == {L[i].reg : i \in HeldIn(L, S)}
Distinct(L, S) == \A i, j \in HeldIn(L, S) : L[i].reg = L[j].reg => i = j

Once(L) == \A i, j \in DOMAIN L : L[i].name = L[j].name => i = j
Scoped(S) == \A s, t \in DOMAIN S : \A x : x \in DOMAIN S[s] /\ x \in DOMAIN S[t] => s = t
OwnerOf(s, f, D) == IF f > 0 /\ s >= D[f] THEN 2 ELSE 1

Chain(C, f) ==
  /\ IsSeq(C) /\ Len(C) = (IF f = 0 THEN 1 ELSE 2)
  /\ \A k \in 1 .. Len(C) : Compiler(C[k])

Naming(C, S, D, f, n) ==
  /\ \A k \in 1 .. Len(C) : Once(C[k].locals)
  /\ f > 0 => \A i \in DOMAIN C[1].locals, j \in DOMAIN C[2].locals :
                C[1].locals[i].name # C[2].locals[j].name
  /\ IsSeq(S) /\ Len(S) = D[n] /\ Scoped(S)
  /\ \A s \in DOMAIN S : \A x \in DOMAIN S[s] : Declares(C[OwnerOf(s, f, D)], x)
  /\ Last(C).scopeDepth = IF f = 0 THEN D[n] ELSE D[n] - D[f] + 2
  /\ f > 0 => C[1].scopeDepth = D[f] - 1

Registers(C, S, F, B, f) ==
  /\ Layout(F, B, HeldRegs(Last(C).locals, S), Last(C).regTop, f, Len(F))
  /\ Distinct(Last(C).locals, S)
  /\ f > 0 => /\ Layout(F, B, HeldRegs(C[1].locals, S), C[1].regTop, 0, f - 1)
              /\ Distinct(C[1].locals, S)

\* A variable that waits for its first value has a register of its own, unless it is a
\* void, whose register may be the one that its value is computed in.
VarPlaced(L, S, F, B, f, i, k) ==
  /\ L[k].name = F[i].name /\ L[k].reg <= B[i] /\ (F[i].size # 0 => L[k].reg < B[i])
  /\ L[k].reg \notin HeldRegs(L, S)
  /\ \A j \in f + 1 .. i - 1 : Keeps(F[j]) => B[j] # L[k].reg
VarWaits(L, S, F, B, f, i) ==
  /\ i > f /\ Len(S) > 0
  /\ F[i].name \in DOMAIN S[Len(S)] /\ S[Len(S)][F[i].name] = Unset
  /\ \E k \in DOMAIN L : VarPlaced(L, S, F, B, f, i, k)
Waiting(L, S, F, B, f) == \A i \in 1 .. Len(F) : F[i].at = "var" => VarWaits(L, S, F, B, f, i)

\* What is wanted is what the innermost activation asked for.
WantedIs(c, F, B, w) ==
  LET n == Len(F)
      asks == n > 0 /\ Asks(F[n])
  IN  /\ w.is \in {"expression", "register"} <=> asks
      /\ w.is = "expression" => w.dst = Asked(F[n], B[n])
      /\ w.is = "register" => w.reg = Asked(F[n], B[n])
      /\ asks => c.regTop = B[n] + Width(F[n]) /\ c.packOffset = 0

Sound(C, F, w, S, f, B, D) ==
  /\ Chain(C, f) /\ Stacked(F, B, D, f) /\ Naming(C, S, D, f, Len(F))
  /\ Registers(C, S, F, B, f) /\ Waiting(Last(C).locals, S, F, B, f)
  /\ WantedIs(Last(C), F, B, w)

\* The current compiler has become c2.
Becomes(C, f, c2, C2) ==
  /\ Chain(C2, f) /\ Len(C2) = Len(C) /\ Last(C2) = c2 /\ C2[Len(C)] = c2
  /\ Last(C) = C[Len(C)] /\ Len(C) \in {1, 2} /\ Compiler(Last(C)) /\ Compiler(c2)
  /\ f > 0 => C2[1] = C[1]
  /\ \A k \in 1 .. Len(C) - 1 : C2[k] = C[k]

LEMMA ChainIs ==
  ASSUME NEW C, NEW f \in Nat, Chain(C, f), NEW c2, Compiler(c2), NEW C2, C2 = Append(Front(C), c2)
  PROVE  Becomes(C, f, c2, C2)
<1>1. Len(C) \in {1, 2} /\ (f > 0 => Len(C) = 2) /\ IsSeq(C) /\ Len(C) = (IF f = 0 THEN 1 ELSE 2)
  BY DEF Chain
<1>2. C # <<>>
  BY <1>1, EmptySeq
<1>3. /\ Continues(C, C2, Len(C) - 1) /\ Len(C2) = Len(C) /\ C2[Len(C)] = c2
      /\ Last(C) = C[Len(C)]
  BY <1>1, <1>2, Swapped
<1>4. \A k \in 1 .. Len(C) - 1 : C2[k] = C[k]
  BY <1>3 DEF Continues
<1>5. Last(C2) = c2
  BY <1>3 DEF Last
<1>6. \A k \in 1 .. Len(C2) : Compiler(C2[k])
  <2>1. \A k \in 1 .. Len(C) : Compiler(C[k])
    BY DEF Chain
  <2>2. ASSUME NEW k \in 1 .. Len(C2) PROVE k = Len(C) \/ k \in 1 .. Len(C) - 1
    BY <1>1, <1>3
  <2> QED BY <1>1, <1>3, <1>4, <2>1, <2>2
<1>7. Chain(C2, f)
  BY <1>1, <1>3, <1>6 DEF Chain, Continues
<1>8. Compiler(Last(C))
  BY <1>1, <1>3 DEF Chain
<1>9. f > 0 => C2[1] = C[1]
  BY <1>1, <1>4
<1> QED BY <1>1, <1>3, <1>4, <1>5, <1>7, <1>8, <1>9 DEF Becomes

\* The function that is being compiled opened a scope, which is still open.
LEMMA FunctionDepth ==
  ASSUME NEW F, NEW B, NEW D, NEW f, Stacked(F, B, D, f), f # 0
  PROVE  /\ f \in Nat /\ f \in 1 .. Len(F) /\ Len(F) \in Nat /\ F[f].at = "function"
         /\ D[f] \in Nat /\ D[f - 1] \in Nat /\ D[Len(F)] \in Nat
         /\ D[f] = D[f - 1] + 1 /\ D[f] >= 1 /\ D[f] <= D[Len(F)]
<1>1. f \in 1 .. Len(F) /\ Len(F) \in Nat /\ f \in Nat
  BY SeqFacts DEF Stacked
<1>2. Fits(F, B, D, f, f)
  BY <1>1 DEF Stacked
<1>3. F[f].at = "function" /\ D[f] = D[f - 1] + Opens(F[f])
  BY <1>2 DEF Fits
<1>4. D[f] \in Nat /\ D[f - 1] \in Nat /\ D[Len(F)] \in Nat
  BY <1>1 DEF Stacked, Numbers
<1>5. D[f] <= D[Len(F)]
  BY <1>1 DEF Stacked
<1> QED BY <1>1, <1>3, <1>4, <1>5 DEF Opens

\* The activation on top opens no scope and declares nothing.
PlainTop(F2, D, D2, n, m) ==
  /\ D2[Len(F2)] = D[n]
  /\ Len(F2) = m + 1 => F2[m + 1].at \notin {"var", "function", "block"}

\* Steps that change no names: code is emitted, registers are taken and given back.
LEMMA Moves ==
  ASSUME NEW f \in Nat, NEW m \in Nat, NEW C, NEW F, NEW w, NEW S, NEW B, NEW D,
         Sound(C, F, w, S, f, B, D), f <= m,
         NEW c2, NEW C2, Becomes(C, f, c2, C2), SameNames(Last(C), c2),
         NEW F2, Continues(F, F2, m), NEW B2, SameUpTo(B, B2, m), NEW D2, SameUpTo(D, D2, m),
         PlainTop(F2, D, D2, Len(F), m), TopFits(F2, B2, D2, f, m),
         Layout(F2, B2, HeldRegs(Last(C).locals, S), c2.regTop, f, Len(F2)),
         NEW w2, WantedIs(c2, F2, B2, w2)
  PROVE  Sound(C2, F2, w2, S, f, B2, D2)
<1>1. /\ Chain(C2, f) /\ Len(C2) = Len(C) /\ Last(C2) = c2 /\ C2[Len(C)] = c2
      /\ Last(C) = C[Len(C)] /\ Len(C) \in {1, 2}
      /\ (f > 0 => C2[1] = C[1]) /\ \A k \in 1 .. Len(C) - 1 : C2[k] = C[k]
  BY DEF Becomes
<1>2. Len(F) \in Nat /\ Len(F2) \in {m, m + 1} /\ m <= Len(F)
  BY SeqFacts DEF Sound, Stacked, Continues
<1>3. Stacked(F2, B2, D2, f)
  <2>1. SameFunction(f, f, m) /\ f <= Len(F2)
    BY <1>2 DEF SameFunction
  <2> QED BY <2>1, StackMoves DEF Sound
<1>4. D2[f] = D[f] /\ c2.locals = Last(C).locals /\ c2.scopeDepth = Last(C).scopeDepth
  BY DEF SameUpTo, SameNames
<1>5. \A k \in 1 .. Len(C) : C2[k].locals = C[k].locals
  BY <1>1, <1>4
<1>6. \A k \in 1 .. Len(C) : \A x : Declares(C2[k], x) = Declares(C[k], x)
  BY <1>5 DEF Declares
<1>7. Naming(C2, S, D2, f, Len(F2))
  <2>0. Naming(C, S, D, f, Len(F)) /\ Chain(C, f)
    BY DEF Sound
  <2>1. \A k \in 1 .. Len(C2) : Once(C2[k].locals)
    BY <1>1, <1>5, <2>0 DEF Naming
  <2>2. f > 0 => \A i \in DOMAIN C2[1].locals, j \in DOMAIN C2[2].locals :
                   C2[1].locals[i].name # C2[2].locals[j].name
    <3>1. f > 0 => Len(C) = 2
      BY <2>0 DEF Chain
    <3>2. f > 0 => C2[1].locals = C[1].locals /\ C2[2].locals = C[2].locals
      <4>1. Len(C) = 2 => 1 \in 1 .. Len(C) /\ 2 \in 1 .. Len(C)
        OBVIOUS
      <4> QED BY ONLY <1>5, <3>1, <4>1
    <3>3. f > 0 => \A i \in DOMAIN C[1].locals, j \in DOMAIN C[2].locals :
                     C[1].locals[i].name # C[2].locals[j].name
      BY ONLY <2>0 DEF Naming
    <3> QED BY ONLY <3>2, <3>3
  <2>3. IsSeq(S) /\ Len(S) = D2[Len(F2)] /\ Scoped(S)
    BY <2>0 DEF Naming, PlainTop
  <2>4. \A s \in DOMAIN S : \A x \in DOMAIN S[s] : Declares(C2[OwnerOf(s, f, D2)], x)
    <3>1. ASSUME NEW s \in DOMAIN S PROVE OwnerOf(s, f, D2) = OwnerOf(s, f, D) /\ OwnerOf(s, f, D) \in 1 .. Len(C)
      <4>1. OwnerOf(s, f, D2) = OwnerOf(s, f, D)
        BY <1>4 DEF OwnerOf
      <4>2. OwnerOf(s, f, D) \in 1 .. Len(C)
        BY <2>0 DEF OwnerOf, Chain
      <4> QED BY <4>1, <4>2
    <3> QED BY <1>6, <2>0, <3>1 DEF Naming
  <2>5. Last(C2).scopeDepth = IF f = 0 THEN D2[Len(F2)] ELSE D2[Len(F2)] - D2[f] + 2
    BY <1>1, <1>4, <2>0 DEF Naming, PlainTop
  <2>6. f > 0 => C2[1].scopeDepth = D2[f] - 1
    BY <1>1, <1>4, <2>0 DEF Naming
  <2> QED BY <2>1, <2>2, <2>3, <2>4, <2>5, <2>6 DEF Naming
<1>8. Registers(C2, S, F2, B2, f)
  <2>1. Registers(C, S, F, B, f) /\ Numbers(B)
    BY DEF Sound, Stacked
  <2>2. Layout(F2, B2, HeldRegs(Last(C2).locals, S), Last(C2).regTop, f, Len(F2))
        /\ Distinct(Last(C2).locals, S)
    BY <1>1, <1>4, <2>1 DEF Registers
  <2>3. ASSUME f > 0 PROVE Layout(F2, B2, HeldRegs(C2[1].locals, S), C2[1].regTop, 0, f - 1)
                           /\ Distinct(C2[1].locals, S)
    <3> DEFINE H == HeldRegs(C[1].locals, S)
               top == C[1].regTop
    <3>1. Layout(F, B, H, top, 0, f - 1) /\ Distinct(C[1].locals, S) /\ C2[1] = C[1]
      BY <1>1, <2>1, <2>3 DEF Registers
    <3>2. f - 1 \in Nat /\ \A i \in 1 .. f - 1 : F2[i] = F[i]
      BY <2>3 DEF Continues
    <3>3. SameUpTo(B, B2, f - 1)
      BY <2>3 DEF SameUpTo
    <3>4. top \in Nat
      BY <1>1 DEF Sound, Chain, Compiler
    <3> HIDE DEF H, top
    <3>5. Layout(F2, B2, H, top, 0, f - 1)
      <4>1. H \in SUBSET H /\ top <= top /\ 0 \in Nat
        BY <3>4
      <4> QED BY <2>1, <3>1, <3>2, <3>3, <3>4, <4>1, LayoutGrows
    <3> QED BY <3>1, <3>5 DEF H, top
  <2> QED BY <2>2, <2>3 DEF Registers
<1>9. Waiting(Last(C2).locals, S, F2, B2, f)
  <2>1. Waiting(Last(C).locals, S, F, B, f)
    BY DEF Sound
  <2>2. ASSUME NEW i \in 1 .. Len(F2), F2[i].at = "var" PROVE VarWaits(Last(C2).locals, S, F2, B2, f, i)
    <3>1. i \in 1 .. m
      BY <1>2, <2>2 DEF PlainTop
    <3>2. F2[i] = F[i] /\ B2[i] = B[i] /\ i \in 1 .. Len(F)
      BY <1>2, <3>1 DEF Continues, SameUpTo
    <3>3. VarWaits(Last(C).locals, S, F, B, f, i)
      BY <2>1, <2>2, <3>2 DEF Waiting
    <3>4. PICK k \in DOMAIN Last(C).locals : VarPlaced(Last(C).locals, S, F, B, f, i, k)
      BY <3>3 DEF VarWaits
    <3>5. \A j \in f + 1 .. i - 1 : F2[j] = F[j] /\ B2[j] = B[j]
      BY <1>2, <3>1 DEF Continues, SameUpTo
    <3>6. VarPlaced(Last(C).locals, S, F2, B2, f, i, k)
      BY <3>2, <3>4, <3>5 DEF VarPlaced
    <3> QED BY <1>1, <1>4, <3>2, <3>3, <3>6 DEF VarWaits
  <2> QED BY <2>2 DEF Waiting
<1> QED BY <1>1, <1>3, <1>7, <1>8, <1>9 DEF Sound

Put(B, n, b) == [i \in Nat |-> IF i = n THEN b ELSE B[i]]

LEMMA PutIs ==
  ASSUME NEW n \in Nat, NEW b \in Nat, NEW B, Numbers(B)
  PROVE  Put(B, n + 1, b)[n + 1] = b /\ SameUpTo(B, Put(B, n + 1, b), n)
<1>1. \A i \in Nat : Put(B, n + 1, b)[i] = IF i = n + 1 THEN b ELSE B[i]
  BY DEF Put
<1>2. Numbers(Put(B, n + 1, b))
  BY <1>1 DEF Numbers
<1>3. \A i \in 0 .. n : Put(B, n + 1, b)[i] = B[i]
  BY <1>1
<1> QED BY <1>1, <1>2, <1>3 DEF SameUpTo

LEMMA SameIs ==
  ASSUME NEW n \in Nat, NEW B, Numbers(B)
  PROVE  SameUpTo(B, B, n)
BY DEF SameUpTo

\* Everything from top on is free.
Room(F, B, top, lo, hi) == \A i \in lo + 1 .. hi : Keeps(F[i]) => B[i] + Width(F[i]) <= top

LEMMA RoomAsking ==
  ASSUME NEW lo \in Nat, NEW hi \in Nat, lo < hi, NEW F, NEW B, Numbers(B), NEW H, NEW top \in Nat,
         Layout(F, B, H, top, lo, hi), Keeps(F[hi]), B[hi] + Width(F[hi]) <= top
  PROVE  Room(F, B, top, lo, hi)
<1> SUFFICES ASSUME NEW i \in lo + 1 .. hi, Keeps(F[i]) PROVE B[i] + Width(F[i]) <= top
  BY DEF Room
<1>1. CASE i = hi
  BY <1>1
<1>2. CASE i < hi
  <2>1. hi \in lo + 1 .. hi
    OBVIOUS
  <2>2. B[i] + Width(F[i]) <= B[hi]
    BY <1>2, <2>1 DEF Layout
  <2>3. B[i] \in Nat /\ B[hi] \in Nat /\ Width(F[i]) \in {1, 2} /\ Width(F[hi]) \in {1, 2}
    BY DEF Numbers, Width
  <2> QED BY <2>2, <2>3
<1> QED BY <1>1, <1>2

LEMMA RoomIdle ==
  ASSUME NEW lo \in Nat, NEW hi \in Nat, NEW F, NEW B, Numbers(B), NEW H, NEW top \in Nat,
         Layout(F, B, H, top, lo, hi), \A i \in lo + 1 .. hi : ~ Asks(F[i])
  PROVE  Room(F, B, top, lo, hi)
<1> SUFFICES ASSUME NEW i \in lo + 1 .. hi, Keeps(F[i]) PROVE B[i] + Width(F[i]) <= top
  BY DEF Room
<1>1. B[i] < top /\ B[i] \in Nat
  BY DEF Layout, Numbers
<1>2. Width(F[i]) = 1
  BY DEF Keeps, Asks, Width, Roots, Operators, Branches
<1> QED BY <1>1, <1>2

LEMMA LayoutPush ==
  ASSUME NEW lo \in Nat, NEW hi \in Nat, lo <= hi, NEW F, NEW B, Numbers(B), NEW H, NEW top \in Nat,
         Layout(F, B, H, top, lo, hi), Room(F, B, top, lo, hi),
         NEW F2, \A i \in 1 .. hi : F2[i] = F[i], NEW base \in Nat, NEW top2 \in Nat,
         top <= base, base < top2, NEW B2, SameUpTo(B, B2, hi), B2[hi + 1] = base
  PROVE  Layout(F2, B2, H, top2, lo, hi + 1)
<1>1. B2[hi + 1] = base /\ SameUpTo(B, B2, hi)
  OBVIOUS
<1>2. H \in SUBSET H /\ top <= top2
  OBVIOUS
<1>3. Layout(F2, B2, H, top2, lo, hi)
  BY <1>1, <1>2, LayoutGrows
<1>4. \A r \in H : r < base /\ r \in Nat
  BY DEF Layout
<1>5. Above(F2, B2, H, top2, lo, hi)
  <2>1. base \notin H
    BY <1>4
  <2>2. ASSUME NEW i \in lo + 1 .. hi, Keeps(F2[i]) PROVE B2[i] + Width(F2[i]) <= base
    <3>1. F2[i] = F[i] /\ B2[i] = B[i]
      BY <1>1 DEF SameUpTo
    <3>2. B[i] + Width(F[i]) <= top /\ B[i] \in Nat /\ Width(F[i]) \in {1, 2}
      BY <2>2, <3>1 DEF Room, Numbers, Width
    <3> QED BY <3>1, <3>2
  <2> QED BY <1>1, <1>4, <2>1, <2>2 DEF Above
<1> QED BY <1>3, <1>5, LayoutUp

Occupied(C, S) == HeldRegs(Last(C).locals, S)

\* What is known of the current compiler and of the activation on top.
Current(C, F, w, S, f, B, D) ==
  /\ IsSeq(F) /\ Len(F) \in Nat /\ f \in 0 .. Len(F) /\ Numbers(B) /\ Numbers(D)
  /\ B[Len(F)] \in Nat /\ D[Len(F)] \in Nat
  /\ Compiler(Last(C)) /\ Last(C).regTop \in Nat
  /\ Layout(F, B, Occupied(C, S), Last(C).regTop, f, Len(F))
  /\ Len(F) > 0 => Fits(F, B, D, f, Len(F)) /\ Len(F) - 1 \in Nat /\ F # <<>>
  /\ WantedIs(Last(C), F, B, w)

LEMMA CurrentIs ==
  ASSUME NEW C, NEW F, NEW w, NEW S, NEW f, NEW B, NEW D, Sound(C, F, w, S, f, B, D)
  PROVE  f \in Nat /\ Current(C, F, w, S, f, B, D)
<1>1. Chain(C, f) /\ Stacked(F, B, D, f) /\ Registers(C, S, F, B, f) /\ WantedIs(Last(C), F, B, w)
  BY DEF Sound
<1>2. IsSeq(F) /\ Len(F) \in Nat /\ f \in 0 .. Len(F) /\ Numbers(B) /\ Numbers(D)
  BY <1>1, SeqFacts DEF Stacked
<1>3. f \in Nat /\ B[Len(F)] \in Nat /\ D[Len(F)] \in Nat
  BY <1>2 DEF Numbers
<1>4. Compiler(Last(C))
  BY <1>1 DEF Chain, Last
<1>5. Last(C).regTop \in Nat
  BY <1>4 DEF Compiler
<1>6. Layout(F, B, Occupied(C, S), Last(C).regTop, f, Len(F))
  BY <1>1 DEF Registers, Occupied
<1>7. Len(F) > 0 => Fits(F, B, D, f, Len(F)) /\ Len(F) - 1 \in Nat
  BY <1>1, <1>2 DEF Stacked
<1>8. Len(F) > 0 => F # <<>>
  BY EmptySeq
<1> QED BY <1>1, <1>2, <1>3, <1>4, <1>5, <1>6, <1>7, <1>8 DEF Current

\* An activation more, another one on top, and one less.
OnTop(F, fr, F2) == Continues(F, F2, Len(F)) /\ Len(F2) = Len(F) + 1 /\ F2[Len(F) + 1] = fr
Instead(F, fr, F2) == Continues(F, F2, Len(F) - 1) /\ Len(F2) = Len(F) /\ F2[Len(F)] = fr
Without(F, F2) == Continues(F, F2, Len(F) - 1) /\ Len(F2) = Len(F) - 1

\* The numbers of the activation on top.
TopNumber(B, B2, n, b) == SameUpTo(B, B2, n) /\ B2[n + 1] = b

\* A step that leaves the activations alone.
LEMMA Stays ==
  ASSUME NEW C, NEW F, NEW w, NEW S, NEW f, NEW B, NEW D, Sound(C, F, w, S, f, B, D),
         NEW c2, NEW C2, Becomes(C, f, c2, C2), SameNames(Last(C), c2),
         Last(C).regTop <= c2.regTop, NEW w2, WantedIs(c2, F, B, w2)
  PROVE  Sound(C2, F, w2, S, f, B, D)
<1>1. f \in Nat /\ Current(C, F, w, S, f, B, D)
  BY CurrentIs
<1> DEFINE n == Len(F)
           H == Occupied(C, S)
           top == Last(C).regTop
<1>2. /\ n \in Nat /\ f <= n /\ Numbers(B) /\ Numbers(D) /\ IsSeq(F)
      /\ Layout(F, B, H, top, f, n) /\ top \in Nat /\ c2.regTop \in Nat
  BY <1>1 DEF Current, Compiler, Becomes
<1>3. Continues(F, F, n) /\ SameUpTo(B, B, n) /\ SameUpTo(D, D, n)
  BY <1>2, Unchanged, SameIs
<1>4. PlainTop(F, D, D, Len(F), n) /\ TopFits(F, B, D, f, n)
  BY <1>2 DEF PlainTop, TopFits
<1> HIDE DEF H, top
<1>5. Layout(F, B, H, c2.regTop, f, n)
  <2>1. H \in SUBSET H /\ top <= c2.regTop /\ \A i \in 1 .. n : F[i] = F[i]
    BY DEF top
  <2> QED BY <1>1, <1>2, <1>3, <2>1, LayoutGrows
<1>6. Layout(F, B, HeldRegs(Last(C).locals, S), c2.regTop, f, Len(F))
  BY <1>5 DEF H, Occupied
<1> QED BY <1>1, <1>2, <1>3, <1>4, <1>6, Moves

\* An operator asks for its operand.
OperatorFrame(fr, w) ==
  /\ fr.at \in {"left", "operand", "id"} /\ fr.dst = w.dst
  /\ fr.at = "id" => fr.count \in 0 .. MaxArgs

LEMMA OperatorPushed ==
  ASSUME NEW C, NEW F, NEW w, NEW S, NEW f, NEW B, NEW D, Sound(C, F, w, S, f, B, D),
         w.is = "expression", NEW fr, OperatorFrame(fr, w), NEW F2, OnTop(F, fr, F2),
         NEW c2, NEW C2, Becomes(C, f, c2, C2), SameNames(Last(C), c2),
         c2.regTop = Last(C).regTop + 1, c2.packOffset = 0,
         NEW w2, w2.is = "expression", w2.dst = Last(C).regTop,
         NEW B2, TopNumber(B, B2, Len(F), Last(C).regTop),
         NEW D2, TopNumber(D, D2, Len(F), D[Len(F)])
  PROVE  Sound(C2, F2, w2, S, f, B2, D2)
<1>1. f \in Nat /\ Current(C, F, w, S, f, B, D)
  BY CurrentIs
<1> DEFINE n == Len(F)
           top == Last(C).regTop
<1>2. /\ n \in Nat /\ f <= n /\ Numbers(B) /\ Numbers(D) /\ IsSeq(F) /\ D[n] \in Nat /\ B[n] \in Nat
      /\ Layout(F, B, Occupied(C, S), top, f, n) /\ top \in Nat /\ WantedIs(Last(C), F, B, w)
      /\ n > 0 => Fits(F, B, D, f, n)
  BY <1>1 DEF Current
<1>3. n > 0 /\ Asks(F[n]) /\ w.dst = Asked(F[n], B[n]) /\ top = B[n] + Width(F[n])
  BY <1>2 DEF WantedIs
<1>4. Continues(F, F2, n) /\ Len(F2) = n + 1 /\ F2[n + 1] = fr
  BY DEF OnTop
<1>5. /\ B2[n + 1] = top /\ SameUpTo(B, B2, n) /\ D2[n + 1] = D[n] /\ SameUpTo(D, D2, n)
  BY DEF TopNumber
<1>6. fr.at \in {"left", "operand", "id"} /\ fr.dst = w.dst /\ (fr.at = "id" => fr.count \in 0 .. MaxArgs)
  BY DEF OperatorFrame
<1>7. F2[n] = F[n] /\ B2[n] = B[n] /\ D2[n] = D[n]
  BY <1>2, <1>3, <1>4, <1>5 DEF Continues, SameUpTo
<1>8. Fits(F2, B2, D2, f, n + 1)
  <2>1. n + 1 - 1 = n /\ n + 1 > 1 /\ n + 1 # f
    BY <1>1, <1>2, <1>3
  <2>2. /\ F2[n + 1].at \in Operators /\ Opens(F2[n + 1]) = 0 /\ F2[n + 1].at \in Activations
        /\ F2[n + 1].at \notin Branches \union {"right", "argument", "function"}
    BY <1>4, <1>6 DEF Operators, Opens, Activations, Branches
  <2>3. Asks(F2[n + 1 - 1]) /\ F2[n + 1].dst = Asked(F2[n + 1 - 1], B2[n + 1 - 1])
    BY <1>3, <1>4, <1>6, <1>7, <2>1
  <2>4. B2[n + 1] = B2[n + 1 - 1] + Width(F2[n + 1 - 1])
    BY <1>3, <1>5, <1>7, <2>1
  <2>5. D2[n + 1] = D2[n + 1 - 1] + Opens(F2[n + 1])
    BY <1>2, <1>5, <1>7, <2>1, <2>2
  <2> QED BY ONLY <1>4, <1>6, <2>1, <2>2, <2>3, <2>4, <2>5 DEF Fits
<1>9. PlainTop(F2, D, D2, n, n) /\ TopFits(F2, B2, D2, f, n)
  BY <1>4, <1>5, <1>6, <1>8 DEF PlainTop, TopFits
<1>10. Layout(F2, B2, HeldRegs(Last(C).locals, S), c2.regTop, f, Len(F2))
  <2> DEFINE H == Occupied(C, S)
  <2>1. Layout(F, B, H, top, f, n)
    BY <1>2
  <2>2. Keeps(F[n]) /\ f < n
    <3>1. Keeps(F[n])
      BY <1>3 DEF Keeps, Asks
    <3>2. f # n
      BY <1>2, <1>3, <3>1 DEF Fits, Keeps, Roots, Operators, Branches
    <3> QED BY <1>1, <1>2, <3>1, <3>2
  <2> HIDE DEF H, top
  <2>3. Room(F, B, top, f, n)
    <3>1. B[n] + Width(F[n]) <= top
      BY <1>2, <1>3
    <3> QED BY <1>1, <1>2, <2>1, <2>2, <3>1, RoomAsking
  <2>4. \A i \in 1 .. n : F2[i] = F[i]
    BY <1>4 DEF Continues
  <2>5. top <= top /\ top < c2.regTop /\ c2.regTop \in Nat
    BY <1>2 DEF top
  <2>6. Layout(F2, B2, H, c2.regTop, f, n + 1)
    BY <1>1, <1>2, <1>5, <2>1, <2>3, <2>4, <2>5, LayoutPush
  <2> QED BY <1>4, <2>6 DEF H, Occupied
<1>11. WantedIs(c2, F2, B2, w2)
  <2>1. Asks(F2[n + 1]) /\ Asked(F2[n + 1], B2[n + 1]) = B2[n + 1] /\ Width(F2[n + 1]) = 1
    BY <1>4, <1>6 DEF Asks, Operators, Asked, Width
  <2> QED BY <1>2, <1>4, <1>5, <2>1 DEF WantedIs
<1> QED BY <1>1, <1>2, <1>4, <1>5, <1>9, <1>10, <1>11, Moves

\* The activation on top, when it is no function.
LEMMA TopIs ==
  ASSUME NEW C, NEW F, NEW w, NEW S, NEW f, NEW B, NEW D, Sound(C, F, w, S, f, B, D),
         Len(F) > 0, F[Len(F)].at # "function"
  PROVE  /\ Len(F) - 1 \in Nat /\ f <= Len(F) - 1 /\ f \in Nat /\ Len(F) \in Nat \ {0}
         /\ Len(F) - 1 + 1 = Len(F) /\ Fits(F, B, D, f, Len(F))
         /\ Len(F) > 1 => Len(F) - 1 \in 1 .. Len(F) /\ Len(F) - 1 > 0
<1>1. f \in Nat /\ Current(C, F, w, S, f, B, D)
  BY CurrentIs
<1>2. Len(F) \in Nat /\ f \in 0 .. Len(F) /\ Fits(F, B, D, f, Len(F))
  BY <1>1 DEF Current
<1>3. f # Len(F)
  BY <1>2 DEF Fits
<1> QED BY <1>1, <1>2, <1>3

\* An operator goes on to its next operand.
NextOperand(F, B, fr) ==
  LET n == Len(F)
  IN  /\ F[n].at \in Operators /\ fr.at \in {"right", "argument"} /\ fr.dst = F[n].dst
      /\ fr.at = "right" => fr.reg = B[n]
      /\ fr.at = "argument" => Counted(fr, B[n])

LEMMA OperatorSwapped ==
  ASSUME NEW C, NEW F, NEW w, NEW S, NEW f, NEW B, NEW D, Sound(C, F, w, S, f, B, D),
         Len(F) > 0, NEW fr, NextOperand(F, B, fr), NEW F2, Instead(F, fr, F2),
         NEW c2, NEW C2, Becomes(C, f, c2, C2), SameNames(Last(C), c2),
         w.is = "register", c2.regTop = B[Len(F)] + 2, c2.packOffset = 0,
         NEW w2, w2.is = "expression", w2.dst = Asked(fr, B[Len(F)])
  PROVE  Sound(C2, F2, w2, S, f, B, D)
<1>1. f \in Nat /\ Current(C, F, w, S, f, B, D)
  BY CurrentIs
<1> DEFINE n == Len(F)
           m == Len(F) - 1
           top == Last(C).regTop
           H == Occupied(C, S)
<1>2. /\ n \in Nat /\ Numbers(B) /\ Numbers(D) /\ IsSeq(F) /\ D[n] \in Nat /\ B[n] \in Nat
      /\ Layout(F, B, H, top, f, n) /\ top \in Nat /\ WantedIs(Last(C), F, B, w)
  BY <1>1 DEF Current
<1>3. Asks(F[n]) /\ top = B[n] + Width(F[n]) /\ Width(F[n]) \in {1, 2}
  BY <1>2 DEF WantedIs, Width
<1>4. Continues(F, F2, m) /\ Len(F2) = n /\ F2[n] = fr
  BY DEF Instead
<1>5. /\ F[n].at \in Operators /\ fr.at \in {"right", "argument"} /\ fr.dst = F[n].dst
      /\ (fr.at = "right" => fr.reg = B[n]) /\ (fr.at = "argument" => Counted(fr, B[n]))
  BY DEF NextOperand
<1>6. /\ m \in Nat /\ f <= m /\ n \in Nat \ {0} /\ m + 1 = n /\ Fits(F, B, D, f, n)
      /\ (n > 1 => m \in 1 .. n /\ m > 0)
  <2>1. F[n].at # "function"
    BY <1>5 DEF Operators
  <2> QED BY <2>1, TopIs
<1>7. SameUpTo(B, B, m) /\ SameUpTo(D, D, m) /\ \A i \in 1 .. m : F2[i] = F[i]
  BY <1>2, <1>4, <1>6, SameIs DEF Continues
<1>8. Fits(F2, B, D, f, n)
  <2>1. /\ n > 1 /\ Asks(F[n - 1]) /\ F[n].dst = Asked(F[n - 1], B[n - 1])
        /\ B[n] = B[n - 1] + Width(F[n - 1]) /\ D[n] = D[n - 1] + Opens(F[n]) /\ ~ (n = f)
    BY <1>5, <1>6 DEF Fits
  <2>2. F2[n - 1] = F[n - 1]
    BY <1>6, <1>7, <2>1
  <2>3. /\ fr.at \in Operators /\ fr.at \in Activations /\ fr.at # "function" /\ fr.at \notin Branches
        /\ fr.at # "id" /\ Opens(fr) = Opens(F[n])
    BY <1>5 DEF Operators, Activations, Branches, Opens
  <2> QED BY ONLY <1>4, <1>5, <2>1, <2>2, <2>3 DEF Fits
<1>9. PlainTop(F2, D, D, n, m) /\ TopFits(F2, B, D, f, m)
  BY <1>4, <1>5, <1>6, <1>8 DEF PlainTop, TopFits
<1> HIDE DEF H
<1>10. Layout(F2, B, H, c2.regTop, f, n)
  <2>1. Layout(F, B, H, top, f, m)
    <3>1. \A i \in f + 1 .. m : i \in f + 1 .. n
      BY <1>1, <1>6
    <3> QED BY <1>2, <3>1 DEF Layout
  <2>2. c2.regTop \in Nat /\ top <= c2.regTop /\ H \in SUBSET H
    BY <1>2, <1>3
  <2> HIDE DEF top
  <2>3. Layout(F2, B, H, c2.regTop, f, m)
    <3> HIDE DEF m
    <3> QED BY <1>1, <1>2, <1>6, <1>7, <2>1, <2>2, LayoutGrows
  <2>4. Above(F2, B, H, c2.regTop, f, m)
    <3>0. n \in f + 1 .. n /\ Keeps(F[n]) /\ B[n] < c2.regTop
      BY <1>1, <1>2, <1>3, <1>6 DEF Keeps, Asks
    <3>1. B[n] \notin H /\ \A r \in H : r < B[n]
      BY <1>2, <1>3, <3>0 DEF Layout
    <3>2. \A i \in f + 1 .. m : Keeps(F2[i]) => B[i] + Width(F2[i]) <= B[n]
      <4>1. ASSUME NEW i \in f + 1 .. m PROVE F2[i] = F[i] /\ i \in f + 1 .. n /\ i < n
        BY <1>1, <1>6, <1>7
      <4> QED BY <1>2, <3>0, <4>1 DEF Layout
    <3> QED BY <1>6, <3>0, <3>1, <3>2 DEF Above
  <2>5. Layout(F2, B, H, c2.regTop, f, m + 1)
    <3> HIDE DEF m
    <3> QED BY <1>1, <1>6, <2>3, <2>4, LayoutUp
  <2> QED BY <1>6, <2>5
<1>11. Layout(F2, B, HeldRegs(Last(C).locals, S), c2.regTop, f, Len(F2))
  BY <1>4, <1>10 DEF H, Occupied
<1>12. WantedIs(c2, F2, B, w2)
  <2>1. Asks(fr) /\ Width(fr) = 2
    BY <1>5 DEF Asks, Operators, Width
  <2> QED BY <1>2, <1>4, <1>6, <2>1 DEF WantedIs
<1> HIDE DEF m
<1> QED BY <1>1, <1>4, <1>6, <1>7, <1>9, <1>11, <1>12, Moves

\* An operator has its value.
LEMMA OperatorPopped ==
  ASSUME NEW C, NEW F, NEW w, NEW S, NEW f, NEW B, NEW D, Sound(C, F, w, S, f, B, D),
         Len(F) > 0, F[Len(F)].at \in Operators, NEW F2, Without(F, F2),
         NEW c2, NEW C2, Becomes(C, f, c2, C2), SameNames(Last(C), c2),
         c2.regTop = B[Len(F)], c2.packOffset = 0,
         NEW w2, w2.is = "register", w2.reg = F[Len(F)].dst
  PROVE  Sound(C2, F2, w2, S, f, B, D)
<1>1. f \in Nat /\ Current(C, F, w, S, f, B, D)
  BY CurrentIs
<1> DEFINE n == Len(F)
           m == Len(F) - 1
           top == Last(C).regTop
           H == Occupied(C, S)
<1>2. /\ n \in Nat /\ Numbers(B) /\ Numbers(D) /\ IsSeq(F) /\ D[n] \in Nat /\ B[n] \in Nat
      /\ Layout(F, B, H, top, f, n) /\ top \in Nat /\ WantedIs(Last(C), F, B, w)
  BY <1>1 DEF Current
<1>4. Continues(F, F2, m) /\ Len(F2) = m
  BY DEF Without
<1>5. F[n].at # "function" /\ Asks(F[n]) /\ Keeps(F[n]) /\ Opens(F[n]) = 0
  BY DEF Operators, Asks, Keeps, Opens
<1>6. /\ m \in Nat /\ f <= m /\ n \in Nat \ {0} /\ m + 1 = n /\ Fits(F, B, D, f, n)
      /\ (n > 1 => m \in 1 .. n /\ m > 0)
  BY <1>5, TopIs
<1>7. SameUpTo(B, B, m) /\ SameUpTo(D, D, m) /\ \A i \in 1 .. m : F2[i] = F[i]
  BY <1>2, <1>4, <1>6, SameIs DEF Continues
<1>8. /\ n > 1 /\ Asks(F[m]) /\ F[n].dst = Asked(F[m], B[m])
      /\ B[n] = B[m] + Width(F[m]) /\ D[n] = D[m] + 0
  BY <1>5, <1>6 DEF Fits
<1>9. PlainTop(F2, D, D, n, m) /\ TopFits(F2, B, D, f, m)
  <2>1. D[m] \in Nat
    BY <1>2, <1>6 DEF Numbers
  <2> QED BY <1>4, <1>6, <1>8, <2>1 DEF PlainTop, TopFits
<1> HIDE DEF H
<1>10. Layout(F2, B, H, c2.regTop, f, m)
  <2>1. Layout(F, B, H, top, f, m + 1) /\ Keeps(F[m + 1]) /\ Asks(F[m + 1])
    BY <1>2, <1>5, <1>6
  <2>2. c2.regTop \in Nat /\ c2.regTop >= B[m + 1] /\ H \in SUBSET H
    BY <1>2, <1>6
  <2> HIDE DEF top, m
  <2> QED BY <1>1, <1>2, <1>6, <1>7, <2>1, <2>2, LayoutDown
<1>11. Layout(F2, B, HeldRegs(Last(C).locals, S), c2.regTop, f, Len(F2))
  BY <1>4, <1>10 DEF H, Occupied
<1>12. WantedIs(c2, F2, B, w2)
  <2>1. F2[m] = F[m]
    BY <1>6, <1>7, <1>8
  <2> QED BY <1>4, <1>6, <1>8, <2>1 DEF WantedIs
<1> HIDE DEF m
<1> QED BY <1>1, <1>4, <1>6, <1>7, <1>9, <1>11, <1>12, Moves

\* No activation of the current function waits for an expression.
LEMMA Idle ==
  ASSUME NEW C, NEW F, NEW w, NEW S, NEW f, NEW B, NEW D, Sound(C, F, w, S, f, B, D),
         w.is \notin {"expression", "register"}
  PROVE  /\ \A i \in f + 1 .. Len(F) : ~ Asks(F[i])
         /\ Len(F) > 0 => ~ Asks(F[Len(F)])
<1>1. f \in Nat /\ Current(C, F, w, S, f, B, D) /\ Stacked(F, B, D, f)
  BY CurrentIs DEF Sound
<1>2. Len(F) \in Nat /\ f \in 0 .. Len(F) /\ WantedIs(Last(C), F, B, w)
  BY <1>1 DEF Current
<1>3. Len(F) > 0 => ~ Asks(F[Len(F)])
  BY <1>2 DEF WantedIs
<1>4. ASSUME NEW i \in f + 1 .. Len(F), Asks(F[i]) PROVE FALSE
  <2>1. i \in 1 .. Len(F) /\ Len(F) \in 1 .. Len(F) /\ i <= Len(F) /\ Len(F) > 0
    BY <1>2
  <2>2. Asks(F[Len(F)])
    BY <1>1, <1>4, <2>1 DEF Stacked
  <2> QED BY <1>3, <2>1, <2>2
<1> QED BY <1>3, <1>4

\* A statement asks for an expression.
LEMMA RootPushed ==
  ASSUME NEW C, NEW F, NEW w, NEW S, NEW f, NEW B, NEW D, Sound(C, F, w, S, f, B, D),
         w.is \notin {"expression", "register"}, NEW fr, fr.at \in Roots \ {"var"},
         NEW F2, OnTop(F, fr, F2),
         NEW c2, NEW C2, Becomes(C, f, c2, C2), SameNames(Last(C), c2),
         NEW r \in Nat, Last(C).regTop <= r, c2.regTop = r + 1, c2.packOffset = 0,
         NEW w2, w2.is = "expression", w2.dst = r,
         NEW B2, TopNumber(B, B2, Len(F), r),
         NEW D2, TopNumber(D, D2, Len(F), D[Len(F)])
  PROVE  Sound(C2, F2, w2, S, f, B2, D2)
<1>1. f \in Nat /\ Current(C, F, w, S, f, B, D)
  BY CurrentIs
<1> DEFINE n == Len(F)
           top == Last(C).regTop
<1>2. /\ n \in Nat /\ f <= n /\ Numbers(B) /\ Numbers(D) /\ IsSeq(F) /\ D[n] \in Nat /\ B[n] \in Nat
      /\ Layout(F, B, Occupied(C, S), top, f, n) /\ top \in Nat
  BY <1>1 DEF Current
<1>3. (\A i \in f + 1 .. n : ~ Asks(F[i])) /\ (n > 0 => ~ Asks(F[n]))
  BY Idle
<1>4. Continues(F, F2, n) /\ Len(F2) = n + 1 /\ F2[n + 1] = fr
  BY DEF OnTop
<1>5. /\ B2[n + 1] = r /\ SameUpTo(B, B2, n) /\ D2[n + 1] = D[n] /\ SameUpTo(D, D2, n)
  BY DEF TopNumber
<1>7. n > 0 => F2[n] = F[n]
  BY <1>2, <1>4 DEF Continues
<1>8. Fits(F2, B2, D2, f, n + 1)
  <2>1. n + 1 - 1 = n /\ n + 1 # f /\ (n + 1 > 1 => n > 0)
    BY <1>1, <1>2
  <2>2. /\ F2[n + 1].at \notin Operators /\ Opens(F2[n + 1]) = 0 /\ F2[n + 1].at \in Activations
        /\ F2[n + 1].at \notin Branches \union {"right", "argument", "function", "id"}
    BY <1>4 DEF Operators, Opens, Activations, Branches, Roots
  <2>3. n + 1 > 1 => ~ Asks(F2[n + 1 - 1])
    BY <1>3, <1>7, <2>1
  <2>5. D2[n + 1] = D2[n + 1 - 1] + Opens(F2[n + 1])
    <3>1. D2[n] = D[n]
      BY <1>2, <1>5 DEF SameUpTo
    <3> QED BY <1>2, <1>5, <2>1, <2>2, <3>1
  <2> QED BY ONLY <2>1, <2>2, <2>3, <2>5 DEF Fits
<1>9. PlainTop(F2, D, D2, n, n) /\ TopFits(F2, B2, D2, f, n)
  BY <1>4, <1>5, <1>8 DEF PlainTop, TopFits, Roots
<1>10. Layout(F2, B2, HeldRegs(Last(C).locals, S), c2.regTop, f, Len(F2))
  <2> DEFINE H == Occupied(C, S)
  <2>1. Layout(F, B, H, top, f, n)
    BY <1>2
  <2> HIDE DEF H, top
  <2>3. Room(F, B, top, f, n)
    BY <1>1, <1>2, <1>3, <2>1, RoomIdle
  <2>4. \A i \in 1 .. n : F2[i] = F[i]
    BY <1>4 DEF Continues
  <2>5. top <= r /\ r < c2.regTop /\ c2.regTop \in Nat
    BY DEF top
  <2>6. Layout(F2, B2, H, c2.regTop, f, n + 1)
    BY <1>1, <1>2, <1>5, <2>1, <2>3, <2>4, <2>5, LayoutPush
  <2> QED BY <1>4, <2>6 DEF H, Occupied
<1>11. WantedIs(c2, F2, B2, w2)
  <2>1. Asks(F2[n + 1]) /\ Asked(F2[n + 1], B2[n + 1]) = B2[n + 1] /\ Width(F2[n + 1]) = 1
    BY <1>4 DEF Asks, Roots, Asked, Width
  <2> QED BY <1>2, <1>4, <1>5, <2>1 DEF WantedIs
<1> QED BY <1>1, <1>2, <1>4, <1>5, <1>9, <1>10, <1>11, Moves

\* A condition becomes the first branch, and that one the second.
NextBranch(F, B, fr) ==
  F[Len(F)].at \in {"condition", "then"} /\ fr.at \in Branches /\ fr.reg = B[Len(F)]

LEMMA BranchSwapped ==
  ASSUME NEW C, NEW F, NEW w, NEW S, NEW f, NEW B, NEW D, Sound(C, F, w, S, f, B, D),
         Len(F) > 0, NEW fr, NextBranch(F, B, fr), NEW F2, Instead(F, fr, F2),
         NEW c2, NEW C2, Becomes(C, f, c2, C2), SameNames(Last(C), c2), SameTop(Last(C), c2),
         NEW w2, w2.is \notin {"expression", "register"}
  PROVE  Sound(C2, F2, w2, S, f, B, D)
<1>1. f \in Nat /\ Current(C, F, w, S, f, B, D)
  BY CurrentIs
<1> DEFINE n == Len(F)
           m == Len(F) - 1
           top == Last(C).regTop
           H == Occupied(C, S)
<1>2. /\ n \in Nat /\ Numbers(B) /\ Numbers(D) /\ IsSeq(F) /\ D[n] \in Nat /\ B[n] \in Nat
      /\ Layout(F, B, H, top, f, n) /\ top \in Nat /\ c2.regTop = top
  BY <1>1 DEF Current, SameTop
<1>4. Continues(F, F2, m) /\ Len(F2) = n /\ F2[n] = fr
  BY DEF Instead
<1>5. F[n].at \in {"condition", "then"} /\ fr.at \in Branches /\ fr.reg = B[n]
  BY DEF NextBranch
<1>6. /\ m \in Nat /\ f <= m /\ n \in Nat \ {0} /\ m + 1 = n /\ Fits(F, B, D, f, n)
      /\ (n > 1 => m \in 1 .. n /\ m > 0)
  BY <1>5, TopIs
<1>7. SameUpTo(B, B, m) /\ SameUpTo(D, D, m) /\ \A i \in 1 .. m : F2[i] = F[i]
  BY <1>2, <1>4, <1>6, SameIs DEF Continues
<1>8. Fits(F2, B, D, f, n)
  <2>1. ~ (n > 1 /\ Asks(F[n - 1])) /\ D[n] = D[n - 1] + Opens(F[n]) /\ ~ (n = f)
    BY <1>5, <1>6 DEF Fits, Operators, Branches
  <2>2. n > 1 => F2[n - 1] = F[n - 1]
    BY <1>6, <1>7
  <2>3. /\ fr.at \notin Operators /\ fr.at \in Activations
        /\ fr.at \notin {"id", "function", "argument", "right"} /\ Opens(fr) = Opens(F[n])
    BY <1>5 DEF Operators, Activations, Branches, Opens
  <2> QED BY ONLY <1>4, <1>5, <2>1, <2>2, <2>3 DEF Fits
<1>9. PlainTop(F2, D, D, n, m) /\ TopFits(F2, B, D, f, m)
  BY <1>4, <1>5, <1>6, <1>8 DEF PlainTop, TopFits, Branches
<1>10. Layout(F2, B, H, top, f, n)
  <2>1. Keeps(F[n]) /\ ~ Asks(F2[n]) /\ \A i \in f + 1 .. n : i < n => i \in 1 .. m
    BY <1>1, <1>4, <1>5, <1>6 DEF Keeps, Asks, Branches, Roots, Operators
  <2>2. ASSUME NEW i \in f + 1 .. n
        PROVE  /\ (Keeps(F2[i]) <=> Keeps(F[i])) /\ (Asks(F2[i]) => Asks(F[i]))
               /\ i # n => F2[i] = F[i]
    BY <1>4, <1>5, <1>6, <1>7, <2>1 DEF Keeps, Asks
  <2> HIDE DEF top, H, m
  <2>3. ASSUME NEW i \in f + 1 .. n, NEW j \in f + 1 .. n, i < j, Keeps(F2[i]), Keeps(F2[j])
        PROVE  B[i] + Width(F2[i]) <= B[j]
    <3>1. i # n /\ Keeps(F[i]) /\ Keeps(F[j]) /\ F2[i] = F[i]
      BY <1>2, <2>2, <2>3
    <3> QED BY <1>2, <2>3, <3>1 DEF Layout
  <2> QED BY <1>2, <2>2, <2>3 DEF Layout
<1>11. Layout(F2, B, HeldRegs(Last(C).locals, S), c2.regTop, f, Len(F2))
  BY <1>2, <1>4, <1>10 DEF H, Occupied
<1>12. WantedIs(c2, F2, B, w2)
  <2>1. ~ Asks(fr)
    BY <1>5 DEF Asks, Branches, Roots, Operators
  <2> QED BY <1>4, <1>6, <2>1 DEF WantedIs
<1> HIDE DEF m
<1> QED BY <1>1, <1>4, <1>6, <1>7, <1>9, <1>11, <1>12, Moves

\* A statement is complete.
Freed(C, F, B, c2) ==
  LET n == Len(F)
  IN  \/ F[n].at \in {"print", "global"} /\ c2.regTop = B[n]
      \/ F[n].at = "else" /\ c2.regTop = B[n] /\ Last(C).regTop = B[n] + 1
      \/ F[n].at = "else" /\ c2.regTop = Last(C).regTop

LEMMA StatementPopped ==
  ASSUME NEW C, NEW F, NEW w, NEW S, NEW f, NEW B, NEW D, Sound(C, F, w, S, f, B, D),
         Len(F) > 0, NEW F2, Without(F, F2),
         NEW c2, NEW C2, Becomes(C, f, c2, C2), SameNames(Last(C), c2), Freed(C, F, B, c2),
         NEW w2, w2.is \notin {"expression", "register"}
  PROVE  Sound(C2, F2, w2, S, f, B, D)
<1>1. f \in Nat /\ Current(C, F, w, S, f, B, D)
  BY CurrentIs
<1> DEFINE n == Len(F)
           m == Len(F) - 1
           top == Last(C).regTop
           H == Occupied(C, S)
<1>2. /\ n \in Nat /\ Numbers(B) /\ Numbers(D) /\ IsSeq(F) /\ D[n] \in Nat /\ B[n] \in Nat
      /\ Layout(F, B, H, top, f, n) /\ top \in Nat
  BY <1>1 DEF Current
<1>4. Continues(F, F2, m) /\ Len(F2) = m
  BY DEF Without
<1>5. /\ F[n].at # "function" /\ Keeps(F[n]) /\ Opens(F[n]) = 0 /\ F[n].at \notin Operators
      /\ (F[n].at # "else" => Asks(F[n])) /\ F[n].at \in {"print", "global", "else"}
  BY DEF Freed, Operators, Asks, Keeps, Opens, Roots, Branches
<1>6. /\ m \in Nat /\ f <= m /\ n \in Nat \ {0} /\ m + 1 = n /\ Fits(F, B, D, f, n)
      /\ (n > 1 => m \in 1 .. n /\ m > 0)
  BY <1>5, TopIs
<1>7. SameUpTo(B, B, m) /\ SameUpTo(D, D, m) /\ \A i \in 1 .. m : F2[i] = F[i]
  BY <1>2, <1>4, <1>6, SameIs DEF Continues
<1>8. (n > 1 => ~ Asks(F[m])) /\ D[n] = D[m] + 0
  BY <1>5, <1>6 DEF Fits
<1>9. PlainTop(F2, D, D, n, m) /\ TopFits(F2, B, D, f, m)
  <2>1. D[m] \in Nat
    BY <1>2, <1>6 DEF Numbers
  <2> QED BY <1>4, <1>6, <1>8, <2>1 DEF PlainTop, TopFits
<1>13. c2.regTop \in Nat
  BY DEF Becomes, Compiler
<1> HIDE DEF H
<1>10. Layout(F2, B, H, c2.regTop, f, m)
  <2>1. CASE c2.regTop = B[n] /\ (Asks(F[n]) \/ top = B[n] + 1)
    <3>1. Layout(F, B, H, top, f, m + 1) /\ Keeps(F[m + 1])
      BY <1>2, <1>5, <1>6
    <3>2. Asks(F[m + 1]) \/ \A r \in H : r < B[m + 1]
      <4>1. n \in f + 1 .. n
        BY <1>1, <1>6
      <4>2. B[n] \notin H /\ \A r \in H : r \in Nat /\ r < top
        BY <1>2, <1>5, <4>1 DEF Layout
      <4>3. ASSUME NEW r \in H, top = B[n] + 1 PROVE r < B[n]
        BY <1>2, <4>2, <4>3
      <4> QED BY <1>6, <2>1, <4>3
    <3>3. c2.regTop >= B[m + 1] /\ H \in SUBSET H
      BY <1>2, <1>6, <2>1
    <3> HIDE DEF top, m
    <3> QED BY <1>1, <1>2, <1>6, <1>7, <1>13, <3>1, <3>2, <3>3, LayoutDown
  <2>2. CASE c2.regTop = top
    <3>1. Layout(F, B, H, top, f, m)
      <4>1. \A i \in f + 1 .. m : i \in f + 1 .. n
        BY <1>1, <1>6
      <4> QED BY <1>2, <4>1 DEF Layout
    <3>2. top <= c2.regTop /\ H \in SUBSET H
      BY <1>2, <2>2
    <3> HIDE DEF top, m
    <3> QED BY <1>1, <1>2, <1>6, <1>7, <1>13, <3>1, <3>2, LayoutGrows
  <2> QED BY <1>5, <2>1, <2>2 DEF Freed
<1>11. Layout(F2, B, HeldRegs(Last(C).locals, S), c2.regTop, f, Len(F2))
  BY <1>4, <1>10 DEF H, Occupied
<1>12. WantedIs(c2, F2, B, w2)
  <2>1. m > 0 => n > 1 /\ F2[m] = F[m]
    BY <1>6, <1>7
  <2>2. ~ (Len(F2) > 0 /\ Asks(F2[Len(F2)]))
    BY <1>4, <1>8, <2>1
  <2> QED BY <2>2 DEF WantedIs
<1> HIDE DEF m
<1> QED BY <1>1, <1>4, <1>6, <1>7, <1>9, <1>11, <1>12, Moves

----------------------------------------
(* Scopes. *)

FewerValued(S, S2) == \A x : Valued(S2, x) => Valued(S, x)

FewerIn(L, S, S2) == \A i \in DOMAIN L : Valued(S2, L[i].name) => Valued(S, L[i].name)

LEMMA FewerNames ==
  ASSUME NEW L, NEW S, NEW S2, FewerIn(L, S, S2)
  PROVE  /\ HeldRegs(L, S2) \in SUBSET HeldRegs(L, S)
         /\ Distinct(L, S) => Distinct(L, S2)
<1>1. \A i \in HeldIn(L, S2) : i \in HeldIn(L, S)
  BY DEF HeldIn, FewerIn
<1>2. HeldRegs(L, S2) \in SUBSET HeldRegs(L, S)
  BY <1>1 DEF HeldRegs
<1> QED BY <1>1, <1>2 DEF Distinct

LEMMA Fewer ==
  ASSUME NEW L, NEW S, NEW S2, FewerValued(S, S2)
  PROVE  /\ HeldRegs(L, S2) \in SUBSET HeldRegs(L, S)
         /\ Distinct(L, S) => Distinct(L, S2)
BY FewerNames DEF FewerValued, FewerIn

OpensScope(S, S2) ==
  /\ IsSeq(S2) /\ Len(S) \in Nat /\ Len(S2) = Len(S) + 1 /\ DOMAIN S2 = 1 .. Len(S) + 1
  /\ DOMAIN S = 1 .. Len(S) /\ (\A s \in 1 .. Len(S) : S2[s] = S[s])
  /\ DOMAIN S2[Len(S) + 1] = {} /\ FewerValued(S, S2) /\ FewerValued(S2, S)
  /\ Scoped(S) => Scoped(S2)

LEMMA Opening ==
  ASSUME NEW S, IsSeq(S), NEW S2, S2 = Append(S, Empty)
  PROVE  OpensScope(S, S2)
<1>1. /\ IsSeq(S2) /\ Len(S) \in Nat /\ Len(S2) = Len(S) + 1 /\ DOMAIN S = 1 .. Len(S)
      /\ (\A s \in 1 .. Len(S) : S2[s] = S[s]) /\ S2[Len(S) + 1] = Empty
  BY AppendIs, SeqFacts
<1>2. DOMAIN S2 = 1 .. Len(S) + 1
  BY <1>1, SeqFacts
<1>3. DOMAIN S2[Len(S) + 1] = {}
  BY <1>1 DEF Empty
<1>4. \A s \in 1 .. Len(S) + 1 : s \in 1 .. Len(S) \/ s = Len(S) + 1
  BY <1>1
<1>5. FewerValued(S, S2)
  BY <1>1, <1>2, <1>3, <1>4 DEF FewerValued, Valued
<1>6. FewerValued(S2, S)
  <2>1. \A s \in 1 .. Len(S) : s \in 1 .. Len(S) + 1
    BY <1>1
  <2> QED BY <1>1, <1>2, <2>1 DEF FewerValued, Valued
<1>7. Scoped(S) => Scoped(S2)
  BY <1>1, <1>2, <1>3, <1>4 DEF Scoped
<1> QED BY <1>1, <1>2, <1>3, <1>5, <1>6, <1>7 DEF OpensScope

ClosesScope(S, S2) ==
  /\ IsSeq(S2) /\ Len(S) \in Nat \ {0} /\ Len(S2) = Len(S) - 1 /\ DOMAIN S2 = 1 .. Len(S) - 1
  /\ DOMAIN S = 1 .. Len(S) /\ (\A s \in 1 .. Len(S) - 1 : S2[s] = S[s])
  /\ FewerValued(S, S2) /\ (Scoped(S) => Scoped(S2))

LEMMA Closing ==
  ASSUME NEW S, IsSeq(S), Len(S) > 0, NEW S2, S2 = Front(S)
  PROVE  ClosesScope(S, S2)
<1>1. S # <<>>
  BY EmptySeq
<1>2. /\ IsSeq(S2) /\ Len(S) \in Nat \ {0} /\ Len(S2) = Len(S) - 1 /\ DOMAIN S = 1 .. Len(S)
      /\ (\A s \in 1 .. Len(S) - 1 : S2[s] = S[s])
  BY <1>1, Popped, SeqFacts DEF Continues
<1>3. DOMAIN S2 = 1 .. Len(S) - 1
  BY <1>2, SeqFacts
<1>4. \A s \in 1 .. Len(S) - 1 : s \in 1 .. Len(S)
  BY <1>2
<1>5. FewerValued(S, S2)
  BY <1>2, <1>3, <1>4 DEF FewerValued, Valued
<1>6. Scoped(S) => Scoped(S2)
  BY <1>2, <1>3, <1>4 DEF Scoped
<1> QED BY <1>2, <1>3, <1>5, <1>6 DEF ClosesScope

Binds(S, S2, x, v) ==
  /\ IsSeq(S2) /\ Len(S) \in Nat \ {0} /\ Len(S2) = Len(S) /\ DOMAIN S2 = 1 .. Len(S)
  /\ DOMAIN S = 1 .. Len(S) /\ (\A s \in 1 .. Len(S) - 1 : S2[s] = S[s])
  /\ DOMAIN S2[Len(S)] = DOMAIN S[Len(S)] \union {x} /\ S2[Len(S)][x] = v
  /\ \A y \in DOMAIN S[Len(S)] : y # x => S2[Len(S)][y] = S[Len(S)][y]

LEMMA Binding ==
  ASSUME NEW S, IsSeq(S), Len(S) > 0, NEW x, NEW v, NEW S2, S2 = Append(Front(S), With(Last(S), x, v))
  PROVE  Binds(S, S2, x, v)
<1>1. S # <<>>
  BY EmptySeq
<1>2. /\ Continues(S, S2, Len(S) - 1) /\ Len(S2) = Len(S) /\ S2[Len(S)] = With(Last(S), x, v)
      /\ Len(S) \in Nat \ {0} /\ Last(S) = S[Len(S)]
  BY <1>1, Swapped
<1>3. DOMAIN S2 = 1 .. Len(S) /\ DOMAIN S = 1 .. Len(S) /\ IsSeq(S2)
  BY <1>2, SeqFacts DEF Continues
<1>4. /\ DOMAIN S2[Len(S)] = DOMAIN S[Len(S)] \union {x} /\ S2[Len(S)][x] = v
      /\ \A y \in DOMAIN S[Len(S)] : y # x => S2[Len(S)][y] = S[Len(S)][y]
  BY <1>2 DEF With
<1> QED BY <1>2, <1>3, <1>4 DEF Continues, Binds

\* While a statement is compiled no variable waits for its first value.
LEMMA NoVariable ==
  ASSUME NEW C, NEW F, NEW w, NEW S, NEW f, NEW B, NEW D, Sound(C, F, w, S, f, B, D),
         NEW n \in Nat, n <= Len(F), n > 0 => ~ Asks(F[n])
  PROVE  \A i \in 1 .. n : ~ Asks(F[i]) /\ F[i].at # "var"
<1>1. Stacked(F, B, D, f) /\ Len(F) \in Nat
  BY SeqFacts DEF Sound, Stacked
<1>2. ASSUME NEW i \in 1 .. n PROVE ~ Asks(F[i])
  <2>1. i \in 1 .. Len(F) /\ n \in 1 .. Len(F) /\ i <= n /\ n > 0
    BY <1>1
  <2> QED BY <1>1, <2>1 DEF Stacked
<1> QED BY <1>2 DEF Asks, Roots

\* The names of the variables and the depth outside a function stay.
SameLocals(C, C2) ==
  /\ Len(C2) = Len(C) /\ \A k \in 1 .. Len(C) : C2[k].locals = C[k].locals
  /\ Len(C) = 2 => C2[1] = C[1]

LEMMA LocalsStay ==
  ASSUME NEW C, NEW f \in Nat, Chain(C, f), NEW c2, NEW C2, Becomes(C, f, c2, C2),
         c2.locals = Last(C).locals
  PROVE  SameLocals(C, C2)
<1>1. /\ Len(C2) = Len(C) /\ Last(C2) = c2 /\ C2[Len(C)] = c2
      /\ Last(C) = C[Len(C)] /\ Len(C) \in {1, 2} /\ \A k \in 1 .. Len(C) - 1 : C2[k] = C[k]
  BY DEF Becomes
<1>2. \A k \in 1 .. Len(C) : k = Len(C) \/ k \in 1 .. Len(C) - 1
  BY <1>1
<1>3. Len(C) = 2 => 1 \in 1 .. Len(C) - 1
  OBVIOUS
<1> QED BY <1>1, <1>2, <1>3 DEF SameLocals

\* Names after a scope was opened or closed.
ScopesStay(S, S2) ==
  /\ IsSeq(S2) /\ Scoped(S2)
  /\ \A s \in DOMAIN S2 : DOMAIN S2[s] = {} \/ (s \in DOMAIN S /\ DOMAIN S2[s] = DOMAIN S[s])
DepthIs(c, D, f, n) == c.scopeDepth = IF f = 0 THEN D[n] ELSE D[n] - D[f] + 2

LEMMA NamingStays ==
  ASSUME NEW C, NEW S, NEW D, NEW f \in Nat, NEW n \in Nat, Naming(C, S, D, f, n), Chain(C, f),
         NEW C2, SameLocals(C, C2), NEW S2, ScopesStay(S, S2),
         NEW D2, NEW n2 \in Nat, Len(S2) = D2[n2], D2[f] = D[f], DepthIs(Last(C2), D2, f, n2)
  PROVE  Naming(C2, S2, D2, f, n2)
<1>1. Len(C2) = Len(C) /\ (\A k \in 1 .. Len(C) : C2[k].locals = C[k].locals) /\ (Len(C) = 2 => C2[1] = C[1])
  BY DEF SameLocals
<1>2. Len(C) = IF f = 0 THEN 1 ELSE 2
  BY DEF Chain
<1>3. \A k \in 1 .. Len(C2) : Once(C2[k].locals)
  BY <1>1 DEF Naming
<1>4. f > 0 => \A i \in DOMAIN C2[1].locals, j \in DOMAIN C2[2].locals :
                 C2[1].locals[i].name # C2[2].locals[j].name
  <2>1. f > 0 => C2[1].locals = C[1].locals /\ C2[2].locals = C[2].locals
    <3>1. Len(C) = 2 => 1 \in 1 .. Len(C) /\ 2 \in 1 .. Len(C)
      OBVIOUS
    <3>2. f > 0 => Len(C) = 2
      BY <1>2
    <3> QED BY ONLY <1>1, <3>1, <3>2
  <2>2. f > 0 => \A i \in DOMAIN C[1].locals, j \in DOMAIN C[2].locals :
                   C[1].locals[i].name # C[2].locals[j].name
    BY DEF Naming
  <2> QED BY ONLY <2>1, <2>2
<1>5. ASSUME NEW s \in DOMAIN S2, NEW x \in DOMAIN S2[s] PROVE Declares(C2[OwnerOf(s, f, D2)], x)
  <2>1. s \in DOMAIN S /\ x \in DOMAIN S[s]
    BY <1>5 DEF ScopesStay
  <2>2. OwnerOf(s, f, D2) = OwnerOf(s, f, D)
    BY DEF OwnerOf
  <2>3. OwnerOf(s, f, D) \in 1 .. Len(C)
    BY <1>2 DEF OwnerOf
  <2>4. Declares(C[OwnerOf(s, f, D)], x)
    BY <2>1 DEF Naming
  <2>5. C2[OwnerOf(s, f, D)].locals = C[OwnerOf(s, f, D)].locals
    BY <1>1, <2>3
  <2> QED BY <2>2, <2>4, <2>5 DEF Declares
<1>6. f > 0 => C2[1].scopeDepth = D2[f] - 1
  BY <1>1, <1>2 DEF Naming
<1> QED BY <1>3, <1>4, <1>5, <1>6 DEF Naming, ScopesStay, DepthIs

\* The registers outside a function stay while variables only go.
LEMMA OutsideKept ==
  ASSUME NEW C, NEW S, NEW F, NEW B, Numbers(B), NEW f \in Nat, NEW m \in Nat, Registers(C, S, F, B, f),
         Chain(C, f), f <= m + 1, f > 0, NEW S2, FewerIn(C[1].locals, S, S2),
         NEW F2, NEW B2, \A i \in 1 .. m : F2[i] = F[i], SameUpTo(B, B2, m)
  PROVE  /\ Layout(F2, B2, HeldRegs(C[1].locals, S2), C[1].regTop, 0, f - 1)
         /\ Distinct(C[1].locals, S2)
<1> DEFINE H == HeldRegs(C[1].locals, S)
           H2 == HeldRegs(C[1].locals, S2)
           top == C[1].regTop
<1>1. Layout(F, B, H, top, 0, f - 1) /\ Distinct(C[1].locals, S)
  BY DEF Registers
<1>2. H2 \in SUBSET H /\ Distinct(C[1].locals, S2)
  BY <1>1, FewerNames
<1>3. f - 1 \in Nat /\ \A i \in 1 .. f - 1 : F2[i] = F[i]
  OBVIOUS
<1>4. SameUpTo(B, B2, f - 1)
  BY DEF SameUpTo
<1>5. top \in Nat /\ top <= top
  BY DEF Chain, Compiler
<1> HIDE DEF H, H2, top
<1>6. Layout(F2, B2, H2, top, 0, f - 1)
  <2>1. 0 \in Nat
    OBVIOUS
  <2> QED BY <1>1, <1>2, <1>3, <1>4, <1>5, <2>1, LayoutGrows
<1> QED BY <1>2, <1>6 DEF H2, top

LEMMA OutsideStays ==
  ASSUME NEW C, NEW S, NEW F, NEW B, Numbers(B), NEW f \in Nat, NEW m \in Nat, Registers(C, S, F, B, f),
         Chain(C, f), f <= m + 1, f > 0, NEW S2, FewerValued(S, S2),
         NEW F2, NEW B2, \A i \in 1 .. m : F2[i] = F[i], SameUpTo(B, B2, m)
  PROVE  /\ Layout(F2, B2, HeldRegs(C[1].locals, S2), C[1].regTop, 0, f - 1)
         /\ Distinct(C[1].locals, S2)
<1>1. FewerIn(C[1].locals, S, S2)
  BY DEF FewerIn, FewerValued
<1> QED BY <1>1, OutsideKept

\* A block begins.
LEMMA BlockPushed ==
  ASSUME NEW C, NEW F, NEW w, NEW S, NEW f, NEW B, NEW D, Sound(C, F, w, S, f, B, D),
         w.is \notin {"expression", "register"}, NEW fr, fr.at = "block",
         NEW F2, OnTop(F, fr, F2), NEW c2, NEW C2, Becomes(C, f, c2, C2),
         c2.locals = Last(C).locals, c2.regTop = Last(C).regTop,
         c2.scopeDepth = Last(C).scopeDepth + 1,
         NEW S2, OpensScope(S, S2), NEW w2, w2.is \notin {"expression", "register"},
         NEW D2, TopNumber(D, D2, Len(F), D[Len(F)] + 1)
  PROVE  Sound(C2, F2, w2, S2, f, B, D2)
<1>1. f \in Nat /\ Current(C, F, w, S, f, B, D)
  BY CurrentIs
<1> DEFINE n == Len(F)
           top == Last(C).regTop
           L == Last(C).locals
<1>2. /\ n \in Nat /\ f <= n /\ Numbers(B) /\ Numbers(D) /\ IsSeq(F) /\ D[n] \in Nat /\ B[n] \in Nat
      /\ Layout(F, B, Occupied(C, S), top, f, n) /\ top \in Nat
  BY <1>1 DEF Current
<1>3. (\A i \in f + 1 .. n : ~ Asks(F[i])) /\ (n > 0 => ~ Asks(F[n]))
  BY Idle
<1>4. Continues(F, F2, n) /\ Len(F2) = n + 1 /\ F2[n + 1] = fr
  BY DEF OnTop
<1>5. D2[n + 1] = D[n] + 1 /\ SameUpTo(D, D2, n) /\ SameUpTo(B, B, n)
  BY <1>2, SameIs DEF TopNumber
<1>6. \A i \in 1 .. n : F2[i] = F[i]
  BY <1>4 DEF Continues
<1>7. Chain(C, f) /\ Naming(C, S, D, f, n) /\ Registers(C, S, F, B, f)
  BY DEF Sound
<1>8. /\ Chain(C2, f) /\ Len(C2) = Len(C) /\ Last(C2) = c2 /\ (f > 0 => C2[1] = C[1])
  BY DEF Becomes
<1>9. SameLocals(C, C2)
  BY <1>1, <1>7, LocalsStay
<1>10. Fits(F2, B, D2, f, n + 1)
  <2>1. n + 1 - 1 = n /\ n + 1 # f /\ (n + 1 > 1 => n > 0) /\ D2[n] = D[n]
    BY <1>1, <1>2, <1>5 DEF SameUpTo
  <2>2. /\ F2[n + 1].at \notin Operators /\ Opens(F2[n + 1]) = 1 /\ F2[n + 1].at \in Activations
        /\ F2[n + 1].at \notin Branches \union {"right", "argument", "function", "id"}
    BY <1>4 DEF Operators, Opens, Activations, Branches, Roots
  <2>3. n + 1 > 1 => ~ Asks(F2[n + 1 - 1])
    BY <1>3, <1>6, <2>1
  <2>5. D2[n + 1] = D2[n + 1 - 1] + Opens(F2[n + 1])
    BY <1>2, <1>5, <2>1, <2>2
  <2> QED BY ONLY <2>1, <2>2, <2>3, <2>5 DEF Fits
<1>11. Stacked(F2, B, D2, f)
  <2>1. SameFunction(f, f, n) /\ f <= Len(F2) /\ TopFits(F2, B, D2, f, n) /\ Stacked(F, B, D, f)
    BY <1>1, <1>2, <1>4, <1>10 DEF SameFunction, TopFits, Sound
  <2> QED BY <1>1, <1>2, <1>4, <1>5, <2>1, StackMoves
<1>12. /\ IsSeq(S2) /\ Len(S2) = Len(S) + 1 /\ DOMAIN S2 = 1 .. Len(S) + 1 /\ Len(S) = D[n]
       /\ DOMAIN S = 1 .. Len(S) /\ (\A s \in 1 .. Len(S) : S2[s] = S[s])
       /\ DOMAIN S2[Len(S) + 1] = {} /\ FewerValued(S, S2) /\ Scoped(S2)
  <2>1. IsSeq(S) /\ Len(S) = D[n] /\ Scoped(S)
    BY <1>7 DEF Naming
  <2> QED BY <2>1 DEF OpensScope
<1>13. Naming(C2, S2, D2, f, n + 1)
  <2>1. ScopesStay(S, S2)
    <3>1. \A s \in 1 .. Len(S) + 1 : s \in 1 .. Len(S) \/ s = Len(S) + 1
      BY <1>2, <1>12
    <3> QED BY <1>12, <3>1 DEF ScopesStay
  <2>2. Len(S2) = D2[n + 1] /\ D2[f] = D[f] /\ n + 1 \in Nat
    BY <1>1, <1>2, <1>5, <1>12 DEF SameUpTo
  <2>3. DepthIs(Last(C2), D2, f, n + 1)
    <3>1. D[f] \in Nat
      BY <1>1, <1>2 DEF Numbers
    <3> QED BY <1>2, <1>5, <1>7, <1>8, <2>2, <3>1 DEF Naming, DepthIs
  <2> QED BY <1>1, <1>2, <1>7, <1>9, <1>12, <2>1, <2>2, <2>3, NamingStays
<1>14. Registers(C2, S2, F2, B, f)
  <2> DEFINE H == HeldRegs(L, S)
             H2 == HeldRegs(L, S2)
  <2>1. H2 \in SUBSET H /\ Distinct(L, S2)
    BY <1>7, <1>12, Fewer DEF Registers
  <2>2. Layout(F, B, H, top, f, n) /\ top <= c2.regTop /\ c2.regTop \in Nat /\ c2.regTop = top
    BY <1>2 DEF Occupied
  <2>3. Last(C2).locals = L /\ Last(C2).regTop = c2.regTop
    BY <1>8
  <2> HIDE DEF H, H2, top, L
  <2>4. Layout(F2, B, H2, c2.regTop, f, n)
    BY <1>1, <1>2, <1>5, <1>6, <2>1, <2>2, LayoutGrows
  <2>5. Above(F2, B, H2, c2.regTop, f, n)
    BY <1>4 DEF Above, Keeps, Asks, Roots, Operators, Branches
  <2>6. Layout(F2, B, H2, c2.regTop, f, n + 1)
    BY <1>1, <1>2, <2>4, <2>5, LayoutUp
  <2>7. f > 0 => /\ Layout(F2, B, HeldRegs(C2[1].locals, S2), C2[1].regTop, 0, f - 1)
                 /\ Distinct(C2[1].locals, S2)
    <3>1. f <= n + 1
      BY <1>1, <1>2
    <3> QED BY <1>1, <1>2, <1>5, <1>6, <1>7, <1>8, <1>12, <3>1, OutsideStays
  <2> QED BY <1>4, <2>1, <2>3, <2>6, <2>7 DEF Registers, H2
<1>15. Waiting(Last(C2).locals, S2, F2, B, f)
  <2>1. \A i \in 1 .. n : F[i].at # "var"
    BY <1>2, <1>3, NoVariable
  <2>2. \A i \in 1 .. n + 1 : i \in 1 .. n \/ i = n + 1
    BY <1>2
  <2>3. \A i \in 1 .. n + 1 : F2[i].at # "var"
    BY <1>4, <1>6, <2>1, <2>2
  <2> QED BY <1>4, <2>3 DEF Waiting
<1>16. WantedIs(Last(C2), F2, B, w2)
  <2>1. ~ Asks(F2[n + 1])
    BY <1>4 DEF Asks, Roots, Operators
  <2> QED BY <1>4, <2>1 DEF WantedIs
<1> QED BY <1>4, <1>8, <1>11, <1>13, <1>14, <1>15, <1>16 DEF Sound

\* A block ends.
LEMMA BlockPopped ==
  ASSUME NEW C, NEW F, NEW w, NEW S, NEW f, NEW B, NEW D, Sound(C, F, w, S, f, B, D),
         Len(F) > 0, F[Len(F)].at = "block",
         NEW F2, Without(F, F2), NEW c2, NEW C2, Becomes(C, f, c2, C2),
         c2.locals = Last(C).locals, c2.regTop = Last(C).regTop,
         c2.scopeDepth = Last(C).scopeDepth - 1,
         NEW S2, ClosesScope(S, S2), NEW w2, w2.is \notin {"expression", "register"}
  PROVE  Sound(C2, F2, w2, S2, f, B, D)
<1>1. f \in Nat /\ Current(C, F, w, S, f, B, D)
  BY CurrentIs
<1> DEFINE n == Len(F)
           m == Len(F) - 1
           top == Last(C).regTop
           L == Last(C).locals
<1>2. /\ n \in Nat /\ Numbers(B) /\ Numbers(D) /\ IsSeq(F) /\ D[n] \in Nat /\ B[n] \in Nat
      /\ Layout(F, B, Occupied(C, S), top, f, n) /\ top \in Nat
  BY <1>1 DEF Current
<1>3. /\ m \in Nat /\ f <= m /\ n \in Nat \ {0} /\ m + 1 = n /\ Fits(F, B, D, f, n)
      /\ (n > 1 => m \in 1 .. n /\ m > 0)
  BY TopIs
<1>4. Continues(F, F2, m) /\ Len(F2) = m /\ \A i \in 1 .. m : F2[i] = F[i]
  BY DEF Without, Continues
<1>5. SameUpTo(B, B, m) /\ SameUpTo(D, D, m)
  BY <1>2, <1>3, SameIs
<1>6. (n > 1 => ~ Asks(F[m])) /\ D[n] = D[m] + 1 /\ D[m] \in Nat
  <2>1. D[m] \in Nat
    BY <1>2, <1>3 DEF Numbers
  <2> QED BY <1>3, <2>1 DEF Fits, Operators, Opens
<1>7. Chain(C, f) /\ Naming(C, S, D, f, n) /\ Registers(C, S, F, B, f)
  BY DEF Sound
<1>8. /\ Chain(C2, f) /\ Len(C2) = Len(C) /\ Last(C2) = c2 /\ (f > 0 => C2[1] = C[1])
  BY DEF Becomes
<1>9. SameLocals(C, C2)
  BY <1>1, <1>7, LocalsStay
<1>11. Stacked(F2, B, D, f)
  <2>1. f <= Len(F2) /\ TopFits(F2, B, D, f, m)
    <3>1. Len(F2) = m /\ m \in Nat /\ f <= m
      BY <1>3, <1>4
    <3> HIDE DEF m
    <3>2. Len(F2) # m + 1
      BY <3>1
    <3> QED BY <3>1, <3>2 DEF TopFits
  <2>2. SameFunction(f, f, m) /\ Stacked(F, B, D, f)
    BY DEF SameFunction, Sound
  <2> HIDE DEF m
  <2> QED BY <1>1, <1>3, <1>4, <1>5, <2>1, <2>2, StackMoves
<1>12. /\ IsSeq(S2) /\ Len(S2) = Len(S) - 1 /\ DOMAIN S2 = 1 .. Len(S) - 1 /\ Len(S) = D[n]
       /\ DOMAIN S = 1 .. Len(S) /\ (\A s \in 1 .. Len(S) - 1 : S2[s] = S[s])
       /\ FewerValued(S, S2) /\ Scoped(S2) /\ Len(S) \in Nat
  <2>1. IsSeq(S) /\ Len(S) = D[n] /\ Scoped(S)
    BY <1>7 DEF Naming
  <2> QED BY <2>1 DEF ClosesScope
<1>13. Naming(C2, S2, D, f, m)
  <2>1. ScopesStay(S, S2)
    <3>1. \A s \in 1 .. Len(S) - 1 : s \in 1 .. Len(S)
      BY <1>12
    <3> QED BY <1>12, <3>1 DEF ScopesStay
  <2>2. Len(S2) = D[m] /\ D[f] = D[f]
    BY <1>6, <1>12
  <2>3. DepthIs(Last(C2), D, f, m)
    <3>1. D[f] \in Nat
      BY <1>1, <1>2 DEF Numbers
    <3> QED BY <1>6, <1>7, <1>8, <3>1 DEF Naming, DepthIs
  <2> HIDE DEF m
  <2> QED BY <1>1, <1>2, <1>3, <1>7, <1>9, <1>12, <2>1, <2>2, <2>3, NamingStays
<1>14. Registers(C2, S2, F2, B, f)
  <2> DEFINE H == HeldRegs(L, S)
             H2 == HeldRegs(L, S2)
  <2>1. H2 \in SUBSET H /\ Distinct(L, S2)
    BY <1>7, <1>12, Fewer DEF Registers
  <2>2. top <= c2.regTop /\ c2.regTop \in Nat /\ c2.regTop = top
    BY <1>2
  <2>3. Last(C2).locals = L /\ Last(C2).regTop = c2.regTop
    BY <1>8
  <2>4. Layout(F, B, H, top, f, m)
    <3>1. \A i \in f + 1 .. m : i \in f + 1 .. n
      BY <1>1, <1>3
    <3>2. Layout(F, B, H, top, f, n)
      BY <1>2 DEF Occupied
    <3> QED BY <3>1, <3>2 DEF Layout
  <2> HIDE DEF H, H2, top, L, m
  <2>6. Layout(F2, B, H2, c2.regTop, f, m)
    BY <1>1, <1>2, <1>3, <1>4, <1>5, <2>1, <2>2, <2>4, LayoutGrows
  <2>7. f > 0 => /\ Layout(F2, B, HeldRegs(C2[1].locals, S2), C2[1].regTop, 0, f - 1)
                 /\ Distinct(C2[1].locals, S2)
    <3> SUFFICES ASSUME f > 0
                 PROVE  /\ Layout(F2, B, HeldRegs(C2[1].locals, S2), C2[1].regTop, 0, f - 1)
                        /\ Distinct(C2[1].locals, S2)
      OBVIOUS
    <3>1. f <= m + 1 /\ C2[1] = C[1] /\ FewerValued(S, S2)
      BY <1>1, <1>3, <1>8, <1>12
    <3>2. /\ Layout(F2, B, HeldRegs(C[1].locals, S2), C[1].regTop, 0, f - 1)
          /\ Distinct(C[1].locals, S2)
      BY <1>1, <1>2, <1>3, <1>4, <1>5, <1>7, <3>1, OutsideStays
    <3> QED BY <3>1, <3>2
  <2> QED BY <1>4, <2>1, <2>3, <2>6, <2>7 DEF Registers, H2
<1>17. ~ (m > 0 /\ Asks(F[m]))
  BY <1>3, <1>6
<1>15. Waiting(Last(C2).locals, S2, F2, B, f)
  <2>1. \A i \in 1 .. m : F[i].at # "var"
    <3>1. m <= Len(F) /\ (m > 0 => ~ Asks(F[m]))
      BY <1>3, <1>17
    <3> HIDE DEF m
    <3> QED BY <1>3, <3>1, NoVariable
  <2> QED BY <1>4, <2>1 DEF Waiting
<1>16. WantedIs(Last(C2), F2, B, w2)
  <2>1. m > 0 => m \in 1 .. m
    BY <1>3
  <2>2. ~ (Len(F2) > 0 /\ Asks(F2[Len(F2)]))
    BY <1>4, <1>17, <2>1
  <2> QED BY <2>2 DEF WantedIs
<1> QED BY <1>4, <1>8, <1>11, <1>13, <1>14, <1>15, <1>16 DEF Sound

\* A function begins: a compiler of its own, which has no locals.
Begins(C, c2, C2) ==
  /\ IsSeq(C2) /\ Len(C2) = 2 /\ C2[1] = C[1] /\ C2[2] = c2 /\ Last(C2) = c2 /\ Compiler(c2)
  /\ c2.locals = <<>> /\ c2.scopeDepth = 2

LEMMA FunctionPushed ==
  ASSUME NEW C, NEW F, NEW w, NEW S, NEW B, NEW D, Sound(C, F, w, S, 0, B, D),
         w.is \notin {"expression", "register"}, NEW fr, fr.at = "function",
         NEW F2, OnTop(F, fr, F2), NEW c2, NEW C2, Begins(C, c2, C2),
         NEW S2, OpensScope(S, S2), NEW w2, w2.is \notin {"expression", "register"},
         NEW D2, TopNumber(D, D2, Len(F), D[Len(F)] + 1)
  PROVE  Sound(C2, F2, w2, S2, Len(F) + 1, B, D2)
<1>1. Current(C, F, w, S, 0, B, D)
  BY CurrentIs
<1> DEFINE n == Len(F)
           f2 == Len(F) + 1
<1>2. /\ n \in Nat /\ Numbers(B) /\ Numbers(D) /\ IsSeq(F) /\ D[n] \in Nat /\ f2 \in Nat
  BY <1>1 DEF Current
<1>3. n > 0 => ~ Asks(F[n])
  BY Idle
<1>4. Continues(F, F2, n) /\ Len(F2) = n + 1 /\ F2[n + 1] = fr
  BY DEF OnTop
<1>5. D2[n + 1] = D[n] + 1 /\ SameUpTo(D, D2, n) /\ SameUpTo(B, B, n)
  BY <1>2, SameIs DEF TopNumber
<1>6. \A i \in 1 .. n : F2[i] = F[i]
  BY <1>4 DEF Continues
<1>7. Chain(C, 0) /\ Naming(C, S, D, 0, n) /\ Registers(C, S, F, B, 0) /\ Len(C) = 1 /\ Last(C) = C[1]
  BY DEF Sound, Chain, Last
<1>8. /\ IsSeq(C2) /\ Len(C2) = 2 /\ C2[1] = C[1] /\ C2[2] = c2 /\ Last(C2) = c2 /\ Compiler(c2)
      /\ c2.locals = <<>> /\ c2.scopeDepth = 2 /\ DOMAIN c2.locals = {}
  <2>1. IsSeq(<<>>) /\ Len(<<>>) = 0
    BY SeqIs, EmptySeq
  <2>2. DOMAIN <<>> = 1 .. 0
    BY <2>1, SeqFacts
  <2> QED BY <2>2 DEF Begins
<1>9. Chain(C2, f2)
  <2>1. f2 # 0 /\ \A k \in 1 .. 2 : k = 1 \/ k = 2
    BY <1>2
  <2>2. Compiler(C[1])
    BY <1>7 DEF Chain
  <2> QED BY <1>8, <2>1, <2>2 DEF Chain
<1>10. Fits(F2, B, D2, f2, n + 1)
  <2>1. n + 1 - 1 = n /\ (n + 1 > 1 => n > 0) /\ D2[n] = D[n]
    BY <1>2, <1>5 DEF SameUpTo
  <2>2. /\ F2[n + 1].at \notin Operators /\ Opens(F2[n + 1]) = 1 /\ F2[n + 1].at \in Activations
        /\ F2[n + 1].at \notin Branches \union {"right", "argument", "id"}
        /\ F2[n + 1].at = "function"
    BY <1>4 DEF Operators, Opens, Activations, Branches, Roots
  <2>3. n + 1 > 1 => ~ Asks(F2[n + 1 - 1])
    BY <1>3, <1>2, <1>6, <2>1
  <2>5. D2[n + 1] = D2[n + 1 - 1] + Opens(F2[n + 1])
    BY <1>2, <1>5, <2>1, <2>2
  <2> QED BY ONLY <2>1, <2>2, <2>3, <2>5 DEF Fits
<1>11. Stacked(F2, B, D2, f2)
  <2>1. f2 <= Len(F2) /\ TopFits(F2, B, D2, f2, n) /\ Stacked(F, B, D, 0)
    BY <1>2, <1>4, <1>10 DEF TopFits, Sound
  <2>2. SameFunction(0, f2, n)
    BY <1>2 DEF SameFunction
  <2> QED BY <1>2, <1>4, <1>5, <2>1, <2>2, StackMoves
<1>12. /\ IsSeq(S2) /\ Len(S2) = Len(S) + 1 /\ DOMAIN S2 = 1 .. Len(S) + 1 /\ Len(S) = D[n]
       /\ DOMAIN S = 1 .. Len(S) /\ (\A s \in 1 .. Len(S) : S2[s] = S[s])
       /\ DOMAIN S2[Len(S) + 1] = {} /\ FewerValued(S, S2) /\ Scoped(S2)
  <2>1. IsSeq(S) /\ Len(S) = D[n] /\ Scoped(S)
    BY <1>7 DEF Naming
  <2> QED BY <2>1 DEF OpensScope
<1>13. Naming(C2, S2, D2, f2, n + 1)
  <2>1. \A k \in 1 .. Len(C2) : Once(C2[k].locals)
    <3>1. \A k \in 1 .. 2 : k = 1 \/ k = 2
      OBVIOUS
    <3>2. Once(C[1].locals)
      BY <1>7 DEF Naming
    <3>3. Once(c2.locals)
      BY <1>8 DEF Once
    <3> QED BY <1>8, <3>1, <3>2, <3>3
  <2>2. \A i \in DOMAIN C2[1].locals, j \in DOMAIN C2[2].locals :
          C2[1].locals[i].name # C2[2].locals[j].name
    BY <1>8
  <2>3. ASSUME NEW s \in DOMAIN S2, NEW x \in DOMAIN S2[s] PROVE Declares(C2[OwnerOf(s, f2, D2)], x)
    <3>1. s \in 1 .. Len(S)
      <4>1. s \in 1 .. Len(S) \/ s = Len(S) + 1
        BY <1>2, <1>12
      <4> QED BY <1>12, <2>3, <4>1
    <3>2. OwnerOf(s, f2, D2) = 1 /\ OwnerOf(s, 0, D) = 1
      BY <1>2, <1>5, <1>12, <3>1 DEF OwnerOf
    <3>3. S2[s] = S[s] /\ s \in DOMAIN S
      BY <1>12, <3>1
    <3>4. Declares(C[OwnerOf(s, 0, D)], x)
      BY <1>7, <2>3, <3>3 DEF Naming
    <3> QED BY <1>8, <3>2, <3>4
  <2>4. Last(C2).scopeDepth = D2[n + 1] - D2[f2] + 2 /\ C2[1].scopeDepth = D2[f2] - 1
    BY <1>2, <1>5, <1>7, <1>8 DEF Naming
  <2>5. Len(S2) = D2[n + 1]
    BY <1>5, <1>12
  <2> QED BY <1>2, <1>12, <2>1, <2>2, <2>3, <2>4, <2>5 DEF Naming
<1>14. Registers(C2, S2, F2, B, f2)
  <2>1. HeldIn(c2.locals, S2) = {} /\ HeldRegs(c2.locals, S2) = {}
    BY <1>8 DEF HeldIn, HeldRegs
  <2>2. Layout(F2, B, {}, c2.regTop, f2, Len(F2))
    <3>1. \A i \in f2 + 1 .. Len(F2) : FALSE
      BY <1>2, <1>4
    <3> QED BY <3>1 DEF Layout
  <2>3. Distinct(c2.locals, S2)
    BY <2>1 DEF Distinct
  <2> DEFINE L == C[1].locals
             H == HeldRegs(L, S)
             H2 == HeldRegs(L, S2)
             top == C[1].regTop
  <2>4. H2 \in SUBSET H /\ Distinct(L, S2)
    BY <1>7, <1>12, Fewer DEF Registers
  <2>5. Layout(F, B, H, top, 0, n) /\ top \in Nat /\ top <= top /\ 0 \in Nat
    BY <1>7 DEF Registers, Chain, Compiler
  <2> HIDE DEF L, H, H2, top
  <2>6. Layout(F2, B, H2, top, 0, n)
    BY <1>2, <1>5, <1>6, <2>4, <2>5, LayoutGrows
  <2>7. n = f2 - 1
    BY <1>2
  <2> QED BY <1>8, <2>1, <2>2, <2>3, <2>4, <2>6, <2>7 DEF Registers, L, H2, top
<1>15. Waiting(Last(C2).locals, S2, F2, B, f2)
  <2>1. \A i \in 1 .. n : F[i].at # "var"
    BY <1>2, <1>3, NoVariable
  <2>2. \A i \in 1 .. n + 1 : i \in 1 .. n \/ i = n + 1
    BY <1>2
  <2>3. \A i \in 1 .. n + 1 : F2[i].at # "var"
    BY <1>4, <1>6, <2>1, <2>2
  <2> QED BY <1>4, <2>3 DEF Waiting
<1>16. WantedIs(Last(C2), F2, B, w2)
  <2>1. ~ Asks(F2[n + 1])
    BY <1>4 DEF Asks, Roots, Operators
  <2> QED BY <1>4, <2>1 DEF WantedIs
<1> QED BY <1>4, <1>9, <1>11, <1>13, <1>14, <1>15, <1>16 DEF Sound

\* A function ends: its closure takes a register of the compiler around it for a moment.
Ends(C, c2, C2) ==
  /\ IsSeq(C2) /\ Len(C2) = 1 /\ C2[1] = c2 /\ Last(C2) = c2 /\ Compiler(c2)
  /\ c2.locals = C[1].locals /\ c2.scopeDepth = C[1].scopeDepth /\ C[1].regTop <= c2.regTop

LEMMA FunctionPopped ==
  ASSUME NEW C, NEW F, NEW w, NEW S, NEW f, NEW B, NEW D, Sound(C, F, w, S, f, B, D),
         Len(F) > 0, F[Len(F)].at = "function",
         NEW F2, Without(F, F2), NEW c2, NEW C2, Ends(C, c2, C2),
         NEW S2, ClosesScope(S, S2), NEW w2, w2.is \notin {"expression", "register"}
  PROVE  Sound(C2, F2, w2, S2, 0, B, D)
<1>1. f \in Nat /\ Current(C, F, w, S, f, B, D) /\ Stacked(F, B, D, f)
  BY CurrentIs DEF Sound
<1> DEFINE n == Len(F)
           m == Len(F) - 1
<1>2. /\ n \in Nat /\ Numbers(B) /\ Numbers(D) /\ IsSeq(F) /\ D[n] \in Nat /\ Fits(F, B, D, f, n)
      /\ m \in Nat
  BY <1>1 DEF Current
<1>3. f = n /\ n \in Nat \ {0} /\ m + 1 = n /\ m = f - 1 /\ (n > 1 => m > 0)
  BY <1>2 DEF Fits
<1>4. Continues(F, F2, m) /\ Len(F2) = m /\ \A i \in 1 .. m : F2[i] = F[i]
  BY DEF Without, Continues
<1>5. SameUpTo(B, B, m) /\ SameUpTo(D, D, m)
  BY <1>2, SameIs
<1>6. (n > 1 => ~ Asks(F[m])) /\ D[n] = D[m] + 1 /\ D[m] \in Nat /\ D[0] = 0
  <2>1. D[m] \in Nat /\ D[0] = 0
    BY <1>1, <1>2 DEF Numbers, Stacked
  <2> QED BY <1>2, <2>1 DEF Fits, Operators, Opens
<1>7. Chain(C, f) /\ Naming(C, S, D, f, n) /\ Registers(C, S, F, B, f) /\ Len(C) = 2
  BY <1>3 DEF Sound, Chain
<1>8. /\ IsSeq(C2) /\ Len(C2) = 1 /\ C2[1] = c2 /\ Last(C2) = c2 /\ Compiler(c2)
      /\ c2.locals = C[1].locals /\ c2.scopeDepth = C[1].scopeDepth /\ C[1].regTop <= c2.regTop
      /\ c2.regTop \in Nat /\ C[1].regTop \in Nat
  <2>1. Compiler(C[1])
    BY <1>7 DEF Chain
  <2> QED BY <2>1 DEF Ends, Compiler
<1>9. Chain(C2, 0)
  BY <1>8 DEF Chain
<1>11. Stacked(F2, B, D, 0)
  <2>1. 0 \in Nat /\ 0 <= Len(F2) /\ TopFits(F2, B, D, 0, m)
    <3>1. Len(F2) = m /\ m \in Nat
      BY <1>2, <1>4
    <3> HIDE DEF m
    <3>2. Len(F2) # m + 1
      BY <3>1
    <3> QED BY <3>1, <3>2 DEF TopFits
  <2>2. SameFunction(f, 0, m)
    BY <1>2, <1>3 DEF SameFunction
  <2> HIDE DEF m
  <2> QED BY <1>1, <1>2, <1>4, <1>5, <2>1, <2>2, StackMoves
<1>12. /\ IsSeq(S2) /\ Len(S2) = Len(S) - 1 /\ DOMAIN S2 = 1 .. Len(S) - 1 /\ Len(S) = D[n]
       /\ DOMAIN S = 1 .. Len(S) /\ (\A s \in 1 .. Len(S) - 1 : S2[s] = S[s])
       /\ FewerValued(S, S2) /\ Scoped(S2) /\ Len(S) \in Nat
  <2>1. IsSeq(S) /\ Len(S) = D[n] /\ Scoped(S)
    BY <1>7 DEF Naming
  <2> QED BY <2>1 DEF ClosesScope
<1>13. Naming(C2, S2, D, 0, m)
  <2>1. \A k \in 1 .. Len(C2) : Once(C2[k].locals)
    <3>1. Once(C[1].locals)
      BY <1>7 DEF Naming
    <3>2. \A k \in 1 .. 1 : k = 1
      OBVIOUS
    <3> QED BY <1>8, <3>1, <3>2
  <2>3. ASSUME NEW s \in DOMAIN S2, NEW x \in DOMAIN S2[s] PROVE Declares(C2[OwnerOf(s, 0, D)], x)
    <3>1. s \in 1 .. Len(S) - 1 /\ s \in DOMAIN S
      BY <1>12
    <3>2. OwnerOf(s, f, D) = 1 /\ OwnerOf(s, 0, D) = 1
      <4>1. ~ (s >= D[f])
        BY <1>2, <1>3, <1>12, <3>1
      <4> QED BY <4>1 DEF OwnerOf
    <3>3. S2[s] = S[s]
      BY <1>12, <3>1
    <3>4. Declares(C[OwnerOf(s, f, D)], x)
      BY <1>7, <2>3, <3>1, <3>3 DEF Naming
    <3> QED BY <1>8, <3>2, <3>4 DEF Declares
  <2>4. Last(C2).scopeDepth = D[m] /\ Len(S2) = D[m]
    BY <1>2, <1>3, <1>6, <1>7, <1>8, <1>12 DEF Naming
  <2> QED BY <1>12, <2>1, <2>3, <2>4 DEF Naming
<1>14. Registers(C2, S2, F2, B, 0)
  <2> DEFINE L == C[1].locals
             H == HeldRegs(L, S)
             H2 == HeldRegs(L, S2)
             top == C[1].regTop
  <2>1. Layout(F, B, H, top, 0, m) /\ Distinct(L, S)
    BY <1>3, <1>7 DEF Registers
  <2>2. H2 \in SUBSET H /\ Distinct(L, S2)
    BY <1>12, <2>1, Fewer
  <2>3. top \in Nat /\ top <= c2.regTop /\ 0 \in Nat
    BY <1>8
  <2>4. Last(C2).locals = L /\ Last(C2).regTop = c2.regTop
    BY <1>8
  <2> HIDE DEF L, H, H2, top, m
  <2>5. Layout(F2, B, H2, c2.regTop, 0, m)
    BY <1>2, <1>4, <1>5, <1>8, <2>1, <2>2, <2>3, LayoutGrows
  <2> QED BY <1>4, <2>2, <2>4, <2>5 DEF Registers, H2
<1>17. ~ (m > 0 /\ Asks(F[m]))
  BY <1>3, <1>6
<1>15. Waiting(Last(C2).locals, S2, F2, B, 0)
  <2>1. \A i \in 1 .. m : F[i].at # "var"
    <3>1. m <= Len(F) /\ (m > 0 => ~ Asks(F[m]))
      BY <1>3, <1>17
    <3> HIDE DEF m
    <3> QED BY <1>2, <3>1, NoVariable
  <2> QED BY <1>4, <2>1 DEF Waiting
<1>16. WantedIs(Last(C2), F2, B, w2)
  <2>1. m > 0 => m \in 1 .. m
    BY <1>3
  <2>2. ~ (Len(F2) > 0 /\ Asks(F2[Len(F2)]))
    BY <1>4, <1>17, <2>1
  <2> QED BY <2>2 DEF WantedIs
<1> QED BY <1>4, <1>9, <1>11, <1>13, <1>14, <1>15, <1>16 DEF Sound

----------------------------------------
(* Variables. *)

Unused(C, x) == \A k \in 1 .. Len(C) : ~ Declares(C[k], x)

LEMMA UnsetIsFewer ==
  ASSUME NEW S, NEW x, NEW S2, Binds(S, S2, x, Unset)
  PROVE  FewerValued(S, S2)
<1> SUFFICES ASSUME NEW y, Valued(S2, y) PROVE Valued(S, y)
  BY DEF FewerValued
<1>1. PICK s \in DOMAIN S2 : y \in DOMAIN S2[s] /\ S2[s][y] # Unset
  BY DEF Valued
<1>2. s \in DOMAIN S /\ (s \in 1 .. Len(S) - 1 \/ s = Len(S))
  BY DEF Binds
<1>3. CASE s \in 1 .. Len(S) - 1
  BY <1>1, <1>2, <1>3 DEF Binds, Valued
<1>4. CASE s = Len(S)
  <2>1. y # x
    BY <1>1, <1>4 DEF Binds
  <2>2. y \in DOMAIN S[s] /\ S2[s][y] = S[s][y]
    BY <1>1, <1>4, <2>1 DEF Binds
  <2> QED BY <1>1, <1>2, <2>2 DEF Valued
<1> QED BY <1>2, <1>3, <1>4

\* No scope has a name that no compiler declares.
LEMMA UnusedIs ==
  ASSUME NEW C, NEW S, NEW D, NEW f, NEW n, Naming(C, S, D, f, n), Chain(C, f), NEW x, Unused(C, x)
  PROVE  (\A s \in DOMAIN S : x \notin DOMAIN S[s]) /\ ~ Valued(S, x)
<1>1. \A s \in DOMAIN S : x \notin DOMAIN S[s]
  <2>1. ASSUME NEW s \in DOMAIN S, x \in DOMAIN S[s] PROVE FALSE
    <3>1. Declares(C[OwnerOf(s, f, D)], x)
      BY <2>1 DEF Naming
    <3>2. OwnerOf(s, f, D) \in 1 .. Len(C)
      BY DEF OwnerOf, Chain
    <3> QED BY <3>1, <3>2 DEF Unused
  <2> QED BY <2>1
<1> QED BY <1>1 DEF Valued

\* The scope that is open belongs to the current compiler.
LEMMA OwnerIs ==
  ASSUME NEW C, NEW F, NEW w, NEW S, NEW f, NEW B, NEW D, Sound(C, F, w, S, f, B, D),
         Last(C).scopeDepth > 0 \/ Len(S) > 0
  PROVE  /\ Len(S) \in Nat \ {0} /\ Len(S) = D[Len(F)] /\ OwnerOf(Len(S), f, D) = Len(C)
         /\ Len(C) = (IF f = 0 THEN 1 ELSE 2)
<1>1. /\ Stacked(F, B, D, f) /\ Naming(C, S, D, f, Len(F)) /\ Chain(C, f) /\ f \in Nat
      /\ Current(C, F, w, S, f, B, D)
  BY CurrentIs DEF Sound
<1>2. Len(S) = D[Len(F)] /\ D[Len(F)] \in Nat /\ Len(C) = (IF f = 0 THEN 1 ELSE 2)
  BY <1>1 DEF Naming, Current, Chain
<1>3. CASE f = 0
  BY <1>1, <1>2, <1>3 DEF OwnerOf, Naming
<1>4. CASE f # 0
  <2>1. D[f] \in Nat /\ D[f] >= 1 /\ D[f] <= D[Len(F)]
    BY <1>1, <1>4, FunctionDepth
  <2> QED BY <1>1, <1>2, <1>4, <2>1 DEF OwnerOf
<1> QED BY <1>3, <1>4

\* Names after a variable is declared.
LEMMA NamingGrows ==
  ASSUME NEW C, NEW F, NEW w, NEW S, NEW f, NEW B, NEW D, Sound(C, F, w, S, f, B, D),
         Last(C).scopeDepth > 0, NEW x, Unused(C, x), NEW c, Declared(Last(C), c, x),
         NEW c2, SameNames(c, c2), NEW C2, Becomes(C, f, c2, C2),
         NEW S2, Binds(S, S2, x, Unset),
         NEW D2, NEW n2, D2[n2] = D[Len(F)], D2[f] = D[f]
  PROVE  Naming(C2, S2, D2, f, n2)
<1>1. Chain(C, f) /\ Naming(C, S, D, f, Len(F)) /\ f \in Nat
  BY CurrentIs DEF Sound
<1>2. /\ Len(S) \in Nat \ {0} /\ Len(S) = D[Len(F)] /\ OwnerOf(Len(S), f, D) = Len(C)
      /\ Len(C) = (IF f = 0 THEN 1 ELSE 2)
  BY OwnerIs
<1>3. /\ Len(C2) = Len(C) /\ Last(C2) = c2 /\ C2[Len(C)] = c2 /\ Last(C) = C[Len(C)]
      /\ (f > 0 => C2[1] = C[1]) /\ (\A k \in 1 .. Len(C) - 1 : C2[k] = C[k])
      /\ Len(C) \in {1, 2} /\ Compiler(Last(C)) /\ Compiler(c2)
  BY DEF Becomes
<1> DEFINE L == Last(C).locals
           L2 == c2.locals
<1>4. /\ Len(L) \in Nat /\ DOMAIN L = 1 .. Len(L) /\ DOMAIN L2 = 1 .. Len(L) + 1
      /\ (\A i \in 1 .. Len(L) : L2[i] = L[i]) /\ L2[Len(L) + 1].name = x
  <2>1. L2 = c.locals /\ IsSeq(L2) /\ IsSeq(L)
    BY <1>3 DEF SameNames, Compiler
  <2>2. Len(L) \in Nat /\ DOMAIN L = 1 .. Len(L) /\ DOMAIN L2 = 1 .. Len(L2)
    BY <2>1, SeqFacts
  <2> QED BY <2>1, <2>2 DEF Declared
<1>5. \A i \in DOMAIN L : L[i].name # x
  BY <1>2, <1>3 DEF Unused, Declares
<1>6. \A i \in DOMAIN L2 : (i \in DOMAIN L /\ L2[i] = L[i]) \/ (i = Len(L) + 1 /\ L2[i].name = x)
  BY <1>4
<1>7. Once(L2)
  <2>1. Once(L)
    BY <1>1, <1>3 DEF Naming
  <2>2. ASSUME NEW i \in DOMAIN L2, NEW j \in DOMAIN L2, L2[i].name = L2[j].name PROVE i = j
    <3>1. CASE i \in DOMAIN L /\ j \in DOMAIN L
      BY <1>4, <2>1, <2>2, <3>1 DEF Once
    <3> QED BY <1>5, <1>6, <2>2, <3>1
  <2> QED BY <2>2 DEF Once
<1>8. \A k \in 1 .. Len(C2) : Once(C2[k].locals)
  <2>1. \A k \in 1 .. Len(C) : k = Len(C) \/ k \in 1 .. Len(C) - 1
    BY <1>3
  <2> QED BY <1>1, <1>3, <1>7, <2>1 DEF Naming
<1>9. ASSUME f > 0, NEW i \in DOMAIN C2[1].locals, NEW j \in DOMAIN C2[2].locals
      PROVE  C2[1].locals[i].name # C2[2].locals[j].name
  <2>1. C2[1] = C[1] /\ C2[2] = c2 /\ L = C[2].locals /\ Len(C) = 2
    BY <1>2, <1>3, <1>9
  <2>2. CASE j \in DOMAIN L
    BY <1>1, <1>4, <1>9, <2>1, <2>2 DEF Naming
  <2>3. CASE j = Len(L) + 1
    <3>1. ~ Declares(C[1], x)
      BY <2>1 DEF Unused
    <3> QED BY <1>4, <1>9, <2>1, <2>3, <3>1 DEF Declares
  <2> QED BY <1>6, <1>9, <2>1, <2>2, <2>3
<1>10. ASSUME NEW s \in DOMAIN S2, NEW y \in DOMAIN S2[s]
       PROVE  s \in DOMAIN S /\ (y \in DOMAIN S[s] \/ (y = x /\ s = Len(S)))
  <2>1. s \in 1 .. Len(S) - 1 \/ s = Len(S)
    BY <1>2 DEF Binds
  <2> QED BY <2>1 DEF Binds
<1>11. Scoped(S2)
  <2>1. Scoped(S) /\ \A s \in DOMAIN S : x \notin DOMAIN S[s]
    BY <1>1, UnusedIs DEF Naming
  <2>2. ASSUME NEW s \in DOMAIN S2, NEW r \in DOMAIN S2, NEW y, y \in DOMAIN S2[s], y \in DOMAIN S2[r]
        PROVE  s = r
    BY <1>10, <2>1, <2>2 DEF Scoped
  <2> QED BY <2>2 DEF Scoped
<1>12. ASSUME NEW s \in DOMAIN S2, NEW y \in DOMAIN S2[s] PROVE Declares(C2[OwnerOf(s, f, D2)], y)
  <2>1. OwnerOf(s, f, D2) = OwnerOf(s, f, D)
    BY DEF OwnerOf
  <2>2. CASE s \in DOMAIN S /\ y \in DOMAIN S[s]
    <3> DEFINE k == OwnerOf(s, f, D)
    <3>1. Declares(C[k], y) /\ k \in 1 .. Len(C)
      BY <1>1, <1>2, <2>2 DEF Naming, OwnerOf
    <3> HIDE DEF k
    <3>2. CASE k = Len(C)
      <4>1. PICK i \in DOMAIN L : L[i].name = y
        BY <1>3, <3>1, <3>2 DEF Declares
      <4>2. i \in DOMAIN L2 /\ L2[i].name = y
        BY <1>4, <4>1
      <4> QED BY <1>3, <2>1, <3>2, <4>2 DEF Declares, k
    <3>3. CASE k \in 1 .. Len(C) - 1
      BY <1>3, <2>1, <3>1, <3>3 DEF k
    <3> QED BY <1>3, <3>1, <3>2, <3>3
  <2>3. CASE y = x /\ s = Len(S)
    <3>1. OwnerOf(s, f, D2) = Len(C)
      BY <1>2, <2>1, <2>3
    <3>2. Len(L) + 1 \in DOMAIN L2
      BY <1>4
    <3> QED BY <1>3, <1>4, <2>3, <3>1, <3>2 DEF Declares
  <2> QED BY <1>10, <2>2, <2>3
<1>13. Len(S2) = D2[n2] /\ IsSeq(S2)
  BY <1>2 DEF Binds
<1>14. c2.scopeDepth = Last(C).scopeDepth
  BY DEF SameNames, Declared
<1>15. Last(C2).scopeDepth = IF f = 0 THEN D2[n2] ELSE D2[n2] - D2[f] + 2
  BY <1>1, <1>3, <1>14 DEF Naming
<1>16. f > 0 => C2[1].scopeDepth = D2[f] - 1
  BY <1>1, <1>3 DEF Naming
<1> QED BY <1>8, <1>9, <1>11, <1>12, <1>13, <1>15, <1>16 DEF Naming

\* The variable that is declared is not held yet.
OneMore(L, L2, x) ==
  /\ IsSeq(L) /\ IsSeq(L2) /\ Len(L2) = Len(L) + 1
  /\ \A i \in 1 .. Len(L) : L2[i] = L[i]
  /\ L2[Len(L) + 1].name = x

LEMMA HeldStays ==
  ASSUME NEW L, NEW L2, NEW S, NEW S2, NEW x, OneMore(L, L2, x), ~ Valued(S, x), FewerValued(S, S2)
  PROVE  /\ HeldRegs(L2, S2) \in SUBSET HeldRegs(L, S)
         /\ Distinct(L, S) => Distinct(L2, S2)
<1>1. Len(L) \in Nat /\ DOMAIN L = 1 .. Len(L) /\ DOMAIN L2 = 1 .. Len(L) + 1
  BY SeqFacts DEF OneMore
<1>2. ASSUME NEW i \in HeldIn(L2, S2) PROVE i \in HeldIn(L, S) /\ L2[i] = L[i]
  <2>1. i \in 1 .. Len(L) + 1 /\ Valued(S2, L2[i].name)
    BY <1>1 DEF HeldIn
  <2>2. Valued(S, L2[i].name)
    BY <2>1 DEF FewerValued
  <2>3. i # Len(L) + 1
    BY <2>2 DEF OneMore
  <2>4. i \in 1 .. Len(L)
    BY <1>1, <2>1, <2>3
  <2> QED BY <1>1, <2>2, <2>4 DEF HeldIn, OneMore
<1>3. HeldRegs(L2, S2) \in SUBSET HeldRegs(L, S)
  BY <1>2 DEF HeldRegs
<1> QED BY <1>2, <1>3 DEF Distinct

\* What a declaration leaves: the registers that are held, and the new one above them.
LEMMA DeclaredHeld ==
  ASSUME NEW C, NEW F, NEW w, NEW S, NEW f, NEW B, NEW D, Sound(C, F, w, S, f, B, D),
         NEW x, Unused(C, x), NEW c, Declared(Last(C), c, x), NEW c2, SameNames(c, c2),
         NEW S2, Binds(S, S2, x, Unset)
  PROVE  /\ HeldRegs(c2.locals, S2) \in SUBSET Occupied(C, S) /\ Distinct(c2.locals, S2)
         /\ FewerValued(S, S2)
<1>1. Naming(C, S, D, f, Len(F)) /\ Chain(C, f) /\ Registers(C, S, F, B, f)
  BY DEF Sound
<1>2. FewerValued(S, S2) /\ ~ Valued(S, x)
  BY <1>1, UnsetIsFewer, UnusedIs
<1> DEFINE L == Last(C).locals
           L2 == c2.locals
<1>3. IsSeq(L)
  BY CurrentIs DEF Current, Compiler
<1>4. OneMore(L, L2, x)
  BY <1>3 DEF Declared, SameNames, Compiler, OneMore
<1>5. Distinct(L, S)
  BY <1>1 DEF Registers
<1> HIDE DEF L, L2
<1>6. HeldRegs(L2, S2) \in SUBSET HeldRegs(L, S) /\ Distinct(L2, S2)
  BY <1>2, <1>4, <1>5, HeldStays
<1> QED BY <1>2, <1>6 DEF L, L2, Occupied

\* The registers after a declaration.
LEMMA RegistersGrow ==
  ASSUME NEW C, NEW F, NEW w, NEW S, NEW f, NEW B, NEW D, Sound(C, F, w, S, f, B, D),
         NEW x, Unused(C, x), NEW c, Declared(Last(C), c, x), NEW c2, SameNames(c, c2),
         NEW C2, Becomes(C, f, c2, C2), NEW S2, Binds(S, S2, x, Unset),
         NEW F2, \A i \in 1 .. Len(F) : F2[i] = F[i], NEW B2, SameUpTo(B, B2, Len(F)),
         NEW H, H = HeldRegs(c2.locals, S2), Layout(F2, B2, H, c2.regTop, f, Len(F2))
  PROVE  Registers(C2, S2, F2, B2, f)
<1>1. /\ Chain(C, f) /\ Registers(C, S, F, B, f) /\ f \in Nat /\ Current(C, F, w, S, f, B, D)
  BY CurrentIs DEF Sound
<1>2. Distinct(c2.locals, S2) /\ FewerValued(S, S2)
  BY DeclaredHeld
<1>3. Last(C2) = c2 /\ (f > 0 => C2[1] = C[1])
  BY DEF Becomes
<1>4. Len(F) \in Nat /\ f <= Len(F) + 1 /\ Numbers(B)
  BY <1>1 DEF Current
<1>5. ASSUME f > 0
      PROVE  /\ Layout(F2, B2, HeldRegs(C2[1].locals, S2), C2[1].regTop, 0, f - 1)
             /\ Distinct(C2[1].locals, S2)
  <2>1. C2[1] = C[1]
    BY <1>3, <1>5
  <2>2. /\ Layout(F2, B2, HeldRegs(C[1].locals, S2), C[1].regTop, 0, f - 1)
        /\ Distinct(C[1].locals, S2)
    BY <1>1, <1>2, <1>4, <1>5, OutsideStays
  <2> QED BY <2>1, <2>2
<1> QED BY <1>2, <1>3, <1>5 DEF Registers

\* "var x;" in a block.
LEMMA VariableDeclared ==
  ASSUME NEW C, NEW F, NEW w, NEW S, NEW f, NEW B, NEW D, Sound(C, F, w, S, f, B, D),
         w.is \notin {"expression", "register"}, Last(C).scopeDepth > 0,
         NEW x, Unused(C, x), NEW c2, Declared(Last(C), c2, x), NEW C2, Becomes(C, f, c2, C2),
         NEW S2, Binds(S, S2, x, Unset), NEW w2, w2.is \notin {"expression", "register"}
  PROVE  Sound(C2, F, w2, S2, f, B, D)
<1>1. /\ f \in Nat /\ Current(C, F, w, S, f, B, D) /\ Stacked(F, B, D, f)
  BY CurrentIs DEF Sound
<1> DEFINE n == Len(F)
           top == Last(C).regTop
           H == Occupied(C, S)
           H2 == HeldRegs(c2.locals, S2)
<1>2. /\ n \in Nat /\ Numbers(B) /\ Layout(F, B, H, top, f, n) /\ top \in Nat
  BY <1>1 DEF Current
<1>3. n > 0 => ~ Asks(F[n])
  BY Idle
<1>4. SameNames(c2, c2)
  BY DEF SameNames
<1>5. Naming(C2, S2, D, f, n)
  BY <1>4, NamingGrows
<1>6. H2 \in SUBSET H
  BY <1>4, DeclaredHeld
<1>7. SameUpTo(B, B, n)
  BY <1>2, SameIs
<1>8. top <= c2.regTop /\ c2.regTop \in Nat
  BY DEF Declared, Compiler
<1> HIDE DEF H, H2, top
<1>9. Layout(F, B, H2, c2.regTop, f, n)
  <2>1. \A i \in 1 .. n : F[i] = F[i]
    OBVIOUS
  <2> QED BY <1>1, <1>2, <1>6, <1>7, <1>8, <2>1, LayoutGrows
<1>10. Registers(C2, S2, F, B, f)
  <2>1. \A i \in 1 .. n : F[i] = F[i]
    OBVIOUS
  <2>2. H2 = HeldRegs(c2.locals, S2)
    BY DEF H2
  <2> QED BY <1>4, <1>7, <1>9, <2>1, <2>2, RegistersGrow
<1>11. Waiting(Last(C2).locals, S2, F, B, f)
  <2>1. \A i \in 1 .. n : F[i].at # "var"
    BY <1>2, <1>3, NoVariable
  <2> QED BY <2>1 DEF Waiting
<1>12. WantedIs(Last(C2), F, B, w2)
  BY <1>3 DEF WantedIs
<1>13. Chain(C2, f)
  BY DEF Becomes
<1> QED BY <1>1, <1>5, <1>10, <1>11, <1>12, <1>13 DEF Sound

\* "var x = e;" in a block asks for its value.
LEMMA VariablePushed ==
  ASSUME NEW C, NEW F, NEW w, NEW S, NEW f, NEW B, NEW D, Sound(C, F, w, S, f, B, D),
         w.is \notin {"expression", "register"}, Last(C).scopeDepth > 0,
         NEW x, Unused(C, x), NEW c, Declared(Last(C), c, x), NEW c2, SameNames(c, c2),
         NEW C2, Becomes(C, f, c2, C2),
         NEW r \in Nat, Last(C).regTop <= r, c.locals[Len(c.locals)].reg <= r,
         c2.regTop = r + 1, c2.packOffset = 0,
         NEW S2, Binds(S, S2, x, Unset), NEW w2, w2.is = "expression", w2.dst = r,
         NEW fr, fr.at = "var", fr.name = x,
         fr.size # 0 => c.locals[Len(c.locals)].reg < r, NEW F2, OnTop(F, fr, F2),
         NEW B2, TopNumber(B, B2, Len(F), r),
         NEW D2, TopNumber(D, D2, Len(F), D[Len(F)])
  PROVE  Sound(C2, F2, w2, S2, f, B2, D2)
<1>1. /\ f \in Nat /\ Current(C, F, w, S, f, B, D) /\ Stacked(F, B, D, f)
  BY CurrentIs DEF Sound
<1> DEFINE n == Len(F)
           top == Last(C).regTop
           H == Occupied(C, S)
           H2 == HeldRegs(c2.locals, S2)
<1>2. /\ n \in Nat /\ f <= n /\ Numbers(B) /\ Numbers(D) /\ IsSeq(F) /\ D[n] \in Nat
      /\ Layout(F, B, H, top, f, n) /\ top \in Nat
  BY <1>1 DEF Current
<1>3. (\A i \in f + 1 .. n : ~ Asks(F[i])) /\ (n > 0 => ~ Asks(F[n]))
  BY Idle
<1>4. Continues(F, F2, n) /\ Len(F2) = n + 1 /\ F2[n + 1] = fr
  BY DEF OnTop
<1>5. /\ B2[n + 1] = r /\ SameUpTo(B, B2, n) /\ D2[n + 1] = D[n] /\ SameUpTo(D, D2, n)
  BY DEF TopNumber
<1>6. \A i \in 1 .. n : F2[i] = F[i]
  BY <1>4 DEF Continues
<1>7. n > 0 => F2[n] = F[n]
  BY <1>2, <1>6
<1>8. Fits(F2, B2, D2, f, n + 1)
  <2>1. n + 1 - 1 = n /\ n + 1 # f /\ (n + 1 > 1 => n > 0)
    BY <1>1, <1>2
  <2>2. /\ F2[n + 1].at \notin Operators /\ Opens(F2[n + 1]) = 0 /\ F2[n + 1].at \in Activations
        /\ F2[n + 1].at \notin Branches \union {"right", "argument", "function", "id"}
    BY <1>4 DEF Operators, Opens, Activations, Branches, Roots
  <2>3. n + 1 > 1 => ~ Asks(F2[n + 1 - 1])
    BY <1>3, <1>7, <2>1
  <2>5. D2[n + 1] = D2[n + 1 - 1] + Opens(F2[n + 1])
    <3>1. D2[n] = D[n]
      BY <1>2, <1>5 DEF SameUpTo
    <3> QED BY <1>2, <1>5, <2>1, <2>2, <3>1
  <2> QED BY ONLY <2>1, <2>2, <2>3, <2>5 DEF Fits
<1>9. Stacked(F2, B2, D2, f)
  <2>1. f <= Len(F2) /\ TopFits(F2, B2, D2, f, n)
    <3>1. f <= Len(F2)
      BY <1>1, <1>2, <1>4
    <3> HIDE DEF n
    <3> QED BY ONLY <1>8, <3>1 DEF TopFits
  <2>2. SameFunction(f, f, n)
    BY DEF SameFunction
  <2> QED BY <1>1, <1>2, <1>4, <1>5, <2>1, <2>2, StackMoves
<1>10. Naming(C2, S2, D2, f, n + 1)
  <2>1. D2[n + 1] = D[n] /\ D2[f] = D[f]
    BY <1>1, <1>2, <1>5 DEF SameUpTo
  <2> QED BY <2>1, NamingGrows
<1>11. H2 \in SUBSET H
  BY DeclaredHeld
<1>12. \A q \in H : q \in Nat /\ q < top
  BY <1>2 DEF Layout
<1> HIDE DEF H, H2
<1>13. Layout(F2, B2, H2, c2.regTop, f, n + 1)
  <2>1. Layout(F, B, H2, top, f, n)
    <3>1. SameUpTo(B, B, n) /\ top <= top /\ \A i \in 1 .. n : F[i] = F[i]
      BY <1>2, SameIs
    <3> HIDE DEF top
    <3> QED BY <1>1, <1>2, <1>11, <3>1, LayoutGrows
  <2>3. Room(F, B, top, f, n)
    <3> HIDE DEF top
    <3> QED BY <1>1, <1>2, <1>3, <2>1, RoomIdle
  <2>5. top <= r /\ r < c2.regTop /\ c2.regTop \in Nat
    OBVIOUS
  <2> HIDE DEF top
  <2> QED BY <1>1, <1>2, <1>5, <1>6, <2>1, <2>3, <2>5, LayoutPush
<1>14. Registers(C2, S2, F2, B2, f)
  <2>1. H2 = HeldRegs(c2.locals, S2) /\ Layout(F2, B2, H2, c2.regTop, f, Len(F2))
    BY <1>4, <1>13 DEF H2
  <2> QED BY <1>5, <1>6, <2>1, RegistersGrow
<1>15. Waiting(Last(C2).locals, S2, F2, B2, f)
  <2> DEFINE L == Last(C).locals
             L2 == c2.locals
             k == Len(L) + 1
  <2>1. /\ IsSeq(L2) /\ Len(L2) = k /\ L2[k].name = x /\ L2[k].reg \in Nat /\ L2[k].reg >= top
        /\ Len(L) \in Nat /\ L2 = c.locals
    BY <1>1, SeqFacts DEF Declared, SameNames, Compiler, Current
  <2>2. k \in DOMAIN L2 /\ L2[k].reg <= r /\ (fr.size # 0 => L2[k].reg < r)
    BY <2>1, SeqFacts
  <2>3. \A i \in 1 .. n : F[i].at # "var"
    BY <1>2, <1>3, NoVariable
  <2>4. VarPlaced(L2, S2, F2, B2, f, n + 1, k)
    <3>1. L2[k].reg \notin H2
      <4>1. L2[k].reg \notin H
        BY <1>2, <1>12, <2>1
      <4> QED BY <1>11, <4>1
    <3>2. ASSUME NEW j \in f + 1 .. n + 1 - 1, Keeps(F2[j]) PROVE B2[j] # L2[k].reg
      <4>1. j \in f + 1 .. n /\ F2[j] = F[j] /\ B2[j] = B[j] /\ B[j] \in Nat
        BY <1>1, <1>2, <1>5, <1>6 DEF SameUpTo, Numbers
      <4>2. B[j] < top
        BY <1>2, <3>2, <4>1 DEF Layout
      <4> QED BY <1>2, <2>1, <4>1, <4>2
    <3> HIDE DEF L2, k
    <3> QED BY <1>4, <1>5, <2>1, <2>2, <3>1, <3>2 DEF VarPlaced, H2, L2
  <2>5. /\ Len(S2) > 0 /\ x \in DOMAIN S2[Len(S2)] /\ S2[Len(S2)][x] = Unset
    BY DEF Binds
  <2>6. VarWaits(L2, S2, F2, B2, f, n + 1)
    <3>1. n + 1 > f
      BY <1>1, <1>2
    <3> QED BY <1>4, <2>2, <2>4, <2>5, <3>1 DEF VarWaits
  <2>7. \A i \in 1 .. n + 1 : i \in 1 .. n \/ i = n + 1
    BY <1>2
  <2>8. Last(C2) = c2
    BY DEF Becomes
  <2> QED BY <1>4, <1>6, <2>3, <2>6, <2>7, <2>8 DEF Waiting
<1>16. WantedIs(Last(C2), F2, B2, w2)
  <2>1. Asks(F2[n + 1]) /\ Asked(F2[n + 1], B2[n + 1]) = B2[n + 1] /\ Width(F2[n + 1]) = 1
    BY <1>4 DEF Asks, Roots, Asked, Width
  <2>2. Last(C2) = c2
    BY DEF Becomes
  <2> QED BY <1>2, <1>4, <1>5, <2>1, <2>2 DEF WantedIs
<1>17. Chain(C2, f)
  BY DEF Becomes
<1> QED BY <1>4, <1>9, <1>10, <1>14, <1>15, <1>16, <1>17 DEF Sound

\* A variable gets its first value.
OnlyAdds(S, S2, x) == \A y : y # x /\ Valued(S2, y) => Valued(S, y)

LEMMA BindingIs ==
  ASSUME NEW S, NEW x, NEW v, NEW S2, Binds(S, S2, x, v), x \in DOMAIN S[Len(S)], Scoped(S)
  PROVE  ScopesStay(S, S2) /\ Len(S2) = Len(S) /\ OnlyAdds(S, S2, x)
<1>1. \A s \in DOMAIN S2 : s \in DOMAIN S /\ (s \in 1 .. Len(S) - 1 \/ s = Len(S))
  BY DEF Binds
<1>2. \A s \in DOMAIN S2 : DOMAIN S2[s] = DOMAIN S[s]
  BY <1>1 DEF Binds
<1>3. Scoped(S2)
  BY <1>1, <1>2 DEF Scoped
<1>4. ASSUME NEW y, y # x, Valued(S2, y) PROVE Valued(S, y)
  <2>1. PICK s \in DOMAIN S2 : y \in DOMAIN S2[s] /\ S2[s][y] # Unset
    BY <1>4 DEF Valued
  <2>2. y \in DOMAIN S[s] /\ s \in DOMAIN S
    BY <1>1, <1>2, <2>1
  <2>3. S2[s][y] = S[s][y]
    BY <1>1, <1>4, <2>1, <2>2 DEF Binds
  <2> QED BY <2>1, <2>2, <2>3 DEF Valued
<1> QED BY <1>1, <1>2, <1>3, <1>4 DEF ScopesStay, Binds, OnlyAdds

\* A void that is given its value holds none.
LEMMA NothingAdded ==
  ASSUME NEW S, NEW x, NEW S2, Binds(S, S2, x, Unset), x \in DOMAIN S[Len(S)], NEW L
  PROVE  HeldRegs(L, S2) \in SUBSET HeldRegs(L, S)
<1>1. \A s \in DOMAIN S2 : s \in DOMAIN S /\ (s \in 1 .. Len(S) - 1 \/ s = Len(S))
  BY DEF Binds
<1>2. ASSUME NEW y, Valued(S2, y) PROVE Valued(S, y)
  <2>1. PICK s \in DOMAIN S2 : y \in DOMAIN S2[s] /\ S2[s][y] # Unset
    BY <1>2 DEF Valued
  <2>2. CASE s = Len(S)
    <3>1. y # x /\ y \in DOMAIN S[s] /\ S2[s][y] = S[s][y]
      BY <2>1, <2>2 DEF Binds
    <3> QED BY <1>1, <2>1, <3>1 DEF Valued
  <2>3. CASE s # Len(S)
    <3>1. S2[s] = S[s]
      BY <1>1, <2>3 DEF Binds
    <3> QED BY <1>1, <2>1, <3>1 DEF Valued
  <2> QED BY <2>2, <2>3
<1> QED BY <1>2 DEF HeldRegs, HeldIn

LEMMA HeldAdds ==
  ASSUME NEW L, Once(L), NEW S, NEW S2, NEW x, OnlyAdds(S, S2, x),
         NEW k \in DOMAIN L, L[k].name = x, L[k].reg \notin HeldRegs(L, S), Distinct(L, S)
  PROVE  HeldRegs(L, S2) \in SUBSET (HeldRegs(L, S) \union {L[k].reg}) /\ Distinct(L, S2)
<1>1. ASSUME NEW i \in HeldIn(L, S2) PROVE i \in HeldIn(L, S) \/ i = k
  <2>1. i \in DOMAIN L /\ Valued(S2, L[i].name)
    BY DEF HeldIn
  <2>2. L[i].name # x => i \in HeldIn(L, S)
    BY <2>1 DEF HeldIn, OnlyAdds
  <2>3. L[i].name = x => i = k
    BY <2>1 DEF Once
  <2> QED BY <2>2, <2>3
<1>2. HeldRegs(L, S2) \in SUBSET (HeldRegs(L, S) \union {L[k].reg})
  BY <1>1 DEF HeldRegs
<1>3. \A i \in HeldIn(L, S) : L[i].reg # L[k].reg
  BY DEF HeldRegs
<1>4. ASSUME NEW i \in HeldIn(L, S2), NEW j \in HeldIn(L, S2), L[i].reg = L[j].reg PROVE i = j
  <2>1. (i \in HeldIn(L, S) \/ i = k) /\ (j \in HeldIn(L, S) \/ j = k)
    BY <1>1
  <2> QED BY <1>3, <1>4, <2>1 DEF Distinct
<1> QED BY <1>2, <1>4 DEF Distinct

LEMMA VariablePopped ==
  ASSUME NEW C, NEW F, NEW w, NEW S, NEW f, NEW B, NEW D, Sound(C, F, w, S, f, B, D),
         Len(F) > 0, F[Len(F)].at = "var", NEW F2, Without(F, F2),
         NEW c2, NEW C2, Becomes(C, f, c2, C2), SameNames(Last(C), c2), c2.regTop = B[Len(F)],
         NEW v, F[Len(F)].size = 0 => v = Unset, NEW S2, Binds(S, S2, F[Len(F)].name, v),
         NEW w2, w2.is \notin {"expression", "register"}
  PROVE  Sound(C2, F2, w2, S2, f, B, D)
<1>1. f \in Nat /\ Current(C, F, w, S, f, B, D) /\ Stacked(F, B, D, f)
  BY CurrentIs DEF Sound
<1> DEFINE n == Len(F)
           m == Len(F) - 1
           top == Last(C).regTop
           L == Last(C).locals
           H == HeldRegs(L, S)
           x == F[Len(F)].name
<1>2. /\ n \in Nat /\ Numbers(B) /\ Numbers(D) /\ IsSeq(F) /\ D[n] \in Nat /\ B[n] \in Nat
      /\ Layout(F, B, H, top, f, n) /\ top \in Nat
  BY <1>1 DEF Current, Occupied
<1>3. /\ m \in Nat /\ f <= m /\ n \in Nat \ {0} /\ m + 1 = n /\ Fits(F, B, D, f, n)
      /\ (n > 1 => m \in 1 .. n /\ m > 0)
  BY TopIs
<1>4. Continues(F, F2, m) /\ Len(F2) = m /\ \A i \in 1 .. m : F2[i] = F[i]
  BY DEF Without, Continues
<1>5. SameUpTo(B, B, m) /\ SameUpTo(D, D, m)
  BY <1>2, <1>3, SameIs
<1>6. (n > 1 => ~ Asks(F[m])) /\ D[n] = D[m] /\ D[m] \in Nat
  <2>1. D[m] \in Nat
    BY <1>2, <1>3 DEF Numbers
  <2> QED BY <1>3, <2>1 DEF Fits, Operators, Opens
<1>7. Chain(C, f) /\ Naming(C, S, D, f, n) /\ Registers(C, S, F, B, f) /\ Waiting(L, S, F, B, f)
  BY DEF Sound
<1>8. /\ Chain(C2, f) /\ Len(C2) = Len(C) /\ Last(C2) = c2 /\ (f > 0 => C2[1] = C[1])
      /\ c2.locals = L /\ c2.scopeDepth = Last(C).scopeDepth
      /\ Last(C) = C[Len(C)] /\ Len(C) \in {1, 2}
  BY DEF Becomes, SameNames
<1>9. SameLocals(C, C2)
  BY <1>1, <1>7, <1>8, LocalsStay
<1>10. /\ x \in DOMAIN S[Len(S)] /\ \E k \in DOMAIN L : VarPlaced(L, S, F, B, f, n, k)
  BY <1>3, <1>7 DEF Waiting, VarWaits
<1>11. PICK k \in DOMAIN L : VarPlaced(L, S, F, B, f, n, k)
  BY <1>10
<1>12. /\ L[k].name = x /\ (F[n].size # 0 => L[k].reg < B[n]) /\ L[k].reg \notin H
       /\ \A j \in f + 1 .. n - 1 : Keeps(F[j]) => B[j] # L[k].reg
  BY <1>11 DEF VarPlaced
<1>13. Stacked(F2, B, D, f)
  <2>1. f <= Len(F2) /\ TopFits(F2, B, D, f, m)
    <3>1. Len(F2) = m /\ m \in Nat /\ f <= m
      BY <1>3, <1>4
    <3> HIDE DEF m
    <3>2. Len(F2) # m + 1
      BY <3>1
    <3> QED BY <3>1, <3>2 DEF TopFits
  <2>2. SameFunction(f, f, m)
    BY DEF SameFunction
  <2> HIDE DEF m
  <2> QED BY <1>1, <1>3, <1>4, <1>5, <2>1, <2>2, StackMoves
<1>14. ScopesStay(S, S2) /\ Len(S2) = Len(S) /\ OnlyAdds(S, S2, x)
  <2>1. Scoped(S)
    BY <1>7 DEF Naming
  <2> QED BY <1>10, <2>1, BindingIs
<1>20. F[n].size = 0 => HeldRegs(L, S2) \in SUBSET HeldRegs(L, S)
  BY <1>10, NothingAdded
<1>15. Naming(C2, S2, D, f, m)
  <2>2. Len(S2) = D[m] /\ D[f] = D[f]
    BY <1>6, <1>7, <1>14 DEF Naming
  <2>3. DepthIs(Last(C2), D, f, m)
    BY <1>6, <1>7, <1>8 DEF Naming, DepthIs
  <2> HIDE DEF m
  <2> QED BY <1>1, <1>2, <1>3, <1>7, <1>9, <1>14, <2>2, <2>3, NamingStays
<1>16. Registers(C2, S2, F2, B, f)
  <2> DEFINE H2 == HeldRegs(L, S2)
             p == L[k].reg
  <2>1. H2 \in SUBSET (H \union {p}) /\ Distinct(L, S2)
    <3>1. Once(L) /\ Distinct(L, S)
      BY <1>7, <1>8 DEF Naming, Registers
    <3> QED BY <1>12, <1>14, <3>1, HeldAdds
  <2>2. p \in Nat
    BY <1>1 DEF Current, Compiler
  <2>3. Last(C2).locals = L /\ Last(C2).regTop = c2.regTop
    BY <1>8
  <2> HIDE DEF H, L, p, H2, x
  <2>4. Layout(F2, B, H, c2.regTop, f, m)
    <3>1. Layout(F, B, H, top, f, m + 1) /\ Keeps(F[m + 1]) /\ Asks(F[m + 1])
      BY <1>2, <1>3 DEF Keeps, Asks, Roots
    <3>2. c2.regTop \in Nat /\ c2.regTop >= B[m + 1] /\ H \in SUBSET H
      BY <1>2, <1>3
    <3> HIDE DEF top, m
    <3> QED BY <1>1, <1>2, <1>3, <1>4, <1>5, <3>1, <3>2, LayoutDown
  <2>5. Layout(F2, B, H2, c2.regTop, f, m)
    <3>1. \A i \in 1 .. m : ~ Asks(F[i])
      <4>1. m <= Len(F) /\ (m > 0 => ~ Asks(F[m]))
        BY <1>3, <1>6
      <4> HIDE DEF m
      <4> QED BY <1>3, <4>1, NoVariable
    <3>2. \A i \in f + 1 .. m : ~ Asks(F2[i])
      BY <1>1, <1>3, <1>4, <3>1
    <3>3. \A i \in f + 1 .. m : Keeps(F2[i]) => B[i] # p
      BY <1>1, <1>3, <1>4, <1>12 DEF p
    <3>4. c2.regTop \in Nat
      BY <1>2
    <3>5. CASE F[n].size = 0
      <4>1. H2 \in SUBSET H
        BY <1>20, <3>5 DEF H, H2, L
      <4>2. SameUpTo(B, B, m) /\ \A i \in 1 .. m : F2[i] = F2[i]
        BY <1>5
      <4>3. PICK top2 \in Nat : top2 = c2.regTop /\ top2 <= top2
        BY <3>4
      <4>4. f \in Nat /\ m \in Nat /\ Numbers(B)
        BY <1>1, <1>2, <1>3
      <4> HIDE DEF m
      <4> QED BY ONLY <2>4, <4>1, <4>2, <4>3, <4>4, LayoutGrows
    <3>6. CASE F[n].size # 0
      <4>1. p < c2.regTop
        BY <1>2, <1>12, <3>6 DEF p
      <4> HIDE DEF m
      <4> QED BY <1>1, <1>3, <2>1, <2>2, <2>4, <3>2, <3>3, <3>4, <4>1, LayoutAdds
    <3> QED BY <3>5, <3>6
  <2>7. ASSUME f > 0
        PROVE  /\ Layout(F2, B, HeldRegs(C2[1].locals, S2), C2[1].regTop, 0, f - 1)
               /\ Distinct(C2[1].locals, S2)
    <3>1. f <= m + 1 /\ C2[1] = C[1] /\ Len(C) = 2
      BY <1>1, <1>3, <1>7, <1>8, <2>7 DEF Chain
    <3>2. FewerIn(C[1].locals, S, S2)
      <4>1. ASSUME NEW i \in DOMAIN C[1].locals PROVE C[1].locals[i].name # x
        <5>1. C[2].locals = L
          BY <1>8, <3>1 DEF L
        <5> QED BY <1>7, <1>12, <2>7, <5>1 DEF Naming
      <4> QED BY <1>14, <4>1 DEF FewerIn, OnlyAdds
    <3>3. /\ Layout(F2, B, HeldRegs(C[1].locals, S2), C[1].regTop, 0, f - 1)
          /\ Distinct(C[1].locals, S2)
      <4> HIDE DEF m
      <4> QED BY <1>1, <1>2, <1>3, <1>4, <1>5, <1>7, <2>7, <3>1, <3>2, OutsideKept
    <3> QED BY <3>1, <3>3
  <2> QED BY <1>4, <2>1, <2>3, <2>5, <2>7 DEF Registers, H2
<1>17. ~ (m > 0 /\ Asks(F[m]))
  BY <1>3, <1>6
<1>18. Waiting(Last(C2).locals, S2, F2, B, f)
  <2>1. \A i \in 1 .. m : F[i].at # "var"
    <3>1. m <= Len(F) /\ (m > 0 => ~ Asks(F[m]))
      BY <1>3, <1>17
    <3> HIDE DEF m
    <3> QED BY <1>3, <3>1, NoVariable
  <2> QED BY <1>4, <2>1 DEF Waiting
<1>19. WantedIs(Last(C2), F2, B, w2)
  <2>1. m > 0 => m \in 1 .. m
    BY <1>3
  <2>2. ~ (Len(F2) > 0 /\ Asks(F2[Len(F2)]))
    BY <1>4, <1>17, <2>1
  <2> QED BY <2>2 DEF WantedIs
<1> QED BY <1>4, <1>8, <1>13, <1>15, <1>16, <1>18, <1>19 DEF Sound

----------------------------------------
(* The actions. *)

Good(C, F, w, S) == \E f, B, D : Sound(C, F, w, S, f, B, D)
Compiles == Good(compilers, calls, wanted, meaning.scopes)
Here(f, B, D) == Sound(compilers, calls, wanted, meaning.scopes, f, B, D)
SameScopes == meaning'.scopes = meaning.scopes

LEMMA HereIs ==
  ASSUME NEW f, NEW B, NEW D, Here(f, B, D)
  PROVE  /\ f \in Nat /\ Current(compilers, calls, wanted, meaning.scopes, f, B, D)
         /\ Chain(compilers, f) /\ Compiler(current) /\ current = Last(compilers)
         /\ IsSeq(calls) /\ Len(calls) \in Nat /\ Numbers(B) /\ Numbers(D)
         /\ B[Len(calls)] \in Nat /\ D[Len(calls)] \in Nat
         /\ Naming(compilers, meaning.scopes, D, f, Len(calls))
         /\ WantedIs(current, calls, B, wanted)
BY CurrentIs DEF Here, Sound, Current, current

\* The activation that an action continues.
LEMMA CallerIs ==
  ASSUME NEW f, NEW B, NEW D, Here(f, B, D), NEW at, At = at, at # "program"
  PROVE  /\ Len(calls) > 0 /\ calls # <<>> /\ Caller = calls[Len(calls)] /\ calls[Len(calls)].at = at
         /\ Len(calls) \in Nat /\ Fits(calls, B, D, f, Len(calls))
<1>1. calls # <<>> /\ Caller.at = at
  BY DEF At
<1>2. IsSeq(calls) /\ Current(compilers, calls, wanted, meaning.scopes, f, B, D)
  BY HereIs
<1>3. Len(calls) \in Nat \ {0} /\ Last(calls) = calls[Len(calls)]
  <2> DEFINE P == Front(calls)
  <2> HIDE DEF P
  <2> QED BY <1>1, <1>2, Popped
<1> QED BY <1>1, <1>2, <1>3 DEF Caller, Current

\* A new register is asked for.
Fresher(f, c2) ==
  /\ Becomes(compilers, f, c2, compilers') /\ SameNames(current, c2)
  /\ c2.regTop = Flushed(current) + 1 /\ c2.packOffset = 0
  /\ Flushed(current) \in Nat /\ current.regTop <= Flushed(current)
  /\ current.packOffset = 0 => Flushed(current) = current.regTop

LEMMA AskFreshIs ==
  ASSUME NEW f, NEW B, NEW D, Here(f, B, D), AskFresh(current), ~ hadError'
  PROVE  /\ Fresher(f, Allocated(current))
         /\ wanted' = [is |-> "expression", dst |-> Flushed(current)]
<1>1. f \in Nat /\ Chain(compilers, f) /\ Compiler(current)
  BY HereIs
<1>2. ~ Exhausted(current) /\ MaxReg \in Nat
  BY Bounds DEF AskFresh
<1>3. compilers' = Append(Front(compilers), Allocated(current))
  BY DEF AskFresh, Become
<1>4. /\ Compiler(Allocated(current)) /\ SameNames(current, Allocated(current))
      /\ allocReg(current) = Flushed(current) /\ Flushed(current) \in Nat
      /\ Allocated(current).regTop = Flushed(current) + 1 /\ Allocated(current).packOffset = 0
      /\ current.regTop <= Flushed(current)
      /\ (current.packOffset = 0 => Flushed(current) = current.regTop)
  BY <1>1, <1>2, AllocatedIs
<1>5. Becomes(compilers, f, Allocated(current), compilers')
  BY <1>1, <1>3, <1>4, ChainIs
<1> QED BY <1>4, <1>5 DEF Fresher, AskFresh

LEMMA PushIs ==
  ASSUME NEW f, NEW B, NEW D, Here(f, B, D), NEW fr, calls' = Append(calls, fr)
  PROVE  OnTop(calls, fr, calls')
BY HereIs, Pushed DEF OnTop

LEMMA TopNumberIs ==
  ASSUME NEW n \in Nat, NEW b \in Nat, NEW B, Numbers(B)
  PROVE  TopNumber(B, Put(B, n + 1, b), n, b)
BY PutIs DEF TopNumber

LEMMA OperandAsked ==
  ASSUME NEW f, NEW B, NEW D, Here(f, B, D), wanted.is = "expression",
         NEW fr, OperatorFrame(fr, wanted), calls' = Append(calls, fr),
         AskFresh(current), ~ hadError', SameScopes
  PROVE  Compiles'
<1>1. /\ Fresher(f, Allocated(current)) /\ wanted' = [is |-> "expression", dst |-> Flushed(current)]
  BY AskFreshIs
<1>2. OnTop(calls, fr, calls')
  BY PushIs
<1>3. /\ Len(calls) \in Nat /\ Numbers(B) /\ Numbers(D) /\ D[Len(calls)] \in Nat
      /\ WantedIs(current, calls, B, wanted) /\ current = Last(compilers) /\ Compiler(current)
  BY HereIs
<1>4. current.packOffset = 0 /\ current.regTop \in Nat
  BY <1>3 DEF WantedIs, Compiler
<1> DEFINE b == current.regTop
           B2 == Put(B, Len(calls) + 1, b)
           D2 == Put(D, Len(calls) + 1, D[Len(calls)])
<1>5. TopNumber(B, B2, Len(calls), b) /\ TopNumber(D, D2, Len(calls), D[Len(calls)])
  BY <1>3, <1>4, TopNumberIs
<1> DEFINE c2 == Allocated(current)
<1>6. /\ Becomes(compilers, f, c2, compilers') /\ SameNames(current, c2)
      /\ c2.regTop = b + 1 /\ c2.packOffset = 0 /\ wanted'.is = "expression" /\ wanted'.dst = b
  BY <1>1, <1>4 DEF Fresher
<1> HIDE DEF b, B2, D2, c2
<1>7. Sound(compilers', calls', wanted', meaning.scopes, f, B2, D2)
  <2>1. b = Last(compilers).regTop
    BY <1>3 DEF b
  <2> QED BY <1>2, <1>3, <1>5, <1>6, <2>1, OperatorPushed DEF Here
<1> QED BY <1>7 DEF Compiles, Good, SameScopes

LEMMA ExpressionAsked ==
  ASSUME NEW f, NEW B, NEW D, Here(f, B, D), wanted.is = "statement",
         NEW fr, fr.at \in Roots \ {"var"}, calls' = Append(calls, fr),
         AskFresh(current), ~ hadError', SameScopes
  PROVE  Compiles'
<1>1. /\ Fresher(f, Allocated(current)) /\ wanted' = [is |-> "expression", dst |-> Flushed(current)]
  BY AskFreshIs
<1>2. OnTop(calls, fr, calls')
  BY PushIs
<1>3. /\ Len(calls) \in Nat /\ Numbers(B) /\ Numbers(D) /\ D[Len(calls)] \in Nat
      /\ current = Last(compilers)
  BY HereIs
<1> DEFINE r == Flushed(current)
           B2 == Put(B, Len(calls) + 1, r)
           D2 == Put(D, Len(calls) + 1, D[Len(calls)])
<1>4. r \in Nat
  BY <1>1 DEF Fresher
<1>5. TopNumber(B, B2, Len(calls), r) /\ TopNumber(D, D2, Len(calls), D[Len(calls)])
  BY <1>3, <1>4, TopNumberIs
<1> DEFINE c2 == Allocated(current)
<1>6. /\ Becomes(compilers, f, c2, compilers') /\ SameNames(Last(compilers), c2)
      /\ c2.regTop = r + 1 /\ c2.packOffset = 0 /\ wanted'.is = "expression" /\ wanted'.dst = r
      /\ Last(compilers).regTop <= r
  BY <1>1, <1>3 DEF Fresher
<1> HIDE DEF r, B2, D2, c2
<1>7. Sound(compilers', calls', wanted', meaning.scopes, f, B2, D2)
  BY <1>2, <1>4, <1>5, <1>6, RootPushed DEF Here
<1> QED BY <1>7 DEF Compiles, Good, SameScopes

LEMMA BecomeIs ==
  ASSUME NEW f, NEW B, NEW D, Here(f, B, D), NEW c2, Compiler(c2), Become(c2)
  PROVE  Becomes(compilers, f, c2, compilers')
BY HereIs, ChainIs DEF Become

\* One register is given back, or two.
FreedTo(c, c2, b) == Compiler(c2) /\ SameNames(c, c2) /\ c2.regTop = b /\ c2.packOffset = 0

LEMMA OneFreed ==
  ASSUME NEW c, Compiler(c), NEW b \in Nat, c.regTop = b + 1, NEW inst
  PROVE  FreedTo(c, freeReg(Emitted(c, inst), b), b)
<1> DEFINE e == Emitted(c, inst)
<1>1. Compiler(e) /\ SameNames(c, e) /\ SameTop(c, e)
  BY EmittedIs
<1> HIDE DEF e
<1>2. b = e.regTop - 1
  BY <1>1 DEF SameTop
<1>3. /\ Compiler(freeReg(e, b)) /\ SameNames(e, freeReg(e, b))
      /\ freeReg(e, b).regTop = b /\ freeReg(e, b).packOffset = 0
  BY <1>1, <1>2, FreedIs
<1> QED BY <1>1, <1>3 DEF FreedTo, SameNames, e

LEMMA TwoFreed ==
  ASSUME NEW c, Compiler(c), NEW b \in Nat, c.regTop = b + 2, NEW inst
  PROVE  FreedTo(c, freeReg(freeReg(Emitted(c, inst), b + 1), b), b)
<1>1. b + 1 \in Nat /\ c.regTop = (b + 1) + 1
  OBVIOUS
<1> DEFINE e == freeReg(Emitted(c, inst), b + 1)
<1>2. FreedTo(c, e, b + 1)
  BY <1>1, OneFreed
<1> HIDE DEF e
<1>3. Compiler(e) /\ SameNames(c, e) /\ b = e.regTop - 1
  BY <1>2 DEF FreedTo
<1>4. /\ Compiler(freeReg(e, b)) /\ SameNames(e, freeReg(e, b))
      /\ freeReg(e, b).regTop = b /\ freeReg(e, b).packOffset = 0
  BY <1>3, FreedIs
<1> QED BY <1>3, <1>4 DEF FreedTo, SameNames, e

LEMMA ReturnIs ==
  ASSUME NEW f, NEW B, NEW D, Here(f, B, D), Len(calls) > 0, Return
  PROVE  Without(calls, calls')
<1>1. IsSeq(calls) /\ calls # <<>>
  BY HereIs, EmptySeq
<1> QED BY <1>1, Popped DEF Return, Without

LEMMA SwapIs ==
  ASSUME NEW f, NEW B, NEW D, Here(f, B, D), Len(calls) > 0, NEW fr, calls' = Append(Front(calls), fr)
  PROVE  Instead(calls, fr, calls')
<1>1. IsSeq(calls) /\ calls # <<>>
  BY HereIs, EmptySeq
<1> QED BY <1>1, Swapped DEF Instead

\* An operator's value is complete.
LEMMA OperatorDone ==
  ASSUME NEW f, NEW B, NEW D, Here(f, B, D), Len(calls) > 0, calls[Len(calls)].at \in Operators,
         NEW c2, FreedTo(current, c2, B[Len(calls)]), Become(c2),
         wanted'.is = "register", wanted'.reg = calls[Len(calls)].dst, Return, SameScopes
  PROVE  Compiles'
<1>1. Without(calls, calls')
  BY ReturnIs
<1>2. current = Last(compilers)
  BY HereIs
<1>3. Becomes(compilers, f, c2, compilers')
  BY BecomeIs DEF FreedTo
<1>4. SameNames(Last(compilers), c2) /\ c2.regTop = B[Len(calls)] /\ c2.packOffset = 0
  BY <1>2 DEF FreedTo
<1>5. Sound(compilers', calls', wanted', meaning.scopes, f, B, D)
  BY <1>1, <1>3, <1>4, OperatorPopped DEF Here
<1> QED BY <1>5 DEF Compiles, Good, SameScopes

\* An expression without operands.
LEMMA ValueGiven ==
  ASSUME NEW f, NEW B, NEW D, Here(f, B, D), wanted.is = "expression",
         NEW c2, Compiler(c2), SameNames(current, c2), SameTop(current, c2),
         NEW v, Give(c2, wanted.dst, v), calls' = calls, SameScopes
  PROVE  Compiles'
<1>1. Becomes(compilers, f, c2, compilers')
  BY BecomeIs DEF Give
<1>2. current = Last(compilers) /\ WantedIs(current, calls, B, wanted) /\ current.regTop \in Nat
  BY HereIs DEF Compiler
<1>3. Last(compilers).regTop <= c2.regTop /\ SameNames(Last(compilers), c2)
  BY <1>2 DEF SameTop
<1>4. wanted'.is = "register" /\ wanted'.reg = wanted.dst
  BY DEF Give
<1>5. WantedIs(c2, calls, B, wanted')
  BY <1>2, <1>4 DEF WantedIs, SameTop
<1>6. Sound(compilers', calls, wanted', meaning.scopes, f, B, D)
  BY <1>1, <1>3, <1>5, Stays DEF Here
<1> QED BY <1>6 DEF Compiles, Good, SameScopes

LEMMA LiteralStep ==
  ASSUME NEW v, Compiles, Literal(v)
  PROVE  Compiles'
<1>1. PICK f, B, D : Here(f, B, D)
  BY DEF Compiles, Good, Here
<1> DEFINE inst == IF v \in Immediate THEN <<"LOAD", wanted.dst, v>>
                   ELSE <<"LOAD_CONST", wanted.dst, v, makeConstant(current)>>
           c2 == Emitted(current, inst)
<1>2. Compiler(c2) /\ SameNames(current, c2) /\ SameTop(current, c2)
  BY <1>1, HereIs, EmittedIs
<1>3. wanted.is = "expression" /\ Give(c2, wanted.dst, v) /\ calls' = calls /\ SameScopes
  BY DEF Literal, Leaf, SameScopes
<1> HIDE DEF c2
<1> QED BY <1>1, <1>2, <1>3, ValueGiven

LEMMA VariableStep ==
  ASSUME NEW x, Compiles, Variable(x)
  PROVE  Compiles'
<1>1. PICK f, B, D : Here(f, B, D)
  BY DEF Compiles, Good, Here
<1> DEFINE inst == IF Declares(current, x)
                   THEN <<"MOVE", wanted.dst, resolveLocal(current, x)>>
                   ELSE <<"GET_GLOBAL", wanted.dst, x, makeConstant(current)>>
           c2 == Emitted(current, inst)
<1>2. wanted.is = "expression" /\ Give(c2, wanted.dst, ValueOf(x)) /\ calls' = calls /\ SameScopes
  BY DEF Variable, Leaf, SameScopes
<1> HIDE DEF inst
<1>3. Compiler(c2) /\ SameNames(current, c2) /\ SameTop(current, c2)
  BY <1>1, HereIs, EmittedIs
<1> HIDE DEF c2
<1> QED BY <1>1, <1>2, <1>3, ValueGiven

LEMMA UncompiledStep ==
  ASSUME Compiles, Uncompiled
  PROVE  Compiles'
<1>1. PICK f, B, D : Here(f, B, D)
  BY DEF Compiles, Good, Here
<1>2. Compiler(current) /\ SameNames(current, current) /\ SameTop(current, current)
  BY <1>1, HereIs DEF SameNames, SameTop
<1>3. wanted.is = "expression" /\ Give(current, wanted.dst, Unset) /\ calls' = calls /\ SameScopes
  BY DEF Uncompiled, Leaf, SameScopes
<1> QED BY <1>1, <1>2, <1>3, ValueGiven

LEMMA BinaryStep ==
  ASSUME Compiles, Binary, ~ hadError'
  PROVE  Compiles'
<1>1. PICK f, B, D : Here(f, B, D)
  BY DEF Compiles, Good, Here
<1> DEFINE fr == [at |-> "left", dst |-> wanted.dst]
<1>2. OperatorFrame(fr, wanted)
  BY DEF OperatorFrame
<1>3. wanted.is = "expression" /\ calls' = Append(calls, fr) /\ AskFresh(current) /\ SameScopes
  BY DEF Binary, Expression, Call, SameScopes
<1> HIDE DEF fr
<1> QED BY <1>1, <1>2, <1>3, OperandAsked

LEMMA UnaryStep ==
  ASSUME Compiles, Unary, ~ hadError'
  PROVE  Compiles'
<1>1. PICK f, B, D : Here(f, B, D)
  BY DEF Compiles, Good, Here
<1> DEFINE fr == [at |-> "operand", dst |-> wanted.dst]
<1>2. OperatorFrame(fr, wanted)
  BY DEF OperatorFrame
<1>3. wanted.is = "expression" /\ calls' = Append(calls, fr) /\ AskFresh(current) /\ SameScopes
  BY DEF Unary, Expression, Call, SameScopes
<1> HIDE DEF fr
<1> QED BY <1>1, <1>2, <1>3, OperandAsked

LEMMA SyscallStep ==
  ASSUME NEW n \in 0 .. MaxArgs, Compiles, Syscall(n), ~ hadError'
  PROVE  Compiles'
<1>1. PICK f, B, D : Here(f, B, D)
  BY DEF Compiles, Good, Here
<1> DEFINE fr == [at |-> "id", dst |-> wanted.dst, count |-> n]
<1>2. OperatorFrame(fr, wanted)
  BY DEF OperatorFrame
<1>3. wanted.is = "expression" /\ calls' = Append(calls, fr) /\ AskFresh(current) /\ SameScopes
  BY DEF Syscall, Expression, Call, SameScopes
<1> HIDE DEF fr
<1> QED BY <1>1, <1>2, <1>3, OperandAsked

\* What the innermost activation was given.
LEMMA GivenIs ==
  ASSUME NEW f, NEW B, NEW D, Here(f, B, D), NEW at, at # "program", Given(at)
  PROVE  /\ wanted.is = "register" /\ Len(calls) > 0 /\ Len(calls) \in Nat /\ B[Len(calls)] \in Nat
         /\ Caller = calls[Len(calls)] /\ calls[Len(calls)].at = at
         /\ Fits(calls, B, D, f, Len(calls))
         /\ wanted.reg = Asked(calls[Len(calls)], B[Len(calls)])
         /\ current.regTop = B[Len(calls)] + Width(calls[Len(calls)]) /\ current.packOffset = 0
         /\ Compiler(current) /\ current = Last(compilers)
<1>1. wanted.is = "register" /\ At = at
  BY DEF Given
<1>2. /\ Len(calls) > 0 /\ Caller = calls[Len(calls)] /\ calls[Len(calls)].at = at
      /\ Len(calls) \in Nat /\ Fits(calls, B, D, f, Len(calls))
  BY <1>1, CallerIs
<1>3. /\ Compiler(current) /\ current = Last(compilers) /\ B[Len(calls)] \in Nat
      /\ WantedIs(current, calls, B, wanted)
  BY HereIs
<1> QED BY <1>1, <1>2, <1>3 DEF WantedIs

\* The next operand of an operator goes into a new register.
LEMMA NextAsked ==
  ASSUME NEW f, NEW B, NEW D, Here(f, B, D), Len(calls) > 0, wanted.is = "register",
         NEW fr, NextOperand(calls, B, fr), calls' = Append(Front(calls), fr),
         Asked(fr, B[Len(calls)]) = B[Len(calls)] + 1,
         current.regTop = B[Len(calls)] + 1, current.packOffset = 0,
         AskFresh(current), ~ hadError', SameScopes
  PROVE  Compiles'
<1>1. /\ Fresher(f, Allocated(current)) /\ wanted' = [is |-> "expression", dst |-> Flushed(current)]
  BY AskFreshIs
<1>2. Instead(calls, fr, calls')
  BY SwapIs
<1>3. current = Last(compilers) /\ B[Len(calls)] \in Nat
  BY HereIs
<1> DEFINE c2 == Allocated(current)
<1>4. /\ Becomes(compilers, f, c2, compilers') /\ SameNames(Last(compilers), c2)
      /\ c2.regTop = B[Len(calls)] + 2 /\ c2.packOffset = 0
      /\ wanted'.is = "expression" /\ wanted'.dst = Asked(fr, B[Len(calls)])
  BY <1>1, <1>3 DEF Fresher
<1> HIDE DEF c2
<1>5. Sound(compilers', calls', wanted', meaning.scopes, f, B, D)
  BY <1>2, <1>4, OperatorSwapped DEF Here
<1> QED BY <1>5 DEF Compiles, Good, SameScopes

LEMMA AfterLeftStep ==
  ASSUME Compiles, AfterLeft, ~ hadError'
  PROVE  Compiles'
<1>1. PICK f, B, D : Here(f, B, D)
  BY DEF Compiles, Good, Here
<1> DEFINE n == Len(calls)
           fr == [at |-> "right", dst |-> Caller.dst, reg |-> wanted.reg, val |-> wanted.val]
<1>2. /\ Given("left") /\ calls' = Append(Front(calls), fr) /\ AskFresh(current) /\ SameScopes
  BY DEF AfterLeft, SameScopes
<1>3. /\ wanted.is = "register" /\ n > 0 /\ Caller = calls[n] /\ calls[n].at = "left"
      /\ wanted.reg = Asked(calls[n], B[n]) /\ B[n] \in Nat
      /\ current.regTop = B[n] + Width(calls[n]) /\ current.packOffset = 0
  BY <1>1, <1>2, GivenIs
<1>4. wanted.reg = B[n] /\ current.regTop = B[n] + 1
  BY <1>3 DEF Asked, Width
<1>5. NextOperand(calls, B, fr) /\ Asked(fr, B[n]) = B[n] + 1
  BY <1>3, <1>4 DEF NextOperand, Operators, Asked
<1> HIDE DEF fr
<1> QED BY <1>1, <1>2, <1>3, <1>4, <1>5, NextAsked

LEMMA AfterIdStep ==
  ASSUME Compiles, AfterId, ~ hadError'
  PROVE  Compiles'
<1>1. PICK f, B, D : Here(f, B, D)
  BY DEF Compiles, Good, Here
<1> DEFINE n == Len(calls)
           fr == [at |-> "argument", dst |-> Caller.dst, id |-> wanted.reg,
                  start |-> allocReg(current), count |-> Caller.count, vals |-> <<wanted.val>>,
                  spoilt |-> FALSE]
<1>2. /\ Given("id") /\ Caller.count > 0 /\ calls' = Append(Front(calls), fr)
      /\ AskFresh(current) /\ SameScopes
  BY DEF AfterId, AskFresh, SameScopes
<1>3. /\ wanted.is = "register" /\ n > 0 /\ Caller = calls[n] /\ calls[n].at = "id"
      /\ wanted.reg = Asked(calls[n], B[n]) /\ B[n] \in Nat
      /\ current.regTop = B[n] + Width(calls[n]) /\ current.packOffset = 0
      /\ Fits(calls, B, D, f, n)
  BY <1>1, <1>2, GivenIs
<1>4. wanted.reg = B[n] /\ current.regTop = B[n] + 1
  BY <1>3 DEF Asked, Width
<1>5. allocReg(current) = B[n] + 1
  <2>1. ~ Exhausted(current) /\ MaxReg \in Nat
    BY <1>2, Bounds DEF AskFresh
  <2>2. Flushed(current) = current.regTop
    BY <1>3 DEF Flushed
  <2> QED BY <1>4, <2>1, <2>2 DEF allocReg
<1>6. calls[n].count \in 1 .. MaxArgs
  BY <1>2, <1>3 DEF Fits
<1>7. IsSeq(<<wanted.val>>) /\ Len(<<wanted.val>>) = 1
  BY SingleIs
<1>8. fr.vals = <<wanted.val>> /\ Asked(fr, B[n]) = B[n] + 1
  BY <1>7 DEF Asked
<1>9. Counted(fr, B[n])
  BY <1>3, <1>4, <1>5, <1>6, <1>7 DEF Counted
<1>10. NextOperand(calls, B, fr)
  BY <1>3, <1>9 DEF NextOperand, Operators
<1> HIDE DEF fr
<1> QED BY <1>1, <1>2, <1>3, <1>4, <1>8, <1>10, NextAsked

LEMMA AfterRightStep ==
  ASSUME Compiles, AfterRight
  PROVE  Compiles'
<1>1. PICK f, B, D : Here(f, B, D)
  BY DEF Compiles, Good, Here
<1> DEFINE n == Len(calls)
           inst == <<"SUB", Caller.dst, Caller.reg, wanted.reg>>
           c2 == freeReg(freeReg(Emitted(current, inst), wanted.reg), Caller.reg)
<1>2. /\ Given("right") /\ Become(c2) /\ Return /\ SameScopes
      /\ wanted'.is = "register" /\ wanted'.reg = Caller.dst
  BY DEF AfterRight, Give, BinaryEmitted, SameScopes
<1>3. /\ n > 0 /\ Caller = calls[n] /\ calls[n].at = "right" /\ B[n] \in Nat
      /\ wanted.reg = Asked(calls[n], B[n]) /\ Compiler(current)
      /\ current.regTop = B[n] + Width(calls[n]) /\ Fits(calls, B, D, f, n)
  BY <1>1, <1>2, GivenIs
<1>4. wanted.reg = B[n] + 1 /\ Caller.reg = B[n] /\ current.regTop = B[n] + 2
  BY <1>3 DEF Asked, Width, Fits
<1>5. FreedTo(current, c2, B[n])
  <2> HIDE DEF inst
  <2> QED BY <1>3, <1>4, TwoFreed
<1>6. calls[n].at \in Operators /\ wanted'.reg = calls[n].dst
  BY <1>2, <1>3 DEF Operators
<1> HIDE DEF c2
<1> QED BY <1>1, <1>2, <1>3, <1>5, <1>6, OperatorDone

LEMMA AfterOperandStep ==
  ASSUME Compiles, AfterOperand
  PROVE  Compiles'
<1>1. PICK f, B, D : Here(f, B, D)
  BY DEF Compiles, Good, Here
<1> DEFINE n == Len(calls)
           inst == <<"READ", Caller.dst, wanted.reg>>
           c2 == freeReg(Emitted(current, inst), wanted.reg)
<1>2. /\ Given("operand") /\ Become(c2) /\ Return /\ SameScopes
      /\ wanted'.is = "register" /\ wanted'.reg = Caller.dst
  BY DEF AfterOperand, Give, SameScopes
<1>3. /\ n > 0 /\ Caller = calls[n] /\ calls[n].at = "operand" /\ B[n] \in Nat
      /\ wanted.reg = Asked(calls[n], B[n]) /\ Compiler(current)
      /\ current.regTop = B[n] + Width(calls[n])
  BY <1>1, <1>2, GivenIs
<1>4. wanted.reg = B[n] /\ current.regTop = B[n] + 1
  BY <1>3 DEF Asked, Width
<1>5. FreedTo(current, c2, B[n])
  <2> HIDE DEF inst
  <2> QED BY <1>3, <1>4, OneFreed
<1>6. calls[n].at \in Operators /\ wanted'.reg = calls[n].dst
  BY <1>2, <1>3 DEF Operators
<1> HIDE DEF c2
<1> QED BY <1>1, <1>2, <1>3, <1>5, <1>6, OperatorDone

LEMMA AfterIdAloneStep ==
  ASSUME Compiles, AfterIdAlone, ~ hadError'
  PROVE  Compiles'
<1>1. PICK f, B, D : Here(f, B, D)
  BY DEF Compiles, Good, Here
<1> DEFINE n == Len(calls)
           a == Allocated(current)
           inst == <<"SYSCALL", Caller.dst, wanted.reg, 0>>
           c2 == freeReg(freeReg(Emitted(a, inst), allocReg(current)), wanted.reg)
<1>2. /\ Given("id") /\ Become(c2) /\ Return /\ ~ Exhausted(current)
      /\ wanted'.is = "register" /\ wanted'.reg = Caller.dst
  BY DEF AfterIdAlone, SyscallEmitted
<1>3. SameScopes
  <2>1. meaning'.scopes = [meaning EXCEPT !.out = IF Executed THEN Append(@, <<"syscall", wanted.val>>) ELSE @].scopes
    BY DEF AfterIdAlone, Says
  <2> QED BY <2>1 DEF SameScopes
<1>4. /\ n > 0 /\ Caller = calls[n] /\ calls[n].at = "id" /\ B[n] \in Nat
      /\ wanted.reg = Asked(calls[n], B[n]) /\ Compiler(current)
      /\ current.regTop = B[n] + Width(calls[n]) /\ current.packOffset = 0
  BY <1>1, <1>2, GivenIs
<1>5. wanted.reg = B[n] /\ current.regTop = B[n] + 1
  BY <1>4 DEF Asked, Width
<1>6. /\ Compiler(a) /\ SameNames(current, a) /\ allocReg(current) = B[n] + 1 /\ a.regTop = B[n] + 2
  <2>1. MaxReg \in Nat
    BY Bounds
  <2>2. /\ Compiler(a) /\ SameNames(current, a) /\ allocReg(current) = Flushed(current)
        /\ a.regTop = Flushed(current) + 1 /\ Flushed(current) = current.regTop
    BY <1>2, <1>4, <2>1, AllocatedIs
  <2> QED BY <1>4, <1>5, <2>2
<1>7. FreedTo(current, c2, B[n])
  <2> HIDE DEF inst, a
  <2>1. FreedTo(a, c2, B[n])
    BY <1>4, <1>5, <1>6, TwoFreed
  <2> HIDE DEF c2
  <2> QED BY <1>6, <2>1 DEF FreedTo, SameNames
<1>8. calls[n].at \in Operators /\ wanted'.reg = calls[n].dst
  BY <1>2, <1>4 DEF Operators
<1> HIDE DEF c2
<1> QED BY <1>1, <1>2, <1>3, <1>4, <1>7, <1>8, OperatorDone

\* The arguments of a system call, one after the other.
Lacking(F, b) ==
  /\ IsSeq(F) /\ Len(F) > 0 /\ F[Len(F)].at = "argument" /\ Counted(F[Len(F)], b)
  /\ Len(F[Len(F)].vals) < F[Len(F)].count
Lengthened(F, v, vals, z, F2) ==
  /\ vals = Append(F[Len(F)].vals, v)
  /\ F2 = [F EXCEPT ![Len(F)].vals = vals, ![Len(F)].spoilt = z]
Longer(F, F2, vals, b) ==
  /\ Continues(F, F2, Len(F) - 1) /\ Len(F2) = Len(F)
  /\ F2[Len(F)].at = "argument" /\ F2[Len(F)].dst = F[Len(F)].dst
  /\ F2[Len(F)].vals = vals /\ Counted(F2[Len(F)], b)

LEMMA ArgumentAdded ==
  ASSUME NEW F, NEW b \in Nat, Lacking(F, b), NEW v, NEW vals, NEW z, NEW F2,
         Lengthened(F, v, vals, z, F2)
  PROVE  Longer(F, F2, vals, b)
<1> DEFINE n == Len(F)
           g == F[n]
           g2 == [[g EXCEPT !.vals = vals] EXCEPT !.spoilt = z]
<1>1. n \in Nat \ {0} /\ DOMAIN F = 1 .. n /\ n \in 1 .. n /\ n - 1 \in 0 .. n
  BY SeqFacts DEF Lacking
<1>2. /\ {"at", "dst", "id", "start", "count"} \subseteq DOMAIN g /\ {"vals", "spoilt"} \subseteq DOMAIN g
      /\ g.id = b /\ g.start = b + 1 /\ g.count \in 1 .. MaxArgs
      /\ IsSeq(g.vals) /\ Len(g.vals) \in 1 .. g.count /\ Len(g.vals) < g.count
      /\ g.at = "argument"
  BY DEF Counted, Lacking
<1>3. IsSeq(vals) /\ Len(vals) = Len(g.vals) + 1
  BY <1>2, AppendIs DEF Lengthened
<1>4. F2 = [i \in 1 .. n |-> IF i = n THEN g2 ELSE F[i]]
  BY <1>1 DEF Lengthened
<1> HIDE DEF g2
<1>5. F2[n] = g2 /\ \A i \in 1 .. n - 1 : F2[i] = F[i]
  <2> HIDE DEF n
  <2> QED BY ONLY <1>1, <1>4
<1>6. F2 = [i \in 1 .. n |-> F2[i]]
  <2> HIDE DEF n
  <2> QED BY ONLY <1>4
<1>7. IsSeq(F2) /\ Len(F2) = n
  <2> HIDE DEF n
  <2> QED BY ONLY <1>1, <1>6, FunctionIs
<1>8. /\ DOMAIN g2 = DOMAIN g /\ g2.at = g.at /\ g2.dst = g.dst /\ g2.id = g.id
      /\ g2.start = g.start /\ g2.count = g.count /\ g2.vals = vals
  BY <1>2 DEF g2
<1>9. Len(vals) \in 1 .. g.count
  BY <1>2, <1>3
<1>10. Counted(g2, b)
  BY <1>2, <1>3, <1>8, <1>9 DEF Counted
<1>11. Continues(F, F2, n - 1)
  BY <1>1, <1>5, <1>7 DEF Continues
<1> QED BY <1>2, <1>3, <1>5, <1>7, <1>8, <1>10, <1>11 DEF Longer

LEMMA AfterArgumentStep ==
  ASSUME Compiles, AfterArgument
  PROVE  Compiles'
<1>1. PICK f, B, D : Here(f, B, D)
  BY DEF Compiles, Good, Here
<1> DEFINE n == Len(calls)
           vals == Append(Caller.vals, wanted.val)
           z == Caller.spoilt \/ Spoils(vals)
<1>2. Given("argument")
  BY DEF AfterArgument
<1>3. /\ wanted.is = "register" /\ n > 0 /\ Caller = calls[n] /\ calls[n].at = "argument"
      /\ B[n] \in Nat /\ Compiler(current) /\ current = Last(compilers)
      /\ current.regTop = B[n] + Width(calls[n]) /\ current.packOffset = 0
      /\ Fits(calls, B, D, f, n)
  BY <1>1, <1>2, GivenIs
<1>4. Counted(calls[n], B[n]) /\ current.regTop = B[n] + 2 /\ calls[n].at \in Operators
  BY <1>3 DEF Fits, Width, Operators
<1>5. IsSeq(calls)
  BY <1>1, HereIs
<1>6. /\ calls[n].id = B[n] /\ calls[n].start = B[n] + 1 /\ calls[n].count \in Nat
      /\ IsSeq(calls[n].vals) /\ Len(calls[n].vals) \in Nat
  BY <1>4 DEF Counted
<1>7. Len(vals) = Len(calls[n].vals) + 1
  BY <1>3, <1>6, AppendIs
<1>8. CASE Len(vals) <= Caller.count
  <2> DEFINE F2 == [calls EXCEPT ![n].vals = vals, ![n].spoilt = z]
  <2>1. /\ calls' = F2 /\ AskInto(current, Caller.start + Len(vals) - 1) /\ SameScopes
    BY <1>8 DEF AfterArgument, SameScopes
  <2>2. Len(calls[n].vals) < calls[n].count
    BY <1>3, <1>6, <1>7, <1>8
  <2>3. vals = Append(calls[n].vals, wanted.val)
    BY <1>3
  <2>11. Lengthened(calls, wanted.val, vals, z, F2)
    BY <2>3 DEF Lengthened
  <2>12. Lacking(calls, B[n])
    BY <1>3, <1>4, <1>5, <2>2 DEF Lacking
  <2> HIDE DEF z, vals
  <2> HIDE DEF F2
  <2>4. /\ Continues(calls, F2, n - 1) /\ Len(F2) = n
        /\ F2[n].at = "argument" /\ F2[n].dst = calls[n].dst
        /\ F2[n].vals = vals /\ Counted(F2[n], B[n])
    BY <1>3, <2>11, <2>12, ArgumentAdded DEF Longer
  <2>5. calls' = F2
    BY <2>1
  <2> DEFINE fr == F2[n]
  <2>6. Instead(calls, fr, calls') /\ NextOperand(calls, B, fr)
    BY <1>4, <2>4, <2>5 DEF Instead, NextOperand
  <2>7. Becomes(compilers, f, current, compilers')
    BY <1>1, <1>3, <2>1, BecomeIs DEF AskInto
  <2>8. SameNames(Last(compilers), current)
    BY <1>3 DEF SameNames
  <2>9. wanted'.is = "expression" /\ wanted'.dst = Asked(fr, B[n])
    <3>1. wanted'.is = "expression" /\ wanted'.dst = Caller.start + Len(vals) - 1
      BY <2>1 DEF AskInto
    <3>2. Asked(fr, B[n]) = B[n] + Len(vals)
      BY <2>4 DEF Asked
    <3>3. Caller.start = B[n] + 1 /\ B[n] \in Nat /\ Len(vals) \in Nat
      BY <1>3, <1>6, <1>7
    <3> HIDE DEF fr, n
    <3> QED BY ONLY <3>1, <3>2, <3>3
  <2> HIDE DEF fr
  <2>10. Sound(compilers', calls', wanted', meaning.scopes, f, B, D)
    BY <1>1, <1>3, <1>4, <2>6, <2>7, <2>8, <2>9, OperatorSwapped DEF Here
  <2> QED BY <2>1, <2>10 DEF Compiles, Good, SameScopes
<1>9. CASE ~ (Len(vals) <= Caller.count)
  <2> DEFINE inst == <<"SYSCALL", Caller.dst, Caller.id, Caller.count>>
             c2 == freeReg(freeReg(Emitted(current, inst), Caller.start), Caller.id)
             effect == IF z THEN Unset ELSE <<"syscall">> \o vals
  <2>1. /\ Become(c2) /\ Return /\ wanted'.is = "register" /\ wanted'.reg = Caller.dst
        /\ Says(effect)
    BY <1>9 DEF AfterArgument, Give, SyscallEmitted
  <2> HIDE DEF effect
  <2>2. SameScopes
    <3>1. meaning'.scopes = [meaning EXCEPT !.out = IF Executed THEN Append(@, effect) ELSE @].scopes
      BY <2>1 DEF Says
    <3> QED BY <3>1 DEF SameScopes
  <2>3. FreedTo(current, c2, B[n])
    <3> HIDE DEF inst
    <3> QED BY <1>3, <1>4, <1>6, TwoFreed
  <2>4. wanted'.reg = calls[n].dst
    BY <1>3, <2>1
  <2> HIDE DEF c2
  <2> QED BY <1>1, <1>3, <1>4, <2>1, <2>2, <2>3, <2>4, OperatorDone
<1> QED BY <1>8, <1>9

\* What execution says the program does leaves the scopes alone.
LEMMA SaysIs ==
  ASSUME NEW effect, Says(effect)
  PROVE  SameScopes
<1>1. meaning'.scopes = [meaning EXCEPT !.out = IF Executed THEN Append(@, effect) ELSE @].scopes
  BY DEF Says
<1> QED BY <1>1 DEF SameScopes

LEMMA BoundGlobalIs ==
  ASSUME NEW x, NEW v, meaning' = BoundGlobal(x, v)
  PROVE  SameScopes
<1>1. meaning'.scopes = [meaning EXCEPT !.globals = With(@, x, v)].scopes
  BY DEF BoundGlobal
<1> QED BY <1>1 DEF SameScopes

NoneWanted == wanted'.is \notin {"expression", "register"}

LEMMA DoneIs ==
  ASSUME NEW f, NEW B, NEW D, Here(f, B, D), NEW c2, Compiler(c2), Done(c2)
  PROVE  Becomes(compilers, f, c2, compilers') /\ NoneWanted
<1>1. Become(c2) /\ NoneWanted
  BY DEF Done, NoneWanted
<1> QED BY <1>1, BecomeIs

LEMMA PrintStmtStep ==
  ASSUME Compiles, PrintStmt, ~ hadError'
  PROVE  Compiles'
<1>1. PICK f, B, D : Here(f, B, D)
  BY DEF Compiles, Good, Here
<1> DEFINE fr == [at |-> "print"]
<1>2. wanted.is = "statement" /\ calls' = Append(calls, fr) /\ AskFresh(current) /\ SameScopes
  BY DEF PrintStmt, Statement, Call, SameScopes
<1>3. fr.at \in Roots \ {"var"}
  BY DEF Roots
<1> HIDE DEF fr
<1> QED BY <1>1, <1>2, <1>3, ExpressionAsked

LEMMA IfStep ==
  ASSUME Compiles, If, ~ hadError'
  PROVE  Compiles'
<1>1. PICK f, B, D : Here(f, B, D)
  BY DEF Compiles, Good, Here
<1> DEFINE fr == [at |-> "condition"]
<1>2. wanted.is = "statement" /\ calls' = Append(calls, fr) /\ AskFresh(current) /\ SameScopes
  BY DEF If, Statement, Call, SameScopes
<1>3. fr.at \in Roots \ {"var"}
  BY DEF Roots
<1> HIDE DEF fr
<1> QED BY <1>1, <1>2, <1>3, ExpressionAsked

LEMMA VarGlobalStep ==
  ASSUME NEW x, Compiles, VarGlobal(x), ~ hadError'
  PROVE  Compiles'
<1>1. PICK f, B, D : Here(f, B, D)
  BY DEF Compiles, Good, Here
<1> DEFINE fr == [at |-> "global", name |-> x]
<1>2. wanted.is = "statement" /\ calls' = Append(calls, fr) /\ AskFresh(current) /\ SameScopes
  BY DEF VarGlobal, Statement, Call, SameScopes
<1>3. fr.at \in Roots \ {"var"}
  BY DEF Roots
<1> HIDE DEF fr
<1> QED BY <1>1, <1>2, <1>3, ExpressionAsked

\* A statement is complete and gives its register back.
LEMMA StatementDone ==
  ASSUME NEW f, NEW B, NEW D, Here(f, B, D), Len(calls) > 0,
         NEW c2, Compiler(c2), SameNames(current, c2), Freed(compilers, calls, B, c2),
         Done(c2), Return, SameScopes
  PROVE  Compiles'
<1>1. Without(calls, calls')
  BY ReturnIs
<1>2. current = Last(compilers)
  BY HereIs
<1>3. Becomes(compilers, f, c2, compilers') /\ NoneWanted
  BY DoneIs
<1>4. Sound(compilers', calls', wanted', meaning.scopes, f, B, D)
  BY <1>1, <1>2, <1>3, StatementPopped DEF Here, NoneWanted
<1> QED BY <1>4 DEF Compiles, Good, SameScopes

LEMMA AfterPrintStep ==
  ASSUME Compiles, AfterPrint
  PROVE  Compiles'
<1>1. PICK f, B, D : Here(f, B, D)
  BY DEF Compiles, Good, Here
<1> DEFINE n == Len(calls)
           inst == <<"PRINT", wanted.reg>>
           c2 == freeReg(Emitted(current, inst), wanted.reg)
<1>2. Given("print") /\ Done(c2) /\ Return /\ Says(wanted.val)
  BY DEF AfterPrint
<1>3. /\ n > 0 /\ calls[n].at = "print" /\ B[n] \in Nat /\ wanted.reg = Asked(calls[n], B[n])
      /\ Compiler(current) /\ current.regTop = B[n] + Width(calls[n])
  BY <1>1, <1>2, GivenIs
<1>4. wanted.reg = B[n] /\ current.regTop = B[n] + 1
  BY <1>3 DEF Asked, Width
<1>5. FreedTo(current, c2, B[n])
  <2> HIDE DEF inst
  <2> QED BY <1>3, <1>4, OneFreed
<1>6. SameScopes
  BY <1>2, SaysIs
<1> HIDE DEF c2
<1>7. Compiler(c2) /\ SameNames(current, c2) /\ Freed(compilers, calls, B, c2)
  BY <1>3, <1>5 DEF FreedTo, Freed
<1> QED BY <1>1, <1>2, <1>3, <1>6, <1>7, StatementDone

LEMMA AfterVarGlobalStep ==
  ASSUME Compiles, AfterVarGlobal
  PROVE  Compiles'
<1>1. PICK f, B, D : Here(f, B, D)
  BY DEF Compiles, Good, Here
<1> DEFINE n == Len(calls)
           inst == <<"DEFINE_GLOBAL", wanted.reg, Caller.name, makeConstant(current)>>
           c2 == freeReg(Emitted(current, inst), wanted.reg)
<1>2. Given("global") /\ Done(c2) /\ Return /\ meaning' = BoundGlobal(Caller.name, wanted.val)
  BY DEF AfterVarGlobal, DefinedGlobal
<1>3. /\ n > 0 /\ calls[n].at = "global" /\ B[n] \in Nat /\ wanted.reg = Asked(calls[n], B[n])
      /\ Compiler(current) /\ current.regTop = B[n] + Width(calls[n])
  BY <1>1, <1>2, GivenIs
<1>4. wanted.reg = B[n] /\ current.regTop = B[n] + 1
  BY <1>3 DEF Asked, Width
<1>5. FreedTo(current, c2, B[n])
  <2> HIDE DEF inst
  <2> QED BY <1>3, <1>4, OneFreed
<1>6. SameScopes
  BY <1>2, BoundGlobalIs
<1> HIDE DEF c2
<1>7. Compiler(c2) /\ SameNames(current, c2) /\ Freed(compilers, calls, B, c2)
  BY <1>3, <1>5 DEF FreedTo, Freed
<1> QED BY <1>1, <1>2, <1>3, <1>6, <1>7, StatementDone

\* The register of the closure of a function, or of a global without a value.
LEMMA Borrowed ==
  ASSUME NEW c, Compiler(c), ~ Exhausted(c), NEW inst, NEW reg, reg = allocReg(c),
         NEW c2, c2 = freeReg(Emitted(Allocated(c), inst), reg)
  PROVE  Compiler(c2) /\ SameNames(c, c2) /\ c.regTop <= c2.regTop
<1>1. MaxReg \in Nat
  BY Bounds
<1> DEFINE a == Allocated(c)
           r == Flushed(c)
<1>2. /\ Compiler(a) /\ SameNames(c, a) /\ reg = r /\ r \in Nat /\ a.regTop = r + 1
      /\ c.regTop <= r
  BY <1>1, AllocatedIs
<1> HIDE DEF a, r
<1>3. FreedTo(a, freeReg(Emitted(a, inst), r), r)
  BY <1>2, OneFreed
<1>4. c2 = freeReg(Emitted(a, inst), r)
  BY <1>2 DEF a
<1>5. FreedTo(a, c2, r)
  BY <1>3, <1>4
<1> QED BY <1>2, <1>5 DEF FreedTo, SameNames

LEMMA VarGlobalAloneStep ==
  ASSUME NEW x, Compiles, VarGlobalAlone(x), ~ hadError'
  PROVE  Compiles'
<1>1. PICK f, B, D : Here(f, B, D)
  BY DEF Compiles, Good, Here
<1> DEFINE reg == allocReg(current)
           inst == <<"DEFINE_GLOBAL", reg, x, makeConstant(Allocated(current))>>
           c2 == freeReg(Emitted(Allocated(current), inst), reg)
<1>2. /\ wanted.is = "statement" /\ Become(c2) /\ ~ Exhausted(current) /\ wanted'.is = "statement"
      /\ calls' = calls /\ meaning' = BoundGlobal(x, Unset)
  BY DEF VarGlobalAlone, DefinedGlobal, Statement
<1>3. Compiler(current) /\ current = Last(compilers) /\ WantedIs(current, calls, B, wanted)
  BY <1>1, HereIs
<1>4. Compiler(c2) /\ SameNames(current, c2) /\ current.regTop <= c2.regTop
  <2> DEFINE d == c2
  <2>1. d = freeReg(Emitted(Allocated(current), inst), reg) /\ reg = allocReg(current)
    OBVIOUS
  <2> HIDE DEF d, inst, reg
  <2>2. Compiler(d) /\ SameNames(current, d) /\ current.regTop <= d.regTop
    BY <1>2, <1>3, <2>1, Borrowed
  <2> QED BY <2>2 DEF d
<1> HIDE DEF c2
<1>5. Becomes(compilers, f, c2, compilers')
  BY <1>1, <1>2, <1>4, BecomeIs
<1>6. WantedIs(c2, calls, B, wanted')
  BY <1>2, <1>3 DEF WantedIs
<1>7. SameScopes
  BY <1>2, BoundGlobalIs
<1>8. Sound(compilers', calls, wanted', meaning.scopes, f, B, D)
  BY <1>1, <1>3, <1>4, <1>5, <1>6, Stays DEF Here
<1> QED BY <1>2, <1>7, <1>8 DEF Compiles, Good, SameScopes

\* A condition, a first branch and a second one.
LEMMA BranchNext ==
  ASSUME NEW f, NEW B, NEW D, Here(f, B, D), Len(calls) > 0,
         NEW fr, NextBranch(calls, B, fr), calls' = Append(Front(calls), fr),
         NEW c2, Compiler(c2), SameNames(current, c2), SameTop(current, c2), Become(c2),
         NoneWanted, SameScopes
  PROVE  Compiles'
<1>1. Instead(calls, fr, calls') /\ current = Last(compilers)
  BY SwapIs, HereIs
<1>2. Becomes(compilers, f, c2, compilers')
  BY BecomeIs
<1>3. Sound(compilers', calls', wanted', meaning.scopes, f, B, D)
  BY <1>1, <1>2, BranchSwapped DEF Here, NoneWanted
<1> QED BY <1>3 DEF Compiles, Good, SameScopes

LEMMA AfterConditionStep ==
  ASSUME Compiles, AfterCondition
  PROVE  Compiles'
<1>1. PICK f, B, D : Here(f, B, D)
  BY DEF Compiles, Good, Here
<1> DEFINE n == Len(calls)
           fr == [at |-> "then", reg |-> wanted.reg, jump |-> Len(current.code) + 1,
                  taken |-> ~IsFalsey(wanted.val)]
           c2 == Emitted(current, <<"JUMP_IF_FALSE", wanted.reg, 0>>)
<1>2. /\ Given("condition") /\ calls' = Append(Front(calls), fr) /\ Become(c2) /\ NoneWanted
      /\ SameScopes
  BY DEF AfterCondition, AskStatement, NoneWanted, SameScopes
<1>3. /\ n > 0 /\ calls[n].at = "condition" /\ wanted.reg = Asked(calls[n], B[n]) /\ Compiler(current)
  BY <1>1, <1>2, GivenIs
<1>4. NextBranch(calls, B, fr)
  BY <1>3 DEF NextBranch, Branches, Asked
<1>5. Compiler(c2) /\ SameNames(current, c2) /\ SameTop(current, c2)
  BY <1>3, EmittedIs
<1> HIDE DEF fr, c2
<1> QED BY <1>1, <1>2, <1>3, <1>4, <1>5, BranchNext

LEMMA AfterThenStep ==
  ASSUME Compiles, AfterThen
  PROVE  Compiles'
<1>1. PICK f, B, D : Here(f, B, D)
  BY DEF Compiles, Good, Here
<1> DEFINE n == Len(calls)
           fr == [at |-> "else", reg |-> Caller.reg, jump |-> Len(current.code) + 1,
                  taken |-> Caller.taken]
           e == Emitted(current, <<"JUMP", 0, 0>>)
           c2 == patchJump(e, Caller.jump)
<1>2. /\ At = "then" /\ calls' = Append(Front(calls), fr) /\ Become(c2) /\ SameScopes
  BY DEF AfterThen, SameScopes
<1>3. NoneWanted
  BY DEF AfterThen, NoneWanted
<1>4. /\ n > 0 /\ Caller = calls[n] /\ calls[n].at = "then" /\ n \in Nat /\ Fits(calls, B, D, f, n)
  BY <1>1, <1>2, CallerIs
<1>5. Compiler(current)
  BY <1>1, HereIs
<1>6. NextBranch(calls, B, fr)
  BY <1>4 DEF NextBranch, Branches, Fits
<1>7. Compiler(e) /\ SameNames(current, e) /\ SameTop(current, e)
  BY <1>5, EmittedIs
<1> HIDE DEF fr, e
<1>8. Compiler(c2) /\ SameNames(e, c2) /\ SameTop(e, c2)
  BY <1>7, PatchedIs
<1> HIDE DEF c2
<1>9. SameNames(current, c2) /\ SameTop(current, c2)
  BY <1>7, <1>8 DEF SameNames, SameTop
<1> QED BY <1>1, <1>2, <1>3, <1>4, <1>6, <1>8, <1>9, BranchNext

LEMMA AfterElseStep ==
  ASSUME Compiles, AfterElse
  PROVE  Compiles'
<1>1. PICK f, B, D : Here(f, B, D)
  BY DEF Compiles, Good, Here
<1> DEFINE n == Len(calls)
           p == patchJump(current, Caller.jump)
           c2 == freeReg(p, Caller.reg)
<1>2. At = "else" /\ Done(c2) /\ Return /\ SameScopes
  BY DEF AfterElse, SameScopes
<1>3. /\ n > 0 /\ Caller = calls[n] /\ calls[n].at = "else" /\ n \in Nat /\ Fits(calls, B, D, f, n)
  BY <1>1, <1>2, CallerIs
<1>4. Compiler(current) /\ current = Last(compilers) /\ Numbers(B)
  BY <1>1, HereIs
<1>5. Caller.reg = B[n] /\ B[n] \in Nat
  BY <1>3, <1>4 DEF Fits, Branches, Numbers
<1>6. Compiler(p) /\ SameNames(current, p) /\ SameTop(current, p)
  BY <1>4, PatchedIs
<1> HIDE DEF p
<1>7. /\ Compiler(c2) /\ SameNames(p, c2)
      /\ (B[n] = p.regTop - 1 => c2.regTop = B[n])
      /\ (B[n] # p.regTop - 1 => SameTop(p, c2))
  BY <1>5, <1>6, FreedIs
<1> HIDE DEF c2
<1>8. SameNames(current, c2)
  BY <1>6, <1>7 DEF SameNames
<1>9. Freed(compilers, calls, B, c2)
  <2>1. p.regTop = Last(compilers).regTop /\ p.regTop \in Nat
    BY <1>4, <1>6 DEF SameTop, Compiler
  <2>2. CASE B[n] = p.regTop - 1
    <3>1. Last(compilers).regTop = B[n] + 1
      BY <2>1, <2>2
    <3> QED BY <1>3, <1>7, <2>2, <3>1 DEF Freed
  <2>3. CASE B[n] # p.regTop - 1
    BY <1>3, <1>7, <2>1, <2>3 DEF Freed, SameTop
  <2> QED BY <2>2, <2>3
<1> QED BY <1>1, <1>2, <1>3, <1>7, <1>8, <1>9, StatementDone

----------------------------------------
(* Blocks, functions and variables: the actions that change scopes. *)

HasScopes == "scopes" \in DOMAIN meaning

LEMMA ScopesSet ==
  ASSUME HasScopes, NEW S2, meaning' = [meaning EXCEPT !.scopes = S2]
  PROVE  meaning'.scopes = S2
BY DEF HasScopes

LEMMA DepthSet ==
  ASSUME NEW c, Compiler(c), NEW d
  PROVE  /\ Compiler([c EXCEPT !.scopeDepth = d]) /\ [c EXCEPT !.scopeDepth = d].locals = c.locals
         /\ [c EXCEPT !.scopeDepth = d].regTop = c.regTop /\ [c EXCEPT !.scopeDepth = d].scopeDepth = d
<1> DEFINE e == [c EXCEPT !.scopeDepth = d]
<1>1. /\ DOMAIN e = DOMAIN c /\ e.regTop = c.regTop /\ e.packOffset = c.packOffset
      /\ e.packReg = c.packReg /\ e.locals = c.locals /\ e.scopeDepth = d /\ e.code = c.code
  BY DEF Compiler
<1> HIDE DEF e
<1>2. Compiler(e)
  BY <1>1 DEF Compiler
<1> QED BY <1>1, <1>2 DEF e

LEMMA BlockStep ==
  ASSUME Compiles, HasScopes, Block
  PROVE  Compiles'
<1>1. PICK f, B, D : Here(f, B, D)
  BY DEF Compiles, Good, Here
<1> DEFINE n == Len(calls)
           fr == [at |-> "block"]
           c2 == [current EXCEPT !.scopeDepth = current.scopeDepth + 1]
           S == meaning.scopes
           D2 == Put(D, n + 1, D[n] + 1)
<1>2. /\ wanted.is = "statement" /\ calls' = Append(calls, fr) /\ Become(c2) /\ NoneWanted
      /\ meaning' = [meaning EXCEPT !.scopes = Opened]
  BY DEF Block, Statement, Call, AskStatement, NoneWanted
<1>3. meaning'.scopes = Append(S, Empty)
  BY <1>2, ScopesSet DEF Opened
<1>4. /\ Compiler(current) /\ current = Last(compilers) /\ n \in Nat /\ Numbers(D) /\ D[n] \in Nat
      /\ IsSeq(S)
  BY <1>1, HereIs DEF Naming
<1>5. OnTop(calls, fr, calls')
  <2> DEFINE g == fr
  <2>1. calls' = Append(calls, g)
    BY <1>2
  <2> HIDE DEF g
  <2>2. OnTop(calls, g, calls')
    BY <1>1, <2>1, PushIs
  <2> QED BY <2>2 DEF g
<1>6. OpensScope(S, meaning'.scopes)
  BY <1>3, <1>4, Opening
<1>7. TopNumber(D, D2, n, D[n] + 1)
  <2> DEFINE d == D[n] + 1
  <2>1. d \in Nat
    BY <1>4
  <2> HIDE DEF d
  <2>2. TopNumber(D, Put(D, n + 1, d), n, d)
    BY <1>4, <2>1, TopNumberIs
  <2> QED BY <2>2 DEF d
<1>8. /\ Compiler(c2) /\ c2.locals = current.locals /\ c2.regTop = current.regTop
      /\ c2.scopeDepth = current.scopeDepth + 1
  BY <1>4, DepthSet
<1>9. fr.at = "block" /\ wanted.is \notin {"expression", "register"}
  BY <1>2
<1> HIDE DEF c2, fr, D2
<1>10. Becomes(compilers, f, c2, compilers')
  BY <1>1, <1>2, <1>8, BecomeIs
<1> HIDE DEF n, S
<1>11. Sound(compilers', calls', wanted', meaning'.scopes, f, B, D2)
  BY <1>1, <1>2, <1>4, <1>5, <1>6, <1>7, <1>8, <1>9, <1>10, BlockPushed DEF Here, NoneWanted, n, S
<1> QED BY <1>11 DEF Compiles, Good

\* The scope that an activation opened is still open.
LEMMA ScopeOpen ==
  ASSUME NEW f, NEW B, NEW D, Here(f, B, D), Len(calls) > 0,
         calls[Len(calls)].at \in {"block", "function"}
  PROVE  IsSeq(meaning.scopes) /\ Len(meaning.scopes) > 0
<1> DEFINE n == Len(calls)
<1>1. /\ n \in Nat /\ Numbers(D) /\ Naming(compilers, meaning.scopes, D, f, n)
      /\ Fits(calls, B, D, f, n)
  BY HereIs DEF Current
<1>2. D[n] = D[n - 1] + 1 /\ D[n - 1] \in Nat
  BY <1>1 DEF Fits, Opens, Numbers
<1>3. IsSeq(meaning.scopes) /\ Len(meaning.scopes) = D[n]
  BY <1>1 DEF Naming
<1> QED BY <1>2, <1>3

LEMMA CloseBlockStep ==
  ASSUME Compiles, HasScopes, CloseBlock
  PROVE  Compiles'
<1>1. PICK f, B, D : Here(f, B, D)
  BY DEF Compiles, Good, Here
<1> DEFINE n == Len(calls)
           c2 == [current EXCEPT !.scopeDepth = current.scopeDepth - 1]
           S == meaning.scopes
<1>2. /\ At = "block" /\ Done(c2) /\ Return /\ meaning' = [meaning EXCEPT !.scopes = Closed]
  BY DEF CloseBlock
<1>3. meaning'.scopes = Front(S)
  BY <1>2, ScopesSet DEF Closed
<1>4. Compiler(current) /\ current = Last(compilers)
  BY <1>1, HereIs
<1>5. n > 0 /\ calls[n].at = "block"
  BY <1>1, <1>2, CallerIs
<1>6. ClosesScope(S, meaning'.scopes)
  BY <1>1, <1>3, <1>5, ScopeOpen, Closing
<1>7. Without(calls, calls')
  BY <1>1, <1>2, <1>5, ReturnIs
<1>8. /\ Compiler(c2) /\ c2.locals = current.locals /\ c2.regTop = current.regTop
      /\ c2.scopeDepth = current.scopeDepth - 1
  BY <1>4, DepthSet
<1> HIDE DEF c2
<1>9. Becomes(compilers, f, c2, compilers') /\ NoneWanted
  BY <1>1, <1>2, <1>8, DoneIs
<1>10. Sound(compilers', calls', wanted', meaning'.scopes, f, B, D)
  BY <1>1, <1>4, <1>5, <1>6, <1>7, <1>8, <1>9, BlockPopped DEF Here, NoneWanted
<1> QED BY <1>10 DEF Compiles, Good

LEMMA Beginning ==
  ASSUME NEW C, IsSeq(C), Len(C) = 1, NEW c2, Compiler(c2), c2.locals = <<>>, c2.scopeDepth = 2,
         NEW C2, C2 = Append(C, c2)
  PROVE  Begins(C, c2, C2)
<1>1. /\ Continues(C, C2, Len(C)) /\ Len(C2) = Len(C) + 1 /\ C2[Len(C) + 1] = c2
  BY Pushed
<1>2. IsSeq(C2) /\ Len(C2) = 2 /\ C2[2] = c2 /\ C2[1] = C[1]
  <2>1. Len(C) = 1
    OBVIOUS
  <2> QED BY ONLY <1>1, <2>1 DEF Continues
<1>3. Last(C2) = c2
  BY <1>2 DEF Last
<1> QED BY <1>2, <1>3 DEF Begins

LEMMA FunctionStep ==
  ASSUME NEW x, Compiles, HasScopes, Function(x)
  PROVE  Compiles'
<1>1. PICK f, B, D : Here(f, B, D)
  BY DEF Compiles, Good, Here
<1> DEFINE n == Len(calls)
           fr == [at |-> "function", name |-> x]
           c2 == NewCompiler(2)
           S == meaning.scopes
           D2 == Put(D, n + 1, D[n] + 1)
<1>2. /\ wanted.is = "statement" /\ calls' = Append(calls, fr) /\ compilers' = Append(compilers, c2)
      /\ NoneWanted /\ Len(compilers) = 1 /\ meaning' = [meaning EXCEPT !.scopes = Opened]
  BY DEF Function, Statement, Call, NoneWanted, Outermost
<1>3. meaning'.scopes = Append(S, Empty)
  BY <1>2, ScopesSet DEF Opened
<1>4. /\ n \in Nat /\ Numbers(D) /\ D[n] \in Nat /\ IsSeq(S) /\ Chain(compilers, f)
  BY <1>1, HereIs DEF Naming
<1>5. f = 0 /\ IsSeq(compilers)
  <2>1. Len(compilers) = (IF f = 0 THEN 1 ELSE 2) /\ IsSeq(compilers)
    BY <1>4 DEF Chain
  <2>2. Len(compilers) = 1
    BY <1>2
  <2> QED BY ONLY <2>1, <2>2
<1>6. OnTop(calls, fr, calls')
  <2> DEFINE g == fr
  <2>1. calls' = Append(calls, g)
    BY <1>2
  <2> HIDE DEF g
  <2>2. OnTop(calls, g, calls')
    BY <1>1, <2>1, PushIs
  <2> QED BY <2>2 DEF g
<1>7. OpensScope(S, meaning'.scopes)
  BY <1>3, <1>4, Opening
<1>8. TopNumber(D, D2, n, D[n] + 1)
  <2> DEFINE d == D[n] + 1
  <2>1. d \in Nat
    BY <1>4
  <2> HIDE DEF d
  <2>2. TopNumber(D, Put(D, n + 1, d), n, d)
    BY <1>4, <2>1, TopNumberIs
  <2> QED BY <2>2 DEF d
<1>9. Compiler(c2) /\ c2.locals = <<>> /\ c2.scopeDepth = 2
  BY NewCompilerIs
<1>10. fr.at = "function" /\ wanted.is \notin {"expression", "register"}
  BY <1>2
<1> HIDE DEF c2, fr, D2
<1>11. Begins(compilers, c2, compilers')
  <2>1. compilers' = Append(compilers, c2) /\ Len(compilers) = 1
    BY <1>2
  <2> QED BY <1>5, <1>9, <2>1, Beginning
<1>12. Sound(compilers, calls, wanted, S, 0, B, D)
  BY <1>1, <1>5 DEF Here
<1> HIDE DEF n, S
<1>13. Sound(compilers', calls', wanted', meaning'.scopes, Len(calls) + 1, B, D2)
  BY <1>2, <1>6, <1>7, <1>8, <1>10, <1>11, <1>12, FunctionPushed DEF NoneWanted, n
<1> QED BY <1>13 DEF Compiles, Good

\* The compiler of the function is dropped, and the one around it goes on.
LEMMA Ending ==
  ASSUME NEW f, NEW C, Chain(C, f), f # 0, NEW c2, Compiler(c2), SameNames(C[1], c2),
         C[1].regTop <= c2.regTop, NEW C2, C2 = Append(Front(Front(C)), c2)
  PROVE  Ends(C, c2, C2)
<1>1. IsSeq(C) /\ Len(C) = 2 /\ C # <<>>
  <2>1. IsSeq(C) /\ Len(C) = 2
    BY DEF Chain
  <2>2. C = <<>> => Len(C) = 0
    BY EmptySeq
  <2> QED BY ONLY <2>1, <2>2
<1> DEFINE P == Front(C)
<1>2. Continues(C, P, Len(C) - 1) /\ Len(P) = Len(C) - 1
  BY <1>1, Popped
<1> HIDE DEF P
<1>3. IsSeq(P) /\ Len(P) = 1 /\ P # <<>>
  BY ONLY <1>1, <1>2, EmptySeq DEF Continues
<1>4. /\ Continues(P, C2, Len(P) - 1) /\ Len(C2) = Len(P) /\ C2[Len(P)] = c2
  <2>1. C2 = Append(Front(P), c2)
    BY DEF P
  <2> QED BY <1>3, <2>1, Swapped
<1>5. IsSeq(C2) /\ Len(C2) = 1 /\ C2[1] = c2
  BY <1>3, <1>4 DEF Continues
<1> QED BY <1>5 DEF Ends, Last, SameNames

LEMMA CloseFunctionStep ==
  ASSUME Compiles, HasScopes, CloseFunction, ~ hadError'
  PROVE  Compiles'
<1>1. PICK f, B, D : Here(f, B, D)
  BY DEF Compiles, Good, Here
<1> DEFINE n == Len(calls)
           S == meaning.scopes
           c == compilers[Len(compilers) - 1]
           x == Caller.name
           reg == allocReg(c)
           globals2 == IF c.scopeDepth = 0 THEN With(meaning.globals, x, <<"closure", x>>)
                       ELSE meaning.globals
           j1 == makeConstant(Allocated(c))
           closed == Emitted(Allocated(c), <<"CLOSURE", reg, x, j1>>)
           j2 == makeConstant(closed)
           c2 == IF c.scopeDepth = 0
                 THEN freeReg(Emitted(closed, <<"DEFINE_GLOBAL", reg, x, j2>>), reg)
                 ELSE freeReg(closed, reg)
<1>2. /\ At = "function" /\ ~ Exhausted(c) /\ Return /\ wanted'.is = "statement"
      /\ compilers' = Append(Front(Front(compilers)), c2)
  BY DEF CloseFunction, ClosureEmitted, DefinedGlobal
<1>3. meaning' = [meaning EXCEPT !.scopes = Closed, !.globals = globals2]
  BY DEF CloseFunction
<1>4. meaning'.scopes = Front(S)
  <2> HIDE DEF globals2
  <2> QED BY <1>3 DEF Closed, HasScopes
<1>5. /\ n > 0 /\ calls[n].at = "function" /\ n \in Nat /\ Fits(calls, B, D, f, n)
  BY <1>1, <1>2, CallerIs
<1>6. Chain(compilers, f) /\ f # 0 /\ Len(compilers) = 2 /\ c = compilers[1] /\ Compiler(c)
  <2>1. Chain(compilers, f)
    BY <1>1, HereIs
  <2>2. f # 0
    BY <1>5 DEF Fits
  <2>3. Len(compilers) = 2 /\ \A k \in 1 .. Len(compilers) : Compiler(compilers[k])
    BY <2>1, <2>2 DEF Chain
  <2> QED BY <2>1, <2>2, <2>3
<1>7. ClosesScope(S, meaning'.scopes)
  BY <1>1, <1>4, <1>5, ScopeOpen, Closing
<1>8. Without(calls, calls')
  BY <1>1, <1>2, <1>5, ReturnIs
<1>9. Compiler(c2) /\ SameNames(c, c2) /\ c.regTop <= c2.regTop
  <2> DEFINE a == Allocated(c)
             r == Flushed(c)
             i1 == <<"CLOSURE", reg, x, j1>>
             i2 == <<"DEFINE_GLOBAL", reg, x, j2>>
             e == Emitted(a, i1)
  <2>1. /\ Compiler(a) /\ SameNames(c, a) /\ reg = r /\ r \in Nat /\ a.regTop = r + 1
        /\ c.regTop <= r
    BY <1>2, <1>6, Bounds, AllocatedIs
  <2>2. c2 = freeReg(Emitted(e, i2), reg) \/ c2 = freeReg(e, reg)
    OBVIOUS
  <2> HIDE DEF a, r, i1, i2, reg, c2, j1, j2
  <2>3. FreedTo(a, freeReg(e, r), r)
    BY <2>1, OneFreed
  <2>4. Compiler(e) /\ SameNames(a, e) /\ SameTop(a, e)
    BY <2>1, EmittedIs
  <2> HIDE DEF e
  <2>5. e.regTop = r + 1
    BY <2>1, <2>4 DEF SameTop
  <2>6. FreedTo(e, freeReg(Emitted(e, i2), r), r)
    BY <2>1, <2>4, <2>5, OneFreed
  <2>7. FreedTo(a, c2, r)
    BY <2>1, <2>2, <2>3, <2>4, <2>6 DEF FreedTo, SameNames
  <2> QED BY <2>1, <2>7 DEF FreedTo, SameNames
<1> HIDE DEF c2
<1>10. Ends(compilers, c2, compilers')
  <2>1. SameNames(compilers[1], c2) /\ compilers[1].regTop <= c2.regTop
    BY <1>6, <1>9
  <2> QED BY <1>2, <1>6, <1>9, <2>1, Ending
<1>11. Sound(compilers', calls', wanted', meaning'.scopes, 0, B, D)
  <2>1. wanted'.is \notin {"expression", "register"}
    BY <1>2
  <2> QED BY <1>1, <1>5, <1>7, <1>8, <1>10, <2>1, FunctionPopped DEF Here
<1> QED BY <1>11 DEF Compiles, Good

\* A fresh name, and a scope to declare it in.
LEMMA DeclarationIs ==
  ASSUME NEW f, NEW B, NEW D, Here(f, B, D), HasScopes, NEW x, Fresh(x), current.scopeDepth > 0,
         NEW v, meaning' = Bound(x, v)
  PROVE  Unused(compilers, x) /\ Binds(meaning.scopes, meaning'.scopes, x, v)
<1> DEFINE S == meaning.scopes
           S2 == Append(Front(S), With(Last(S), x, v))
<1>1. meaning' = [meaning EXCEPT !.scopes = S2]
  BY DEF Bound
<1> HIDE DEF S2
<1>2. meaning'.scopes = S2
  BY <1>1, ScopesSet
<1>3. Chain(compilers, f) /\ IsSeq(S) /\ current = Last(compilers)
  BY HereIs DEF Naming
<1>4. DOMAIN compilers = 1 .. Len(compilers)
  BY <1>3, SeqFacts DEF Chain
<1>5. Unused(compilers, x)
  BY <1>4 DEF Fresh, Unused
<1>6. Len(S) > 0
  <2>1. Last(compilers).scopeDepth > 0
    BY <1>3
  <2>2. Len(S) \in Nat \ {0}
    BY <2>1, OwnerIs DEF Here
  <2> QED BY <2>2
<1>7. Binds(S, S2, x, v)
  <2>1. S2 = Append(Front(S), With(Last(S), x, v))
    BY DEF S2
  <2> HIDE DEF S
  <2> QED BY <1>3, <1>6, <2>1, Binding
<1> QED BY <1>2, <1>5, <1>7

LEMMA VarLocalAloneStep ==
  ASSUME NEW x, NEW size \in Sizes, Compiles, HasScopes, VarLocalAlone(x, size), ~ hadError'
  PROVE  Compiles'
<1>1. PICK f, B, D : Here(f, B, D)
  BY DEF Compiles, Good, Here
<1> DEFINE c2 == declareLocal(current, x, size)
<1>2. /\ wanted.is = "statement" /\ current.scopeDepth > 0 /\ Fresh(x) /\ Become(c2)
      /\ (size = 8 => ~ Exhausted(current)) /\ wanted'.is = "statement" /\ calls' = calls
      /\ meaning' = Bound(x, Unset)
  BY DEF VarLocalAlone, Statement
<1>3. Unused(compilers, x) /\ Binds(meaning.scopes, meaning'.scopes, x, Unset)
  BY <1>1, <1>2, DeclarationIs
<1>4. Compiler(current) /\ current = Last(compilers)
  BY <1>1, HereIs
<1>5. Declared(current, c2, x)
  <2>1. size \in 0 .. 8 /\ MaxReg \in Nat
    BY Bounds
  <2> QED BY <1>2, <1>4, <2>1, DeclaredIs
<1> HIDE DEF c2
<1>6. Becomes(compilers, f, c2, compilers')
  BY <1>1, <1>2, <1>5, BecomeIs DEF Declared
<1>7. wanted.is \notin {"expression", "register"} /\ wanted'.is \notin {"expression", "register"}
  BY <1>2
<1>8. Declared(Last(compilers), c2, x) /\ Last(compilers).scopeDepth > 0
  BY <1>2, <1>4, <1>5
<1>9. Sound(compilers', calls, wanted', meaning'.scopes, f, B, D)
  BY <1>1, <1>3, <1>6, <1>7, <1>8, VariableDeclared DEF Here
<1> QED BY <1>2, <1>9 DEF Compiles, Good

LEMMA VarLocalStep ==
  ASSUME NEW x, NEW size \in Sizes, Compiles, HasScopes, VarLocal(x, size), ~ hadError'
  PROVE  Compiles'
<1>1. PICK f, B, D : Here(f, B, D)
  BY DEF Compiles, Good, Here
<1> DEFINE c == declareLocal(current, x, size)
           c2 == Allocated(c)
           fr == [at |-> "var", name |-> x, size |-> size]
           n == Len(calls)
           r == Flushed(c)
           B2 == Put(B, n + 1, r)
           D2 == Put(D, n + 1, D[n])
<1>2. /\ wanted.is = "statement" /\ current.scopeDepth > 0 /\ Fresh(x) /\ Become(c2)
      /\ (size = 8 => ~ Exhausted(current)) /\ ~ Exhausted(c)
      /\ wanted' = [is |-> "expression", dst |-> allocReg(c)]
      /\ calls' = Append(calls, fr) /\ meaning' = Bound(x, Unset)
  BY DEF VarLocal, Statement
<1>3. Unused(compilers, x) /\ Binds(meaning.scopes, meaning'.scopes, x, Unset)
  BY <1>1, <1>2, DeclarationIs
<1>4. /\ Compiler(current) /\ current = Last(compilers) /\ n \in Nat /\ Numbers(B) /\ Numbers(D)
      /\ D[n] \in Nat
  BY <1>1, HereIs
<1>5. /\ Declared(current, c, x)
      /\ size # 0 => c.locals[Len(current.locals) + 1].reg < Flushed(c)
  <2>1. size \in 0 .. 8 /\ MaxReg \in Nat
    BY Bounds
  <2> QED BY <1>2, <1>4, <2>1, DeclaredIs
<1>6. OnTop(calls, fr, calls')
  <2> DEFINE g == fr
  <2>1. calls' = Append(calls, g)
    BY <1>2
  <2> HIDE DEF g
  <2>2. OnTop(calls, g, calls')
    BY <1>1, <2>1, PushIs
  <2> QED BY <2>2 DEF g
<1>7. fr.at = "var" /\ fr.name = x /\ fr.size = size
  OBVIOUS
<1> HIDE DEF c, fr
<1>8. /\ Compiler(c2) /\ SameNames(c, c2) /\ allocReg(c) = r /\ r \in Nat
      /\ c2.regTop = r + 1 /\ c2.packOffset = 0 /\ c.regTop <= r
  BY <1>2, <1>5, Bounds, AllocatedIs DEF Declared
<1>9. /\ current.regTop <= r /\ c.locals[Len(c.locals)].reg <= r
      /\ size # 0 => c.locals[Len(c.locals)].reg < r
  <2>1. current.regTop \in Nat /\ c.regTop \in Nat /\ current.regTop <= c.regTop
    BY <1>4, <1>5 DEF Declared, Compiler
  <2>2. Len(c.locals) = Len(current.locals) + 1 /\ c.locals[Len(current.locals) + 1].reg <= r
        /\ (size # 0 => c.locals[Len(current.locals) + 1].reg < r)
    BY <1>5 DEF Declared
  <2> HIDE DEF r
  <2> QED BY <1>8, <2>1, <2>2
<1>10. TopNumber(B, B2, n, r) /\ TopNumber(D, D2, n, D[n])
  <2> HIDE DEF r
  <2> QED BY <1>4, <1>8, TopNumberIs
<1> HIDE DEF c2
<1>11. Becomes(compilers, f, c2, compilers')
  BY <1>1, <1>2, <1>8, BecomeIs
<1>12. /\ wanted.is \notin {"expression", "register"} /\ wanted'.is = "expression" /\ wanted'.dst = r
  BY <1>2, <1>8
<1>13. /\ Declared(Last(compilers), c, x) /\ Last(compilers).scopeDepth > 0
       /\ Last(compilers).regTop <= r
  BY <1>2, <1>4, <1>5, <1>9
<1> HIDE DEF r, B2, D2, n
<1>14. Sound(compilers', calls', wanted', meaning'.scopes, f, B2, D2)
  BY <1>1, <1>3, <1>6, <1>7, <1>8, <1>9, <1>10, <1>11, <1>12, <1>13, VariablePushed DEF Here, n
<1> QED BY <1>14 DEF Compiles, Good

LEMMA AfterVarLocalStep ==
  ASSUME Compiles, HasScopes, AfterVarLocal
  PROVE  Compiles'
<1>1. PICK f, B, D : Here(f, B, D)
  BY DEF Compiles, Good, Here
<1> DEFINE n == Len(calls)
           S == meaning.scopes
           inst == <<"MOVE", resolveLocal(current, Caller.name), wanted.reg>>
           c2 == freeReg(Emitted(current, inst), wanted.reg)
           val == InStorage(Caller.size, wanted.val)
           S2 == Append(Front(S), With(Last(S), Caller.name, val))
<1>2. /\ Given("var") /\ Done(c2) /\ Return /\ meaning' = [meaning EXCEPT !.scopes = S2]
  BY DEF AfterVarLocal, Bound
<1>3. /\ n > 0 /\ calls[n].at = "var" /\ B[n] \in Nat /\ wanted.reg = Asked(calls[n], B[n])
      /\ Compiler(current) /\ current.regTop = B[n] + Width(calls[n]) /\ n \in Nat
      /\ current = Last(compilers) /\ Caller = calls[n]
  BY <1>1, <1>2, GivenIs
<1>4. wanted.reg = B[n] /\ current.regTop = B[n] + 1
  BY <1>3 DEF Asked, Width
<1>5. FreedTo(current, c2, B[n])
  <2> HIDE DEF inst
  <2> QED BY <1>3, <1>4, OneFreed
<1> HIDE DEF c2
<1>6. IsSeq(S) /\ Len(S) > 0
  <2>1. IsSeq(S)
    BY <1>1, HereIs DEF Naming
  <2>2. Waiting(Last(compilers).locals, S, calls, B, f)
    BY <1>1 DEF Here, Sound
  <2>3. n \in 1 .. Len(calls)
    BY <1>3
  <2>4. VarWaits(Last(compilers).locals, S, calls, B, f, n)
    BY <1>3, <2>2, <2>3 DEF Waiting
  <2> QED BY <2>1, <2>4 DEF VarWaits
<1>12. calls[n].size = 0 => val = Unset
  BY <1>3 DEF InStorage
<1>7. Binds(S, meaning'.scopes, calls[n].name, val)
  <2> DEFINE x == calls[n].name
             v == val
  <2>1. S2 = Append(Front(S), With(Last(S), x, v))
    BY <1>3
  <2> HIDE DEF S2, x, v
  <2>2. meaning'.scopes = S2
    BY <1>2, ScopesSet
  <2> HIDE DEF S
  <2>3. Binds(S, S2, x, v)
    BY <1>6, <2>1, Binding
  <2> QED BY <2>2, <2>3 DEF x, v
<1>8. Without(calls, calls')
  BY <1>1, <1>2, <1>3, ReturnIs
<1>9. Becomes(compilers, f, c2, compilers') /\ NoneWanted
  BY <1>1, <1>2, <1>5, DoneIs DEF FreedTo
<1>10. SameNames(Last(compilers), c2) /\ c2.regTop = B[n]
  BY <1>3, <1>5 DEF FreedTo
<1>11. Sound(compilers', calls', wanted', meaning'.scopes, f, B, D)
  BY <1>1, <1>3, <1>7, <1>8, <1>9, <1>10, <1>12, VariablePopped DEF Here, NoneWanted
<1> QED BY <1>11 DEF Compiles, Good

----------------------------------------
(* The inductive invariant. *)

IInv == HasScopes /\ (phase = "compiling" /\ ~ hadError => Compiles)

LEMMA ExprStep ==
  ASSUME Compiles, CompileExpr, ~ hadError'
  PROVE  Compiles'
<1>1. CASE \E v \in Literals : Literal(v)
  BY <1>1, LiteralStep
<1>2. CASE \E x \in Names : Variable(x)
  BY <1>2, VariableStep
<1>3. CASE Binary
  BY <1>3, BinaryStep
<1>4. CASE AfterLeft
  BY <1>4, AfterLeftStep
<1>5. CASE AfterRight
  BY <1>5, AfterRightStep
<1>6. CASE Unary
  BY <1>6, UnaryStep
<1>7. CASE AfterOperand
  BY <1>7, AfterOperandStep
<1>8. CASE \E n \in 0..MaxArgs : Syscall(n)
  BY <1>8, SyscallStep
<1>9. CASE AfterIdAlone
  BY <1>9, AfterIdAloneStep
<1>10. CASE AfterId
  BY <1>10, AfterIdStep
<1>11. CASE AfterArgument
  BY <1>11, AfterArgumentStep
<1>12. CASE Uncompiled
  BY <1>12, UncompiledStep
<1> QED BY <1>1, <1>2, <1>3, <1>4, <1>5, <1>6, <1>7, <1>8, <1>9, <1>10, <1>11, <1>12 DEF CompileExpr

LEMMA StmtStep ==
  ASSUME Compiles, HasScopes, CompileStmt, ~ hadError'
  PROVE  Compiles'
<1>1. CASE PrintStmt
  BY <1>1, PrintStmtStep
<1>2. CASE AfterPrint
  BY <1>2, AfterPrintStep
<1>3. CASE \E x \in Names : VarGlobal(x)
  BY <1>3, VarGlobalStep
<1>4. CASE \E x \in Names : VarGlobalAlone(x)
  BY <1>4, VarGlobalAloneStep
<1>5. CASE \E x \in Names : Function(x)
  BY <1>5, FunctionStep
<1>6. CASE \E x \in Names, size \in Sizes : VarLocal(x, size)
  BY <1>6, VarLocalStep
<1>7. CASE \E x \in Names, size \in Sizes : VarLocalAlone(x, size)
  BY <1>7, VarLocalAloneStep
<1>8. CASE AfterVarGlobal
  BY <1>8, AfterVarGlobalStep
<1>9. CASE AfterVarLocal
  BY <1>9, AfterVarLocalStep
<1>10. CASE Block
  BY <1>10, BlockStep
<1>11. CASE CloseBlock
  BY <1>11, CloseBlockStep
<1>12. CASE CloseFunction
  BY <1>12, CloseFunctionStep
<1>13. CASE If
  BY <1>13, IfStep
<1>14. CASE AfterCondition
  BY <1>14, AfterConditionStep
<1>15. CASE AfterThen
  BY <1>15, AfterThenStep
<1>16. CASE AfterElse
  BY <1>16, AfterElseStep
<1>17. \/ PrintStmt \/ AfterPrint \/ AfterVarGlobal \/ AfterVarLocal \/ Block \/ CloseBlock
       \/ CloseFunction \/ If \/ AfterCondition \/ AfterThen \/ AfterElse
       \/ (\E x \in Names : VarGlobal(x)) \/ (\E x \in Names : VarGlobalAlone(x))
       \/ (\E x \in Names : Function(x))
       \/ (\E x \in Names, size \in Sizes : VarLocal(x, size))
       \/ (\E x \in Names, size \in Sizes : VarLocalAlone(x, size))
  BY DEF CompileStmt
<1> QED BY <1>1, <1>2, <1>3, <1>4, <1>5, <1>6, <1>7, <1>8, <1>9, <1>10, <1>11, <1>12, <1>13, <1>14,
           <1>15, <1>16, <1>17

\* Only while it goes on, and without an error so far, does the pass continue.
LEMMA PassGoesOn ==
  ASSUME CompileExpr \/ CompileStmt
  PROVE  phase = "compiling" /\ ~ hadError
<1>1. ASSUME CompileExpr PROVE Compiling
  BY <1>1 DEF CompileExpr, Literal, Variable, Binary, AfterLeft, AfterRight, Unary, AfterOperand,
             Syscall, AfterIdAlone, AfterId, AfterArgument, Uncompiled, Leaf, Expression, Node, Given
<1>2. ASSUME CompileStmt PROVE Compiling
  BY <1>2 DEF CompileStmt, PrintStmt, AfterPrint, VarGlobal, VarGlobalAlone, Function, VarLocal,
             VarLocalAlone, AfterVarGlobal, AfterVarLocal, Block, CloseBlock, CloseFunction, If,
             AfterCondition, AfterThen, AfterElse, Statement, Node, Given
<1> QED BY <1>1, <1>2 DEF Compiling

LEMMA ExecuteIs ==
  ASSUME Execute
  PROVE  phase = "running" /\ phase' # "compiling" /\ meaning' = meaning /\ (~ misread' => ~ misread)
<1>0. CASE OP_JUMP \/ OP_JUMP_IF_FALSE
  BY <1>0 DEF OP_JUMP, OP_JUMP_IF_FALSE, Executes, Fetches, Otherwise, Skips
<1>1. CASE Strays \/ OP_RETURN
  BY <1>1 DEF Strays, OP_RETURN, Executes, Fetches, Otherwise
<1>2. CASE OP_SYSCALL \/ OP_PRINT \/ OP_DEFINE_GLOBAL
  BY <1>2 DEF OP_SYSCALL, OP_PRINT, OP_DEFINE_GLOBAL, Executes, Fetches, Otherwise
<1>3. CASE OP_LOAD \/ OP_LOAD_CONST \/ OP_MOVE \/ OP_SUB \/ OP_READ \/ OP_CLOSURE \/ OP_GET_GLOBAL
  BY <1>3 DEF OP_LOAD, OP_LOAD_CONST, OP_MOVE, OP_SUB, OP_READ, OP_CLOSURE, OP_GET_GLOBAL,
              Executes, Fetches, Otherwise, Sets
<1> QED BY <1>0, <1>1, <1>2, <1>3 DEF Execute

LEMMA HasScopesStays ==
  ASSUME HasScopes, [Next]_vars
  PROVE  HasScopes'
<1>1. meaning' = meaning => HasScopes'
  BY DEF HasScopes
<1>2. ASSUME NEW x, NEW v PROVE "scopes" \in DOMAIN Bound(x, v) /\ "scopes" \in DOMAIN BoundGlobal(x, v)
  BY DEF Bound, BoundGlobal, HasScopes
<1>3. ASSUME NEW e, Says(e) PROVE HasScopes'
  BY <1>3 DEF Says, HasScopes
<1>4. ASSUME CompileExpr PROVE HasScopes'
  <2>1. meaning' = meaning \/ \E e : Says(e)
    BY <1>4 DEF CompileExpr, Literal, Variable, Binary, AfterLeft, AfterRight, Unary, AfterOperand,
             Syscall, AfterIdAlone, AfterId, AfterArgument, Uncompiled
  <2> QED BY <1>1, <1>3, <2>1
<1>5. ASSUME CompileStmt PROVE HasScopes'
  <2>1. CASE Block \/ CloseBlock \/ CloseFunction \/ \E x \in Names : Function(x)
    BY <2>1 DEF Block, CloseBlock, CloseFunction, Function, HasScopes
  <2>2. CASE AfterPrint
    BY <1>3, <2>2 DEF AfterPrint
  <2>3. CASE AfterVarGlobal \/ AfterVarLocal
    BY <1>2, <2>3 DEF AfterVarGlobal, AfterVarLocal, HasScopes
  <2>4. CASE \E x \in Names : VarGlobal(x) \/ VarGlobalAlone(x)
    BY <1>1, <1>2, <2>4 DEF VarGlobal, VarGlobalAlone, HasScopes
  <2>5. CASE \E x \in Names, size \in Sizes : VarLocal(x, size) \/ VarLocalAlone(x, size)
    BY <1>2, <2>5 DEF VarLocal, VarLocalAlone, HasScopes
  <2>6. CASE PrintStmt \/ If \/ AfterCondition \/ AfterThen \/ AfterElse
    BY <1>1, <2>6 DEF PrintStmt, If, AfterCondition, AfterThen, AfterElse
  <2> QED BY <1>5, <2>1, <2>2, <2>3, <2>4, <2>5, <2>6 DEF CompileStmt
<1>6. ASSUME Run \/ Reject \/ Execute PROVE meaning' = meaning
  BY <1>6, ExecuteIs DEF Run, Reject
<1> QED BY <1>1, <1>4, <1>5, <1>6 DEF Next, vars

LEMMA IInvInit ==
  ASSUME Init
  PROVE  IInv
<1> DEFINE Z == [i \in Nat |-> 0]
           c == NewCompiler(0)
           S == meaning.scopes
<1>1. /\ compilers = <<c>> /\ calls = <<>> /\ wanted.is = "statement" /\ S = <<>>
      /\ "scopes" \in DOMAIN meaning
  BY DEF Init
<1>2. Compiler(c) /\ c.locals = <<>> /\ c.scopeDepth = 0
  BY NewCompilerIs
<1>3. IsSeq(<<>>) /\ Len(<<>>) = 0 /\ DOMAIN <<>> = 1 .. 0
  BY SeqIs, EmptySeq, SeqFacts
<1>4. IsSeq(compilers) /\ Len(compilers) = 1 /\ compilers[1] = c /\ Last(compilers) = c
  <2> HIDE DEF c
  <2>1. IsSeq(<<c>>) /\ Len(<<c>>) = 1
    BY SingleIs
  <2>2. compilers[1] = c
    BY <1>1
  <2> QED BY <1>1, <2>1, <2>2 DEF Last
<1> HIDE DEF c
<1>5. Chain(compilers, 0)
  BY <1>2, <1>4 DEF Chain
<1>6. Numbers(Z) /\ Z[0] = 0
  BY DEF Numbers
<1> HIDE DEF Z
<1>7. Stacked(calls, Z, Z, 0)
  <2>1. IsSeq(calls) /\ Len(calls) = 0
    BY <1>1, <1>3
  <2> QED BY <1>6, <2>1 DEF Stacked
<1>8. DOMAIN Last(compilers).locals = 1 .. 0 /\ DOMAIN S = 1 .. 0 /\ IsSeq(S) /\ Len(S) = 0
  BY <1>1, <1>2, <1>3, <1>4
<1>9. Len(calls) = 0
  BY <1>1, <1>3
<1>10. Naming(compilers, S, Z, 0, Len(calls))
  <2>1. \A k \in 1 .. Len(compilers) : Once(compilers[k].locals)
    <3>1. \A k \in 1 .. Len(compilers) : compilers[k] = Last(compilers)
      BY <1>4
    <3> QED BY <1>8, <3>1 DEF Once
  <2> QED BY <1>2, <1>4, <1>6, <1>8, <1>9, <2>1 DEF Naming, Scoped
<1>11. HeldIn(Last(compilers).locals, S) = {}
  BY <1>8 DEF HeldIn
<1>12. Registers(compilers, S, calls, Z, 0)
  <2>1. HeldRegs(Last(compilers).locals, S) = {}
    BY <1>11 DEF HeldRegs
  <2>2. Layout(calls, Z, {}, Last(compilers).regTop, 0, 0)
    BY DEF Layout
  <2> QED BY <1>9, <1>11, <2>1, <2>2 DEF Registers, Distinct
<1>13. Waiting(Last(compilers).locals, S, calls, Z, 0)
  BY <1>9 DEF Waiting
<1>14. WantedIs(Last(compilers), calls, Z, wanted)
  BY <1>1, <1>9 DEF WantedIs
<1>15. Sound(compilers, calls, wanted, S, 0, Z, Z)
  BY <1>5, <1>7, <1>10, <1>12, <1>13, <1>14 DEF Sound
<1> QED BY <1>1, <1>15 DEF IInv, Compiles, Good, HasScopes

LEMMA IInvStep ==
  ASSUME IInv, [Next]_vars
  PROVE  IInv'
<1>1. HasScopes /\ HasScopes'
  BY HasScopesStays DEF IInv
<1>2. CASE CompileExpr \/ CompileStmt
  <2>1. Compiles
    BY <1>2, PassGoesOn DEF IInv
  <2>2. ~ hadError' => Compiles'
    BY <1>1, <1>2, <2>1, ExprStep, StmtStep
  <2> QED BY <1>1, <2>2 DEF IInv
<1>3. CASE Run \/ Reject
  <2>1. phase' # "compiling"
    BY <1>3 DEF Run, Reject
  <2> QED BY <1>1, <2>1 DEF IInv
<1>4. CASE Execute
  <2>1. phase' # "compiling"
    BY <1>4, ExecuteIs
  <2> QED BY <1>1, <2>1 DEF IInv
<1>5. CASE UNCHANGED vars
  BY <1>1, <1>5 DEF IInv, vars, Compiles, HasScopes
<1> QED BY <1>2, <1>3, <1>4, <1>5 DEF Next

----------------------------------------
(* Registers that are live are apart. *)

\* What activation i has filled lies in its registers, below the one it asked for.
FilledFits(f, B, i) ==
  \A r \in Filled(i) :
    /\ Asks(calls[i]) /\ r \in Nat /\ B[i] <= r /\ r < Asked(calls[i], B[i])
    /\ i < Len(calls) => r < B[i] + Width(calls[i])

LEMMA FilledIs ==
  ASSUME NEW f, NEW B, NEW D, Here(f, B, D), NEW i \in f + 1 .. Len(calls)
  PROVE  FilledFits(f, B, i) /\ (Asks(calls[i]) => B[i] <= Asked(calls[i], B[i]))
<1>1. Stacked(calls, B, D, f) /\ f \in Nat /\ Len(calls) \in Nat /\ Numbers(B)
  BY HereIs DEF Here, Sound
<1>2. i \in 1 .. Len(calls) /\ i \in Nat
  BY <1>1
<1>3. Fits(calls, B, D, f, i) /\ B[i] \in Nat
  BY <1>1, <1>2 DEF Stacked, Numbers
<1>4. CASE calls[i].at = "right"
  <2>1. Filled(i) = {B[i]}
    BY <1>3, <1>4 DEF Filled, Fits
  <2>2. Asks(calls[i]) /\ Asked(calls[i], B[i]) = B[i] + 1 /\ Width(calls[i]) = 2
    BY <1>4 DEF Asks, Operators, Asked, Width
  <2> QED BY <1>3, <2>1, <2>2 DEF FilledFits
<1>5. CASE calls[i].at = "argument"
  <2> DEFINE b == B[i]
             m == Len(calls[i].vals)
  <2>1. calls[i].id = b /\ calls[i].start = b + 1 /\ m \in 1 .. calls[i].count /\ calls[i].count \in 1 .. MaxArgs
    BY <1>3, <1>5 DEF Fits, Counted
  <2>2. m \in Nat /\ m >= 1 /\ b \in Nat
    <3>1. MaxArgs \in Nat
      BY Bounds
    <3> HIDE DEF m
    <3>2. PICK count \in 1 .. MaxArgs : m \in 1 .. count
      BY ONLY <2>1
    <3> QED BY ONLY <1>3, <3>1, <3>2 DEF b
  <2>3. Filled(i) = {b} \union {b + 1 + k - 2 : k \in {n \in 2..m : n = 2 \/ i = Len(calls)}}
    BY <1>5, <2>1 DEF Filled
  <2>4. Asks(calls[i]) /\ Asked(calls[i], b) = b + m /\ Width(calls[i]) = 2
    BY <1>5 DEF Asks, Operators, Asked, Width
  <2> HIDE DEF b, m
  <2>5. ASSUME NEW r \in Filled(i)
        PROVE  r \in Nat /\ b <= r /\ r < b + m /\ (i < Len(calls) => r < b + 2)
    <3>1. r = b \/ \E k \in 2 .. m : r = b + 1 + k - 2 /\ (k = 2 \/ i = Len(calls))
      BY <2>3
    <3> QED BY <1>1, <1>2, <2>2, <3>1
  <2> QED BY <2>2, <2>4, <2>5 DEF FilledFits, b
<1>6. CASE calls[i].at \notin {"right", "argument"}
  <2>1. Filled(i) = {}
    BY <1>6 DEF Filled
  <2>2. Asked(calls[i], B[i]) = B[i]
    BY <1>6 DEF Asked
  <2> QED BY <1>3, <2>1, <2>2 DEF FilledFits
<1> QED BY <1>4, <1>5, <1>6

LEMMA MineIs ==
  ASSUME NEW f, NEW B, NEW D, Here(f, B, D), NEW i \in Mine
  PROVE  i \in f + 1 .. Len(calls) /\ i \in Nat
<1>1. Stacked(calls, B, D, f) /\ f \in Nat /\ Len(calls) \in Nat /\ IsSeq(calls)
  BY HereIs DEF Here, Sound
<1>2. i \in 1 .. Len(calls)
  BY <1>1, SeqFacts DEF Mine
<1>3. ASSUME i <= f PROVE FALSE
  <2>1. f \in 1 .. Len(calls) /\ f \in i .. Len(calls)
    BY <1>1, <1>2, <1>3 DEF Stacked
  <2>2. calls[f].at = "function"
    <3>1. Fits(calls, B, D, f, f)
      BY <1>1, <2>1 DEF Stacked
    <3> QED BY <3>1 DEF Fits
  <2> QED BY <2>1, <2>2 DEF Mine
<1> QED BY <1>1, <1>2, <1>3

\* Variables that are apart have as many registers as there are variables.
LEMMA OneRegisterEach ==
  ASSUME NEW L, IsSeq(L), NEW S, Distinct(L, S)
  PROVE  Cardinality(HeldRegs(L, S)) = Cardinality(HeldIn(L, S))
<1> DEFINE H == HeldIn(L, S)
           regs == HeldRegs(L, S)
           g == [i \in H |-> L[i].reg]
<1>1. IsFiniteSet(H)
  <2>1. H \in SUBSET (1 .. Len(L)) /\ Len(L) \in Nat
    BY SeqFacts DEF HeldIn
  <2>2. IsFiniteSet(1 .. Len(L))
    <3>1. 1 \in Int /\ Len(L) \in Int
      BY <2>1
    <3> QED BY <3>1, FS_Interval, Zenon
  <2> QED BY <2>1, <2>2, FS_Subset
<1>2. regs = {L[i].reg : i \in H}
  BY DEF HeldRegs
<1>3. \A i, j \in H : L[i].reg = L[j].reg => i = j
  BY DEF Distinct
<1> HIDE DEF H, regs
<1>4. g \in [H -> regs]
  BY <1>2
<1>5. \A i \in H : g[i] = L[i].reg
  OBVIOUS
<1> HIDE DEF g
<1>6. g \in Injection(H, regs)
  BY <1>3, <1>4, <1>5 DEF Injection, IsInjective
<1>7. g \in Surjection(H, regs)
  BY <1>2, <1>4, <1>5 DEF Surjection
<1>8. ExistsBijection(H, regs)
  BY <1>6, <1>7 DEF ExistsBijection, Bijection
<1>9. Cardinality(regs) = Cardinality(H)
  BY <1>1, <1>8, FS_Bijection
<1> QED BY <1>9 DEF H, regs

LEMMA HeldNamed ==
  ASSUME NEW f, NEW B, NEW D, Here(f, B, D)
  PROVE  Held = HeldIn(current.locals, meaning.scopes)
<1> DEFINE S == meaning.scopes
<1>1. Scoped(S)
  BY HereIs DEF Naming
<1>2. ASSUME NEW x
      PROVE  Scope(x) # {} /\ ValueOf(x) # Unset <=> Valued(S, x)
  <2>1. Scope(x) = {s \in DOMAIN S : x \in DOMAIN S[s]}
    BY DEF Scope
  <2>2. CASE Scope(x) = {}
    BY <2>1, <2>2 DEF Valued
  <2>3. CASE Scope(x) # {}
    <3> DEFINE t == CHOOSE i \in Scope(x) : TRUE
    <3>1. t \in Scope(x) /\ ValueOf(x) = S[t][x]
      BY <2>3 DEF ValueOf
    <3> HIDE DEF t
    <3>2. \A s \in Scope(x) : s = t
      BY <1>1, <2>1, <3>1 DEF Scoped
    <3> QED BY <2>1, <2>3, <3>1, <3>2 DEF Valued
  <2> QED BY <2>2, <2>3
<1> QED BY <1>2 DEF Held, HeldIn

LEMMA HereApart ==
  ASSUME NEW f, NEW B, NEW D, Here(f, B, D)
  PROVE  LiveApart
<1> DEFINE S == meaning.scopes
           L == current.locals
           n == Len(calls)
           locals == {L[i].reg : i \in Held}
           filled == UNION {Filled(i) : i \in Mine}
<1>1. /\ n \in Nat /\ f \in 0 .. n /\ Numbers(B) /\ IsSeq(L) /\ WantedIs(current, calls, B, wanted)
  BY HereIs DEF Current, Compiler
<1>2. /\ Distinct(L, S) /\ Layout(calls, B, HeldRegs(L, S), current.regTop, f, n)
  BY HereIs DEF Here, Sound, Registers
<1>3. Held = HeldIn(L, S)
  BY HeldNamed
<1>4. locals = HeldRegs(L, S)
  BY <1>3 DEF HeldRegs
<1>5. Cardinality(locals) = Cardinality(Held)
  BY <1>1, <1>2, <1>3, <1>4, OneRegisterEach
<1>6. ASSUME NEW i \in Mine
      PROVE  /\ i \in f + 1 .. n /\ i \in Nat /\ FilledFits(f, B, i)
             /\ (Asks(calls[i]) => B[i] <= Asked(calls[i], B[i])) /\ B[i] \in Nat
  <2>1. i \in f + 1 .. n /\ i \in Nat
    BY <1>6, MineIs
  <2> QED BY <1>1, <2>1, FilledIs DEF Numbers
<1>7. \A r \in locals : r \in Nat
  BY <1>2, <1>4 DEF Layout
<1>8. ASSUME NEW i \in f + 1 .. n, Asks(calls[i]), NEW r \in locals PROVE r < B[i]
  BY <1>2, <1>4, <1>8 DEF Layout
<1>9. locals \intersect filled = {}
  <2> SUFFICES ASSUME NEW i \in Mine, NEW r \in Filled(i), r \in locals PROVE FALSE
    OBVIOUS
  <2>1. r \in Nat /\ B[i] <= r /\ Asks(calls[i]) /\ B[i] \in Nat /\ i \in f + 1 .. n
    BY <1>6 DEF FilledFits
  <2>2. r < B[i]
    BY <1>8, <2>1
  <2> QED BY <2>1, <2>2
<1>10. ASSUME NEW i \in f + 1 .. n, NEW j \in f + 1 .. n, i < j, Asks(calls[i]), Asks(calls[j])
       PROVE  B[i] + Width(calls[i]) <= B[j]
  BY <1>2, <1>10 DEF Layout, Keeps, Asks
<1>11. ASSUME NEW i \in Mine, NEW j \in Mine, i < j, NEW r \in Filled(i), r \in Filled(j) PROVE FALSE
  <2>1. /\ i \in f + 1 .. n /\ j \in f + 1 .. n /\ Asks(calls[i]) /\ Asks(calls[j]) /\ r \in Nat
        /\ B[j] <= r /\ B[i] \in Nat /\ B[j] \in Nat /\ i < n
    BY <1>1, <1>6, <1>11 DEF FilledFits
  <2>2. r < B[i] + Width(calls[i])
    BY <1>6, <1>11, <2>1 DEF FilledFits
  <2>3. B[i] + Width(calls[i]) <= B[j]
    BY <1>10, <1>11, <2>1
  <2>4. Width(calls[i]) \in Nat
    BY DEF Width
  <2> QED BY <2>1, <2>2, <2>3, <2>4
<1>12. \A i, j \in Mine : i # j => Filled(i) \intersect Filled(j) = {}
  <2> SUFFICES ASSUME NEW i \in Mine, NEW j \in Mine, i # j, NEW r \in Filled(i), r \in Filled(j)
               PROVE  FALSE
    OBVIOUS
  <2>1. i \in Nat /\ j \in Nat
    BY <1>6
  <2>2. CASE i < j
    BY <1>11, <2>2
  <2>3. CASE j < i
    BY <1>11, <2>3
  <2> QED BY <2>1, <2>2, <2>3
<1>13. ASSUME wanted.is = "expression" PROVE wanted.dst \notin locals \union filled
  <2>1. n > 0 /\ Asks(calls[n]) /\ wanted.dst = Asked(calls[n], B[n])
    BY <1>13, <1>1 DEF WantedIs
  <2>2. n \in f + 1 .. n
    <3>1. n \in 1 .. Len(calls) /\ Stacked(calls, B, D, f)
      BY <1>1, <2>1 DEF Here, Sound
    <3>2. n # f
      <4>1. Fits(calls, B, D, f, n)
        BY <3>1 DEF Stacked
      <4> QED BY <2>1, <4>1 DEF Fits, Asks, Roots, Operators
    <3> QED BY <1>1, <2>1, <3>2
  <2>3. B[n] <= Asked(calls[n], B[n]) /\ B[n] \in Nat
    BY <1>1, <2>1, <2>2, FilledIs DEF Numbers
  <2>4. Asked(calls[n], B[n]) \in Nat
    <3>1. Stacked(calls, B, D, f) /\ n \in 1 .. Len(calls)
      BY <1>1, <2>1 DEF Here, Sound
    <3>2. Fits(calls, B, D, f, n)
      BY <3>1 DEF Stacked
    <3>3. calls[n].at = "argument" => Len(calls[n].vals) \in Nat
      BY <3>2, SeqFacts DEF Fits, Counted
    <3> QED BY <2>3, <3>3 DEF Asked
  <2>5. ASSUME wanted.dst \in locals PROVE FALSE
    <3>1. wanted.dst < B[n]
      BY <1>8, <2>1, <2>2, <2>5
    <3> QED BY <2>1, <2>3, <2>4, <3>1
  <2>6. ASSUME NEW i \in Mine, wanted.dst \in Filled(i) PROVE FALSE
    <3> DEFINE d == Asked(calls[n], B[n])
    <3>1. /\ i \in f + 1 .. n /\ Asks(calls[i]) /\ d \in Nat /\ B[i] \in Nat
          /\ d < Asked(calls[i], B[i]) /\ (i < n => d < B[i] + Width(calls[i]))
      BY <1>6, <2>1, <2>4, <2>6 DEF FilledFits
    <3>2. Width(calls[i]) \in Nat
      BY DEF Width
    <3>3. CASE i = n
      BY <3>1, <3>3
    <3>4. CASE i # n
      <4>1. i < n
        BY <3>1, <3>4
      <4>2. B[i] + Width(calls[i]) <= B[n]
        BY <1>10, <2>1, <2>2, <3>1, <4>1
      <4> HIDE DEF d
      <4>3. B[n] <= d
        BY <2>3 DEF d
      <4> QED BY <2>3, <3>1, <3>2, <4>1, <4>2, <4>3
    <3> QED BY <3>3, <3>4
  <2> QED BY <2>5, <2>6
<1> HIDE DEF locals, filled
<1>14. /\ Cardinality(locals) = Cardinality(Held) /\ locals \intersect filled = {}
       /\ \A i, j \in Mine : i # j => Filled(i) \intersect Filled(j) = {}
       /\ wanted.is = "expression" => wanted.dst \notin locals \union filled
  BY <1>5, <1>9, <1>12, <1>13
<1> QED BY <1>14 DEF LiveApart, locals, filled

\* IInv is inductive: it holds at first, and every step keeps it.
THEOREM Inductive == Spec => []IInv
<1>1. Init => IInv
  BY IInvInit
<1>2. IInv /\ [Next]_vars => IInv'
  BY IInvStep
<1> QED BY <1>1, <1>2, PTL DEF Spec

\* For any program, any nesting of its blocks, branches, functions and expressions, any
\* number of registers and any sizes of its variables: a register that allocReg gives
\* away, or that the code about to be emitted writes, holds no operand that waits for the
\* other one, no argument that has been computed and no variable that can still be read;
\* and none of these share a register (compiler.c:42-71, 116-310).
THEOREM RegistersApart == Spec => []LiveApart
<1>1. IInv => LiveApart
  <2>1. ASSUME Compiles PROVE LiveApart
    <3>1. PICK f, B, D : Here(f, B, D)
      BY <2>1 DEF Compiles, Good, Here
    <3> QED BY <3>1, HereApart
  <2>2. ASSUME ~ (phase = "compiling" /\ ~ hadError) PROVE LiveApart
    BY <2>2 DEF LiveApart
  <2> QED BY <2>1, <2>2 DEF IInv
<1> QED BY <1>1, Inductive, PTL

----------------------------------------
(* The machine. What one instruction makes of its state.                     *)

Bank == 0 .. (MaxReg + MaxArgs)

LEMMA BankUpTo ==
  /\ \A r \in Nat : r < MaxReg => r \in Bank
  /\ \A d \in Bank, r \in Nat : r < d => r \in Bank /\ r # d
<1>1. MaxReg \in Nat /\ MaxArgs \in Nat
  BY Bounds
<1> QED BY ONLY <1>1 DEF Bank


VMState(s) ==
  /\ s = [ip |-> s.ip, regs |-> s.regs, globals |-> s.globals, out |-> s.out]
  /\ s.ip \in Nat /\ DOMAIN s.regs = Bank /\ IsSeq(s.out)

Begun == [ip |-> 1, regs |-> [r \in Bank |-> Zero], globals |-> Empty, out |-> <<>>]

Loads(s, reg, val) ==
  [ip |-> s.ip + 1, regs |-> [s.regs EXCEPT ![reg] = val], globals |-> s.globals, out |-> s.out]
Shows(s, effect) ==
  [ip |-> s.ip + 1, regs |-> s.regs, globals |-> s.globals, out |-> Append(s.out, effect)]
Defines(s, x, val) ==
  [ip |-> s.ip + 1, regs |-> s.regs, globals |-> With(s.globals, x, val), out |-> s.out]
Replies(s, reg, effect) ==
  [ip |-> s.ip + 1, regs |-> [s.regs EXCEPT ![reg] = Reply], globals |-> s.globals,
   out |-> Append(s.out, effect)]
GoesOn(s, distance) ==
  [ip |-> s.ip + 1 + distance, regs |-> s.regs, globals |-> s.globals, out |-> s.out]
Arguments(s, id, count) == <<"syscall">> \o [i \in 1..(count + 1) |-> s.regs[id + i - 1]]

Stepped(inst, s) ==
  CASE inst[1] = "LOAD" -> Loads(s, inst[2], inst[3])
    [] inst[1] = "LOAD_CONST" -> Loads(s, inst[2], inst[3])
    [] inst[1] = "MOVE" -> Loads(s, inst[2], s.regs[inst[3]])
    [] inst[1] = "SUB" -> Loads(s, inst[2], <<"-", s.regs[inst[3]], s.regs[inst[4]]>>)
    [] inst[1] = "READ" -> Loads(s, inst[2], <<"*", s.regs[inst[3]]>>)
    [] inst[1] = "CLOSURE" -> Loads(s, inst[2], <<"closure", inst[3]>>)
    [] inst[1] = "GET_GLOBAL" -> Loads(s, inst[2], s.globals[inst[3]])
    [] inst[1] = "SYSCALL" -> Replies(s, inst[2], Arguments(s, inst[3], inst[4]))
    [] inst[1] = "PRINT" -> Shows(s, s.regs[inst[2]])
    [] inst[1] = "DEFINE_GLOBAL" -> Defines(s, inst[3], s.regs[inst[2]])
    [] inst[1] = "JUMP" -> GoesOn(s, inst[3])
    [] inst[1] = "JUMP_IF_FALSE" -> GoesOn(s, IF IsFalsey(s.regs[inst[2]]) THEN inst[3] ELSE 0)

\* The instructions that only go on to the next one.
Straight ==
  {"LOAD", "LOAD_CONST", "MOVE", "SUB", "READ", "CLOSURE", "GET_GLOBAL", "SYSCALL", "PRINT",
   "DEFINE_GLOBAL"}

LEMMA LoadsIs ==
  ASSUME NEW s, VMState(s), NEW reg, NEW val
  PROVE  /\ VMState(Loads(s, reg, val)) /\ Loads(s, reg, val).ip = s.ip + 1
         /\ Loads(s, reg, val).out = s.out /\ Loads(s, reg, val).globals = s.globals
         /\ reg \in Bank => Loads(s, reg, val).regs[reg] = val
         /\ \A r \in Bank : r # reg => Loads(s, reg, val).regs[r] = s.regs[r]
BY DEF VMState, Loads

LEMMA ShowsIs ==
  ASSUME NEW s, VMState(s), NEW effect
  PROVE  /\ VMState(Shows(s, effect)) /\ Shows(s, effect).ip = s.ip + 1
         /\ Shows(s, effect).globals = s.globals /\ Shows(s, effect).regs = s.regs
BY AppendIs DEF VMState, Shows

LEMMA DefinesIs ==
  ASSUME NEW s, VMState(s), NEW x, NEW val
  PROVE  /\ VMState(Defines(s, x, val)) /\ Defines(s, x, val).ip = s.ip + 1
         /\ Defines(s, x, val).out = s.out /\ Defines(s, x, val).regs = s.regs
BY DEF VMState, Defines

LEMMA RepliesIs ==
  ASSUME NEW s, VMState(s), NEW reg, NEW effect
  PROVE  /\ VMState(Replies(s, reg, effect)) /\ Replies(s, reg, effect).ip = s.ip + 1
         /\ Replies(s, reg, effect).globals = s.globals
         /\ reg \in Bank => Replies(s, reg, effect).regs[reg] = Reply
         /\ \A r \in Bank : r # reg => Replies(s, reg, effect).regs[r] = s.regs[r]
BY AppendIs DEF VMState, Replies

LEMMA StraightIs ==
  ASSUME NEW s, VMState(s), NEW inst, inst[1] \in Straight
  PROVE  VMState(Stepped(inst, s)) /\ Stepped(inst, s).ip = s.ip + 1 /\ inst[1] # "RETURN"
<1>1. \/ \E reg, val : Stepped(inst, s) = Loads(s, reg, val)
      \/ \E effect : Stepped(inst, s) = Shows(s, effect)
      \/ \E x, val : Stepped(inst, s) = Defines(s, x, val)
      \/ \E reg, effect : Stepped(inst, s) = Replies(s, reg, effect)
  BY DEF Straight, Stepped
<1>2. inst[1] # "RETURN"
  BY DEF Straight
<1> QED BY <1>1, <1>2, LoadsIs, ShowsIs, DefinesIs, RepliesIs

\* What the machine does with the code so far: T are its states, z is the last one.
Ran(code, T, z) ==
  /\ Begun \in T /\ z \in T /\ (\A s \in T : VMState(s)) /\ z.ip <= Len(code) + 1
  /\ \A s \in T : s # z => /\ s.ip \in 1 .. Len(code) /\ s.ip < z.ip
                           /\ code[s.ip][1] # "RETURN" /\ Stepped(code[s.ip], s) \in T

Extends(code, code2) ==
  /\ IsSeq(code) /\ IsSeq(code2) /\ Len(code) <= Len(code2)
  /\ \A i \in 1 .. Len(code) : code2[i] = code[i]

\* Code changes where the machine has not been, or does what it did before.
ChangesNothing(code2, T, z, i, old) ==
  \A s \in T : s # z /\ s.ip = i =>
    code2[i][1] # "RETURN" /\ Stepped(code2[i], s) = Stepped(old, s)

LEMMA RanStays ==
  ASSUME NEW code, NEW code2, NEW T, NEW z, Ran(code, T, z), IsSeq(code), IsSeq(code2),
         Len(code) <= Len(code2),
         \A i \in 1 .. Len(code) : code2[i] = code[i] \/ ChangesNothing(code2, T, z, i, code[i])
  PROVE  Ran(code2, T, z)
<1>0. Len(code) \in Nat /\ Len(code2) \in Nat /\ z.ip \in Nat
  BY SeqFacts DEF Ran, VMState
<1>1. Begun \in T /\ z \in T /\ (\A s \in T : VMState(s)) /\ z.ip <= Len(code2) + 1
  BY <1>0 DEF Ran
<1>2. ASSUME NEW s \in T, s # z
      PROVE  s.ip \in 1 .. Len(code2) /\ s.ip < z.ip /\ code2[s.ip][1] # "RETURN" /\ Stepped(code2[s.ip], s) \in T
  <2>1. /\ s.ip \in 1 .. Len(code) /\ s.ip < z.ip
        /\ code[s.ip][1] # "RETURN" /\ Stepped(code[s.ip], s) \in T
    BY <1>2 DEF Ran
  <2>2. CASE code2[s.ip] = code[s.ip]
    BY <1>0, <2>1, <2>2
  <2>3. CASE ChangesNothing(code2, T, z, s.ip, code[s.ip])
    BY <1>0, <1>2, <2>1, <2>3 DEF ChangesNothing
  <2> QED BY <2>1, <2>2, <2>3
<1> QED BY <1>1, <1>2 DEF Ran

LEMMA RanOn ==
  ASSUME NEW code, NEW T, NEW z, Ran(code, T, z), IsSeq(code), z.ip \in 1 .. Len(code),
         code[z.ip][1] # "RETURN",
         NEW z2, z2 = Stepped(code[z.ip], z), VMState(z2), z2.ip > z.ip, z2.ip <= Len(code) + 1
  PROVE  Ran(code, T \union {z2}, z2) /\ z # z2
<1>0. Len(code) \in Nat /\ z.ip \in Nat /\ z2.ip \in Nat
  BY SeqFacts DEF Ran, VMState
<1>1. z # z2
  BY <1>0
<1>2. ASSUME NEW s \in T \union {z2}, s # z2
      PROVE  /\ s.ip \in 1 .. Len(code) /\ s.ip < z2.ip
             /\ code[s.ip][1] # "RETURN" /\ Stepped(code[s.ip], s) \in T \union {z2}
  <2>1. CASE s = z
    BY <2>1
  <2>2. CASE s # z
    <3>1. /\ s \in T /\ s.ip \in 1 .. Len(code) /\ s.ip < z.ip
          /\ code[s.ip][1] # "RETURN" /\ Stepped(code[s.ip], s) \in T
      BY <1>2, <2>2 DEF Ran
    <3> QED BY <1>0, <3>1
  <2> QED BY <2>1, <2>2
<1> QED BY <1>1, <1>2 DEF Ran

----------------------------------------
(* The jumps of the branches that are being compiled are not patched yet.     *)

Jumper(F, i) == i \in 1 .. Len(F) /\ F[i].at \in Branches /\ \A j \in 1 .. i : F[j].at # "function"

JumpOf(at, reg) == IF at = "then" THEN <<"JUMP_IF_FALSE", reg, 0>> ELSE <<"JUMP", 0, 0>>
JumpIs(fr, code, T, z) ==
  /\ fr.jump \in 1 .. Len(code) /\ fr.taken \in BOOLEAN /\ code[fr.jump] = JumpOf(fr.at, fr.reg)
  /\ \A s \in T : s # z /\ s.ip = fr.jump => fr.at = "then" /\ ~ IsFalsey(s.regs[fr.reg])
Jumps(F, code, T, z) == \A i \in 1 .. Len(F) : Jumper(F, i) => JumpIs(F[i], code, T, z)
Rising(F) == \A i, j \in 1 .. Len(F) : i < j /\ Jumper(F, i) /\ Jumper(F, j) => F[i].jump < F[j].jump

Trail(F, code, T, z) == IsSeq(code) /\ Ran(code, T, z) /\ Jumps(F, code, T, z) /\ Rising(F)

JumpersStay(F, F2) == \A i \in 1 .. Len(F2) : Jumper(F2, i) => Jumper(F, i) /\ F2[i] = F[i]

LEMMA RisingStays ==
  ASSUME NEW F, Rising(F), NEW F2, JumpersStay(F, F2)
  PROVE  Rising(F2)
<1> SUFFICES ASSUME NEW i \in 1 .. Len(F2), NEW j \in 1 .. Len(F2), i < j, Jumper(F2, i), Jumper(F2, j)
             PROVE  F2[i].jump < F2[j].jump
  BY DEF Rising
<1>1. Jumper(F, i) /\ F2[i] = F[i] /\ Jumper(F, j) /\ F2[j] = F[j]
  BY DEF JumpersStay
<1>2. i \in 1 .. Len(F) /\ j \in 1 .. Len(F)
  BY <1>1 DEF Jumper
<1> QED BY <1>1, <1>2 DEF Rising

LEMMA TrailStays ==
  ASSUME NEW F, NEW code, NEW T, NEW z, Trail(F, code, T, z), NEW code2, Extends(code, code2),
         NEW F2, JumpersStay(F, F2)
  PROVE  Trail(F2, code2, T, z)
<1>0. Len(code) \in Nat /\ Len(code2) \in Nat
  BY SeqFacts DEF Extends
<1>1. Ran(code2, T, z)
  BY RanStays DEF Trail, Extends
<1>2. ASSUME NEW i \in 1 .. Len(F2), Jumper(F2, i) PROVE JumpIs(F2[i], code2, T, z)
  <2>1. Jumper(F, i) /\ F2[i] = F[i]
    BY <1>2 DEF JumpersStay
  <2>2. JumpIs(F[i], code, T, z)
    BY <2>1 DEF Trail, Jumps, Jumper
  <2> QED BY <1>0, <2>1, <2>2 DEF JumpIs, Extends
<1>3. Rising(F2)
  BY RisingStays DEF Trail
<1> QED BY <1>1, <1>2, <1>3 DEF Trail, Jumps, Extends

\* The machine was at the end of the code; an instruction is added and takes it to z2.
Appends(code, z, inst, code2, z2) ==
  /\ z.ip = Len(code) + 1 /\ inst[1] \in Straight
  /\ code2 = Append(code, inst) /\ z2 = Stepped(inst, z)

LEMMA TrailOn ==
  ASSUME NEW F, NEW code, NEW T, NEW z, Trail(F, code, T, z),
         NEW inst, NEW code2, NEW z2, Appends(code, z, inst, code2, z2),
         NEW F2, JumpersStay(F, F2)
  PROVE  /\ Trail(F2, code2, T \union {z2}, z2) /\ VMState(z2) /\ z2.ip = Len(code2) + 1
         /\ Len(code2) = Len(code) + 1 /\ VMState(z)
<1>0. /\ z.ip = Len(code) + 1 /\ inst[1] \in Straight
      /\ code2 = Append(code, inst) /\ z2 = Stepped(inst, z)
  BY DEF Appends
<1>1. /\ IsSeq(code2) /\ Len(code2) = Len(code) + 1 /\ Len(code) \in Nat
      /\ \A i \in 1 .. Len(code) : code2[i] = code[i]
      /\ code2[Len(code) + 1] = inst
  BY <1>0, AppendIs, SeqFacts DEF Trail
<1>2. VMState(z)
  BY DEF Trail, Ran
<1>3. VMState(z2) /\ z2.ip = z.ip + 1 /\ inst[1] # "RETURN"
  BY <1>0, <1>2, StraightIs
<1>4. Trail(F2, code2, T, z)
  <2>1. Extends(code, code2)
    BY <1>1 DEF Extends, Trail
  <2> QED BY <2>1, TrailStays
<1>5. Ran(code2, T \union {z2}, z2)
  <2>1. z.ip \in 1 .. Len(code2) /\ code2[z.ip] = inst /\ z2.ip > z.ip /\ z2.ip <= Len(code2) + 1
    BY <1>0, <1>1, <1>3
  <2> QED BY <1>0, <1>1, <1>3, <1>4, <2>1, RanOn DEF Trail
<1>6. ASSUME NEW i \in 1 .. Len(F2), Jumper(F2, i) PROVE JumpIs(F2[i], code2, T \union {z2}, z2)
  <2>1. JumpIs(F2[i], code2, T, z)
    BY <1>4, <1>6 DEF Trail, Jumps
  <2>2. Jumper(F, i) /\ F2[i] = F[i]
    BY <1>6 DEF JumpersStay
  <2>3. F2[i].jump \in 1 .. Len(code)
    BY <2>2 DEF Trail, Jumps, JumpIs, Jumper
  <2>4. z.ip # F2[i].jump
    BY <1>0, <1>1, <2>3
  <2> QED BY <2>1, <2>4 DEF JumpIs
<1> QED BY <1>0, <1>1, <1>2, <1>3, <1>4, <1>5, <1>6 DEF Trail, Jumps

----------------------------------------
(* Where the machine stands. While the program's own branches are taken, the  *)
(* machine has run all code; otherwise it stands at the jump that will pass   *)
(* over the branch, or at the end of the code in front of a closure.          *)

Stuck(fr) == \/ fr.at = "then" /\ ~ fr.taken
             \/ fr.at = "else" /\ fr.taken
             \/ fr.at = "function"
Live(F) == \A i \in 1 .. Len(F) : ~ Stuck(F[i])

\* The variables of the outermost e scopes are in their registers.
Stored(L, S, regs, e) ==
  \A k \in DOMAIN L, s \in 1 .. e :
    L[k].name \in DOMAIN S[s] /\ S[s][L[k].name] # Unset => regs[L[k].reg] = S[s][L[k].name]

\* So are the operands and arguments that an activation has been given.
Operands(fr, regs) ==
  /\ fr.at = "right" => regs[fr.reg] = fr.val
  /\ fr.at = "argument" => /\ regs[fr.id] = fr.vals[1]
                           /\ Len(fr.vals) >= 2 => regs[fr.start] = fr.vals[2]
RestHeld(fr, regs) == \A k \in 3 .. Len(fr.vals) : regs[fr.start + k - 2] = fr.vals[k]
Computes(code) == Last(code)[1] \in {"SUB", "READ", "SYSCALL"}
TopHeld(fr, w, code, regs) ==
  fr.at = "argument" /\ ~ fr.spoilt /\ ~ (w.is = "register" /\ Computes(code)) => RestHeld(fr, regs)
Got(fr, w, regs) ==
  w.is = "register" =>
    w.val = regs[w.reg] \/ (fr.at \in {"print", "global", "var"} /\ w.val = Unset)
Evaluated(F, w, code, regs) ==
  /\ \A i \in 1 .. Len(F) : Operands(F[i], regs)
  /\ Len(F) > 0 => TopHeld(F[Len(F)], w, code, regs) /\ Got(F[Len(F)], w, regs)

\* The registers that will be written are the machine's.
BankedAt(fr, L) ==
  /\ fr.at \in Operators => fr.dst \in Bank
  /\ fr.at = "argument" => fr.start < MaxReg
  /\ fr.at = "var" => \E k \in DOMAIN L : L[k].name = fr.name /\ L[k].reg < MaxReg
Banked(F, w, L) ==
  /\ w.is = "expression" => w.dst \in Bank
  /\ \A i \in 1 .. Len(F) : BankedAt(F[i], L)

LiveAt(c, F, w, S, z) ==
  /\ Live(F) /\ z.ip = Len(c.code) + 1 /\ Stored(c.locals, S, z.regs, Len(S))
  /\ Evaluated(F, w, c.code, z.regs) /\ Banked(F, w, c.locals)

StopsAt(fr, code, z) ==
  IF fr.at = "function" THEN z.ip = Len(code) + 1
  ELSE z.ip = fr.jump /\ (fr.at = "then" => IsFalsey(z.regs[fr.reg]))
PausedAt(c, F, S, z, m, D) ==
  /\ m \in 1 .. Len(F) /\ (\A i \in 1 .. m - 1 : ~ Stuck(F[i])) /\ Stuck(F[m])
  /\ Stored(c.locals, S, z.regs, D[m - 1]) /\ StopsAt(F[m], c.code, z)

\* Declarations are statements of a block, those of functions also of the program.
ShapedAt(F, i) ==
  /\ F[i].at = "var" => i > 1 /\ F[i - 1].at \in {"block", "function"}
  /\ F[i].at = "global" => i = 1
  /\ F[i].at = "function" => i = 1 \/ F[i - 1].at = "block"
Shaped(F) == \A i \in 1 .. Len(F) : ShapedAt(F, i)

\* A step that neither begins nor ends a branch or a function.
Ordinary(fr) == fr.at \notin Branches \union {"function"}
Plain(F, F2, k) ==
  /\ Continues(F, F2, k) /\ k \in {Len(F) - 1, Len(F)}
  /\ k = Len(F) - 1 => Ordinary(F[Len(F)])
  /\ Len(F2) = k + 1 => Ordinary(F2[k + 1]) /\ ShapedAt(F2, k + 1)

LEMMA ShapedStays ==
  ASSUME NEW F, IsSeq(F), Shaped(F), NEW F2, NEW k, Continues(F, F2, k),
         Len(F2) = k + 1 => ShapedAt(F2, k + 1)
  PROVE  Shaped(F2)
<1>0. Len(F) \in Nat /\ k \in 0 .. Len(F) /\ Len(F2) \in {k, k + 1}
  BY SeqFacts DEF Continues
<1> SUFFICES ASSUME NEW i \in 1 .. Len(F2) PROVE ShapedAt(F2, i)
  BY DEF Shaped
<1>1. CASE i = k + 1
  BY <1>0, <1>1
<1>2. CASE i # k + 1
  <2>1. i \in 1 .. k /\ i \in 1 .. Len(F) /\ (i > 1 => i - 1 \in 1 .. k)
    BY <1>0, <1>2
  <2>2. F2[i] = F[i] /\ (i > 1 => F2[i - 1] = F[i - 1])
    BY <2>1 DEF Continues
  <2>3. ShapedAt(F, i)
    BY <2>1 DEF Shaped
  <2>4. i = 1 \/ i > 1
    BY <1>0
  <2> QED BY <2>2, <2>3, <2>4 DEF ShapedAt
<1> QED BY <1>1, <1>2

LEMMA PlainIs ==
  ASSUME NEW F, IsSeq(F), Shaped(F), NEW F2, NEW k, Plain(F, F2, k)
  PROVE  /\ JumpersStay(F, F2) /\ Shaped(F2) /\ (Live(F) => Live(F2))
         /\ \A m \in 1 .. Len(F) : Stuck(F[m]) => m <= k
<1>0. /\ Len(F) \in Nat /\ k \in 0 .. Len(F) /\ Len(F2) \in {k, k + 1}
      /\ k \in {Len(F) - 1, Len(F)} /\ \A i \in 1 .. k : F2[i] = F[i]
  BY SeqFacts DEF Plain, Continues
<1>1. ASSUME NEW i \in 1 .. Len(F2), Jumper(F2, i) PROVE Jumper(F, i) /\ F2[i] = F[i]
  <2>1. i # k + 1
    BY <1>0, <1>1 DEF Plain, Ordinary, Jumper
  <2>2. i \in 1 .. k /\ \A j \in 1 .. i : j \in 1 .. k
    BY <1>0, <2>1
  <2> QED BY <1>0, <1>1, <2>2 DEF Jumper
<1>2. Shaped(F2)
  BY ShapedStays DEF Plain
<1>3. ASSUME Live(F), NEW i \in 1 .. Len(F2), Stuck(F2[i]) PROVE FALSE
  <2>1. i # k + 1
    BY <1>0, <1>3 DEF Plain, Ordinary, Stuck, Branches
  <2>2. i \in 1 .. k /\ i \in 1 .. Len(F)
    BY <1>0, <2>1
  <2> QED BY <1>0, <1>3, <2>2 DEF Live
<1>4. ASSUME NEW m \in 1 .. Len(F), Stuck(F[m]) PROVE m <= k
  <2>1. m = Len(F) => k # Len(F) - 1
    BY <1>4 DEF Plain, Ordinary, Stuck, Branches
  <2> QED BY <1>0, <2>1
<1> QED BY <1>1, <1>2, <1>3, <1>4 DEF JumpersStay, Live

\* Scopes below e stay; what was declared meanwhile is in none of them.
ScopesKept(S, S2, e) == \A s \in 1 .. e : S2[s] = S[s]
LocalsKept(L, L2, S) ==
  \A k \in DOMAIN L2 : (k \in DOMAIN L /\ L2[k] = L[k])
                       \/ \A s \in DOMAIN S : L2[k].name \notin DOMAIN S[s]

LEMMA StoredStays ==
  ASSUME NEW L, NEW S, NEW regs, NEW e \in Nat, Stored(L, S, regs, e), IsSeq(S), e <= Len(S),
         NEW L2, LocalsKept(L, L2, S), NEW S2, ScopesKept(S, S2, e)
  PROVE  Stored(L2, S2, regs, e)
<1>1. DOMAIN S = 1 .. Len(S) /\ Len(S) \in Nat
  BY SeqFacts
<1> SUFFICES ASSUME NEW k \in DOMAIN L2, NEW s \in 1 .. e,
                    L2[k].name \in DOMAIN S2[s], S2[s][L2[k].name] # Unset
             PROVE  regs[L2[k].reg] = S2[s][L2[k].name]
  BY DEF Stored
<1>2. S2[s] = S[s] /\ s \in DOMAIN S
  BY <1>1 DEF ScopesKept
<1>3. k \in DOMAIN L /\ L2[k] = L[k]
  BY <1>2 DEF LocalsKept
<1> QED BY <1>2, <1>3 DEF Stored

LEMMA PausedStays ==
  ASSUME NEW c, NEW F, NEW S, NEW z, NEW m, NEW D, PausedAt(c, F, S, z, m, D), IsSeq(F), IsSeq(S),
         NEW e \in Nat, D[m - 1] = e, e <= Len(S),
         NEW F2, m <= Len(F2), IsSeq(F2), \A i \in 1 .. m : F2[i] = F[i],
         NEW S2, ScopesKept(S, S2, e), NEW D2, D2[m - 1] = e,
         NEW c2, LocalsKept(c.locals, c2.locals, S), F[m].at = "function" => c2.code = c.code
  PROVE  PausedAt(c2, F2, S2, z, m, D2)
<1>0. m \in Nat /\ m \in 1 .. Len(F2) /\ m \in 1 .. m /\ Stuck(F[m]) /\ \A i \in 1 .. m - 1 : i \in 1 .. m /\ ~ Stuck(F[i])
  BY SeqFacts DEF PausedAt
<1>1. Stored(c2.locals, S2, z.regs, D2[m - 1])
  <2>1. Stored(c.locals, S, z.regs, e)
    BY DEF PausedAt
  <2> HIDE DEF PausedAt
  <2> QED BY <2>1, StoredStays
<1>2. StopsAt(F2[m], c2.code, z)
  BY <1>0 DEF PausedAt, StopsAt
<1> QED BY <1>0, <1>1, <1>2 DEF PausedAt

\* The number of open scopes is determined by the activations.
LEMMA DepthsAgree ==
  ASSUME NEW F, NEW B, NEW D, NEW f, Stacked(F, B, D, f),
         NEW F2, NEW B2, NEW D2, NEW f2, Stacked(F2, B2, D2, f2),
         NEW m \in Nat, m <= Len(F), m <= Len(F2), \A i \in 1 .. m : F2[i] = F[i]
  PROVE  \A i \in 0 .. m : D2[i] = D[i]
<1> DEFINE A == {i \in 0 .. m : D2[i] = D[i]}
<1>0. Len(F) \in Nat /\ Len(F2) \in Nat
  BY SeqFacts DEF Stacked
<1>1. 0 \in A
  BY DEF Stacked
<1>2. ASSUME NEW i \in 0 .. m - 1, i \in A PROVE i + 1 \in A
  <2>1. i + 1 \in 1 .. m /\ i + 1 \in 1 .. Len(F) /\ i + 1 \in 1 .. Len(F2) /\ i + 1 - 1 = i
    BY <1>0
  <2>2. Fits(F, B, D, f, i + 1) /\ Fits(F2, B2, D2, f2, i + 1)
    BY <2>1 DEF Stacked
  <2>3. D[i + 1] = D[i] + Opens(F[i + 1]) /\ D2[i + 1] = D2[i] + Opens(F2[i + 1])
    BY <2>1, <2>2 DEF Fits
  <2> QED BY <1>2, <2>1, <2>3
<1> HIDE DEF A
<1>3. \A i \in 0 .. m : i \in A
  BY <1>1, <1>2, CountUp
<1> QED BY <1>3 DEF A

----------------------------------------
(* The compiler's state and the machine's.                                    *)

Main == compilers[1]

Meaningful(M) == {"scopes", "globals", "out"} \subseteq DOMAIN M

\* What was printed, called and defined is what the text says, where it says it.
Agrees(z, M) ==
  /\ Meaningful(M)
  /\ IsSeq(M.out) /\ Len(z.out) = Len(M.out)
  /\ \A i \in 1 .. Len(z.out) : M.out[i] \in {z.out[i], Unset}
  /\ \A x \in DOMAIN M.globals : x \in DOMAIN z.globals /\ M.globals[x] \in {z.globals[x], Unset}

Stands(c, F, w, S, z, D) ==
  LiveAt(c, F, w, S, z) \/ \E m \in 1 .. Len(F) : PausedAt(c, F, S, z, m, D)
Traced(D, T, z) ==
  /\ Trail(calls, Main.code, T, z) /\ Agrees(z, meaning) /\ Shaped(calls)
  /\ Stands(Main, calls, wanted, meaning.scopes, z, D)
Follows == \E f, B, D, T, z : Here(f, B, D) /\ Traced(D, T, z)

SameEffects ==
  /\ DOMAIN meaning' = DOMAIN meaning
  /\ meaning'.out = meaning.out /\ meaning'.globals = meaning.globals

LEMMA LiveFacts ==
  ASSUME NEW f, NEW B, NEW D, Here(f, B, D), Live(calls)
  PROVE  f = 0 /\ Main = current /\ Executed
<1>1. Stacked(calls, B, D, f) /\ IsSeq(calls) /\ Chain(compilers, f) /\ current = Last(compilers)
  BY HereIs DEF Here, Sound
<1>2. f = 0
  <2> SUFFICES ASSUME f # 0 PROVE FALSE
    OBVIOUS
  <2>1. f \in 1 .. Len(calls) /\ calls[f].at = "function"
    BY <1>1, FunctionDepth
  <2> QED BY <2>1 DEF Live, Stuck
<1>3. Main = current
  BY <1>1, <1>2 DEF Main, Chain, Last
<1>4. ASSUME NEW i \in DOMAIN calls
      PROVE  /\ calls[i].at = "then" => calls[i].taken
             /\ calls[i].at = "else" => ~ calls[i].taken
             /\ calls[i].at # "function"
  <2>1. i \in 1 .. Len(calls)
    BY <1>1, SeqFacts
  <2> QED BY <2>1 DEF Live, Stuck
<1> QED BY <1>2, <1>3, <1>4 DEF Executed

LEMMA StuckFacts ==
  ASSUME NEW f, NEW B, NEW D, Here(f, B, D), NEW m \in 1 .. Len(calls), Stuck(calls[m])
  PROVE  ~ Executed
<1>1. m \in DOMAIN calls
  BY HereIs, SeqFacts
<1>2. CASE calls[m].at = "then" /\ ~ calls[m].taken
  BY <1>1, <1>2 DEF Executed
<1>3. CASE calls[m].at = "else" /\ calls[m].taken
  BY <1>1, <1>3 DEF Executed
<1>4. CASE calls[m].at = "function"
  BY <1>1, <1>4 DEF Executed
<1> QED BY <1>2, <1>3, <1>4 DEF Stuck

LEMMA SameAgrees ==
  ASSUME NEW z, Agrees(z, meaning), SameEffects
  PROVE  Agrees(z, meaning')
BY DEF Agrees, Meaningful, SameEffects

\* The step of a live program: the machine is at z2 and has all that it needs.
LiveNext(c2, T2, z2) ==
  /\ Trail(calls', c2.code, T2, z2) /\ Agrees(z2, meaning')
  /\ LiveAt(c2, calls', wanted', meaning'.scopes, z2)

\* The machine stays where it stands, below activation k.
LEMMA PausedStep ==
  ASSUME NEW f, NEW B, NEW D, Here(f, B, D), NEW T, NEW z, Traced(D, T, z), Compiles',
         NEW m \in 1 .. Len(calls), PausedAt(Main, calls, meaning.scopes, z, m, D),
         NEW k, Continues(calls, calls', k), m <= k, Shaped(calls'), SameEffects,
         Trail(calls', Main'.code, T, z), LocalsKept(Main.locals, Main'.locals, meaning.scopes),
         calls[m].at = "function" => Main'.code = Main.code,
         ScopesKept(meaning.scopes, meaning'.scopes, D[m - 1])
  PROVE  Follows'
<1>1. PICK f2, B2, D2 : Here(f2, B2, D2)'
  BY DEF Compiles, Good, Here
<1>2. IsSeq(calls) /\ Stacked(calls, B, D, f) /\ Len(calls) \in Nat /\ m \in Nat
  BY HereIs DEF Here, Sound
<1>3. /\ k \in 0 .. Len(calls) /\ IsSeq(calls') /\ Len(calls') \in {k, k + 1}
      /\ \A i \in 1 .. k : calls'[i] = calls[i]
  BY DEF Continues
<1>4. m <= Len(calls') /\ \A i \in 1 .. m : calls'[i] = calls[i]
  BY <1>2, <1>3
<1>5. Agrees(z, meaning')
  BY SameAgrees DEF Traced
<1> DEFINE e == D[m - 1]
<1>6. e \in Nat /\ e <= Len(meaning.scopes) /\ IsSeq(meaning.scopes)
  <2>1. m - 1 \in 0 .. Len(calls) /\ Len(calls) \in 0 .. Len(calls) /\ m - 1 <= Len(calls) /\ m - 1 \in Nat
    BY <1>2
  <2>2. D[m - 1] <= D[Len(calls)] /\ D[m - 1] \in Nat
    BY <1>2, <2>1 DEF Stacked, Numbers
  <2> QED BY <2>2, HereIs DEF Naming
<1>7. D2[m - 1] = e
  <2>1. Stacked(calls', B2, D2, f2)
    BY <1>1 DEF Here, Sound
  <2>2. \A i \in 0 .. m : D2[i] = D[i]
    BY <1>2, <1>4, <2>1, DepthsAgree
  <2> QED BY <1>2, <2>2
<1>8. ScopesKept(meaning.scopes, meaning'.scopes, e)
  OBVIOUS
<1> HIDE DEF e
<1>9. PausedAt(Main', calls', meaning'.scopes, z, m, D2)
  <2>1. D[m - 1] = e
    BY DEF e
  <2> QED BY <1>2, <1>3, <1>4, <1>6, <1>7, <1>8, <2>1, PausedStays
<1>10. m \in 1 .. Len(calls')
  BY <1>2, <1>4
<1>11. Traced(D2, T, z)'
  BY <1>5, <1>9, <1>10 DEF Traced, Stands
<1> QED BY <1>1, <1>11 DEF Follows

LEMMA PlainStep ==
  ASSUME NEW f, NEW B, NEW D, Here(f, B, D), NEW T, NEW z, Traced(D, T, z), Compiles',
         NEW k, Plain(calls, calls', k),
         NEW c2, Become(c2), Compiler(c2), Extends(current.code, c2.code),
         LocalsKept(current.locals, c2.locals, meaning.scopes),
         ~ Executed => SameEffects,
         \A m \in 1 .. Len(calls) :
            Stuck(calls[m]) => ScopesKept(meaning.scopes, meaning'.scopes, D[m - 1]),
         Live(calls) => \E T2, z2 : LiveNext(c2, T2, z2)
  PROVE  Follows'
<1>1. PICK f2, B2, D2 : Here(f2, B2, D2)'
  BY DEF Compiles, Good, Here
<1>2. Becomes(compilers, f, c2, compilers')
  BY BecomeIs
<1>3. IsSeq(calls) /\ Shaped(calls) /\ Stacked(calls, B, D, f)
  BY HereIs DEF Traced, Here, Sound
<1>4. /\ JumpersStay(calls, calls') /\ Shaped(calls') /\ (Live(calls) => Live(calls'))
      /\ \A m \in 1 .. Len(calls) : Stuck(calls[m]) => m <= k
  BY <1>3, PlainIs
<1>5. CASE Live(calls)
  <2>1. PICK T2, z2 : LiveNext(c2, T2, z2)
    BY <1>5
  <2>2. f = 0
    BY <1>5, LiveFacts
  <2>3. Main' = c2
    <3>1. Len(compilers) = 1
      BY <2>2, HereIs DEF Chain
    <3> QED BY <1>2, <3>1 DEF Main, Becomes
  <2>4. Traced(D2, T2, z2)'
    BY <1>4, <2>1, <2>3 DEF Traced, LiveNext, Stands
  <2> QED BY <1>1, <2>4 DEF Follows
<1>6. CASE ~ Live(calls)
  <2>1. ~ LiveAt(Main, calls, wanted, meaning.scopes, z)
    BY <1>6 DEF LiveAt
  <2>2. PICK m \in 1 .. Len(calls) : PausedAt(Main, calls, meaning.scopes, z, m, D)
    BY <2>1 DEF Traced, Stands
  <2>3. Stuck(calls[m]) /\ m <= k /\ ~ Executed /\ SameEffects /\ Len(calls) \in Nat /\ m \in Nat
    BY <1>4, <2>2, StuckFacts, HereIs DEF PausedAt
  <2>6. Extends(Main.code, Main'.code) /\ LocalsKept(Main.locals, Main'.locals, meaning.scopes)
        /\ (calls[m].at = "function" => Main'.code = Main.code)
    <3>1. CASE f = 0
      <4>1. Len(compilers) = 1 /\ current = Main
        BY <3>1, HereIs DEF Chain, Main, Last
      <4>2. Main' = c2
        BY <1>2, <4>1 DEF Main, Becomes
      <4>3. calls[m].at # "function"
        <5>1. Fits(calls, B, D, f, m)
          BY <1>3 DEF Stacked
        <5> QED BY <3>1, <5>1 DEF Fits
      <4> QED BY <4>1, <4>2, <4>3
    <3>2. CASE f # 0
      <4>1. f \in Nat /\ f > 0
        BY <3>2, <1>3, FunctionDepth
      <4>2. Main' = Main
        BY <1>2, <4>1 DEF Main, Becomes
      <4>3. IsSeq(Main.code)
        BY DEF Traced, Trail
      <4>4. Len(Main.code) <= Len(Main.code)
        BY <4>3, SeqFacts
      <4> QED BY <4>2, <4>3, <4>4 DEF Extends, LocalsKept
    <3> QED BY <3>1, <3>2
  <2>7. Trail(calls', Main'.code, T, z)
    BY <1>4, <2>6, TrailStays DEF Traced
  <2>8. Continues(calls, calls', k) /\ ScopesKept(meaning.scopes, meaning'.scopes, D[m - 1])
    BY <2>3 DEF Plain
  <2> QED BY <1>4, <2>2, <2>3, <2>6, <2>7, <2>8, PausedStep
<1> QED BY <1>5, <1>6

----------------------------------------
(* A value is computed.                                                       *)

\* When a statement is wanted, nothing waits for an expression.
LEMMA IdleEval ==
  ASSUME NEW C, NEW F, NEW w, NEW S, NEW f, NEW B, NEW D, Sound(C, F, w, S, f, B, D),
         w.is \notin {"expression", "register"}, NEW code, NEW regs, NEW L
  PROVE  Evaluated(F, w, code, regs) /\ Banked(F, w, L) /\ \A i \in 1 .. Len(F) : ~ Asks(F[i])
<1>0. Len(F) \in Nat /\ Stacked(F, B, D, f) /\ WantedIs(Last(C), F, B, w)
  BY SeqFacts DEF Sound, Stacked
<1>1. ASSUME NEW i \in 1 .. Len(F), Asks(F[i]) PROVE FALSE
  <2>1. Len(F) \in 1 .. Len(F) /\ i <= Len(F) /\ Len(F) > 0
    BY <1>0
  <2>2. Asks(F[Len(F)])
    BY <1>0, <1>1, <2>1 DEF Stacked
  <2> QED BY <1>0, <2>1, <2>2 DEF WantedIs
<1>2. ASSUME NEW i \in 1 .. Len(F)
      PROVE  /\ F[i].at \notin Operators \union {"right", "argument", "var"}
             /\ Operands(F[i], regs) /\ BankedAt(F[i], L)
  BY <1>1 DEF Asks, Operators, Roots, Operands, BankedAt
<1>3. Len(F) > 0 => Len(F) \in 1 .. Len(F)
  BY <1>0
<1>4. Len(F) > 0 => TopHeld(F[Len(F)], w, code, regs) /\ Got(F[Len(F)], w, regs)
  BY <1>2, <1>3 DEF TopHeld, Got
<1> QED BY <1>1, <1>2, <1>4 DEF Evaluated, Banked

\* All that is live lies below the register that an activation asks for.
Below(regs, regs2, d) == \A r \in Nat : r < d => regs2[r] = regs[r]

LEMMA LowKept ==
  ASSUME NEW C, NEW F, NEW w, NEW S, NEW B, NEW D, Sound(C, F, w, S, 0, B, D),
         NEW k \in 1 .. Len(F), Asks(F[k]), NEW regs, NEW regs2, Below(regs, regs2, Asked(F[k], B[k]))
  PROVE  /\ Stored(Last(C).locals, S, regs, Len(S)) => Stored(Last(C).locals, S, regs2, Len(S))
         /\ \A i \in 1 .. k : Operands(F[i], regs) => Operands(F[i], regs2)
         /\ F[k].at = "argument" /\ RestHeld(F[k], regs) => RestHeld(F[k], regs2)
         /\ Asked(F[k], B[k]) \in Nat
<1> DEFINE n == Len(F)
           L == Last(C).locals
           H == HeldRegs(L, S)
           d == Asked(F[k], B[k])
<1>0. n \in Nat /\ Stacked(F, B, D, 0) /\ IsSeq(S) /\ k \in Nat /\ Numbers(B)
  BY SeqFacts DEF Sound, Stacked, Naming
<1>1. Layout(F, B, H, Last(C).regTop, 0, n)
  BY DEF Sound, Registers
<1>2. ASSUME NEW i \in 1 .. n PROVE Fits(F, B, D, 0, i) /\ B[i] \in Nat
  BY <1>0, <1>2 DEF Stacked, Numbers
<1>3. /\ d \in Nat /\ B[k] <= d /\ (F[k].at = "right" => d = B[k] + 1)
      /\ (F[k].at = "argument" => d = B[k] + Len(F[k].vals) /\ Len(F[k].vals) \in Nat /\ Len(F[k].vals) >= 1)
  <2>1. Fits(F, B, D, 0, k) /\ B[k] \in Nat
    BY <1>2
  <2>2. F[k].at = "argument" => Len(F[k].vals) \in Nat /\ Len(F[k].vals) >= 1
    BY <2>1, SeqFacts DEF Fits, Counted
  <2> QED BY <2>1, <2>2 DEF Asked
<1>4. \A r \in Nat : r < d => regs2[r] = regs[r]
  BY DEF Below
<1> HIDE DEF d
<1>5. ASSUME NEW r \in H PROVE regs2[r] = regs[r]
  <2>1. k \in 0 + 1 .. n
    BY <1>0
  <2>2. r < B[k] /\ r \in Nat /\ B[k] \in Nat
    BY <1>1, <1>2, <2>1 DEF Layout
  <2> QED BY <1>3, <1>4, <2>2
<1>6. ASSUME Stored(L, S, regs, Len(S)) PROVE Stored(L, S, regs2, Len(S))
  <2> SUFFICES ASSUME NEW j \in DOMAIN L, NEW s \in 1 .. Len(S),
                      L[j].name \in DOMAIN S[s], S[s][L[j].name] # Unset
               PROVE  regs2[L[j].reg] = S[s][L[j].name]
    BY DEF Stored
  <2>1. s \in DOMAIN S
    BY <1>0, SeqFacts
  <2>2. L[j].reg \in H
    BY <2>1 DEF HeldRegs, HeldIn, Valued
  <2>3. regs[L[j].reg] = S[s][L[j].name]
    BY <1>6 DEF Stored
  <2> QED BY <1>5, <2>2, <2>3
<1>7. ASSUME NEW i \in 1 .. k, Operands(F[i], regs) PROVE Operands(F[i], regs2)
  <2>1. i \in 1 .. n /\ i \in Nat
    BY <1>0
  <2>2. Fits(F, B, D, 0, i) /\ B[i] \in Nat
    BY <1>2, <2>1
  <2>3. ASSUME Asks(F[i]), i # k PROVE B[i] + Width(F[i]) <= d
    <3>1. i \in 0 + 1 .. n /\ k \in 0 + 1 .. n /\ i < k
      BY <1>0, <2>3
    <3>2. B[i] + Width(F[i]) <= B[k]
      BY <1>1, <2>3, <3>1 DEF Layout, Keeps, Asks
    <3>3. Width(F[i]) \in Nat /\ B[k] \in Nat
      BY <1>2 DEF Width
    <3> QED BY <1>3, <2>2, <3>2, <3>3
  <2>4. ASSUME F[i].at = "right" PROVE regs2[F[i].reg] = regs[F[i].reg]
    <3>1. F[i].reg = B[i] /\ Width(F[i]) = 2 /\ Asks(F[i])
      BY <2>2, <2>4 DEF Fits, Width, Asks, Operators
    <3>2. B[i] < d
      BY <1>3, <2>2, <2>3, <2>4, <3>1
    <3> QED BY <1>4, <2>2, <3>1, <3>2
  <2>5. ASSUME F[i].at = "argument"
        PROVE  /\ regs2[F[i].id] = regs[F[i].id]
               /\ Len(F[i].vals) >= 2 => regs2[F[i].start] = regs[F[i].start]
    <3>1. F[i].id = B[i] /\ F[i].start = B[i] + 1 /\ Width(F[i]) = 2 /\ Asks(F[i])
      BY <2>2, <2>5 DEF Fits, Counted, Width, Asks, Operators
    <3>2. B[i] < d /\ (Len(F[i].vals) >= 2 => B[i] + 1 < d)
      BY <1>3, <2>2, <2>3, <2>5, <3>1
    <3> QED BY <1>4, <2>2, <3>1, <3>2
  <2> QED BY <1>7, <2>4, <2>5 DEF Operands
<1>8. ASSUME F[k].at = "argument", RestHeld(F[k], regs) PROVE RestHeld(F[k], regs2)
  <2>1. Fits(F, B, D, 0, k) /\ B[k] \in Nat
    BY <1>2
  <2>2. F[k].start = B[k] + 1
    BY <1>8, <2>1 DEF Fits, Counted
  <2>3. ASSUME NEW j \in 3 .. Len(F[k].vals) PROVE regs2[F[k].start + j - 2] = F[k].vals[j]
    <3>1. F[k].start + j - 2 \in Nat /\ F[k].start + j - 2 < d
      BY <1>3, <1>8, <2>1, <2>2
    <3> QED BY <1>4, <1>8, <3>1 DEF RestHeld
  <2> QED BY <2>3 DEF RestHeld
<1> QED BY <1>3, <1>6, <1>7, <1>8 DEF d

Written(z, z2, dst, val) == z2.regs[dst] = val /\ \A r \in Bank : r # dst => z2.regs[r] = z.regs[r]

LEMMA LiveIs ==
  ASSUME NEW c, NEW F, NEW w, NEW S, NEW z, Live(F), z.ip = Len(c.code) + 1,
         Stored(c.locals, S, z.regs, Len(S)), Evaluated(F, w, c.code, z.regs), Banked(F, w, c.locals)
  PROVE  LiveAt(c, F, w, S, z)
BY DEF LiveAt

\* Activation k is given the value that it asked for, by an instruction that writes it.
WaitsFor(F, k, B, dst, z, inst) ==
  /\ k \in 1 .. Len(F) /\ Asks(F[k]) /\ dst \in Bank /\ dst = Asked(F[k], B[k])
  /\ F[k].at = "argument" /\ ~ F[k].spoilt =>
        RestHeld(F[k], z.regs) \/ inst[1] \in {"SUB", "READ", "SYSCALL"}
WrittenBy(c, inst, c2, z, z2, dst, val) ==
  /\ IsSeq(c.code) /\ c2.code = Append(c.code, inst) /\ c2.locals = c.locals
  /\ z2.ip = Len(c2.code) + 1 /\ Written(z, z2, dst, val)
HandedOver(F, k, F2, w2, dst, val) ==
  /\ IsSeq(F2) /\ Len(F2) = k /\ \A i \in 1 .. k : F2[i] = F[i]
  /\ w2.is = "register" /\ w2.reg = dst /\ w2.val = val

LEMMA ValueHeld ==
  ASSUME NEW C, NEW F, NEW w, NEW S, NEW B, NEW D, Sound(C, F, w, S, 0, B, D),
         NEW z, LiveAt(Last(C), F, w, S, z),
         NEW k, NEW dst, NEW inst, WaitsFor(F, k, B, dst, z, inst),
         NEW val, NEW z2, NEW c2, WrittenBy(Last(C), inst, c2, z, z2, dst, val),
         NEW F2, NEW w2, HandedOver(F, k, F2, w2, dst, val)
  PROVE  LiveAt(c2, F2, w2, S, z2)
<1> USE DEF WaitsFor, WrittenBy, HandedOver
<1>0. Len(F) \in Nat /\ k \in Nat /\ k > 0
  BY SeqFacts DEF Sound, Stacked
<1>1. Below(z.regs, z2.regs, dst)
  <2>1. ASSUME NEW r \in Nat, r < dst PROVE r \in Bank /\ r # dst
    BY ONLY dst \in Bank, <2>1, BankUpTo
  <2> QED BY <2>1 DEF Below, Written
<1>2. /\ Stored(Last(C).locals, S, z2.regs, Len(S))
      /\ \A i \in 1 .. k : Operands(F[i], z.regs) => Operands(F[i], z2.regs)
      /\ F[k].at = "argument" /\ RestHeld(F[k], z.regs) => RestHeld(F[k], z2.regs)
  <2>1. Stored(Last(C).locals, S, z.regs, Len(S))
    BY DEF LiveAt
  <2>2. Below(z.regs, z2.regs, Asked(F[k], B[k])) /\ k \in 1 .. Len(F) /\ Asks(F[k])
    BY <1>1
  <2> HIDE DEF WaitsFor, WrittenBy, HandedOver
  <2> QED BY <2>1, <2>2, LowKept
<1>3. Live(F2)
  <2>1. \A i \in 1 .. k : i \in 1 .. Len(F)
    BY <1>0
  <2> QED BY <2>1 DEF LiveAt, Live
<1>4. \A i \in 1 .. Len(F2) : Operands(F2[i], z2.regs) /\ BankedAt(F2[i], c2.locals)
  <2>1. ASSUME NEW i \in 1 .. k PROVE Operands(F[i], z.regs) /\ BankedAt(F[i], Last(C).locals)
    <3>1. i \in 1 .. Len(F)
      BY <1>0
    <3> QED BY <3>1 DEF LiveAt, Evaluated, Banked
  <2> QED BY <1>2, <2>1
<1>5. Last(c2.code) = inst
  <2>1. Len(c2.code) = Len(Last(C).code) + 1 /\ c2.code[Len(Last(C).code) + 1] = inst
    BY AppendIs
  <2> QED BY <2>1 DEF Last
<1>6. TopHeld(F2[k], w2, c2.code, z2.regs)
  <2>1. k \in 1 .. k
    BY <1>0
  <2> QED BY <1>2, <1>5, <2>1 DEF TopHeld, Computes
<1>7. Got(F2[k], w2, z2.regs)
  BY DEF Got, Written
<1>8. Evaluated(F2, w2, c2.code, z2.regs)
  BY <1>4, <1>6, <1>7 DEF Evaluated
<1>9. Banked(F2, w2, c2.locals)
  BY <1>4 DEF Banked
<1>10. Stored(c2.locals, S, z2.regs, Len(S))
  BY <1>2
<1>11. z2.ip = Len(c2.code) + 1
  OBVIOUS
<1> QED BY <1>3, <1>8, <1>9, <1>10, <1>11, LiveIs

LEMMA LiveSound ==
  ASSUME NEW f, NEW B, NEW D, Here(f, B, D), Live(calls)
  PROVE  /\ Sound(compilers, calls, wanted, meaning.scopes, 0, B, D) /\ f = 0
         /\ Main = current /\ current = Last(compilers) /\ Executed
BY LiveFacts DEF Here, current

\* The two ways in which the machine may follow a plain step.
LEMMA LiveStraight ==
  ASSUME NEW T, NEW z, Trail(calls, current.code, T, z), z.ip = Len(current.code) + 1,
         NEW k, IsSeq(calls), Shaped(calls), Plain(calls, calls', k),
         NEW c2, NEW inst, inst[1] \in Straight, c2.code = Append(current.code, inst),
         Agrees(Stepped(inst, z), meaning'),
         Stepped(inst, z).ip = Len(c2.code) + 1 =>
            LiveAt(c2, calls', wanted', meaning'.scopes, Stepped(inst, z))
  PROVE  \E T2, z2 : LiveNext(c2, T2, z2)
<1> DEFINE z2 == Stepped(inst, z)
           code == current.code
           code2 == c2.code
           F2 == calls'
<1>1. JumpersStay(calls, F2)
  BY PlainIs
<1>2. Appends(code, z, inst, code2, z2)
  BY DEF Appends
<1>3. Trail(F2, code2, T \union {z2}, z2) /\ z2.ip = Len(code2) + 1
  <2>1. Trail(calls, code, T, z)
    OBVIOUS
  <2> HIDE DEF z2, code, code2, F2
  <2> QED BY <1>1, <1>2, <2>1, TrailOn
<1> QED BY <1>3 DEF LiveNext

LEMMA LiveQuiet ==
  ASSUME NEW T, NEW z, Trail(calls, current.code, T, z),
         NEW k, IsSeq(calls), Shaped(calls), Plain(calls, calls', k),
         NEW c2, c2.code = current.code, Agrees(z, meaning'),
         LiveAt(c2, calls', wanted', meaning'.scopes, z)
  PROVE  \E T2, z2 : LiveNext(c2, T2, z2)
<1>1. JumpersStay(calls, calls')
  BY PlainIs
<1>2. IsSeq(current.code)
  BY DEF Trail
<1>3. Len(current.code) <= Len(current.code)
  BY <1>2, SeqFacts
<1>4. Extends(current.code, c2.code)
  BY <1>2, <1>3 DEF Extends
<1>5. Trail(calls', c2.code, T, z)
  BY <1>1, <1>4, TrailStays
<1> QED BY <1>5 DEF LiveNext

LEMMA ExtendsIs ==
  ASSUME NEW code, IsSeq(code), NEW code2, code2 = code \/ \E inst : code2 = Append(code, inst)
  PROVE  Extends(code, code2)
<1>1. Len(code) \in Nat
  BY SeqFacts
<1>2. CASE code2 = code
  BY <1>1, <1>2 DEF Extends
<1>3. CASE code2 # code
  <2>1. PICK inst : code2 = Append(code, inst)
    BY <1>3
  <2>2. IsSeq(code2) /\ Len(code2) = Len(code) + 1 /\ \A i \in 1 .. Len(code) : code2[i] = code[i]
    BY <2>1, AppendIs
  <2> QED BY <1>1, <2>2 DEF Extends
<1> QED BY <1>2, <1>3

\* What has the same locals and scopes keeps what is stored.
LEMMA NamesKept ==
  ASSUME NEW c, NEW c2, SameNames(c, c2)
  PROVE  LocalsKept(c.locals, c2.locals, meaning.scopes)
BY DEF SameNames, LocalsKept

\* Activation k is given the value "val" by the instruction.
Gives(B, k, c2, inst, dst, val) ==
  /\ k \in 1 .. Len(calls) /\ k \in {Len(calls) - 1, Len(calls)} /\ Asks(calls[k])
  /\ Continues(calls, calls', k) /\ Len(calls') = k
  /\ k = Len(calls) - 1 => Ordinary(calls[Len(calls)])
  /\ Become(c2) /\ Compiler(c2) /\ SameNames(current, c2)
  /\ inst[1] \in Straight /\ c2.code = Append(current.code, inst)
  /\ SameScopes /\ (~ Executed => SameEffects)
  /\ dst = Asked(calls[k], B[k]) /\ wanted' = [is |-> "register", reg |-> dst, val |-> val]
IsThere(inst, z, dst, val) ==
  /\ dst \in Bank /\ Written(z, Stepped(inst, z), dst, val) /\ Agrees(Stepped(inst, z), meaning')
Unspoilt(fr, inst, z) ==
  fr.at = "argument" /\ ~ fr.spoilt => RestHeld(fr, z.regs) \/ inst[1] \in {"SUB", "READ", "SYSCALL"}

LEMMA GivenStep ==
  ASSUME NEW f, NEW B, NEW D, Here(f, B, D), NEW T, NEW z, Traced(D, T, z), Compiles',
         NEW k, NEW c2, NEW inst, NEW dst, NEW val, Gives(B, k, c2, inst, dst, val),
         LiveAt(current, calls, wanted, meaning.scopes, z) /\ VMState(z) /\ Executed =>
            IsThere(inst, z, dst, val) /\ Unspoilt(calls[k], inst, z)
  PROVE  Follows'
<1> USE DEF Gives
<1>0. IsSeq(calls) /\ Shaped(calls) /\ k \in Nat /\ Len(calls') # k + 1
  BY HereIs DEF Traced
<1>1. Plain(calls, calls', k)
  BY <1>0 DEF Plain
<1>2. Extends(current.code, c2.code)
  <2>1. IsSeq(current.code)
    BY HereIs DEF Compiler
  <2> QED BY <2>1, ExtendsIs
<1>3. LocalsKept(current.locals, c2.locals, meaning.scopes)
  BY NamesKept
<1>4. ASSUME Live(calls) PROVE \E T2, z2 : LiveNext(c2, T2, z2)
  <2>1. /\ Sound(compilers, calls, wanted, meaning.scopes, 0, B, D)
        /\ Main = current /\ current = Last(compilers) /\ Executed
    BY <1>4, LiveSound
  <2>2. Trail(calls, current.code, T, z) /\ LiveAt(current, calls, wanted, meaning.scopes, z)
    <3>1. ASSUME NEW m \in 1 .. Len(calls), PausedAt(Main, calls, meaning.scopes, z, m, D) PROVE FALSE
      BY <1>4, <3>1 DEF PausedAt, Live
    <3> QED BY <2>1, <3>1 DEF Traced, Stands
  <2>3. VMState(z) /\ z.ip = Len(current.code) + 1 /\ IsSeq(current.code)
    BY <2>2 DEF Trail, Ran, LiveAt
  <2> DEFINE z2 == Stepped(inst, z)
  <2>4. /\ dst \in Bank /\ Written(z, z2, dst, val) /\ Agrees(z2, meaning')
        /\ calls[k].at = "argument" /\ ~ calls[k].spoilt =>
              RestHeld(calls[k], z.regs) \/ inst[1] \in {"SUB", "READ", "SYSCALL"}
    BY <2>1, <2>2, <2>3 DEF IsThere, Unspoilt
  <2>5. ASSUME z2.ip = Len(c2.code) + 1 PROVE LiveAt(c2, calls', wanted', meaning'.scopes, z2)
    <3> DEFINE F2 == calls'
               w2 == wanted'
               S == meaning.scopes
    <3>0. z2.ip = Len(c2.code) + 1
      BY <2>5
    <3>1. HandedOver(calls, k, F2, w2, dst, val)
      BY DEF Continues, HandedOver
    <3>2. WrittenBy(Last(compilers), inst, c2, z, z2, dst, val)
      BY <2>1, <2>3, <2>4, <3>0 DEF SameNames, WrittenBy
    <3>3. WaitsFor(calls, k, B, dst, z, inst)
      BY <2>4 DEF WaitsFor
    <3>5. LiveAt(Last(compilers), calls, wanted, S, z)
      BY <2>1, <2>2
    <3> HIDE DEF F2, w2, z2
    <3>4. LiveAt(c2, F2, w2, S, z2)
      BY <2>1, <3>1, <3>2, <3>3, <3>5, ValueHeld
    <3> QED BY <3>4 DEF SameScopes, F2, w2
  <2> QED BY <1>0, <1>1, <2>2, <2>3, <2>4, <2>5, LiveStraight
<1>5. \A m \in 1 .. Len(calls) :
         Stuck(calls[m]) => ScopesKept(meaning.scopes, meaning'.scopes, D[m - 1])
  BY DEF ScopesKept, SameScopes
<1> QED BY <1>1, <1>2, <1>3, <1>4, <1>5, PlainStep

----------------------------------------
(* What the text says next, and what the machine does.                        *)

LEMMA SaysMeans ==
  ASSUME Meaningful(meaning), NEW effect, Says(effect)
  PROVE  /\ SameScopes /\ meaning'.globals = meaning.globals /\ DOMAIN meaning' = DOMAIN meaning
         /\ meaning'.out = IF Executed THEN Append(meaning.out, effect) ELSE meaning.out
BY DEF Meaningful, Says, SameScopes

LEMMA DefiningMeans ==
  ASSUME Meaningful(meaning), NEW x, NEW val, meaning' = BoundGlobal(x, val)
  PROVE  /\ SameScopes /\ meaning'.out = meaning.out /\ DOMAIN meaning' = DOMAIN meaning
         /\ meaning'.globals = With(meaning.globals, x, val)
BY DEF Meaningful, BoundGlobal, SameScopes

LEMMA ScopesMean ==
  ASSUME Meaningful(meaning), NEW S2, meaning' = [meaning EXCEPT !.scopes = S2]
  PROVE  SameEffects /\ meaning'.scopes = S2
BY DEF Meaningful, SameEffects

LEMMA SameMeans ==
  ASSUME meaning' = meaning
  PROVE  SameEffects /\ SameScopes
BY DEF SameEffects, SameScopes

\* The machine's registers do not matter.
SameShown(z, z2) == z2.out = z.out /\ z2.globals = z.globals

LEMMA AgreesQuiet ==
  ASSUME NEW z, Agrees(z, meaning), SameEffects, NEW z2, SameShown(z, z2)
  PROVE  Agrees(z2, meaning')
BY DEF Agrees, Meaningful, SameEffects, SameShown

LEMMA AgreesOut ==
  ASSUME NEW z, VMState(z), NEW M, Agrees(z, M),
         NEW z2, NEW effect, z2.out = Append(z.out, effect), z2.globals = z.globals,
         NEW M2, NEW said, M2.out = Append(M.out, said), M2.globals = M.globals, DOMAIN M2 = DOMAIN M,
         said \in {effect, Unset}
  PROVE  Agrees(z2, M2)
<1>1. /\ IsSeq(M.out) /\ IsSeq(z.out) /\ Len(z.out) = Len(M.out) /\ Len(z.out) \in Nat
      /\ \A i \in 1 .. Len(z.out) : M.out[i] \in {z.out[i], Unset}
  BY SeqFacts DEF Agrees, VMState
<1>2. /\ IsSeq(z2.out) /\ Len(z2.out) = Len(z.out) + 1 /\ z2.out[Len(z.out) + 1] = effect
      /\ \A i \in 1 .. Len(z.out) : z2.out[i] = z.out[i]
  BY <1>1, AppendIs
<1>3. /\ IsSeq(M2.out) /\ Len(M2.out) = Len(M.out) + 1 /\ M2.out[Len(M.out) + 1] = said
      /\ \A i \in 1 .. Len(M.out) : M2.out[i] = M.out[i]
  BY <1>1, AppendIs
<1>4. ASSUME NEW i \in 1 .. Len(z2.out) PROVE M2.out[i] \in {z2.out[i], Unset}
  <2>1. CASE i = Len(z.out) + 1
    BY <1>1, <1>2, <1>3, <2>1
  <2>2. CASE i # Len(z.out) + 1
    <3>1. i \in 1 .. Len(z.out)
      BY <1>1, <1>2, <2>2
    <3> QED BY <1>1, <1>2, <1>3, <3>1
  <2> QED BY <2>1, <2>2
<1>5. \A x \in DOMAIN M2.globals : x \in DOMAIN z2.globals /\ M2.globals[x] \in {z2.globals[x], Unset}
  BY DEF Agrees
<1>6. Meaningful(M2)
  BY DEF Agrees, Meaningful
<1> QED BY <1>1, <1>2, <1>3, <1>4, <1>5, <1>6 DEF Agrees

LEMMA AgreesGlobal ==
  ASSUME NEW z, NEW M, Agrees(z, M), NEW x,
         NEW z2, NEW val, z2.out = z.out, z2.globals = With(z.globals, x, val),
         NEW M2, NEW said, M2.out = M.out, M2.globals = With(M.globals, x, said), DOMAIN M2 = DOMAIN M,
         said \in {val, Unset}
  PROVE  Agrees(z2, M2)
BY DEF Agrees, Meaningful, With

----------------------------------------
(* Steps in which the machine does nothing.                                   *)

LEMMA LiveHere ==
  ASSUME NEW f, NEW B, NEW D, Here(f, B, D), NEW T, NEW z, Traced(D, T, z), Live(calls)
  PROVE  /\ Sound(compilers, calls, wanted, meaning.scopes, 0, B, D) /\ f = 0
         /\ Main = current /\ current = Last(compilers) /\ Executed
         /\ Trail(calls, current.code, T, z) /\ LiveAt(current, calls, wanted, meaning.scopes, z)
         /\ VMState(z) /\ z.ip = Len(current.code) + 1 /\ IsSeq(current.code) /\ Agrees(z, meaning)
<1>1. /\ Sound(compilers, calls, wanted, meaning.scopes, 0, B, D) /\ f = 0
      /\ Main = current /\ current = Last(compilers) /\ Executed
  BY LiveSound
<1>2. Trail(calls, current.code, T, z) /\ LiveAt(current, calls, wanted, meaning.scopes, z)
  <2>1. ASSUME NEW m \in 1 .. Len(calls), PausedAt(Main, calls, meaning.scopes, z, m, D) PROVE FALSE
    BY <2>1 DEF PausedAt, Live
  <2> QED BY <1>1, <2>1 DEF Traced, Stands
<1>3. VMState(z) /\ z.ip = Len(current.code) + 1 /\ IsSeq(current.code)
  BY <1>2 DEF Trail, Ran, LiveAt
<1> QED BY <1>1, <1>2, <1>3 DEF Traced

\* Scopes below those of the activations that are stuck stay.
ScopesHold(D) ==
  \A m \in 1 .. Len(calls) :
    Stuck(calls[m]) => ScopesKept(meaning.scopes, meaning'.scopes, D[m - 1])

LEMMA ScopesHoldIs ==
  ASSUME SameScopes, NEW D
  PROVE  ScopesHold(D)
BY DEF SameScopes, ScopesHold, ScopesKept

\* A step that is plain, whether the program is live or not.
Plainly(c2, k, D) ==
  /\ Plain(calls, calls', k) /\ Become(c2) /\ Compiler(c2)
  /\ LocalsKept(current.locals, c2.locals, meaning.scopes)
  /\ (~ Executed => SameEffects) /\ ScopesHold(D)

\* What the program needs when it is live.
Kept(c2, z2) ==
  Stored(current.locals, meaning.scopes, z2.regs, Len(meaning.scopes)) =>
    Stored(c2.locals, meaning'.scopes, z2.regs, Len(meaning'.scopes))

LEMMA QuietStep ==
  ASSUME NEW f, NEW B, NEW D, Here(f, B, D), NEW T, NEW z, Traced(D, T, z), Compiles',
         NEW k, NEW c2, Plainly(c2, k, D), c2.code = current.code, SameEffects, Kept(c2, z),
         LiveAt(current, calls, wanted, meaning.scopes, z) =>
            Evaluated(calls', wanted', c2.code, z.regs) /\ Banked(calls', wanted', c2.locals)
  PROVE  Follows'
<1>1. Extends(current.code, c2.code)
  BY HereIs, ExtendsIs DEF Compiler
<1>2. ASSUME Live(calls) PROVE \E T2, z2 : LiveNext(c2, T2, z2)
  <2>1. /\ Trail(calls, current.code, T, z) /\ LiveAt(current, calls, wanted, meaning.scopes, z)
        /\ Agrees(z, meaning) /\ z.ip = Len(current.code) + 1
    BY <1>2, LiveHere
  <2>2. IsSeq(calls) /\ Shaped(calls) /\ Plain(calls, calls', k)
    BY HereIs DEF Traced, Plainly
  <2>3. Live(calls')
    BY <1>2, <2>2, PlainIs
  <2>4. Stored(current.locals, meaning.scopes, z.regs, Len(meaning.scopes))
    BY <2>1 DEF LiveAt
  <2>5. Stored(c2.locals, meaning'.scopes, z.regs, Len(meaning'.scopes))
    BY <2>4 DEF Kept
  <2>6. LiveAt(c2, calls', wanted', meaning'.scopes, z)
    BY <2>1, <2>3, <2>5 DEF LiveAt
  <2>7. Agrees(z, meaning')
    BY <2>1, SameAgrees
  <2> QED BY <2>1, <2>2, <2>6, <2>7, LiveQuiet
<1> QED BY <1>1, <1>2, PlainStep DEF Plainly, ScopesHold

\* Nothing waits for an expression after the step.
LEMMA IdleNext ==
  ASSUME Compiles', NoneWanted, NEW code, NEW regs, NEW L
  PROVE  Evaluated(calls', wanted', code, regs) /\ Banked(calls', wanted', L)
<1>1. PICK f, B, D : Here(f, B, D)'
  BY DEF Compiles, Good, Here
<1> DEFINE C == compilers'
           F == calls'
           w == wanted'
           S == meaning'.scopes
<1>2. Sound(C, F, w, S, f, B, D) /\ w.is \notin {"expression", "register"}
  BY <1>1 DEF Here, NoneWanted
<1> HIDE DEF C, F, w, S
<1>3. Evaluated(F, w, code, regs) /\ Banked(F, w, L)
  BY <1>2, IdleEval
<1> QED BY <1>3 DEF F, w

\* A statement adds an instruction.
LEMMA StatementStep ==
  ASSUME NEW f, NEW B, NEW D, Here(f, B, D), NEW T, NEW z, Traced(D, T, z), Compiles', NoneWanted,
         NEW k, NEW c2, Plainly(c2, k, D), NEW inst,
         LiveAt(current, calls, wanted, meaning.scopes, z) /\ VMState(z) /\ Executed =>
           /\ Stored(c2.locals, meaning'.scopes, Stepped(inst, z).regs, Len(meaning'.scopes))
           /\ Agrees(Stepped(inst, z), meaning'),
         inst[1] \in Straight, c2.code = Append(current.code, inst)
  PROVE  Follows'
<1>1. Extends(current.code, c2.code)
  BY HereIs, ExtendsIs DEF Compiler
<1>2. ASSUME Live(calls) PROVE \E T2, z2 : LiveNext(c2, T2, z2)
  <2> DEFINE z2 == Stepped(inst, z)
  <2>1. /\ Trail(calls, current.code, T, z) /\ LiveAt(current, calls, wanted, meaning.scopes, z)
        /\ VMState(z) /\ Executed /\ z.ip = Len(current.code) + 1
    BY <1>2, LiveHere
  <2>2. IsSeq(calls) /\ Shaped(calls) /\ Plain(calls, calls', k)
    BY HereIs DEF Traced, Plainly
  <2>3. Live(calls')
    BY <1>2, <2>2, PlainIs
  <2>4. Stored(c2.locals, meaning'.scopes, z2.regs, Len(meaning'.scopes)) /\ Agrees(z2, meaning')
    BY <2>1
  <2>5. Evaluated(calls', wanted', c2.code, z2.regs) /\ Banked(calls', wanted', c2.locals)
    <3> HIDE DEF z2
    <3> QED BY IdleNext
  <2>6. z2.ip = Len(c2.code) + 1 => LiveAt(c2, calls', wanted', meaning'.scopes, z2)
    BY <2>3, <2>4, <2>5 DEF LiveAt
  <2> QED BY <2>1, <2>2, <2>4, <2>6, LiveStraight
<1> QED BY <1>1, <1>2, PlainStep DEF Plainly, ScopesHold

----------------------------------------
(* An expression is asked for.                                                *)

Declaring == {"var", "global", "function"}

LEMMA PlainSame ==
  ASSUME NEW F, IsSeq(F)
  PROVE  Plain(F, F, Len(F))
<1>1. Continues(F, F, Len(F)) /\ Len(F) \in Nat
  BY Unchanged, SeqFacts
<1> QED BY <1>1 DEF Plain

LEMMA PlainPush ==
  ASSUME NEW F, NEW fr, NEW F2, OnTop(F, fr, F2), Ordinary(fr), Len(F) \in Nat,
         fr.at \notin Declaring \/ ShapedAt(F2, Len(F) + 1)
  PROVE  Plain(F, F2, Len(F)) /\ Len(F2) = Len(F) + 1 /\ F2[Len(F) + 1] = fr
<1>1. ShapedAt(F2, Len(F) + 1)
  BY DEF OnTop, ShapedAt, Declaring
<1> QED BY <1>1 DEF Plain, OnTop

LEMMA PlainSwap ==
  ASSUME NEW F, NEW fr, NEW F2, Instead(F, fr, F2), Ordinary(fr), Len(F) \in Nat,
         Ordinary(F[Len(F)]), fr.at \notin Declaring
  PROVE  Plain(F, F2, Len(F) - 1) /\ Len(F2) = Len(F) - 1 + 1 /\ F2[Len(F) - 1 + 1] = fr
<1>1. ShapedAt(F2, Len(F) - 1 + 1)
  BY DEF Instead, ShapedAt, Declaring
<1> QED BY <1>1 DEF Plain, Instead

LEMMA PlainPop ==
  ASSUME NEW F, NEW F2, Without(F, F2), Len(F) \in Nat, Ordinary(F[Len(F)])
  PROVE  Plain(F, F2, Len(F) - 1) /\ Len(F2) = Len(F) - 1
BY DEF Plain, Without

\* The activation that asks has the operands that it was given, and its registers.
FrameReady(fr, regs, L) ==
  /\ Operands(fr, regs) /\ BankedAt(fr, L)
  /\ fr.at = "argument" /\ ~ fr.spoilt => RestHeld(fr, regs)

LocalsGrow(L, L2) == \A k \in DOMAIN L : k \in DOMAIN L2 /\ L2[k] = L[k]

LEMMA AskNext ==
  ASSUME NEW F, NEW w, NEW code, NEW regs, NEW L, Evaluated(F, w, code, regs), Banked(F, w, L),
         NEW k, NEW F2, Continues(F, F2, k), Len(F2) = k + 1,
         NEW L2, LocalsGrow(L, L2), FrameReady(F2[k + 1], regs, L2),
         NEW w2, w2.is = "expression", w2.dst \in Bank, NEW code2
  PROVE  Evaluated(F2, w2, code2, regs) /\ Banked(F2, w2, L2)
<1>0. k \in 0 .. Len(F) /\ \A i \in 1 .. k : F2[i] = F[i]
  BY DEF Continues
<1>1. ASSUME NEW i \in 1 .. Len(F2) PROVE Operands(F2[i], regs) /\ BankedAt(F2[i], L2)
  <2>1. CASE i = k + 1
    BY <2>1 DEF FrameReady
  <2>2. CASE i # k + 1
    <3>1. i \in 1 .. k /\ i \in 1 .. Len(F)
      BY <1>0, <2>2
    <3>2. Operands(F[i], regs) /\ BankedAt(F[i], L)
      BY <3>1 DEF Evaluated, Banked
    <3>3. BankedAt(F[i], L2)
      BY <3>2 DEF BankedAt, LocalsGrow
    <3> QED BY <1>0, <3>1, <3>2, <3>3
  <2> QED BY <2>1, <2>2
<1>2. TopHeld(F2[Len(F2)], w2, code2, regs) /\ Got(F2[Len(F2)], w2, regs)
  BY DEF TopHeld, Got, FrameReady
<1> QED BY <1>1, <1>2 DEF Evaluated, Banked

LEMMA AskStep ==
  ASSUME NEW f, NEW B, NEW D, Here(f, B, D), NEW T, NEW z, Traced(D, T, z), Compiles',
         NEW k, NEW c2, Plainly(c2, k, D), c2.code = current.code, SameEffects, Kept(c2, z),
         Len(calls') = k + 1, wanted'.is = "expression", LocalsGrow(current.locals, c2.locals),
         LiveAt(current, calls, wanted, meaning.scopes, z) =>
            wanted'.dst \in Bank /\ FrameReady(calls'[k + 1], z.regs, c2.locals)
  PROVE  Follows'
<1>1. ASSUME LiveAt(current, calls, wanted, meaning.scopes, z)
      PROVE  Evaluated(calls', wanted', c2.code, z.regs) /\ Banked(calls', wanted', c2.locals)
  <2> DEFINE F2 == calls'
             w2 == wanted'
             L2 == c2.locals
             code2 == c2.code
  <2>1. /\ Evaluated(calls, wanted, current.code, z.regs) /\ Banked(calls, wanted, current.locals)
        /\ w2.dst \in Bank /\ FrameReady(F2[k + 1], z.regs, L2)
    BY <1>1 DEF LiveAt
  <2>2. Continues(calls, F2, k) /\ Len(F2) = k + 1 /\ w2.is = "expression" /\ LocalsGrow(current.locals, L2)
    BY DEF Plainly, Plain
  <2> HIDE DEF F2, w2, L2, code2
  <2>3. Evaluated(F2, w2, code2, z.regs) /\ Banked(F2, w2, L2)
    BY <2>1, <2>2, AskNext
  <2> QED BY <2>3 DEF F2, w2, L2, code2
<1> QED BY <1>1, QuietStep

LEMMA FreshIs ==
  ASSUME NEW f, NEW B, NEW D, Here(f, B, D), AskFresh(current), ~ hadError'
  PROVE  /\ Become(Allocated(current)) /\ Compiler(Allocated(current))
         /\ SameNames(current, Allocated(current)) /\ Allocated(current).code = current.code
         /\ wanted'.is = "expression" /\ wanted'.dst = allocReg(current)
         /\ wanted'.dst \in Bank /\ wanted'.dst < MaxReg
<1>1. ~ Exhausted(current) /\ MaxReg \in Nat /\ MaxArgs \in Nat /\ Compiler(current)
  BY Bounds, HereIs DEF AskFresh
<1>2. /\ Compiler(Allocated(current)) /\ SameNames(current, Allocated(current))
      /\ Allocated(current).code = current.code
      /\ allocReg(current) = Flushed(current) /\ Flushed(current) \in Nat /\ Flushed(current) < MaxReg
  BY <1>1, AllocatedIs
<1> QED BY <1>1, <1>2 DEF AskFresh, Bank

LEMMA FreshStep ==
  ASSUME NEW f, NEW B, NEW D, Here(f, B, D), NEW T, NEW z, Traced(D, T, z), Compiles',
         AskFresh(current), ~ hadError', meaning' = meaning,
         NEW k, Plain(calls, calls', k), Len(calls') = k + 1,
         LiveAt(current, calls, wanted, meaning.scopes, z) =>
            FrameReady(calls'[k + 1], z.regs, current.locals)
  PROVE  Follows'
<1> DEFINE c2 == Allocated(current)
<1>1. /\ Become(c2) /\ Compiler(c2) /\ SameNames(current, c2) /\ c2.code = current.code
      /\ wanted'.is = "expression" /\ wanted'.dst \in Bank
  BY FreshIs
<1> HIDE DEF c2
<1>2. SameEffects /\ SameScopes
  BY SameMeans
<1>3. LocalsKept(current.locals, c2.locals, meaning.scopes) /\ ScopesHold(D)
  BY <1>1, <1>2, NamesKept, ScopesHoldIs
<1>4. Plainly(c2, k, D)
  BY <1>1, <1>2, <1>3 DEF Plainly
<1>5. Kept(c2, z) /\ LocalsGrow(current.locals, c2.locals) /\ c2.locals = current.locals
  BY <1>1, <1>2 DEF Kept, SameNames, SameScopes, LocalsGrow
<1> QED BY <1>1, <1>2, <1>4, <1>5, AskStep

\* A frame that has nothing yet.
LEMMA BareReady ==
  ASSUME NEW fr, NEW regs, NEW L, fr.at \notin {"right", "argument", "var"},
         fr.at \in Operators => fr.dst \in Bank
  PROVE  FrameReady(fr, regs, L)
BY DEF FrameReady, Operands, BankedAt

LEMMA BarePushed ==
  ASSUME NEW f, NEW B, NEW D, Here(f, B, D), NEW T, NEW z, Traced(D, T, z), Compiles',
         AskFresh(current), ~ hadError', meaning' = meaning, NEW fr, calls' = Append(calls, fr),
         Ordinary(fr), fr.at \notin {"right", "argument", "var"},
         fr.at \in Operators => wanted.is = "expression" /\ fr.dst = wanted.dst,
         fr.at \notin Declaring \/ ShapedAt(calls', Len(calls) + 1)
  PROVE  Follows'
<1>1. OnTop(calls, fr, calls') /\ Len(calls) \in Nat
  BY PushIs, HereIs
<1>2. /\ Plain(calls, calls', Len(calls)) /\ Len(calls') = Len(calls) + 1
      /\ calls'[Len(calls) + 1] = fr
  <2> DEFINE F2 == calls'
  <2>1. OnTop(calls, fr, F2) /\ (fr.at \notin Declaring \/ ShapedAt(F2, Len(calls) + 1))
    BY <1>1
  <2> HIDE DEF F2
  <2>2. Plain(calls, F2, Len(calls)) /\ Len(F2) = Len(calls) + 1 /\ F2[Len(calls) + 1] = fr
    BY <1>1, <2>1, PlainPush
  <2> QED BY <2>2 DEF F2
<1>3. LiveAt(current, calls, wanted, meaning.scopes, z) => FrameReady(fr, z.regs, current.locals)
  BY BareReady DEF LiveAt, Banked
<1> QED BY <1>2, <1>3, FreshStep

LEMMA BinaryFollows ==
  ASSUME NEW f, NEW B, NEW D, Here(f, B, D), NEW T, NEW z, Traced(D, T, z), Compiles',
         Binary, ~ hadError'
  PROVE  Follows'
<1> DEFINE fr == [at |-> "left", dst |-> wanted.dst]
<1>1. /\ wanted.is = "expression" /\ calls' = Append(calls, fr) /\ AskFresh(current)
      /\ meaning' = meaning
  BY DEF Binary, Expression, Call
<1>2. /\ Ordinary(fr) /\ fr.at \notin {"right", "argument", "var"} /\ fr.at \notin Declaring
      /\ fr.dst = wanted.dst
  BY DEF Ordinary, Branches, Declaring
<1> HIDE DEF fr
<1> QED BY <1>1, <1>2, BarePushed

LEMMA UnaryFollows ==
  ASSUME NEW f, NEW B, NEW D, Here(f, B, D), NEW T, NEW z, Traced(D, T, z), Compiles',
         Unary, ~ hadError'
  PROVE  Follows'
<1> DEFINE fr == [at |-> "operand", dst |-> wanted.dst]
<1>1. /\ wanted.is = "expression" /\ calls' = Append(calls, fr) /\ AskFresh(current)
      /\ meaning' = meaning
  BY DEF Unary, Expression, Call
<1>2. /\ Ordinary(fr) /\ fr.at \notin {"right", "argument", "var"} /\ fr.at \notin Declaring
      /\ fr.dst = wanted.dst
  BY DEF Ordinary, Branches, Declaring
<1> HIDE DEF fr
<1> QED BY <1>1, <1>2, BarePushed

LEMMA SyscallFollows ==
  ASSUME NEW f, NEW B, NEW D, Here(f, B, D), NEW T, NEW z, Traced(D, T, z), Compiles',
         NEW n, Syscall(n), ~ hadError'
  PROVE  Follows'
<1> DEFINE fr == [at |-> "id", dst |-> wanted.dst, count |-> n]
<1>1. /\ wanted.is = "expression" /\ calls' = Append(calls, fr) /\ AskFresh(current)
      /\ meaning' = meaning
  BY DEF Syscall, Expression, Call
<1>2. /\ Ordinary(fr) /\ fr.at \notin {"right", "argument", "var"} /\ fr.at \notin Declaring
      /\ fr.dst = wanted.dst
  BY DEF Ordinary, Branches, Declaring
<1> HIDE DEF fr
<1> QED BY <1>1, <1>2, BarePushed

LEMMA PrintStmtFollows ==
  ASSUME NEW f, NEW B, NEW D, Here(f, B, D), NEW T, NEW z, Traced(D, T, z), Compiles',
         PrintStmt, ~ hadError'
  PROVE  Follows'
<1> DEFINE fr == [at |-> "print"]
<1>1. calls' = Append(calls, fr) /\ AskFresh(current) /\ meaning' = meaning
  BY DEF PrintStmt, Call
<1>2. /\ Ordinary(fr) /\ fr.at \notin {"right", "argument", "var"} /\ fr.at \notin Declaring
      /\ fr.at \notin Operators
  BY DEF Ordinary, Branches, Declaring, Operators
<1> HIDE DEF fr
<1> QED BY <1>1, <1>2, BarePushed

LEMMA IfFollows ==
  ASSUME NEW f, NEW B, NEW D, Here(f, B, D), NEW T, NEW z, Traced(D, T, z), Compiles',
         If, ~ hadError'
  PROVE  Follows'
<1> DEFINE fr == [at |-> "condition"]
<1>1. calls' = Append(calls, fr) /\ AskFresh(current) /\ meaning' = meaning
  BY DEF If, Call
<1>2. /\ Ordinary(fr) /\ fr.at \notin {"right", "argument", "var"} /\ fr.at \notin Declaring
      /\ fr.at \notin Operators
  BY DEF Ordinary, Branches, Declaring, Operators
<1> HIDE DEF fr
<1> QED BY <1>1, <1>2, BarePushed

\* Where a declaration may be: in the program or in a block.
LEMMA StatementTop ==
  ASSUME NEW f, NEW B, NEW D, Here(f, B, D), wanted.is = "statement", ~ InBranch
  PROVE  \/ Len(calls) = 0 /\ f = 0 /\ current.scopeDepth = 0
         \/ Len(calls) > 0 /\ calls[Len(calls)].at \in {"block", "function"} /\ current.scopeDepth > 0
<1> DEFINE n == Len(calls)
<1>1. /\ Stacked(calls, B, D, f) /\ n \in Nat /\ IsSeq(calls) /\ f \in 0 .. n /\ Numbers(D)
      /\ D[0] = 0 /\ D[n] \in Nat
      /\ current.scopeDepth = IF f = 0 THEN D[n] ELSE D[n] - D[f] + 2
      /\ WantedIs(current, calls, B, wanted)
  BY HereIs DEF Here, Sound, Stacked, Naming
<1>2. CASE n = 0
  <2>1. f = 0
    BY <1>1, <1>2
  <2> QED BY <1>1, <1>2, <2>1
<1>3. CASE n # 0
  <2>1. n > 0 /\ n \in 1 .. n /\ n - 1 \in Nat /\ calls # <<>>
    BY <1>1, <1>3, EmptySeq
  <2>2. ~ Asks(calls[n])
    BY <1>1, <2>1 DEF WantedIs
  <2>3. At = calls[n].at
    BY <2>1 DEF At, Caller, Last
  <2>4. Fits(calls, B, D, f, n)
    BY <1>1, <2>1 DEF Stacked
  <2>5. calls[n].at \in {"block", "function"}
    BY <2>2, <2>3, <2>4 DEF Fits, Activations, Asks, Branches, InBranch
  <2>6. D[n] = D[n - 1] + 1 /\ D[n - 1] \in Nat
    BY <1>1, <2>1, <2>4, <2>5 DEF Fits, Opens, Numbers
  <2>7. f # 0 => D[f] <= D[n] /\ D[f] \in Nat
    BY <1>1, FunctionDepth
  <2> QED BY <1>1, <2>1, <2>5, <2>6, <2>7
<1> QED BY <1>2, <1>3

LEMMA VarGlobalFollows ==
  ASSUME NEW f, NEW B, NEW D, Here(f, B, D), NEW T, NEW z, Traced(D, T, z), Compiles',
         NEW x, VarGlobal(x), ~ hadError'
  PROVE  Follows'
<1> DEFINE fr == [at |-> "global", name |-> x]
<1>1. /\ calls' = Append(calls, fr) /\ AskFresh(current) /\ meaning' = meaning
      /\ wanted.is = "statement" /\ ~ InBranch /\ current.scopeDepth = 0
  BY DEF VarGlobal, Call, Statement
<1>2. /\ Ordinary(fr) /\ fr.at \notin {"right", "argument", "var"} /\ fr.at = "global"
      /\ fr.at \notin Operators
  BY DEF Ordinary, Branches, Declaring, Operators
<1> HIDE DEF fr
<1>3. Len(calls) = 0
  BY <1>1, StatementTop
<1>4. calls'[Len(calls) + 1] = fr
  BY <1>1, PushIs DEF OnTop
<1>5. ShapedAt(calls', Len(calls) + 1)
  BY <1>2, <1>3, <1>4 DEF ShapedAt
<1> QED BY <1>1, <1>2, <1>5, BarePushed

\* The value that an operator is given is in its register.
LEMMA GivenLive ==
  ASSUME NEW f, NEW B, NEW D, Here(f, B, D), NEW at, at # "program", Given(at),
         NEW z, LiveAt(current, calls, wanted, meaning.scopes, z)
  PROVE  /\ wanted.val = z.regs[wanted.reg] \/ (at \in {"print", "global", "var"} /\ wanted.val = Unset)
         /\ Operands(calls[Len(calls)], z.regs) /\ BankedAt(calls[Len(calls)], current.locals)
         /\ TopHeld(calls[Len(calls)], wanted, current.code, z.regs)
<1>1. Len(calls) > 0 /\ Len(calls) \in Nat /\ wanted.is = "register" /\ calls[Len(calls)].at = at
  BY GivenIs
<1>2. Len(calls) \in 1 .. Len(calls)
  BY <1>1
<1> QED BY <1>1, <1>2 DEF LiveAt, Evaluated, Banked, Got

LEMMA AfterLeftFollows ==
  ASSUME NEW f, NEW B, NEW D, Here(f, B, D), NEW T, NEW z, Traced(D, T, z), Compiles',
         AfterLeft, ~ hadError'
  PROVE  Follows'
<1> DEFINE n == Len(calls)
           fr == [at |-> "right", dst |-> Caller.dst, reg |-> wanted.reg, val |-> wanted.val]
<1>1. /\ Given("left") /\ calls' = Append(Front(calls), fr) /\ AskFresh(current)
      /\ meaning' = meaning
  BY DEF AfterLeft
<1>2. n > 0 /\ n \in Nat /\ Caller = calls[n] /\ calls[n].at = "left"
  BY <1>1, GivenIs
<1>3. /\ fr.at = "right" /\ fr.dst = calls[n].dst /\ fr.reg = wanted.reg /\ fr.val = wanted.val
  BY <1>2
<1> HIDE DEF fr
<1>4. Instead(calls, fr, calls')
  BY <1>1, <1>2, SwapIs
<1>5. Ordinary(fr) /\ Ordinary(calls[n]) /\ fr.at \notin Declaring
  BY <1>2, <1>3 DEF Ordinary, Branches, Declaring
<1>6. Plain(calls, calls', n - 1) /\ Len(calls') = n - 1 + 1 /\ calls'[n - 1 + 1] = fr
  <2> DEFINE F2 == calls'
  <2>1. Instead(calls, fr, F2)
    BY <1>4
  <2> HIDE DEF F2
  <2>2. Plain(calls, F2, n - 1) /\ Len(F2) = n - 1 + 1 /\ F2[n - 1 + 1] = fr
    BY <1>2, <1>5, <2>1, PlainSwap
  <2> QED BY <2>2 DEF F2
<1>7. ASSUME LiveAt(current, calls, wanted, meaning.scopes, z)
      PROVE  FrameReady(fr, z.regs, current.locals)
  <2>1. wanted.val = z.regs[wanted.reg] /\ BankedAt(calls[n], current.locals)
    BY <1>1, <1>7, GivenLive
  <2>2. fr.dst \in Bank
    BY <1>2, <1>3, <2>1 DEF BankedAt, Operators
  <2> QED BY <1>3, <2>1, <2>2 DEF FrameReady, Operands, BankedAt
<1> QED BY <1>1, <1>6, <1>7, FreshStep

LEMMA AfterIdFollows ==
  ASSUME NEW f, NEW B, NEW D, Here(f, B, D), NEW T, NEW z, Traced(D, T, z), Compiles',
         AfterId, ~ hadError'
  PROVE  Follows'
<1> DEFINE n == Len(calls)
           fr == [at |-> "argument", dst |-> Caller.dst, id |-> wanted.reg,
                  start |-> allocReg(current), count |-> Caller.count, vals |-> <<wanted.val>>,
                  spoilt |-> FALSE]
<1>1. /\ Given("id") /\ calls' = Append(Front(calls), fr) /\ AskFresh(current)
      /\ meaning' = meaning
  BY DEF AfterId, AskFresh
<1>2. n > 0 /\ n \in Nat /\ Caller = calls[n] /\ calls[n].at = "id"
  BY <1>1, GivenIs
<1>3. /\ fr.at = "argument" /\ fr.dst = calls[n].dst /\ fr.id = wanted.reg
      /\ fr.start = allocReg(current) /\ fr.vals = <<wanted.val>>
  BY <1>2
<1> HIDE DEF fr
<1>4. Instead(calls, fr, calls')
  BY <1>1, <1>2, SwapIs
<1>5. Ordinary(fr) /\ Ordinary(calls[n]) /\ fr.at \notin Declaring
  BY <1>2, <1>3 DEF Ordinary, Branches, Declaring
<1>6. Plain(calls, calls', n - 1) /\ Len(calls') = n - 1 + 1 /\ calls'[n - 1 + 1] = fr
  <2> DEFINE F2 == calls'
  <2>1. Instead(calls, fr, F2)
    BY <1>4
  <2> HIDE DEF F2
  <2>2. Plain(calls, F2, n - 1) /\ Len(F2) = n - 1 + 1 /\ F2[n - 1 + 1] = fr
    BY <1>2, <1>5, <2>1, PlainSwap
  <2> QED BY <2>2 DEF F2
<1>7. fr.start < MaxReg
  BY <1>1, <1>3, FreshIs
<1>8. ASSUME LiveAt(current, calls, wanted, meaning.scopes, z)
      PROVE  FrameReady(fr, z.regs, current.locals)
  <2>1. wanted.val = z.regs[wanted.reg] /\ BankedAt(calls[n], current.locals)
    BY <1>1, <1>8, GivenLive
  <2>2. fr.dst \in Bank
    BY <1>2, <1>3, <2>1 DEF BankedAt, Operators
  <2>3. Len(fr.vals) = 1 /\ fr.vals[1] = wanted.val
    BY <1>3, SingleIs
  <2> QED BY <1>3, <1>7, <2>1, <2>2, <2>3 DEF FrameReady, Operands, BankedAt, RestHeld
<1> QED BY <1>1, <1>6, <1>8, FreshStep

\* An argument more, which its register holds.
ArgumentMore(g, g2, v, b, w, code) ==
  /\ g.at = "argument" /\ g2.at = "argument" /\ Counted(g, b) /\ Counted(g2, b)
  /\ g2.dst = g.dst /\ g2.vals = Append(g.vals, v) /\ w.is = "register"
  /\ ~ g2.spoilt => ~ g.spoilt /\ ~ (Len(g2.vals) > 3 /\ Computes(code))

LEMMA ArgumentHeld ==
  ASSUME NEW b \in Nat, NEW g, NEW g2, NEW v, NEW w, NEW code, ArgumentMore(g, g2, v, b, w, code),
         NEW regs, v = regs[Asked(g, b)], Operands(g, regs), TopHeld(g, w, code, regs),
         NEW L, BankedAt(g, L)
  PROVE  FrameReady(g2, regs, L) /\ g2.start + Len(g2.vals) - 1 \in Bank
<1> DEFINE N == Len(g.vals)
           N2 == Len(g2.vals)
<1>1. /\ g.at = "argument" /\ g2.at = "argument" /\ g2.dst = g.dst /\ w.is = "register"
      /\ g.id = b /\ g.start = b + 1 /\ g2.id = b /\ g2.start = b + 1 /\ IsSeq(g.vals)
  BY DEF ArgumentMore, Counted
<1>2. /\ N2 = N + 1 /\ g2.vals[N + 1] = v /\ \A i \in 1 .. N : g2.vals[i] = g.vals[i]
  BY <1>1, AppendIs DEF ArgumentMore
<1>3. N \in Nat /\ N >= 1 /\ N2 \in Nat /\ N2 <= MaxArgs /\ MaxArgs \in Nat /\ MaxReg \in Nat
  <2>1. g.count \in 1 .. MaxArgs /\ g2.count \in 1 .. MaxArgs /\ N \in 1 .. g.count /\ N2 \in 1 .. g2.count
    BY DEF ArgumentMore, Counted
  <2>2. MaxArgs \in Nat /\ MaxReg \in Nat
    BY Bounds
  <2> HIDE DEF N, N2
  <2> QED BY <2>1, <2>2
<1>4. v = regs[b + N]
  BY <1>1 DEF Asked
<1>5. BankedAt(g2, L) /\ g2.start < MaxReg
  BY <1>1 DEF BankedAt, Operators
<1> HIDE DEF N, N2
<1>6. Operands(g2, regs)
  <2>1. regs[g2.id] = g2.vals[1]
    <3>1. 1 \in 1 .. N
      BY <1>3
    <3> QED BY <1>1, <1>2, <3>1 DEF Operands
  <2>2. regs[g2.start] = g2.vals[2]
    <3>1. CASE N >= 2
      <4>1. 2 \in 1 .. N
        BY <1>3, <3>1
      <4> QED BY <1>1, <1>2, <3>1, <4>1 DEF Operands, N
    <3>2. CASE N = 1
      BY <1>1, <1>2, <1>4, <3>2
    <3>3. N >= 2 \/ N = 1
      BY <1>3
    <3> QED BY <3>1, <3>2, <3>3
  <2> QED BY <1>1, <2>1, <2>2 DEF Operands
<1>7. ASSUME ~ g2.spoilt, NEW k \in 3 .. N2 PROVE regs[g2.start + k - 2] = g2.vals[k]
  <2>1. CASE k = N + 1
    <3>1. b + 1 + k - 2 = b + N
      BY <1>3, <2>1
    <3> QED BY <1>1, <1>2, <1>4, <2>1, <3>1
  <2>2. CASE k # N + 1
    <3>1. k \in 3 .. N /\ k \in 1 .. N /\ N2 > 3
      BY <1>2, <1>3, <2>2
    <3>2. ~ g.spoilt /\ ~ Computes(code)
      BY <1>7, <3>1 DEF ArgumentMore, N2
    <3>3. RestHeld(g, regs)
      BY <1>1, <3>2 DEF TopHeld
    <3>4. regs[g.start + k - 2] = g.vals[k]
      BY <3>1, <3>3 DEF RestHeld, N
    <3> QED BY <1>1, <1>2, <3>1, <3>4
  <2> QED BY <2>1, <2>2
<1>8. g2.start + N2 - 1 \in Bank
  <2>1. b + 1 < MaxReg
    BY <1>1, <1>5
  <2>2. b + 1 + N2 - 1 \in 0 .. MaxReg + MaxArgs
    BY <1>3, <2>1
  <2> QED BY <1>1, <2>2 DEF Bank
<1> QED BY <1>5, <1>6, <1>7, <1>8 DEF FrameReady, RestHeld, N2

LEMMA ArgumentSpoilt ==
  ASSUME NEW F, NEW b \in Nat, Lacking(F, b), NEW v, NEW vals, NEW s, NEW F2, Lengthened(F, v, vals, s, F2)
  PROVE  F2[Len(F)].spoilt = s
<1> DEFINE n == Len(F)
           g == F[n]
           g2 == [[g EXCEPT !.vals = vals] EXCEPT !.spoilt = s]
<1>1. n \in Nat \ {0} /\ DOMAIN F = 1 .. n /\ n \in 1 .. n
  BY SeqFacts DEF Lacking
<1>2. "spoilt" \in DOMAIN g
  BY DEF Counted, Lacking
<1>3. g2.spoilt = s
  BY <1>2
<1>4. F2 = [i \in 1 .. n |-> IF i = n THEN g2 ELSE F[i]]
  BY <1>1 DEF Lengthened
<1> HIDE DEF g2
<1>5. F2[n] = g2
  <2> HIDE DEF n
  <2> QED BY ONLY <1>1, <1>4
<1> QED BY <1>3, <1>5

\* An argument that another one follows.
LEMMA ArgumentFollows ==
  ASSUME NEW f, NEW B, NEW D, Here(f, B, D), NEW T, NEW z, Traced(D, T, z), Compiles',
         AfterArgument, Len(Caller.vals) + 1 <= Caller.count
  PROVE  Follows'
<1> DEFINE n == Len(calls)
           b == B[n]
           vals == Append(Caller.vals, wanted.val)
           s == Caller.spoilt \/ Spoils(vals)
           F2 == [calls EXCEPT ![n].vals = vals, ![n].spoilt = s]
<1>1. Given("argument")
  BY DEF AfterArgument
<1>2. /\ n > 0 /\ n \in Nat /\ Caller = calls[n] /\ calls[n].at = "argument" /\ b \in Nat
      /\ Fits(calls, B, D, f, n) /\ wanted.is = "register" /\ wanted.reg = Asked(calls[n], b)
      /\ Compiler(current)
  BY <1>1, GivenIs
<1>3. Counted(calls[n], b) /\ IsSeq(calls)
  BY <1>2, HereIs DEF Fits
<1>4. IsSeq(calls[n].vals) /\ Len(calls[n].vals) \in Nat /\ calls[n].count \in Nat /\ calls[n].start = b + 1
  BY <1>3 DEF Counted
<1>5. Len(vals) = Len(calls[n].vals) + 1
  BY <1>2, <1>4, AppendIs
<1>6. Len(vals) <= Caller.count
  BY <1>2, <1>5
<1>7. calls' = F2 /\ AskInto(current, Caller.start + Len(vals) - 1) /\ meaning' = meaning
  BY <1>6 DEF AfterArgument
<1>8. Lengthened(calls, wanted.val, vals, s, F2)
  BY <1>2 DEF Lengthened
<1>9. Lacking(calls, b)
  BY <1>2, <1>3, <1>4 DEF Lacking
<1> DEFINE g2 == F2[n]
<1>11. Spoils(vals) <=> Len(vals) > 3 /\ Computes(current.code)
  BY DEF Spoils, Computed, Computes
<1> HIDE DEF F2, vals
<1>10. /\ Continues(calls, F2, n - 1) /\ Len(F2) = n /\ g2.at = "argument"
       /\ g2.dst = calls[n].dst /\ g2.vals = vals /\ Counted(g2, b) /\ g2.spoilt = s
  <2> HIDE DEF s
  <2> QED BY <1>2, <1>8, <1>9, ArgumentAdded, ArgumentSpoilt DEF Longer
<1> HIDE DEF g2
<1>12. ArgumentMore(calls[n], g2, wanted.val, b, wanted, current.code)
  <2>1. ~ g2.spoilt => ~ calls[n].spoilt /\ ~ (Len(g2.vals) > 3 /\ Computes(current.code))
    BY <1>2, <1>10, <1>11
  <2>2. g2.vals = Append(calls[n].vals, wanted.val)
    BY <1>2, <1>10 DEF vals
  <2> QED BY <1>2, <1>3, <1>10, <2>1, <2>2 DEF ArgumentMore
<1>13. ASSUME LiveAt(current, calls, wanted, meaning.scopes, z)
       PROVE  FrameReady(g2, z.regs, current.locals) /\ g2.start + Len(g2.vals) - 1 \in Bank
  <2>1. /\ wanted.val = z.regs[wanted.reg] /\ Operands(calls[n], z.regs)
        /\ BankedAt(calls[n], current.locals) /\ TopHeld(calls[n], wanted, current.code, z.regs)
    BY <1>1, <1>13, GivenLive
  <2>2. wanted.val = z.regs[Asked(calls[n], b)]
    BY <1>2, <2>1
  <2> HIDE DEF n, b
  <2> QED BY <1>2, <1>12, <2>1, <2>2, ArgumentHeld
<1>14. Plain(calls, calls', n - 1) /\ Len(calls') = n - 1 + 1 /\ calls'[n - 1 + 1] = g2
  <2>1. Ordinary(calls[n]) /\ Ordinary(g2) /\ g2.at \notin Declaring
    BY <1>2, <1>10 DEF Ordinary, Branches, Declaring
  <2>2. Instead(calls, g2, F2)
    BY <1>10 DEF Instead, g2
  <2>3. Plain(calls, F2, n - 1) /\ Len(F2) = n - 1 + 1 /\ F2[n - 1 + 1] = g2
    BY <1>2, <2>1, <2>2, PlainSwap
  <2> QED BY <1>7, <2>3
<1>15. SameEffects /\ SameScopes
  BY <1>7, SameMeans
<1>16. SameNames(current, current)
  BY DEF SameNames
<1>17. LocalsKept(current.locals, current.locals, meaning.scopes) /\ ScopesHold(D)
  BY <1>15, <1>16, NamesKept, ScopesHoldIs
<1>18. Plainly(current, n - 1, D)
  BY <1>2, <1>7, <1>14, <1>15, <1>17 DEF Plainly, AskInto
<1>19. Kept(current, z) /\ LocalsGrow(current.locals, current.locals)
  BY <1>15 DEF Kept, SameScopes, LocalsGrow
<1>20. wanted'.is = "expression" /\ wanted'.dst = g2.start + Len(g2.vals) - 1
  <2>1. g2.start = b + 1
    BY <1>10 DEF Counted
  <2>2. wanted'.is = "expression" /\ wanted'.dst = Caller.start + Len(vals) - 1
    BY <1>7 DEF AskInto
  <2> QED BY <1>2, <1>4, <1>10, <2>1, <2>2
<1> QED BY <1>13, <1>14, <1>15, <1>18, <1>19, <1>20, AskStep

----------------------------------------
(* An expression has its value.                                               *)

LEMMA UncompiledFollows ==
  ASSUME NEW f, NEW B, NEW D, Here(f, B, D), NEW T, NEW z, Traced(D, T, z), Compiles', Uncompiled
  PROVE  Follows'
<1> DEFINE n == Len(calls)
           w2 == wanted'
<1>1. /\ wanted.is = "expression" /\ At \in {"print", "global", "var"} /\ Become(current)
      /\ w2 = [is |-> "register", reg |-> wanted.dst, val |-> Unset]
      /\ calls' = calls /\ meaning' = meaning
  BY DEF Uncompiled, Leaf, Give
<1>2. At # "program" /\ IsSeq(calls)
  BY <1>1, HereIs
<1>3. n > 0 /\ n \in Nat /\ calls[n].at \in {"print", "global", "var"}
  BY <1>1, <1>2, CallerIs
<1>4. SameEffects /\ SameScopes /\ SameNames(current, current) /\ Compiler(current)
  BY <1>1, SameMeans, HereIs DEF SameNames
<1>5. LocalsKept(current.locals, current.locals, meaning.scopes) /\ ScopesHold(D)
  BY <1>4, NamesKept, ScopesHoldIs
<1>6. Plain(calls, calls', n)
  BY <1>1, <1>2, PlainSame
<1>7. Plainly(current, n, D)
  BY <1>1, <1>4, <1>5, <1>6 DEF Plainly
<1>8. Kept(current, z)
  BY <1>4 DEF Kept, SameScopes
<1>9. ASSUME LiveAt(current, calls, wanted, meaning.scopes, z)
      PROVE  Evaluated(calls', w2, current.code, z.regs) /\ Banked(calls', w2, current.locals)
  <2>1. Evaluated(calls, wanted, current.code, z.regs) /\ Banked(calls, wanted, current.locals)
    BY <1>9 DEF LiveAt
  <2>2. TopHeld(calls[n], w2, current.code, z.regs) /\ Got(calls[n], w2, z.regs)
    BY <1>1, <1>3 DEF TopHeld, Got
  <2> QED BY <1>1, <2>1, <2>2 DEF Evaluated, Banked
<1> QED BY <1>4, <1>7, <1>8, <1>9, QuietStep

LEMMA LoadsWritten ==
  ASSUME NEW z, VMState(z), NEW dst \in Bank, NEW val
  PROVE  /\ Written(z, Loads(z, dst, val), dst, val) /\ SameShown(z, Loads(z, dst, val))
         /\ \A r \in Bank : r # dst => Loads(z, dst, val).regs[r] = z.regs[r]
BY LoadsIs DEF Written, SameShown

\* A value without operands is loaded.
LEMMA LoadedStep ==
  ASSUME NEW f, NEW B, NEW D, Here(f, B, D), NEW T, NEW z, Traced(D, T, z), Compiles',
         wanted.is = "expression", calls' = calls, meaning' = meaning,
         NEW inst, NEW val, Give(Emitted(current, inst), wanted.dst, val), inst[1] \in Straight,
         LiveAt(current, calls, wanted, meaning.scopes, z) /\ VMState(z) =>
            Stepped(inst, z) = Loads(z, wanted.dst, val)
  PROVE  Follows'
<1> DEFINE n == Len(calls)
           c2 == Emitted(current, inst)
           dst == wanted.dst
<1>1. IsSeq(calls) /\ n \in Nat /\ WantedIs(current, calls, B, wanted) /\ Compiler(current)
  BY HereIs
<1>2. n \in 1 .. n /\ Asks(calls[n]) /\ dst = Asked(calls[n], B[n])
  BY <1>1 DEF WantedIs
<1>3. Compiler(c2) /\ SameNames(current, c2) /\ c2.code = Append(current.code, inst)
  BY <1>1, EmittedIs
<1>4. SameEffects /\ SameScopes
  BY SameMeans
<1>5. Become(c2) /\ wanted' = [is |-> "register", reg |-> dst, val |-> val]
  BY DEF Give
<1> HIDE DEF c2
<1>6. Gives(B, n, c2, inst, dst, val)
  <2>1. Continues(calls, calls', n) /\ Len(calls') = n
    BY <1>1, Unchanged
  <2>2. n # n - 1 /\ n \in {n - 1, n}
    BY <1>1
  <2> HIDE DEF n, dst
  <2> QED BY <1>2, <1>3, <1>4, <1>5, <2>1, <2>2 DEF Gives, n
<1>7. ASSUME LiveAt(current, calls, wanted, meaning.scopes, z), VMState(z)
      PROVE  IsThere(inst, z, dst, val) /\ Unspoilt(calls[n], inst, z)
  <2>1. Stepped(inst, z) = Loads(z, dst, val)
    BY <1>7
  <2>2. dst \in Bank
    BY <1>7 DEF LiveAt, Banked
  <2>3. Written(z, Loads(z, dst, val), dst, val) /\ SameShown(z, Loads(z, dst, val))
    BY <1>7, <2>2, LoadsWritten
  <2>4. Agrees(Loads(z, dst, val), meaning')
    BY <1>4, <2>3, AgreesQuiet DEF Traced
  <2>5. TopHeld(calls[n], wanted, current.code, z.regs)
    BY <1>2, <1>7 DEF LiveAt, Evaluated
  <2>6. Unspoilt(calls[n], inst, z)
    BY <2>5 DEF TopHeld, Unspoilt
  <2> QED BY <2>1, <2>2, <2>3, <2>4, <2>6 DEF IsThere
<1> QED BY <1>6, <1>7, GivenStep

LEMMA LiteralFollows ==
  ASSUME NEW f, NEW B, NEW D, Here(f, B, D), NEW T, NEW z, Traced(D, T, z), Compiles',
         NEW v, Literal(v)
  PROVE  Follows'
<1> DEFINE now == <<"LOAD", wanted.dst, v>>
           pooled == <<"LOAD_CONST", wanted.dst, v, makeConstant(current)>>
           inst == IF v \in Immediate THEN now ELSE pooled
<1>1. /\ wanted.is = "expression" /\ calls' = calls /\ meaning' = meaning
      /\ Give(Emitted(current, inst), wanted.dst, v)
  BY DEF Literal, Leaf
<1>2. inst[1] \in Straight /\ Stepped(inst, z) = Loads(z, wanted.dst, v)
  <2>1. now[1] \in Straight /\ Stepped(now, z) = Loads(z, wanted.dst, v)
    BY DEF Straight, Stepped
  <2>2. pooled[1] \in Straight /\ Stepped(pooled, z) = Loads(z, wanted.dst, v)
    BY DEF Straight, Stepped
  <2> HIDE DEF now, pooled
  <2> QED BY <2>1, <2>2
<1> HIDE DEF inst
<1> QED BY <1>1, <1>2, LoadedStep

LEMMA ResolvedIs ==
  ASSUME NEW c, IsSeq(c.locals), NEW x, Declares(c, x)
  PROVE  \E k \in DOMAIN c.locals : c.locals[k].name = x /\ resolveLocal(c, x) = c.locals[k].reg
<1> DEFINE L == c.locals
           I == {i \in 1 .. Len(L) : L[i].name = x}
<1>1. DOMAIN L = 1 .. Len(L) /\ Len(L) \in Nat
  BY SeqFacts
<1>2. I # {} /\ I \in SUBSET (1 .. Len(L))
  BY <1>1 DEF Declares
<1>3. resolveLocal(c, x) = L[LastOf(I)].reg
  BY <1>2 DEF resolveLocal, SelectLastInSeq, Max, LastOf
<1> HIDE DEF I
<1>4. LastOf(I) \in I
  BY <1>1, <1>2, LastIs
<1> QED BY <1>1, <1>3, <1>4 DEF I

\* The value of a variable that can be read.
LEMMA ReadIs ==
  ASSUME NEW f, NEW B, NEW D, Here(f, B, D), NEW x, Readable(x), NEW z,
         LiveAt(current, calls, wanted, meaning.scopes, z), Agrees(z, meaning)
  PROVE  /\ Declares(current, x) => z.regs[resolveLocal(current, x)] = ValueOf(x)
         /\ ~ Declares(current, x) => z.globals[x] = ValueOf(x)
<1> DEFINE S == meaning.scopes
           L == current.locals
<1>1. /\ Compiler(current) /\ IsSeq(S) /\ Chain(compilers, f) /\ current = Last(compilers)
      /\ Naming(compilers, S, D, f, Len(calls))
  BY HereIs DEF Naming
<1>2. DOMAIN S = 1 .. Len(S) /\ IsSeq(L)
  BY <1>1, SeqFacts DEF Compiler
<1>3. ValueOf(x) # Unset
  BY DEF Readable
<1>4. ASSUME Declares(current, x) PROVE z.regs[resolveLocal(current, x)] = ValueOf(x)
  <2>1. Scope(x) # {}
    BY <1>4 DEF Readable
  <2> DEFINE s == CHOOSE i \in Scope(x) : TRUE
  <2>2. s \in Scope(x) /\ ValueOf(x) = S[s][x]
    BY <2>1 DEF ValueOf
  <2>3. s \in DOMAIN S /\ x \in DOMAIN S[s]
    BY <2>2 DEF Scope
  <2> HIDE DEF s
  <2>4. \E k \in DOMAIN L : L[k].name = x /\ resolveLocal(current, x) = L[k].reg
    BY <1>2, <1>4, ResolvedIs
  <2> QED BY <1>2, <1>3, <2>2, <2>3, <2>4 DEF LiveAt, Stored
<1>5. ASSUME ~ Declares(current, x) PROVE z.globals[x] = ValueOf(x)
  <2>1. x \in DOMAIN meaning.globals /\ \A i \in DOMAIN compilers : ~ Declares(compilers[i], x)
    BY <1>5 DEF Readable
  <2>2. Scope(x) = {}
    <3>1. ASSUME NEW s \in DOMAIN S, x \in DOMAIN S[s] PROVE FALSE
      <4>1. Declares(compilers[OwnerOf(s, f, D)], x)
        BY <1>1, <3>1 DEF Naming
      <4>2. OwnerOf(s, f, D) \in DOMAIN compilers
        <5>1. DOMAIN compilers = 1 .. Len(compilers) /\ Len(compilers) = (IF f = 0 THEN 1 ELSE 2)
          BY <1>1, SeqFacts DEF Chain
        <5>2. f \in Nat
          BY HereIs
        <5> QED BY <5>1, <5>2 DEF OwnerOf
      <4> QED BY <2>1, <4>1, <4>2
    <3> QED BY <3>1 DEF Scope
  <2>3. ValueOf(x) = meaning.globals[x]
    BY <2>2 DEF ValueOf
  <2> QED BY <1>3, <2>1, <2>3 DEF Agrees
<1> QED BY <1>4, <1>5

LEMMA VariableFollows ==
  ASSUME NEW f, NEW B, NEW D, Here(f, B, D), NEW T, NEW z, Traced(D, T, z), Compiles',
         NEW x, Variable(x)
  PROVE  Follows'
<1> DEFINE move == <<"MOVE", wanted.dst, resolveLocal(current, x)>>
           get == <<"GET_GLOBAL", wanted.dst, x, makeConstant(current)>>
           inst == IF Declares(current, x) THEN move ELSE get
<1>1. /\ wanted.is = "expression" /\ calls' = calls /\ meaning' = meaning /\ Readable(x)
      /\ Give(Emitted(current, inst), wanted.dst, ValueOf(x))
  BY DEF Variable, Leaf
<1>2. inst[1] \in Straight
  BY DEF Straight
<1>3. ASSUME LiveAt(current, calls, wanted, meaning.scopes, z)
      PROVE  Stepped(inst, z) = Loads(z, wanted.dst, ValueOf(x))
  <2>1. Agrees(z, meaning)
    BY DEF Traced
  <2>2. CASE Declares(current, x)
    <3>1. z.regs[resolveLocal(current, x)] = ValueOf(x)
      BY <1>1, <1>3, <2>1, <2>2, ReadIs
    <3>2. Stepped(move, z) = Loads(z, wanted.dst, z.regs[resolveLocal(current, x)])
      BY DEF Stepped
    <3> QED BY <2>2, <3>1, <3>2
  <2>3. CASE ~ Declares(current, x)
    <3>1. z.globals[x] = ValueOf(x)
      BY <1>1, <1>3, <2>1, <2>3, ReadIs
    <3>2. Stepped(get, z) = Loads(z, wanted.dst, z.globals[x])
      BY DEF Stepped
    <3> QED BY <2>3, <3>1, <3>2
  <2> QED BY <2>2, <2>3
<1> HIDE DEF inst
<1> QED BY <1>1, <1>2, <1>3, LoadedStep

LEMMA FreedCode ==
  ASSUME NEW c, Compiler(c), NEW inst, NEW b \in Nat, NEW r \in Nat
  PROVE  /\ freeReg(Emitted(c, inst), b).code = Append(c.code, inst)
         /\ freeReg(freeReg(Emitted(c, inst), r), b).code = Append(c.code, inst)
<1>1. Compiler(Emitted(c, inst)) /\ Emitted(c, inst).code = Append(c.code, inst)
  BY EmittedIs
<1> DEFINE e == Emitted(c, inst)
<1> HIDE DEF e
<1>2. /\ freeReg(e, b).code = e.code
      /\ Compiler(freeReg(e, r)) /\ freeReg(e, r).code = e.code
  BY <1>1, FreedIs DEF e
<1>3. freeReg(freeReg(e, r), b).code = freeReg(e, r).code
  BY <1>2, FreedIs
<1> QED BY <1>1, <1>2, <1>3 DEF e

\* An operator's value is computed, and the registers of its operands are given back.
Finishes(B, c2, inst, val) ==
  /\ Len(calls) > 0 /\ calls[Len(calls)].at \in Operators /\ Return
  /\ Become(c2) /\ FreedTo(current, c2, B[Len(calls)])
  /\ inst[1] \in {"SUB", "READ", "SYSCALL"} /\ c2.code = Append(current.code, inst)
  /\ SameScopes /\ (~ Executed => SameEffects)
  /\ wanted' = [is |-> "register", reg |-> calls[Len(calls)].dst, val |-> val]

LEMMA OperatorStep ==
  ASSUME NEW f, NEW B, NEW D, Here(f, B, D), NEW T, NEW z, Traced(D, T, z), Compiles',
         NEW c2, NEW inst, NEW val, Finishes(B, c2, inst, val),
         LiveAt(current, calls, wanted, meaning.scopes, z) /\ VMState(z) /\ Executed
           /\ calls[Len(calls)].dst \in Bank =>
              /\ Written(z, Stepped(inst, z), calls[Len(calls)].dst, val)
              /\ Agrees(Stepped(inst, z), meaning')
  PROVE  Follows'
<1> DEFINE n == Len(calls)
           dst == calls[n].dst
<1>1. n \in Nat /\ n > 0 /\ Fits(calls, B, D, f, n) /\ calls[n].at \in Operators
  BY HereIs DEF Current, Finishes
<1>2. n > 1 /\ Asks(calls[n - 1]) /\ dst = Asked(calls[n - 1], B[n - 1])
  BY <1>1 DEF Fits
<1>3. Continues(calls, calls', n - 1) /\ Len(calls') = n - 1
  BY ReturnIs DEF Without, Finishes
<1>4. Ordinary(calls[n])
  BY <1>1 DEF Ordinary, Operators, Branches
<1>5. /\ Compiler(c2) /\ SameNames(current, c2) /\ Become(c2) /\ c2.code = Append(current.code, inst)
      /\ SameScopes /\ (~ Executed => SameEffects) /\ inst[1] \in {"SUB", "READ", "SYSCALL"}
      /\ wanted' = [is |-> "register", reg |-> dst, val |-> val]
  BY DEF Finishes, FreedTo
<1>6. inst[1] \in Straight
  BY <1>5 DEF Straight
<1>7. Gives(B, n - 1, c2, inst, dst, val)
  <2>1. n - 1 \in 1 .. n /\ n - 1 \in {n - 1, n}
    BY <1>1, <1>2
  <2> QED BY <1>2, <1>3, <1>4, <1>5, <1>6, <2>1 DEF Gives
<1>8. ASSUME LiveAt(current, calls, wanted, meaning.scopes, z), VMState(z), Executed
      PROVE  IsThere(inst, z, dst, val) /\ Unspoilt(calls[n - 1], inst, z)
  <2>1. n \in 1 .. n
    BY <1>1
  <2>2. BankedAt(calls[n], current.locals)
    BY <1>8, <2>1 DEF LiveAt, Banked
  <2>3. dst \in Bank
    BY <1>1, <2>2 DEF BankedAt
  <2> QED BY <1>5, <1>8, <2>3 DEF IsThere, Unspoilt
<1> HIDE DEF dst
<1> QED BY <1>7, <1>8, GivenStep

LEMMA AfterRightFollows ==
  ASSUME NEW f, NEW B, NEW D, Here(f, B, D), NEW T, NEW z, Traced(D, T, z), Compiles', AfterRight
  PROVE  Follows'
<1> DEFINE n == Len(calls)
           b == B[n]
           inst == <<"SUB", Caller.dst, Caller.reg, wanted.reg>>
           c2 == freeReg(freeReg(Emitted(current, inst), wanted.reg), Caller.reg)
           val == <<"-", Caller.val, wanted.val>>
<1>1. /\ Given("right") /\ Become(c2) /\ Return /\ meaning' = meaning
      /\ wanted' = [is |-> "register", reg |-> Caller.dst, val |-> val]
  BY DEF AfterRight, Give, BinaryEmitted
<1>2. /\ n > 0 /\ Caller = calls[n] /\ calls[n].at = "right" /\ b \in Nat
      /\ wanted.reg = Asked(calls[n], b) /\ Compiler(current)
      /\ current.regTop = b + Width(calls[n]) /\ Fits(calls, B, D, f, n)
  BY <1>1, GivenIs
<1>3. wanted.reg = b + 1 /\ Caller.reg = b /\ current.regTop = b + 2
  BY <1>2 DEF Asked, Width, Fits
<1>4. inst[1] \in {"SUB", "READ", "SYSCALL"}
  OBVIOUS
<1>5. Stepped(inst, z) = Loads(z, Caller.dst, <<"-", z.regs[Caller.reg], z.regs[wanted.reg]>>)
  BY DEF Stepped
<1> HIDE DEF inst
<1>6. FreedTo(current, c2, b) /\ c2.code = Append(current.code, inst)
  <2>1. b + 1 \in Nat
    BY <1>2
  <2> QED BY <1>2, <1>3, <2>1, TwoFreed, FreedCode
<1>7. calls[n].at \in Operators /\ SameEffects /\ SameScopes
  BY <1>1, <1>2, SameMeans DEF Operators
<1> HIDE DEF c2
<1>8. Finishes(B, c2, inst, val)
  BY <1>1, <1>2, <1>4, <1>6, <1>7 DEF Finishes
<1>9. ASSUME LiveAt(current, calls, wanted, meaning.scopes, z), VMState(z), calls[n].dst \in Bank
      PROVE  Written(z, Stepped(inst, z), calls[n].dst, val) /\ Agrees(Stepped(inst, z), meaning')
  <2>1. wanted.val = z.regs[wanted.reg] /\ Operands(calls[n], z.regs)
    BY <1>1, <1>9, GivenLive
  <2>2. z.regs[Caller.reg] = Caller.val
    BY <1>2, <2>1 DEF Operands
  <2>3. Stepped(inst, z) = Loads(z, calls[n].dst, val)
    BY <1>2, <1>5, <2>1, <2>2
  <2> HIDE DEF val
  <2>4. Written(z, Stepped(inst, z), calls[n].dst, val) /\ SameShown(z, Stepped(inst, z))
    BY <1>9, <2>3, LoadsWritten
  <2> QED BY <1>7, <2>4, AgreesQuiet DEF Traced
<1> HIDE DEF val
<1> QED BY <1>8, <1>9, OperatorStep

LEMMA AfterOperandFollows ==
  ASSUME NEW f, NEW B, NEW D, Here(f, B, D), NEW T, NEW z, Traced(D, T, z), Compiles', AfterOperand
  PROVE  Follows'
<1> DEFINE n == Len(calls)
           b == B[n]
           inst == <<"READ", Caller.dst, wanted.reg>>
           c2 == freeReg(Emitted(current, inst), wanted.reg)
           val == <<"*", wanted.val>>
<1>1. /\ Given("operand") /\ Become(c2) /\ Return /\ meaning' = meaning
      /\ wanted' = [is |-> "register", reg |-> Caller.dst, val |-> val]
  BY DEF AfterOperand, Give
<1>2. /\ n > 0 /\ Caller = calls[n] /\ calls[n].at = "operand" /\ b \in Nat
      /\ wanted.reg = Asked(calls[n], b) /\ Compiler(current)
      /\ current.regTop = b + Width(calls[n])
  BY <1>1, GivenIs
<1>3. wanted.reg = b /\ current.regTop = b + 1
  BY <1>2 DEF Asked, Width
<1>4. inst[1] \in {"SUB", "READ", "SYSCALL"}
  OBVIOUS
<1>5. Stepped(inst, z) = Loads(z, Caller.dst, <<"*", z.regs[wanted.reg]>>)
  BY DEF Stepped
<1> HIDE DEF inst
<1>6. FreedTo(current, c2, b) /\ c2.code = Append(current.code, inst)
  BY <1>2, <1>3, OneFreed, FreedCode
<1>7. calls[n].at \in Operators /\ SameEffects /\ SameScopes
  BY <1>1, <1>2, SameMeans DEF Operators
<1> HIDE DEF c2
<1>8. Finishes(B, c2, inst, val)
  BY <1>1, <1>2, <1>4, <1>6, <1>7 DEF Finishes
<1>9. ASSUME LiveAt(current, calls, wanted, meaning.scopes, z), VMState(z), calls[n].dst \in Bank
      PROVE  Written(z, Stepped(inst, z), calls[n].dst, val) /\ Agrees(Stepped(inst, z), meaning')
  <2>1. wanted.val = z.regs[wanted.reg]
    BY <1>1, <1>9, GivenLive
  <2>3. Stepped(inst, z) = Loads(z, calls[n].dst, val)
    BY <1>2, <1>5, <2>1
  <2> HIDE DEF val
  <2>4. Written(z, Stepped(inst, z), calls[n].dst, val) /\ SameShown(z, Stepped(inst, z))
    BY <1>9, <2>3, LoadsWritten
  <2> QED BY <1>7, <2>4, AgreesQuiet DEF Traced
<1> HIDE DEF val
<1> QED BY <1>8, <1>9, OperatorStep

\* System calls: what is called is what the text says, if it says it. The values are in the registers from the one of the call's number.
InRegisters(z, id, count, vals) ==
  /\ IsSeq(vals) /\ Len(vals) = count + 1
  /\ \A k \in 1 .. count + 1 : z.regs[id + k - 1] = vals[k]
LEMMA ArgumentsAre ==
  ASSUME NEW z, NEW id \in Nat, NEW count \in Nat, NEW vals, InRegisters(z, id, count, vals)
  PROVE  Arguments(z, id, count) = <<"syscall">> \o vals
<1> DEFINE args == [i \in 1 .. (count + 1) |-> z.regs[id + i - 1]]
<1>1. IsSeq(args) /\ Len(args) = count + 1
  <2>1. args = [i \in 1 .. (count + 1) |-> args[i]] /\ count + 1 \in Nat
    OBVIOUS
  <2> HIDE DEF args
  <2> QED BY <2>1, FunctionIs
<1>2. \A i \in 1 .. count + 1 : args[i] = vals[i]
  BY DEF InRegisters
<1>3. args = vals
  <2>1. IsSeq(vals) /\ Len(vals) = count + 1
    BY DEF InRegisters
  <2> HIDE DEF args
  <2> QED BY <1>1, <1>2, <2>1, SequencesEqual
<1> QED BY <1>3 DEF Arguments

LEMMA RepliesWritten ==
  ASSUME NEW z, VMState(z), NEW dst \in Bank, NEW effect, NEW z2, z2 = Replies(z, dst, effect)
  PROVE  /\ Written(z, z2, dst, Reply)
         /\ z2.out = Append(z.out, effect) /\ z2.globals = z.globals
<1>1. /\ z2.regs[dst] = Reply
      /\ \A r \in Bank : r # dst => z2.regs[r] = z.regs[r]
  BY RepliesIs
<1>2. z2.out = Append(z.out, effect) /\ z2.globals = z.globals
  BY DEF Replies
<1> QED BY <1>1, <1>2 DEF Written

LEMMA SaidIs ==
  ASSUME NEW D, NEW T, NEW z, Traced(D, T, z), VMState(z), Executed, NEW said, Says(said),
         NEW z2, NEW effect, z2.out = Append(z.out, effect), z2.globals = z.globals,
         said \in {effect, Unset}
  PROVE  Agrees(z2, meaning')
<1>1. Agrees(z, meaning) /\ Meaningful(meaning)
  BY DEF Traced, Agrees
<1>2. /\ meaning'.globals = meaning.globals /\ DOMAIN meaning' = DOMAIN meaning
      /\ meaning'.out = Append(meaning.out, said)
  BY <1>1, SaysMeans
<1> DEFINE M2 == meaning'
<1>3. M2.globals = meaning.globals /\ DOMAIN M2 = DOMAIN meaning /\ M2.out = Append(meaning.out, said)
  BY <1>2
<1> HIDE DEF M2
<1>4. Agrees(z2, M2)
  BY <1>1, <1>3, AgreesOut
<1> QED BY <1>4 DEF M2

LEMMA UnsaidIs ==
  ASSUME NEW D, NEW T, NEW z, Traced(D, T, z), NEW said, Says(said)
  PROVE  SameScopes /\ (~ Executed => SameEffects)
<1>1. Meaningful(meaning)
  BY DEF Traced, Agrees
<1> QED BY <1>1, SaysMeans DEF SameEffects

LEMMA CalledStep ==
  ASSUME NEW f, NEW B, NEW D, Here(f, B, D), NEW T, NEW z, Traced(D, T, z), Compiles',
         NEW c2, NEW id, NEW count, NEW inst, inst = <<"SYSCALL", calls[Len(calls)].dst, id, count>>,
         Finishes(B, c2, inst, Reply), NEW said, Says(said),
         LiveAt(current, calls, wanted, meaning.scopes, z) => said \in {Arguments(z, id, count), Unset}
  PROVE  Follows'
<1> DEFINE dst == calls[Len(calls)].dst
           effect == Arguments(z, id, count)
<1>1. Stepped(inst, z) = Replies(z, dst, effect)
  BY DEF Stepped
<1> HIDE DEF effect
<1>2. ASSUME LiveAt(current, calls, wanted, meaning.scopes, z), VMState(z), Executed, dst \in Bank
      PROVE  Written(z, Stepped(inst, z), dst, Reply) /\ Agrees(Stepped(inst, z), meaning')
  <2>1. said \in {effect, Unset}
    BY <1>2 DEF effect
  <2> DEFINE z2 == Stepped(inst, z)
  <2>4. z2 = Replies(z, dst, effect)
    BY <1>1
  <2> HIDE DEF z2, dst
  <2>2. /\ Written(z, z2, dst, Reply) /\ z2.out = Append(z.out, effect) /\ z2.globals = z.globals
    BY <1>2, <2>4, RepliesWritten
  <2>3. Agrees(z2, meaning')
    BY <1>2, <2>1, <2>2, SaidIs
  <2> QED BY <2>2, <2>3 DEF z2
<1> QED BY <1>2, OperatorStep

LEMMA AfterIdAloneFollows ==
  ASSUME NEW f, NEW B, NEW D, Here(f, B, D), NEW T, NEW z, Traced(D, T, z), Compiles',
         AfterIdAlone, ~ hadError'
  PROVE  Follows'
<1> DEFINE n == Len(calls)
           b == B[n]
           a == Allocated(current)
           id == wanted.reg
           inst == <<"SYSCALL", Caller.dst, id, 0>>
           said == <<"syscall", wanted.val>>
           c2 == freeReg(freeReg(Emitted(a, inst), allocReg(current)), id)
<1>1. /\ Given("id") /\ Become(c2) /\ Return /\ ~ Exhausted(current) /\ Says(said)
      /\ wanted' = [is |-> "register", reg |-> Caller.dst, val |-> Reply]
  BY DEF AfterIdAlone, SyscallEmitted
<1>2. /\ n > 0 /\ Caller = calls[n] /\ calls[n].at = "id" /\ b \in Nat
      /\ wanted.reg = Asked(calls[n], b) /\ Compiler(current)
      /\ current.regTop = b + Width(calls[n]) /\ current.packOffset = 0
  BY <1>1, GivenIs
<1>3. wanted.reg = b /\ current.regTop = b + 1
  BY <1>2 DEF Asked, Width
<1>4. /\ Compiler(a) /\ SameNames(current, a) /\ allocReg(current) = b + 1 /\ a.regTop = b + 2
      /\ a.code = current.code
  <2>1. MaxReg \in Nat
    BY Bounds
  <2>2. /\ Compiler(a) /\ SameNames(current, a) /\ allocReg(current) = Flushed(current)
        /\ a.regTop = Flushed(current) + 1 /\ Flushed(current) = current.regTop /\ a.code = current.code
    BY <1>1, <1>2, <2>1, AllocatedIs
  <2> QED BY <1>2, <1>3, <2>2
<1>5. inst[1] \in {"SUB", "READ", "SYSCALL"} /\ inst = <<"SYSCALL", calls[n].dst, id, 0>>
  BY <1>2
<1>6. said = <<"syscall">> \o <<wanted.val>>
  OBVIOUS
<1> HIDE DEF inst, a, said
<1>7. FreedTo(current, c2, b) /\ c2.code = Append(current.code, inst)
  <2>1. b + 1 \in Nat
    BY <1>2
  <2>3. c2 = freeReg(freeReg(Emitted(a, inst), b + 1), b)
    BY <1>3, <1>4
  <2>2. FreedTo(a, c2, b) /\ c2.code = Append(a.code, inst)
    <3> HIDE DEF c2, b
    <3> QED BY <1>2, <1>4, <2>1, <2>3, TwoFreed, FreedCode
  <2> HIDE DEF c2
  <2> QED BY <1>4, <2>2 DEF FreedTo, SameNames
<1> HIDE DEF c2
<1>8. calls[n].at \in Operators /\ SameScopes /\ (~ Executed => SameEffects)
  BY <1>1, <1>2, UnsaidIs DEF Operators
<1>9. Finishes(B, c2, inst, Reply)
  BY <1>1, <1>2, <1>5, <1>7, <1>8 DEF Finishes
<1>10. ASSUME LiveAt(current, calls, wanted, meaning.scopes, z)
       PROVE  said \in {Arguments(z, id, 0), Unset}
  <2>1. wanted.val = z.regs[id]
    BY <1>1, <1>10, GivenLive
  <2> DEFINE vals == <<wanted.val>>
  <2>2. IsSeq(vals) /\ Len(vals) = 0 + 1 /\ vals[1] = wanted.val
    BY SingleIs
  <2>3. id \in Nat /\ 0 \in Nat
    BY <1>2, <1>3
  <2> HIDE DEF vals, id
  <2>4. \A k \in 1 .. 0 + 1 : z.regs[id + k - 1] = vals[k]
    <3>1. ASSUME NEW k \in 1 .. 0 + 1 PROVE k = 1 /\ id + k - 1 = id
      BY <2>3
    <3> QED BY <2>1, <2>2, <3>1
  <2>5. Arguments(z, id, 0) = <<"syscall">> \o vals
    <3>1. InRegisters(z, id, 0, vals)
      BY <2>2, <2>4 DEF InRegisters
    <3> QED BY <2>3, <3>1, ArgumentsAre
  <2> QED BY <1>6, <2>5 DEF vals
<1> QED BY <1>1, <1>5, <1>9, <1>10, CalledStep

\* The last argument: all of them are where the call finds them.
LastArgument(g, b, v, w, code, z, vals) ==
  /\ g.at = "argument" /\ Counted(g, b) /\ Len(g.vals) = g.count /\ w.is = "register"
  /\ vals = Append(g.vals, v) /\ v = z.regs[Asked(g, b)]
  /\ Operands(g, z.regs) /\ TopHeld(g, w, code, z.regs)
  /\ ~ g.spoilt /\ ~ (Len(vals) > 3 /\ Computes(code))

LEMMA ArgumentsHeld ==
  ASSUME NEW g, NEW b \in Nat, NEW v, NEW w, NEW code, NEW z, NEW vals,
         LastArgument(g, b, v, w, code, z, vals)
  PROVE  InRegisters(z, b, g.count, vals)
<1> DEFINE N == Len(g.vals)
           regs == z.regs
<1>1. /\ g.at = "argument" /\ g.id = b /\ g.start = b + 1 /\ IsSeq(g.vals) /\ N \in Nat /\ N >= 1
      /\ g.count = N
  <2>1. g.count \in 1 .. MaxArgs /\ N \in 1 .. g.count /\ MaxArgs \in Nat /\ g.count = N
    BY Bounds DEF LastArgument, Counted
  <2> HIDE DEF N
  <2> QED BY <2>1 DEF LastArgument, Counted
<1>2. IsSeq(vals) /\ Len(vals) = N + 1 /\ vals[N + 1] = v /\ \A i \in 1 .. N : vals[i] = g.vals[i]
  BY <1>1, AppendIs DEF LastArgument
<1>3. v = regs[b + N]
  BY <1>1 DEF Asked, LastArgument
<1>4. regs[b] = g.vals[1] /\ (N >= 2 => regs[b + 1] = g.vals[2])
  BY <1>1 DEF Operands, LastArgument
<1>5. ASSUME NEW k \in 3 .. N PROVE regs[b + k - 1] = g.vals[k]
  <2>1. Len(vals) > 3
    BY <1>1, <1>2
  <2>2. RestHeld(g, regs)
    BY <1>1, <2>1 DEF TopHeld, LastArgument
  <2>3. regs[g.start + k - 2] = g.vals[k]
    BY <2>2 DEF RestHeld
  <2>4. b + 1 + k - 2 = b + k - 1
    BY <1>1
  <2> QED BY <1>1, <2>3, <2>4
<1> HIDE DEF N, regs
<1>6. ASSUME NEW k \in 1 .. N + 1 PROVE regs[b + k - 1] = vals[k]
  <2>1. CASE k = N + 1
    <3>1. b + k - 1 = b + N
      BY <1>1, <2>1
    <3> QED BY <1>2, <1>3, <2>1, <3>1
  <2>2. CASE k = 1
    <3>1. b + k - 1 = b /\ 1 \in 1 .. N
      BY <1>1, <2>2
    <3> QED BY <1>2, <1>4, <2>2, <3>1
  <2>3. CASE k = 2 /\ N >= 2
    <3>1. b + k - 1 = b + 1 /\ 2 \in 1 .. N
      BY <1>1, <2>3
    <3> QED BY <1>2, <1>4, <2>3, <3>1
  <2>4. CASE k \in 3 .. N
    <3>1. k \in 1 .. N
      BY <1>1, <2>4
    <3> QED BY <1>2, <1>5, <2>4, <3>1
  <2> QED BY <1>1, <2>1, <2>2, <2>3, <2>4
<1> QED BY <1>1, <1>2, <1>6 DEF InRegisters, regs

LEMMA ArgumentLastFollows ==
  ASSUME NEW f, NEW B, NEW D, Here(f, B, D), NEW T, NEW z, Traced(D, T, z), Compiles',
         AfterArgument, ~ (Len(Caller.vals) + 1 <= Caller.count)
  PROVE  Follows'
<1> DEFINE n == Len(calls)
           b == B[n]
           vals == Append(Caller.vals, wanted.val)
           s == Caller.spoilt \/ Spoils(vals)
           inst == <<"SYSCALL", Caller.dst, Caller.id, Caller.count>>
           c2 == freeReg(freeReg(Emitted(current, inst), Caller.start), Caller.id)
           said == IF s THEN Unset ELSE <<"syscall">> \o vals
<1>1. Given("argument")
  BY DEF AfterArgument
<1>2. /\ n > 0 /\ n \in Nat /\ Caller = calls[n] /\ calls[n].at = "argument" /\ b \in Nat
      /\ Fits(calls, B, D, f, n) /\ wanted.is = "register" /\ wanted.reg = Asked(calls[n], b)
      /\ Compiler(current) /\ current.regTop = b + Width(calls[n])
  BY <1>1, GivenIs
<1>3. Counted(calls[n], b) /\ current.regTop = b + 2 /\ calls[n].at \in Operators
  BY <1>2 DEF Fits, Width, Operators
<1>4. /\ calls[n].id = b /\ calls[n].start = b + 1 /\ IsSeq(calls[n].vals)
      /\ Len(calls[n].vals) \in Nat /\ calls[n].count \in Nat /\ Len(calls[n].vals) <= calls[n].count
  BY <1>3 DEF Counted
<1>5. Len(vals) = Len(calls[n].vals) + 1
  BY <1>2, <1>4, AppendIs
<1>6. ~ (Len(vals) <= Caller.count) /\ Len(calls[n].vals) = calls[n].count
  BY <1>2, <1>4, <1>5
<1>7. /\ Become(c2) /\ Return /\ Says(said)
      /\ wanted' = [is |-> "register", reg |-> Caller.dst, val |-> Reply]
  BY <1>6 DEF AfterArgument, Give, SyscallEmitted
<1>8. inst[1] \in {"SUB", "READ", "SYSCALL"} /\ inst = <<"SYSCALL", calls[n].dst, b, calls[n].count>>
  BY <1>2, <1>4
<1> HIDE DEF inst
<1>9. FreedTo(current, c2, b) /\ c2.code = Append(current.code, inst)
  <2>1. b + 1 \in Nat /\ Caller.start = b + 1 /\ Caller.id = b
    BY <1>2, <1>4
  <2>2. c2 = freeReg(freeReg(Emitted(current, inst), b + 1), b)
    BY <2>1
  <2> HIDE DEF c2, b
  <2> QED BY <1>2, <1>3, <2>1, <2>2, TwoFreed, FreedCode
<1> HIDE DEF c2
<1>10. Spoils(vals) <=> Len(vals) > 3 /\ Computes(current.code)
  BY DEF Spoils, Computed, Computes
<1>11. SameScopes /\ (~ Executed => SameEffects)
  <2> HIDE DEF said
  <2> QED BY <1>7, UnsaidIs
<1>12. Finishes(B, c2, inst, Reply)
  BY <1>2, <1>3, <1>7, <1>8, <1>9, <1>11 DEF Finishes
<1>13. ASSUME LiveAt(current, calls, wanted, meaning.scopes, z)
       PROVE  said \in {Arguments(z, b, calls[n].count), Unset}
  <2>1. CASE s
    BY <2>1
  <2>2. CASE ~ s
    <3>1. /\ wanted.val = z.regs[wanted.reg] /\ Operands(calls[n], z.regs)
          /\ TopHeld(calls[n], wanted, current.code, z.regs)
      BY <1>1, <1>13, GivenLive
    <3>2. ~ calls[n].spoilt /\ ~ (Len(vals) > 3 /\ Computes(current.code))
      BY <1>2, <1>10, <2>2
    <3>3. vals = Append(calls[n].vals, wanted.val)
      BY <1>2
    <3> HIDE DEF vals
    <3>4. LastArgument(calls[n], b, wanted.val, wanted, current.code, z, vals)
      BY <1>2, <1>3, <1>6, <3>1, <3>2, <3>3 DEF LastArgument
    <3>5. Arguments(z, b, calls[n].count) = <<"syscall">> \o vals
      <4>1. InRegisters(z, b, calls[n].count, vals)
        BY <1>2, <3>4, ArgumentsHeld
      <4> QED BY <1>2, <1>4, <4>1, ArgumentsAre
    <3> QED BY <2>2, <3>5
  <2> QED BY <2>1, <2>2
<1> HIDE DEF said
<1> QED BY <1>7, <1>8, <1>12, <1>13, CalledStep

LEMMA AfterArgumentFollows ==
  ASSUME NEW f, NEW B, NEW D, Here(f, B, D), NEW T, NEW z, Traced(D, T, z), Compiles', AfterArgument
  PROVE  Follows'
BY ArgumentFollows, ArgumentLastFollows

----------------------------------------
(* A statement is complete.                                                   *)

LEMMA PopsPlainly ==
  ASSUME NEW f, NEW B, NEW D, Here(f, B, D), Len(calls) > 0, Ordinary(calls[Len(calls)]), Return,
         NEW c2, Become(c2), Compiler(c2), SameNames(current, c2), SameScopes,
         ~ Executed => SameEffects
  PROVE  Plainly(c2, Len(calls) - 1, D)
<1>1. Without(calls, calls') /\ Len(calls) \in Nat
  BY ReturnIs, HereIs
<1>2. Plain(calls, calls', Len(calls) - 1)
  BY <1>1 DEF Plain, Without
<1> QED BY <1>2, NamesKept, ScopesHoldIs DEF Plainly

LEMMA StaysPlainly ==
  ASSUME NEW f, NEW B, NEW D, Here(f, B, D), calls' = calls,
         NEW c2, Become(c2), Compiler(c2), SameNames(current, c2), SameScopes,
         ~ Executed => SameEffects
  PROVE  Plainly(c2, Len(calls), D)
<1>1. Plain(calls, calls', Len(calls))
  BY HereIs, PlainSame
<1> QED BY <1>1, NamesKept, ScopesHoldIs DEF Plainly

LEMMA StoredNames ==
  ASSUME NEW c2, SameNames(current, c2), SameScopes, NEW z, NEW z2, z2.regs = z.regs,
         NEW w, LiveAt(current, calls, w, meaning.scopes, z)
  PROVE  Stored(c2.locals, meaning'.scopes, z2.regs, Len(meaning'.scopes))
BY DEF LiveAt, SameNames, SameScopes

LEMMA AfterPrintFollows ==
  ASSUME NEW f, NEW B, NEW D, Here(f, B, D), NEW T, NEW z, Traced(D, T, z), Compiles', AfterPrint
  PROVE  Follows'
<1> DEFINE n == Len(calls)
           b == B[n]
           inst == <<"PRINT", wanted.reg>>
           c2 == freeReg(Emitted(current, inst), wanted.reg)
<1>1. Given("print") /\ Done(c2) /\ Return /\ Says(wanted.val)
  BY DEF AfterPrint
<1>2. /\ n > 0 /\ calls[n].at = "print" /\ b \in Nat /\ wanted.reg = Asked(calls[n], b)
      /\ Compiler(current) /\ current.regTop = b + Width(calls[n])
  BY <1>1, GivenIs
<1>3. wanted.reg = b /\ current.regTop = b + 1
  BY <1>2 DEF Asked, Width
<1>4. inst[1] \in Straight /\ Stepped(inst, z) = Shows(z, z.regs[wanted.reg])
  BY DEF Straight, Stepped
<1> HIDE DEF inst
<1>5. FreedTo(current, c2, b) /\ c2.code = Append(current.code, inst)
  BY <1>2, <1>3, OneFreed, FreedCode
<1> HIDE DEF c2
<1>6. SameScopes /\ (~ Executed => SameEffects) /\ Become(c2) /\ NoneWanted
  BY <1>1, UnsaidIs DEF Done, NoneWanted
<1>7. Plainly(c2, n - 1, D) /\ SameNames(current, c2)
  <2>1. Ordinary(calls[n])
    BY <1>2 DEF Ordinary, Branches
  <2> QED BY <1>1, <1>2, <1>5, <1>6, <2>1, PopsPlainly DEF FreedTo
<1>8. ASSUME LiveAt(current, calls, wanted, meaning.scopes, z), VMState(z), Executed
      PROVE  /\ Stored(c2.locals, meaning'.scopes, Stepped(inst, z).regs, Len(meaning'.scopes))
             /\ Agrees(Stepped(inst, z), meaning')
  <2> DEFINE z2 == Stepped(inst, z)
             effect == z.regs[wanted.reg]
  <2>1. z2.regs = z.regs /\ z2.globals = z.globals /\ z2.out = Append(z.out, effect)
    BY <1>4 DEF Shows
  <2>2. wanted.val \in {effect, Unset}
    BY <1>1, <1>8, GivenLive
  <2> HIDE DEF z2, effect
  <2>3. Agrees(z2, meaning')
    BY <1>1, <1>8, <2>1, <2>2, SaidIs
  <2> QED BY <1>6, <1>7, <1>8, <2>1, <2>3, StoredNames DEF z2
<1> QED BY <1>4, <1>5, <1>6, <1>7, <1>8, StatementStep

\* A global is defined: the statement stands in no branch and no function.
DefineGlobal(c2, x, reg, j) ==
  /\ Become(c2) /\ Compiler(c2) /\ SameNames(current, c2)
  /\ c2.code = Append(current.code, <<"DEFINE_GLOBAL", reg, x, j>>) /\ Executed

LEMMA DefinedStep ==
  ASSUME NEW f, NEW B, NEW D, Here(f, B, D), NEW T, NEW z, Traced(D, T, z), Compiles', NoneWanted,
         NEW x, NEW val, meaning' = BoundGlobal(x, val),
         NEW c2, NEW reg, NEW j, DefineGlobal(c2, x, reg, j), NEW k, SameScopes => Plainly(c2, k, D),
         LiveAt(current, calls, wanted, meaning.scopes, z) => val \in {z.regs[reg], Unset}
  PROVE  Follows'
<1> DEFINE inst == <<"DEFINE_GLOBAL", reg, x, j>>
<1>1. inst[1] \in Straight /\ Stepped(inst, z) = Defines(z, x, z.regs[reg])
  BY DEF Straight, Stepped
<1>2. c2.code = Append(current.code, inst)
  BY DEF DefineGlobal
<1> HIDE DEF inst
<1>3. Agrees(z, meaning) /\ Meaningful(meaning)
  BY DEF Traced, Agrees
<1>4. /\ SameScopes /\ meaning'.out = meaning.out /\ DOMAIN meaning' = DOMAIN meaning
      /\ meaning'.globals = With(meaning.globals, x, val)
  BY <1>3, DefiningMeans
<1>5. Plainly(c2, k, D)
  BY <1>4
<1>6. ASSUME LiveAt(current, calls, wanted, meaning.scopes, z), VMState(z), Executed
      PROVE  /\ Stored(c2.locals, meaning'.scopes, Stepped(inst, z).regs, Len(meaning'.scopes))
             /\ Agrees(Stepped(inst, z), meaning')
  <2> DEFINE z2 == Stepped(inst, z)
             v == z.regs[reg]
             M2 == meaning'
  <2>1. z2.regs = z.regs /\ z2.out = z.out /\ z2.globals = With(z.globals, x, v)
    BY <1>1 DEF Defines
  <2>2. val \in {v, Unset}
    BY <1>6
  <2>3. /\ M2.out = meaning.out /\ DOMAIN M2 = DOMAIN meaning
        /\ M2.globals = With(meaning.globals, x, val)
    BY <1>4
  <2> HIDE DEF z2, v, M2
  <2>4. Agrees(z2, M2)
    BY <1>3, <2>1, <2>2, <2>3, AgreesGlobal
  <2> QED BY <1>4, <1>6, <2>1, <2>4, StoredNames DEF z2, M2, DefineGlobal
<1> QED BY <1>1, <1>2, <1>5, <1>6, StatementStep

LEMMA AfterVarGlobalFollows ==
  ASSUME NEW f, NEW B, NEW D, Here(f, B, D), NEW T, NEW z, Traced(D, T, z), Compiles', AfterVarGlobal
  PROVE  Follows'
<1> DEFINE n == Len(calls)
           b == B[n]
           reg == wanted.reg
           j == makeConstant(current)
           inst == <<"DEFINE_GLOBAL", reg, Caller.name, j>>
           c2 == freeReg(Emitted(current, inst), wanted.reg)
<1>1. Given("global") /\ Done(c2) /\ Return /\ meaning' = BoundGlobal(Caller.name, wanted.val)
  BY DEF AfterVarGlobal, DefinedGlobal
<1>2. /\ n > 0 /\ calls[n].at = "global" /\ b \in Nat /\ wanted.reg = Asked(calls[n], b)
      /\ Compiler(current) /\ current.regTop = b + Width(calls[n]) /\ n \in Nat
  BY <1>1, GivenIs
<1>3. wanted.reg = b /\ current.regTop = b + 1
  BY <1>2 DEF Asked, Width
<1>4. FreedTo(current, c2, b) /\ c2.code = Append(current.code, inst)
  <2> HIDE DEF inst
  <2> QED BY <1>2, <1>3, OneFreed, FreedCode
<1> HIDE DEF c2
<1>5. Executed
  <2>1. n = 1
    <3>1. n \in 1 .. n
      BY <1>2
    <3> QED BY <1>2, <3>1 DEF Traced, Shaped, ShapedAt
  <2>2. \A i \in DOMAIN calls : calls[i].at = "global"
    <3>1. DOMAIN calls = 1 .. n
      BY HereIs, SeqFacts
    <3> QED BY <1>2, <2>1, <3>1
  <2> QED BY <2>2 DEF Executed
<1>6. Become(c2) /\ NoneWanted /\ Ordinary(calls[n])
  BY <1>1, <1>2 DEF Done, NoneWanted, Ordinary, Branches
<1>7. DefineGlobal(c2, Caller.name, reg, j)
  BY <1>4, <1>5, <1>6 DEF DefineGlobal, FreedTo
<1>8. SameScopes => Plainly(c2, n - 1, D)
  BY <1>1, <1>2, <1>4, <1>5, <1>6, PopsPlainly DEF FreedTo
<1>9. LiveAt(current, calls, wanted, meaning.scopes, z) => wanted.val \in {z.regs[reg], Unset}
  BY <1>1, GivenLive
<1> QED BY <1>1, <1>6, <1>7, <1>8, <1>9, DefinedStep

LEMMA VarGlobalAloneFollows ==
  ASSUME NEW f, NEW B, NEW D, Here(f, B, D), NEW T, NEW z, Traced(D, T, z), Compiles',
         NEW x, VarGlobalAlone(x), ~ hadError'
  PROVE  Follows'
<1> DEFINE reg == allocReg(current)
           inst == <<"DEFINE_GLOBAL", reg, x, makeConstant(Allocated(current))>>
           c2 == freeReg(Emitted(Allocated(current), inst), reg)
<1>1. /\ wanted.is = "statement" /\ ~ InBranch /\ current.scopeDepth = 0 /\ Become(c2)
      /\ ~ Exhausted(current) /\ wanted'.is = "statement"
      /\ calls' = calls /\ meaning' = BoundGlobal(x, Unset)
  BY DEF VarGlobalAlone, DefinedGlobal, Statement
<1>2. Compiler(current) /\ MaxReg \in Nat
  BY HereIs, Bounds
<1>3. Compiler(c2) /\ SameNames(current, c2) /\ c2.code = Append(current.code, inst)
  <2> DEFINE d == c2
             a == Allocated(current)
  <2>1. d = freeReg(Emitted(a, inst), reg) /\ reg = allocReg(current)
    OBVIOUS
  <2>2. Compiler(a) /\ a.code = current.code /\ reg \in Nat
    BY <1>1, <1>2, AllocatedIs
  <2>3. d = freeReg(Emitted(Allocated(current), inst), reg)
    OBVIOUS
  <2> HIDE DEF d, inst, reg
  <2>4. Compiler(d) /\ SameNames(current, d)
    BY <1>1, <1>2, <2>1, <2>3, Borrowed
  <2> HIDE DEF a
  <2>5. d.code = Append(a.code, inst)
    BY <2>1, <2>2, FreedCode
  <2> QED BY <2>2, <2>4, <2>5 DEF d
<1>4. Executed
  <2>1. Len(calls) = 0
    BY <1>1, StatementTop
  <2>2. DOMAIN calls = {}
    BY <2>1, HereIs, SeqFacts
  <2> QED BY <2>2 DEF Executed
<1> HIDE DEF c2
<1>5. DefineGlobal(c2, x, reg, makeConstant(Allocated(current)))
  BY <1>1, <1>3, <1>4 DEF DefineGlobal
<1>6. SameScopes => Plainly(c2, Len(calls), D)
  BY <1>1, <1>3, <1>4, StaysPlainly
<1>7. NoneWanted
  BY <1>1 DEF NoneWanted
<1>8. LiveAt(current, calls, wanted, meaning.scopes, z) => Unset \in {z.regs[reg], Unset}
  OBVIOUS
<1> HIDE DEF reg
<1> QED BY <1>1, <1>5, <1>6, <1>7, <1>8, DefinedStep

----------------------------------------
(* Variables.                                                                 *)

\* The scopes of the activations below an open block are not the last one.
LEMMA ScopeBelow ==
  ASSUME NEW f, NEW B, NEW D, Here(f, B, D), NEW k \in 1 .. Len(calls),
         calls[k].at \in {"block", "function"}, NEW m \in 1 .. k
  PROVE  D[m - 1] \in Nat /\ D[m - 1] <= Len(meaning.scopes) - 1 /\ Len(meaning.scopes) \in Nat
<1> DEFINE n == Len(calls)
<1>1. /\ Stacked(calls, B, D, f) /\ n \in Nat /\ Numbers(D) /\ k \in Nat /\ m \in Nat
      /\ Len(meaning.scopes) = D[n]
  BY HereIs DEF Here, Sound, Naming
<1>2. m - 1 \in 0 .. n /\ k - 1 \in 0 .. n /\ k \in 0 .. n /\ n \in 0 .. n
      /\ m - 1 <= k - 1 /\ k <= n /\ m - 1 \in Nat /\ k - 1 \in Nat
  BY <1>1
<1>3. D[m - 1] <= D[k - 1] /\ D[k] <= D[n]
  BY <1>1, <1>2 DEF Stacked
<1>4. D[k] = D[k - 1] + 1
  <2>1. Fits(calls, B, D, f, k)
    BY <1>1 DEF Stacked
  <2> QED BY <2>1 DEF Fits, Opens
<1>5. D[m - 1] \in Nat /\ D[k - 1] \in Nat /\ D[k] \in Nat /\ D[n] \in Nat
  BY <1>1, <1>2 DEF Numbers
<1> HIDE DEF n
<1> QED BY <1>1, <1>3, <1>4, <1>5

LEMMA BindingHolds ==
  ASSUME NEW f, NEW B, NEW D, Here(f, B, D), NEW k \in 1 .. Len(calls),
         calls[k].at \in {"block", "function"},
         \A m \in 1 .. Len(calls) : Stuck(calls[m]) => m <= k,
         NEW x, NEW v, Binds(meaning.scopes, meaning'.scopes, x, v)
  PROVE  ScopesHold(D)
<1> SUFFICES ASSUME NEW m \in 1 .. Len(calls), Stuck(calls[m]), NEW s \in 1 .. D[m - 1]
             PROVE  meaning'.scopes[s] = meaning.scopes[s]
  BY DEF ScopesHold, ScopesKept
<1>1. m \in 1 .. k
  BY HereIs
<1>2. D[m - 1] \in Nat /\ D[m - 1] <= Len(meaning.scopes) - 1 /\ Len(meaning.scopes) \in Nat
  BY <1>1, ScopeBelow
<1>3. s \in 1 .. Len(meaning.scopes) - 1
  BY <1>2
<1> QED BY <1>3 DEF Binds

\* The locals after a declaration.
Adds(L, L2, x) ==
  /\ \A k \in DOMAIN L : k \in DOMAIN L2 /\ L2[k] = L[k]
  /\ \A k \in DOMAIN L2 : (k \in DOMAIN L /\ L2[k] = L[k]) \/ L2[k].name = x

LEMMA AddsIs ==
  ASSUME NEW c, Compiler(c), NEW c2, NEW x, Declared(c, c2, x)
  PROVE  Adds(c.locals, c2.locals, x)
<1>1. /\ DOMAIN c.locals = 1 .. Len(c.locals) /\ DOMAIN c2.locals = 1 .. Len(c2.locals)
      /\ Len(c.locals) \in Nat /\ Len(c2.locals) = Len(c.locals) + 1
      /\ \A i \in 1 .. Len(c.locals) : c2.locals[i] = c.locals[i]
      /\ c2.locals[Len(c.locals) + 1].name = x
  BY SeqFacts DEF Declared, Compiler
<1> QED BY <1>1 DEF Adds

LEMMA StoredAdds ==
  ASSUME NEW L, NEW L2, NEW x, Adds(L, L2, x), NEW S, \A s \in DOMAIN S : x \notin DOMAIN S[s],
         NEW S2, Binds(S, S2, x, Unset), NEW regs, Stored(L, S, regs, Len(S))
  PROVE  Stored(L2, S2, regs, Len(S2))
<1> SUFFICES ASSUME NEW k \in DOMAIN L2, NEW s \in 1 .. Len(S),
                    L2[k].name \in DOMAIN S2[s], S2[s][L2[k].name] # Unset
             PROVE  regs[L2[k].reg] = S2[s][L2[k].name]
  BY DEF Stored, Binds
<1>1. Len(S) \in Nat \ {0} /\ DOMAIN S = 1 .. Len(S)
  BY DEF Binds
<1>2. CASE s = Len(S)
  <2>1. L2[k].name # x
    BY <1>2 DEF Binds
  <2>2. L2[k].name \in DOMAIN S[s] /\ S2[s][L2[k].name] = S[s][L2[k].name]
    BY <1>2, <2>1 DEF Binds
  <2> QED BY <2>1, <2>2 DEF Adds, Stored
<1>3. CASE s # Len(S)
  <2>1. s \in 1 .. Len(S) - 1
    <3>1. PICK n \in Nat \ {0} : n = Len(S) /\ s \in 1 .. n /\ s # n
      BY <1>1, <1>3
    <3>2. s \in 1 .. n - 1
      BY ONLY <3>1
    <3> QED BY ONLY <3>1, <3>2
  <2>2. S2[s] = S[s] /\ L2[k].name # x
    BY <1>1, <2>1 DEF Binds
  <2> QED BY <2>2 DEF Adds, Stored
<1> QED BY <1>2, <1>3

LEMMA LocalsAdded ==
  ASSUME NEW L, NEW L2, NEW x, Adds(L, L2, x), NEW S, \A s \in DOMAIN S : x \notin DOMAIN S[s]
  PROVE  LocalsKept(L, L2, S) /\ LocalsGrow(L, L2)
BY DEF Adds, LocalsKept, LocalsGrow

\* A declaration, by itself or in front of the first value.
Declaration(x, c, c2) ==
  /\ wanted.is = "statement" /\ ~ InBranch /\ current.scopeDepth > 0 /\ Fresh(x)
  /\ meaning' = Bound(x, Unset) /\ Declared(current, c, x)
  /\ Become(c2) /\ Compiler(c2) /\ SameNames(c, c2) /\ c2.code = c.code

LEMMA DeclarationHolds ==
  ASSUME NEW f, NEW B, NEW D, Here(f, B, D), NEW T, NEW z, Traced(D, T, z),
         NEW x, NEW c, NEW c2, Declaration(x, c, c2)
  PROVE  /\ SameEffects /\ ScopesHold(D) /\ Kept(c2, z) /\ c2.code = current.code
         /\ LocalsKept(current.locals, c2.locals, meaning.scopes)
         /\ LocalsGrow(current.locals, c2.locals)
         /\ Len(calls) > 0 /\ calls[Len(calls)].at \in {"block", "function"}
<1> DEFINE n == Len(calls)
           S == meaning.scopes
           S2 == meaning'.scopes
           L == current.locals
           L2 == c2.locals
<1>1. HasScopes /\ Meaningful(meaning)
  BY DEF Traced, Agrees, Meaningful, HasScopes
<1>2. Unused(compilers, x) /\ Binds(S, S2, x, Unset)
  BY <1>1, DeclarationIs DEF Declaration
<1>3. \A s \in DOMAIN S : x \notin DOMAIN S[s]
  BY <1>2, HereIs, UnusedIs
<1>4. /\ n > 0 /\ n \in Nat /\ calls[n].at \in {"block", "function"}
      /\ Compiler(current)
  <2>1. ~ (current.scopeDepth = 0)
    BY DEF Declaration
  <2>2. n > 0 /\ calls[n].at \in {"block", "function"}
    BY <2>1, StatementTop DEF Declaration
  <2> QED BY <2>2, HereIs
<1>5. Adds(L, L2, x)
  <2>1. Adds(current.locals, c.locals, x)
    BY <1>4, AddsIs DEF Declaration
  <2> QED BY <2>1 DEF Declaration, SameNames
<1>6. SameEffects
  <2> DEFINE S3 == Append(Front(S), With(Last(S), x, Unset))
  <2>1. meaning' = [meaning EXCEPT !.scopes = S3]
    BY DEF Declaration, Bound
  <2> HIDE DEF S3
  <2> QED BY <1>1, <2>1, ScopesMean
<1>7. ScopesHold(D)
  <2>1. n \in 1 .. n /\ \A m \in 1 .. n : m <= n
    BY <1>4
  <2> QED BY <1>2, <1>4, <2>1, BindingHolds
<1>8. c2.code = current.code
  BY DEF Declaration, Declared
<1> HIDE DEF S, S2, L, L2
<1>9. LocalsKept(L, L2, S) /\ LocalsGrow(L, L2)
  BY <1>3, <1>5, LocalsAdded
<1>10. Stored(L, S, z.regs, Len(S)) => Stored(L2, S2, z.regs, Len(S2))
  BY <1>2, <1>3, <1>5, StoredAdds
<1> QED BY <1>4, <1>6, <1>7, <1>8, <1>9, <1>10 DEF Kept, S, S2, L, L2

LEMMA VarLocalAloneFollows ==
  ASSUME NEW f, NEW B, NEW D, Here(f, B, D), NEW T, NEW z, Traced(D, T, z), Compiles',
         NEW x, NEW size \in Sizes, VarLocalAlone(x, size), ~ hadError'
  PROVE  Follows'
<1> DEFINE c2 == declareLocal(current, x, size)
<1>1. /\ wanted.is = "statement" /\ ~ InBranch /\ current.scopeDepth > 0 /\ Fresh(x)
      /\ meaning' = Bound(x, Unset) /\ Become(c2) /\ (size = 8 => ~ Exhausted(current))
      /\ wanted'.is = "statement" /\ calls' = calls
  BY DEF VarLocalAlone, Statement
<1>2. Declared(current, c2, x)
  <2>1. size \in 0 .. 8 /\ MaxReg \in Nat
    BY Bounds
  <2> QED BY <1>1, <2>1, DeclaredIs, HereIs
<1> HIDE DEF c2
<1>3. Declaration(x, c2, c2)
  BY <1>1, <1>2 DEF Declaration, Declared, SameNames
<1>4. /\ SameEffects /\ ScopesHold(D) /\ Kept(c2, z) /\ c2.code = current.code
      /\ LocalsKept(current.locals, c2.locals, meaning.scopes)
  BY <1>3, DeclarationHolds
<1>5. Plain(calls, calls', Len(calls))
  BY <1>1, HereIs, PlainSame
<1>6. Plainly(c2, Len(calls), D)
  BY <1>1, <1>2, <1>4, <1>5 DEF Plainly, Declared
<1>7. Evaluated(calls', wanted', c2.code, z.regs) /\ Banked(calls', wanted', c2.locals)
  <2>1. NoneWanted
    BY <1>1 DEF NoneWanted
  <2> QED BY <2>1, IdleNext
<1> QED BY <1>4, <1>6, <1>7, QuietStep

LEMMA VarLocalFollows ==
  ASSUME NEW f, NEW B, NEW D, Here(f, B, D), NEW T, NEW z, Traced(D, T, z), Compiles',
         NEW x, NEW size \in Sizes, VarLocal(x, size), ~ hadError'
  PROVE  Follows'
<1> DEFINE c == declareLocal(current, x, size)
           c2 == Allocated(c)
           fr == [at |-> "var", name |-> x, size |-> size]
           n == Len(calls)
<1>1. /\ wanted.is = "statement" /\ ~ InBranch /\ current.scopeDepth > 0 /\ Fresh(x)
      /\ meaning' = Bound(x, Unset) /\ Become(c2)
      /\ (size = 8 => ~ Exhausted(current)) /\ ~ Exhausted(c)
      /\ wanted' = [is |-> "expression", dst |-> allocReg(c)]
      /\ calls' = Append(calls, fr)
  BY DEF VarLocal, Statement
<1>2. Declared(current, c, x)
  <2>1. size \in 0 .. 8 /\ MaxReg \in Nat
    BY Bounds
  <2> QED BY <1>1, <2>1, DeclaredIs, HereIs
<1>3. fr.at = "var" /\ fr.name = x
  OBVIOUS
<1> HIDE DEF c, fr
<1>4. /\ Compiler(c2) /\ SameNames(c, c2) /\ c2.code = c.code
      /\ allocReg(c) = Flushed(c) /\ Flushed(c) \in Nat /\ Flushed(c) < MaxReg
      /\ MaxReg \in Nat /\ MaxArgs \in Nat
  BY <1>1, <1>2, Bounds, AllocatedIs DEF Declared
<1> HIDE DEF c2
<1>5. Declaration(x, c, c2)
  BY <1>1, <1>2, <1>4 DEF Declaration
<1>6. /\ SameEffects /\ ScopesHold(D) /\ Kept(c2, z) /\ c2.code = current.code
      /\ LocalsKept(current.locals, c2.locals, meaning.scopes)
      /\ LocalsGrow(current.locals, c2.locals)
      /\ n > 0 /\ calls[n].at \in {"block", "function"} /\ n \in Nat
  BY <1>5, DeclarationHolds, HereIs
<1>7. OnTop(calls, fr, calls')
  BY <1>1, PushIs
<1>8. Plain(calls, calls', n) /\ Len(calls') = n + 1 /\ calls'[n + 1] = fr
  <2> DEFINE F2 == calls'
  <2>1. OnTop(calls, fr, F2) /\ Ordinary(fr)
    BY <1>3, <1>7 DEF Ordinary, Branches
  <2>2. ShapedAt(F2, n + 1)
    <3>1. F2[n + 1] = fr /\ F2[n] = calls[n] /\ n + 1 > 1 /\ n + 1 - 1 = n
      <4>1. n \in 1 .. n
        BY <1>6
      <4> QED BY <1>6, <2>1, <4>1 DEF OnTop, Continues
    <3> QED BY <1>3, <1>6, <3>1 DEF ShapedAt
  <2> HIDE DEF F2
  <2>3. Plain(calls, F2, n) /\ Len(F2) = n + 1 /\ F2[n + 1] = fr
    BY <1>6, <2>1, <2>2, PlainPush
  <2> QED BY <2>3 DEF F2
<1>9. Plainly(c2, n, D)
  BY <1>1, <1>4, <1>6, <1>8 DEF Plainly
<1>10. wanted'.is = "expression" /\ wanted'.dst \in Bank
  BY <1>1, <1>4 DEF Bank
<1>11. FrameReady(fr, z.regs, c2.locals)
  <2>1. /\ Len(c.locals) = Len(current.locals) + 1 /\ IsSeq(c.locals)
        /\ c.locals[Len(current.locals) + 1].name = x
        /\ c.locals[Len(current.locals) + 1].reg <= Flushed(c)
        /\ c.locals[Len(current.locals) + 1].reg \in Nat
    BY <1>2 DEF Declared, Compiler
  <2>2. Len(current.locals) + 1 \in DOMAIN c.locals
    BY <2>1, SeqFacts, HereIs DEF Compiler
  <2>3. c.locals[Len(current.locals) + 1].reg < MaxReg
    BY <1>4, <2>1
  <2>4. c2.locals = c.locals
    BY <1>4 DEF SameNames
  <2> QED BY <1>3, <2>1, <2>2, <2>3, <2>4 DEF FrameReady, Operands, BankedAt, Operators
<1> QED BY <1>6, <1>8, <1>9, <1>10, <1>11, AskStep

\* A variable is given its first value: no other variable has its register.
FirstValue(c, S, S2, x, v, reg, val, regs, regs2) ==
  /\ Binds(S, S2, x, v) /\ v \in {val, Unset} /\ reg \in Bank
  /\ x \in DOMAIN S[Len(S)] /\ Scoped(S)
  /\ \A k \in DOMAIN c.locals : c.locals[k].name = x => c.locals[k].reg = reg
  /\ reg \notin HeldRegs(c.locals, S) /\ (\A k \in DOMAIN c.locals : c.locals[k].reg \in Nat)
  /\ regs2 = [regs EXCEPT ![reg] = val] /\ DOMAIN regs = Bank

LEMMA NotTheLast ==
  ASSUME NEW N \in Nat, NEW s \in 1 .. N, s # N
  PROVE  s \in 1 .. N - 1
OBVIOUS

LEMMA ValueStored ==
  ASSUME NEW c, NEW S, NEW S2, NEW x, NEW v, NEW reg, NEW val, NEW regs, NEW regs2,
         FirstValue(c, S, S2, x, v, reg, val, regs, regs2), Stored(c.locals, S, regs, Len(S))
  PROVE  Stored(c.locals, S2, regs2, Len(S2))
<1> DEFINE L == c.locals
<1> SUFFICES ASSUME NEW k \in DOMAIN L, NEW s \in 1 .. Len(S),
                    L[k].name \in DOMAIN S2[s], S2[s][L[k].name] # Unset
             PROVE  regs2[L[k].reg] = S2[s][L[k].name]
  BY DEF Stored, FirstValue, Binds
<1>1. /\ Binds(S, S2, x, v) /\ v \in {val, Unset} /\ reg \in Bank /\ x \in DOMAIN S[Len(S)] /\ Scoped(S)
      /\ (L[k].name = x => L[k].reg = reg) /\ reg \notin HeldRegs(L, S)
      /\ regs2 = [regs EXCEPT ![reg] = val] /\ DOMAIN regs = Bank
  BY DEF FirstValue
<1>2. Len(S) \in Nat \ {0} /\ DOMAIN S = 1 .. Len(S) /\ Len(S) \in DOMAIN S
  BY <1>1 DEF Binds
<1>3. CASE L[k].name = x
  <2>1. s = Len(S)
    <3> SUFFICES ASSUME s # Len(S) PROVE FALSE
      OBVIOUS
    <3>1. s \in 1 .. Len(S) - 1 /\ s \in DOMAIN S
      BY <1>2, NotTheLast
    <3>2. x \in DOMAIN S[s]
      BY <1>1, <1>3, <3>1 DEF Binds
    <3> QED BY <1>1, <1>2, <3>1, <3>2 DEF Scoped
  <2>2. S2[s][x] = v
    BY <1>1, <2>1 DEF Binds
  <2>3. v = val
    BY <1>1, <1>3, <2>2
  <2>4. regs2[reg] = val
    BY <1>1
  <2> QED BY <1>1, <1>3, <2>2, <2>3, <2>4
<1>4. CASE L[k].name # x
  <2>1. L[k].name \in DOMAIN S[s] /\ S2[s][L[k].name] = S[s][L[k].name]
    <3>1. CASE s = Len(S)
      BY <1>1, <1>4, <3>1 DEF Binds
    <3>2. CASE s # Len(S)
      <4>1. s \in 1 .. Len(S) - 1
        BY <1>2, <3>2, NotTheLast
      <4> QED BY <1>1, <4>1 DEF Binds
    <3> QED BY <3>1, <3>2
  <2>2. regs[L[k].reg] = S[s][L[k].name]
    BY <2>1 DEF Stored
  <2>3. L[k].reg \in HeldRegs(L, S)
    BY <1>2, <2>1 DEF HeldRegs, HeldIn, Valued
  <2>4. L[k].reg # reg
    BY <1>1, <2>3
  <2> DEFINE r == L[k].reg
  <2>5. regs2[r] = regs[r]
    <3> HIDE DEF r
    <3> QED BY <1>1, <2>4 DEF r
  <2> QED BY <2>1, <2>2, <2>5
<1> QED BY <1>3, <1>4

\* The register of the variable that waits for its first value.
LEMMA AwaitedIs ==
  ASSUME NEW f, NEW B, NEW D, Here(f, B, D), Len(calls) > 0, calls[Len(calls)].at = "var",
         NEW x, x = calls[Len(calls)].name, NEW reg, reg = resolveLocal(current, x),
         BankedAt(calls[Len(calls)], current.locals)
  PROVE  /\ reg \in Bank /\ reg \notin HeldRegs(current.locals, meaning.scopes)
         /\ \A k \in DOMAIN current.locals : current.locals[k].name = x => current.locals[k].reg = reg
         /\ x \in DOMAIN meaning.scopes[Len(meaning.scopes)] /\ Scoped(meaning.scopes)
         /\ \A k \in DOMAIN current.locals : current.locals[k].reg \in Nat
<1> DEFINE n == Len(calls)
           L == current.locals
           S == meaning.scopes
<1>1. /\ n \in Nat /\ current = Last(compilers) /\ Compiler(current) /\ Scoped(S)
      /\ Waiting(L, S, calls, B, f) /\ IsSeq(L) /\ \A k \in DOMAIN L : L[k].reg \in Nat
  BY HereIs DEF Here, Sound, Naming, Compiler
<1>2. VarWaits(L, S, calls, B, f, n)
  <2>1. n \in 1 .. n
    BY <1>1
  <2> QED BY <1>1, <2>1 DEF Waiting
<1>3. PICK j \in DOMAIN L : VarPlaced(L, S, calls, B, f, n, j)
  BY <1>2 DEF VarWaits
<1>4. L[j].name = x /\ L[j].reg \notin HeldRegs(L, S)
  BY <1>3 DEF VarPlaced
<1>5. Once(L)
  <2>1. Len(compilers) \in 1 .. Len(compilers) /\ Last(compilers) = compilers[Len(compilers)]
    <3>1. Len(compilers) = 1 \/ Len(compilers) = 2
      BY HereIs DEF Chain
    <3>2. \A N : N = 1 \/ N = 2 => N \in 1 .. N
      OBVIOUS
    <3>3. Len(compilers) \in 1 .. Len(compilers)
      BY <3>1, <3>2, Zenon
    <3> QED BY <3>3 DEF Last
  <2> QED BY <1>1, <2>1, HereIs DEF Naming
<1>6. Declares(current, x)
  BY <1>4 DEF Declares
<1>7. \E k \in DOMAIN L : L[k].name = x /\ reg = L[k].reg
  BY <1>1, <1>6, ResolvedIs
<1>8. \A k \in DOMAIN L : L[k].name = x => L[k].reg = reg
  BY <1>5, <1>7 DEF Once
<1>9. L[j].reg = reg
  BY <1>4, <1>8
<1>10. reg \in Bank
  <2>1. \E k \in DOMAIN L : L[k].name = x /\ L[k].reg < MaxReg
    BY DEF BankedAt
  <2>2. reg < MaxReg /\ reg \in Nat
    BY <1>1, <1>8, <1>9, <2>1
  <2> QED BY ONLY <2>2, BankUpTo
<1>11. x \in DOMAIN S[Len(S)]
  BY <1>2 DEF VarWaits
<1> QED BY <1>1, <1>4, <1>8, <1>9, <1>10, <1>11

LEMMA AfterVarLocalFollows ==
  ASSUME NEW f, NEW B, NEW D, Here(f, B, D), NEW T, NEW z, Traced(D, T, z), Compiles', AfterVarLocal
  PROVE  Follows'
<1> DEFINE n == Len(calls)
           b == B[n]
           S == meaning.scopes
           x == calls[n].name
           v == InStorage(calls[n].size, wanted.val)
           reg == resolveLocal(current, x)
           inst == <<"MOVE", reg, wanted.reg>>
           c2 == freeReg(Emitted(current, inst), wanted.reg)
           S2 == Append(Front(S), With(Last(S), x, v))
<1>1. Given("var")
  BY DEF AfterVarLocal
<1>2. /\ n > 0 /\ calls[n].at = "var" /\ b \in Nat /\ wanted.reg = Asked(calls[n], b)
      /\ Compiler(current) /\ current.regTop = b + Width(calls[n]) /\ n \in Nat
      /\ Caller = calls[n]
  BY <1>1, GivenIs
<1>3. Done(c2) /\ Return /\ meaning' = [meaning EXCEPT !.scopes = S2]
  BY <1>2 DEF AfterVarLocal, Bound
<1>4. wanted.reg = b /\ current.regTop = b + 1
  BY <1>2 DEF Asked, Width
<1>5. inst[1] \in Straight /\ Stepped(inst, z) = Loads(z, reg, z.regs[wanted.reg])
  BY DEF Straight, Stepped
<1> HIDE DEF inst
<1>6. FreedTo(current, c2, b) /\ c2.code = Append(current.code, inst)
  BY <1>2, <1>4, OneFreed, FreedCode
<1> HIDE DEF c2
<1>7. Become(c2) /\ NoneWanted /\ Compiler(c2) /\ c2.locals = current.locals /\ SameNames(current, c2)
  BY <1>3, <1>6 DEF Done, NoneWanted, FreedTo, SameNames
<1>8. Meaningful(meaning)
  BY DEF Traced, Agrees
<1>9. SameEffects /\ meaning'.scopes = S2
  <2> HIDE DEF S2
  <2> QED BY <1>3, <1>8, ScopesMean
<1>10. n > 1 /\ calls[n - 1].at \in {"block", "function"} /\ n - 1 \in 1 .. n
  <2>1. n \in 1 .. n
    BY <1>2
  <2>2. n > 1 /\ calls[n - 1].at \in {"block", "function"}
    BY <1>2, <2>1 DEF Traced, Shaped, ShapedAt
  <2> QED BY <1>2, <2>2
<1>11. Binds(S, meaning'.scopes, x, v)
  <2>1. IsSeq(S) /\ Len(S) > 0
    <3>1. D[n - 1 - 1] \in Nat /\ D[n - 1 - 1] <= Len(S) - 1 /\ Len(S) \in Nat
      <4>1. n - 1 \in 1 .. n - 1
        BY <1>2, <1>10
      <4> QED BY <1>10, <4>1, ScopeBelow
    <3> QED BY <3>1, HereIs DEF Naming
  <2>2. S2 = Append(Front(S), With(Last(S), x, v))
    OBVIOUS
  <2> HIDE DEF S2, S, x, v
  <2> QED BY <1>9, <2>1, <2>2, Binding
<1>12. ScopesHold(D)
  <2>1. \A m \in 1 .. Len(calls) : Stuck(calls[m]) => m <= n - 1
    <3>1. ~ Stuck(calls[n])
      BY <1>2 DEF Stuck
    <3> QED BY <1>2, <3>1
  <2> HIDE DEF x, v
  <2> QED BY <1>10, <1>11, <2>1, BindingHolds
<1>13. Plainly(c2, n - 1, D)
  <2>1. Without(calls, calls')
    BY <1>2, <1>3, ReturnIs
  <2>2. Ordinary(calls[n])
    BY <1>2 DEF Ordinary, Branches
  <2>3. Plain(calls, calls', n - 1)
    BY <1>2, <2>1, <2>2 DEF Plain, Without
  <2> QED BY <1>7, <1>9, <1>12, <2>3, NamesKept DEF Plainly
<1>14. ASSUME LiveAt(current, calls, wanted, meaning.scopes, z), VMState(z), Executed
       PROVE  /\ Stored(c2.locals, meaning'.scopes, Stepped(inst, z).regs, Len(meaning'.scopes))
              /\ Agrees(Stepped(inst, z), meaning')
  <2> DEFINE z2 == Stepped(inst, z)
             val == z.regs[wanted.reg]
             SS == meaning'.scopes
  <2>1. v \in {val, Unset} /\ BankedAt(calls[n], current.locals)
    <3>1. wanted.val \in {val, Unset} /\ BankedAt(calls[n], current.locals)
      BY <1>1, <1>14, GivenLive
    <3>2. v \in {wanted.val, Unset}
      BY DEF InStorage
    <3> HIDE DEF v
    <3> QED BY <3>1, <3>2
  <2>2. /\ reg \in Bank /\ reg \notin HeldRegs(current.locals, S)
        /\ \A k \in DOMAIN current.locals : current.locals[k].name = x => current.locals[k].reg = reg
        /\ x \in DOMAIN S[Len(S)] /\ Scoped(S)
        /\ \A k \in DOMAIN current.locals : current.locals[k].reg \in Nat
    BY <1>2, <2>1, AwaitedIs
  <2>3. z2.regs = [z.regs EXCEPT ![reg] = val] /\ z2.out = z.out /\ z2.globals = z.globals
    BY <1>5 DEF Loads
  <2>4. FirstValue(current, S, SS, x, v, reg, val, z.regs, z2.regs)
    <3> HIDE DEF z2, val, S, reg, x, v
    <3> QED BY <1>11, <1>14, <2>1, <2>2, <2>3 DEF FirstValue, VMState
  <2>5. Stored(current.locals, S, z.regs, Len(S))
    BY <1>14 DEF LiveAt
  <2>6. Stored(current.locals, SS, z2.regs, Len(SS))
    <3> HIDE DEF z2, val, S, reg, x, v, SS
    <3> QED BY <2>4, <2>5, ValueStored
  <2>7. Agrees(z2, meaning')
    <3> HIDE DEF z2
    <3> QED BY <1>9, <2>3, AgreesQuiet DEF Traced, SameShown
  <2> QED BY <1>7, <2>6, <2>7
<1> QED BY <1>5, <1>6, <1>7, <1>13, <1>14, StatementStep

----------------------------------------
(* Blocks.                                                                    *)

LEMMA StoredOpens ==
  ASSUME NEW L, NEW S, NEW S2, OpensScope(S, S2), NEW regs, Stored(L, S, regs, Len(S))
  PROVE  Stored(L, S2, regs, Len(S2))
<1> SUFFICES ASSUME NEW k \in DOMAIN L, NEW s \in 1 .. Len(S) + 1,
                    L[k].name \in DOMAIN S2[s], S2[s][L[k].name] # Unset
             PROVE  regs[L[k].reg] = S2[s][L[k].name]
  BY DEF Stored, OpensScope
<1>1. s # Len(S) + 1
  BY DEF OpensScope
<1>2. s \in 1 .. Len(S)
  BY <1>1 DEF OpensScope
<1> QED BY <1>2 DEF OpensScope, Stored

LEMMA StoredCloses ==
  ASSUME NEW L, NEW S, NEW S2, ClosesScope(S, S2), NEW regs, Stored(L, S, regs, Len(S))
  PROVE  Stored(L, S2, regs, Len(S2))
<1> SUFFICES ASSUME NEW k \in DOMAIN L, NEW s \in 1 .. Len(S) - 1,
                    L[k].name \in DOMAIN S2[s], S2[s][L[k].name] # Unset
             PROVE  regs[L[k].reg] = S2[s][L[k].name]
  BY DEF Stored, ClosesScope
<1>1. s \in 1 .. Len(S)
  BY DEF ClosesScope
<1> QED BY <1>1 DEF ClosesScope, Stored

\* The depth of an activation's scope.
LEMMA DepthBelow ==
  ASSUME NEW f, NEW B, NEW D, Here(f, B, D), NEW m \in 1 .. Len(calls)
  PROVE  D[m - 1] \in Nat /\ D[m - 1] <= Len(meaning.scopes) /\ Len(meaning.scopes) \in Nat
<1>1. /\ Stacked(calls, B, D, f) /\ Len(calls) \in Nat /\ Numbers(D) /\ m \in Nat
      /\ Len(meaning.scopes) = D[Len(calls)]
  BY HereIs DEF Here, Sound, Naming
<1>2. m - 1 \in 0 .. Len(calls) /\ Len(calls) \in 0 .. Len(calls) /\ m - 1 <= Len(calls) /\ m - 1 \in Nat
  BY <1>1
<1>3. D[m - 1] <= D[Len(calls)]
  BY <1>1, <1>2 DEF Stacked
<1> QED BY <1>1, <1>2, <1>3 DEF Numbers

LEMMA OpeningHolds ==
  ASSUME NEW f, NEW B, NEW D, Here(f, B, D), OpensScope(meaning.scopes, meaning'.scopes)
  PROVE  ScopesHold(D)
<1> SUFFICES ASSUME NEW m \in 1 .. Len(calls), Stuck(calls[m]), NEW s \in 1 .. D[m - 1]
             PROVE  meaning'.scopes[s] = meaning.scopes[s]
  BY DEF ScopesHold, ScopesKept
<1>1. D[m - 1] \in Nat /\ D[m - 1] <= Len(meaning.scopes) /\ Len(meaning.scopes) \in Nat
  BY DepthBelow
<1>2. s \in 1 .. Len(meaning.scopes)
  BY <1>1
<1> QED BY <1>2 DEF OpensScope

LEMMA ClosingHolds ==
  ASSUME NEW f, NEW B, NEW D, Here(f, B, D), ClosesScope(meaning.scopes, meaning'.scopes),
         Len(calls) > 0, calls[Len(calls)].at \in {"block", "function"}
  PROVE  ScopesHold(D)
<1> SUFFICES ASSUME NEW m \in 1 .. Len(calls), Stuck(calls[m]), NEW s \in 1 .. D[m - 1]
             PROVE  meaning'.scopes[s] = meaning.scopes[s]
  BY DEF ScopesHold, ScopesKept
<1>0. Len(calls) \in 1 .. Len(calls)
  BY HereIs
<1>1. D[m - 1] \in Nat /\ D[m - 1] <= Len(meaning.scopes) - 1 /\ Len(meaning.scopes) \in Nat
  BY <1>0, ScopeBelow
<1>2. s \in 1 .. Len(meaning.scopes) - 1
  BY <1>1
<1> QED BY <1>2 DEF ClosesScope

LEMMA BlockFollows ==
  ASSUME NEW f, NEW B, NEW D, Here(f, B, D), NEW T, NEW z, Traced(D, T, z), Compiles', Block
  PROVE  Follows'
<1> DEFINE n == Len(calls)
           fr == [at |-> "block"]
           c2 == [current EXCEPT !.scopeDepth = current.scopeDepth + 1]
           S == meaning.scopes
           S2 == Append(S, Empty)
<1>1. /\ calls' = Append(calls, fr) /\ Become(c2) /\ NoneWanted
      /\ meaning' = [meaning EXCEPT !.scopes = S2]
  BY DEF Block, Statement, Call, AskStatement, NoneWanted, Opened
<1>2. Meaningful(meaning)
  BY DEF Traced, Agrees
<1>3. SameEffects /\ meaning'.scopes = S2
  <2> HIDE DEF S2
  <2> QED BY <1>1, <1>2, ScopesMean
<1>4. /\ Compiler(current) /\ n \in Nat /\ IsSeq(S) /\ IsSeq(calls)
  BY HereIs DEF Naming
<1>5. OpensScope(S, meaning'.scopes)
  BY <1>3, <1>4, Opening
<1>6. Compiler(c2) /\ c2.locals = current.locals /\ c2.code = current.code
  BY <1>4, DepthSet DEF Compiler
<1> HIDE DEF c2
<1>7. ScopesHold(D)
  BY <1>5, OpeningHolds
<1>8. Plain(calls, calls', n)
  <2> DEFINE F2 == calls'
             g == fr
  <2>1. calls' = Append(calls, g) /\ Ordinary(g) /\ g.at \notin Declaring
    BY <1>1 DEF Ordinary, Branches, Declaring
  <2> HIDE DEF g
  <2>2. OnTop(calls, g, F2)
    BY <2>1, PushIs
  <2> HIDE DEF F2
  <2>3. Plain(calls, F2, n)
    BY <1>4, <2>1, <2>2, PlainPush
  <2> QED BY <2>3 DEF F2
<1>9. Plainly(c2, n, D)
  BY <1>1, <1>3, <1>6, <1>7, <1>8 DEF Plainly, LocalsKept
<1>10. Kept(c2, z)
  BY <1>5, <1>6, StoredOpens DEF Kept
<1>11. Evaluated(calls', wanted', c2.code, z.regs) /\ Banked(calls', wanted', c2.locals)
  BY <1>1, IdleNext
<1> QED BY <1>3, <1>6, <1>9, <1>10, <1>11, QuietStep

LEMMA CloseBlockFollows ==
  ASSUME NEW f, NEW B, NEW D, Here(f, B, D), NEW T, NEW z, Traced(D, T, z), Compiles', CloseBlock
  PROVE  Follows'
<1> DEFINE n == Len(calls)
           c2 == [current EXCEPT !.scopeDepth = current.scopeDepth - 1]
           S == meaning.scopes
           S2 == Front(S)
<1>1. /\ At = "block" /\ Done(c2) /\ Return /\ meaning' = [meaning EXCEPT !.scopes = S2]
  BY DEF CloseBlock, Closed
<1>2. Meaningful(meaning)
  BY DEF Traced, Agrees
<1>3. SameEffects /\ meaning'.scopes = S2
  <2> HIDE DEF S2
  <2> QED BY <1>1, <1>2, ScopesMean
<1>4. n > 0 /\ calls[n].at = "block" /\ n \in Nat
  BY <1>1, CallerIs
<1>5. Compiler(current)
  BY HereIs
<1>6. ClosesScope(S, meaning'.scopes)
  BY <1>3, <1>4, ScopeOpen, Closing
<1>7. Compiler(c2) /\ c2.locals = current.locals /\ c2.code = current.code
  BY <1>5, DepthSet DEF Compiler
<1>8. Become(c2) /\ NoneWanted
  BY <1>1 DEF Done, NoneWanted
<1> HIDE DEF c2
<1>9. ScopesHold(D)
  BY <1>4, <1>6, ClosingHolds
<1>10. Plain(calls, calls', n - 1)
  <2>1. Without(calls, calls')
    BY <1>1, <1>4, ReturnIs
  <2>2. Ordinary(calls[n])
    BY <1>4 DEF Ordinary, Branches
  <2> QED BY <1>4, <2>1, <2>2 DEF Plain, Without
<1>11. Plainly(c2, n - 1, D)
  BY <1>3, <1>7, <1>8, <1>9, <1>10 DEF Plainly, LocalsKept
<1>12. Kept(c2, z)
  BY <1>6, <1>7, StoredCloses DEF Kept
<1>13. Evaluated(calls', wanted', c2.code, z.regs) /\ Banked(calls', wanted', c2.locals)
  BY <1>8, IdleNext
<1> QED BY <1>3, <1>7, <1>11, <1>12, <1>13, QuietStep

----------------------------------------
(* A function begins: the machine stops in front of its closure.              *)

LEMMA FunctionFollows ==
  ASSUME NEW f, NEW B, NEW D, Here(f, B, D), NEW T, NEW z, Traced(D, T, z), Compiles',
         NEW x, Function(x)
  PROVE  Follows'
<1> DEFINE n == Len(calls)
           fr == [at |-> "function", name |-> x]
           S == meaning.scopes
           S2 == Append(S, Empty)
           F2 == calls'
<1>1. /\ wanted.is = "statement" /\ calls' = Append(calls, fr) /\ compilers' = Append(compilers, NewCompiler(2))
      /\ ~ InBranch /\ Len(compilers) = 1 /\ meaning' = [meaning EXCEPT !.scopes = S2]
  BY DEF Function, Statement, Call, Outermost, Opened
<1>2. Meaningful(meaning) /\ Agrees(z, meaning) /\ Shaped(calls) /\ Trail(calls, Main.code, T, z)
  BY DEF Traced, Agrees
<1>3. SameEffects /\ meaning'.scopes = S2
  <2> HIDE DEF S2
  <2> QED BY <1>1, <1>2, ScopesMean
<1>4. /\ n \in Nat /\ IsSeq(S) /\ IsSeq(calls) /\ Chain(compilers, f) /\ Stacked(calls, B, D, f)
      /\ Len(S) = D[n] /\ D[n] \in Nat
  <2>1. Naming(compilers, S, D, f, n) /\ n \in Nat /\ IsSeq(calls) /\ Chain(compilers, f) /\ D[n] \in Nat
    BY HereIs
  <2>2. Stacked(calls, B, D, f)
    BY DEF Here, Sound
  <2>3. IsSeq(S) /\ Len(S) = D[n]
    BY <2>1 DEF Naming
  <2> QED BY <2>1, <2>2, <2>3
<1>5. f = 0
  <2>1. Len(compilers) = (IF f = 0 THEN 1 ELSE 2)
    BY <1>4 DEF Chain
  <2>2. Len(compilers) = 1
    BY <1>1
  <2> QED BY ONLY <2>1, <2>2
<1>6. Main' = Main
  <2>1. IsSeq(compilers)
    BY <1>4 DEF Chain
  <2> DEFINE C2 == compilers'
  <2>2. C2 = Append(compilers, NewCompiler(2))
    BY <1>1
  <2> HIDE DEF C2
  <2>3. C2[1] = compilers[1]
    BY <1>1, <2>1, <2>2, AppendIs
  <2> QED BY <2>3 DEF Main, C2
<1>7. OpensScope(S, meaning'.scopes)
  BY <1>3, <1>4, Opening
<1>8. fr.at = "function"
  OBVIOUS
<1>9. OnTop(calls, fr, calls')
  <2> DEFINE g == fr
  <2>1. calls' = Append(calls, g)
    BY <1>1
  <2> HIDE DEF g
  <2>2. OnTop(calls, g, calls')
    BY <2>1, PushIs
  <2> QED BY <2>2 DEF g
<1> HIDE DEF fr, S2
<1>10. /\ Continues(calls, calls', n) /\ Len(calls') = n + 1 /\ calls'[n + 1] = fr
       /\ \A i \in 1 .. n : calls'[i] = calls[i]
  BY <1>9 DEF OnTop, Continues
<1>11. ShapedAt(calls', n + 1)
  <2>1. n = 0 \/ (n > 0 /\ calls[n].at \in {"block", "function"})
    BY <1>1, StatementTop
  <2>2. n > 0 => n \in 1 .. n /\ calls'[n] = calls[n] /\ calls[n].at # "function"
    <3> SUFFICES ASSUME n > 0 PROVE n \in 1 .. n /\ calls'[n] = calls[n] /\ calls[n].at # "function"
      OBVIOUS
    <3>1. n \in 1 .. n
      BY <1>4
    <3>2. Fits(calls, B, D, f, n)
      BY <1>4, <3>1 DEF Stacked
    <3> QED BY <1>5, <1>10, <3>1, <3>2 DEF Fits
  <2>3. n + 1 - 1 = n
    BY <1>4
  <2> QED BY <1>4, <1>8, <1>10, <2>1, <2>2, <2>3 DEF ShapedAt
<1>12. Shaped(calls')
  BY <1>2, <1>4, <1>10, <1>11, ShapedStays
<1>13. JumpersStay(calls, calls')
  <2> SUFFICES ASSUME NEW i \in 1 .. n + 1, Jumper(calls', i)
               PROVE  Jumper(calls, i) /\ calls'[i] = calls[i]
    BY <1>10 DEF JumpersStay
  <2>1. i # n + 1
    BY <1>8, <1>10 DEF Jumper, Branches
  <2>2. i \in 1 .. n /\ \A j \in 1 .. i : j \in 1 .. n
    BY <1>4, <2>1
  <2> QED BY <1>10, <2>2 DEF Jumper
<1>14. Trail(calls', Main'.code, T, z)
  <2>1. IsSeq(Main.code)
    BY <1>2 DEF Trail
  <2>2. Extends(Main.code, Main'.code)
    BY <1>6, <2>1, ExtendsIs
  <2> QED BY <1>2, <1>13, <2>2, TrailStays
<1>15. LocalsKept(Main.locals, Main'.locals, S)
  BY <1>6 DEF LocalsKept
<1>16. CASE Live(calls)
  <2>1. PICK f2, B2, D2 : Here(f2, B2, D2)'
    BY DEF Compiles, Good, Here
  <2>2. D2[n] = D[n]
    <3>1. Stacked(calls', B2, D2, f2)
      BY <2>1 DEF Here, Sound
    <3>2. n <= Len(calls) /\ n <= Len(calls') /\ n \in 0 .. n
      BY <1>4, <1>10
    <3>3. \A i \in 0 .. n : D2[i] = D[i]
      <4> HIDE DEF n
      <4> QED BY <1>4, <1>10, <3>1, <3>2, DepthsAgree
    <3> QED BY <3>2, <3>3
  <2>3. LiveAt(Main, calls, wanted, S, z)
    BY <1>16, LiveHere
  <2>4. Stored(Main'.locals, meaning'.scopes, z.regs, D2[n])
    <3> DEFINE e == D[n]
    <3>1. Stored(Main.locals, S, z.regs, e)
      BY <1>4, <2>3 DEF LiveAt
    <3>2. ScopesKept(S, meaning'.scopes, e)
      BY <1>4, <1>7 DEF ScopesKept, OpensScope
    <3>3. e \in Nat /\ e <= Len(S)
      BY <1>4
    <3> HIDE DEF e
    <3>4. Stored(Main'.locals, meaning'.scopes, z.regs, e)
      BY <1>4, <1>15, <3>1, <3>2, <3>3, StoredStays
    <3> QED BY <2>2, <3>4 DEF e
  <2>5. PausedAt(Main', calls', meaning'.scopes, z, n + 1, D2)
    <3>1. n + 1 \in 1 .. Len(calls') /\ n + 1 - 1 = n
      BY <1>4, <1>10
    <3>2. \A i \in 1 .. n : ~ Stuck(calls'[i])
      BY <1>10, <1>16 DEF Live
    <3>3. Stuck(calls'[n + 1])
      BY <1>8, <1>10 DEF Stuck
    <3>4. StopsAt(calls'[n + 1], Main'.code, z)
      BY <1>6, <1>8, <1>10, <2>3 DEF LiveAt, StopsAt
    <3> QED BY <2>4, <3>1, <3>2, <3>3, <3>4 DEF PausedAt
  <2>6. Traced(D2, T, z)'
    <3>1. Agrees(z, meaning')
      BY <1>2, <1>3, SameAgrees
    <3>2. n + 1 \in 1 .. Len(calls')
      BY <1>4, <1>10
    <3> QED BY <1>12, <1>14, <2>5, <3>1, <3>2 DEF Traced, Stands
  <2> QED BY <2>1, <2>6 DEF Follows
<1>17. CASE ~ Live(calls)
  <2>1. PICK m \in 1 .. Len(calls) : PausedAt(Main, calls, S, z, m, D)
    BY <1>17 DEF Traced, Stands, LiveAt
  <2>2. m <= n /\ D[m - 1] \in Nat /\ D[m - 1] <= Len(S) /\ Len(S) \in Nat
    BY <1>4, DepthBelow
  <2>3. ScopesKept(S, meaning'.scopes, D[m - 1])
    <3>1. \A s \in 1 .. D[m - 1] : s \in 1 .. Len(S)
      BY <2>2
    <3> QED BY <1>7, <3>1 DEF OpensScope, ScopesKept
  <2> QED BY <1>3, <1>6, <1>10, <1>12, <1>14, <1>15, <2>1, <2>2, <2>3, PausedStep
<1> QED BY <1>16, <1>17

----------------------------------------
(* Branches.                                                                  *)

\* The code of the program is that of the current compiler, or stays.
LEMMA MainIs ==
  ASSUME NEW f, NEW B, NEW D, Here(f, B, D), NEW c2, Become(c2), Compiler(c2)
  PROVE  /\ f = 0 => Main = current /\ Main' = c2
         /\ f # 0 => Main' = Main /\ f \in 1 .. Len(calls) /\ calls[f].at = "function"
         /\ \A m \in 1 .. Len(calls) : calls[m].at = "function" => f # 0
<1>1. Becomes(compilers, f, c2, compilers') /\ Chain(compilers, f) /\ f \in Nat
  BY BecomeIs, HereIs
<1>2. Stacked(calls, B, D, f)
  BY DEF Here, Sound
<1>3. ASSUME f = 0 PROVE Main = current /\ Main' = c2
  <2>1. Len(compilers) = 1
    BY <1>1, <1>3 DEF Chain
  <2> QED BY <1>1, <2>1 DEF Main, Becomes, current, Last
<1>4. ASSUME f # 0 PROVE Main' = Main /\ f \in 1 .. Len(calls) /\ calls[f].at = "function"
  <2>1. f > 0
    BY <1>1, <1>4
  <2>2. Main' = Main
    BY <1>1, <2>1 DEF Main, Becomes
  <2> QED BY <1>2, <1>4, <2>2, FunctionDepth
<1>5. ASSUME NEW m \in 1 .. Len(calls), calls[m].at = "function" PROVE f # 0
  <2>1. Fits(calls, B, D, f, m)
    BY <1>2 DEF Stacked
  <2> QED BY <1>5, <2>1 DEF Fits
<1> QED BY <1>3, <1>4, <1>5

\* A jump ends the code, for the branch on top.
NewJump(fr, code2) ==
  /\ fr.at \in Branches /\ fr.jump = Len(code2) /\ fr.taken \in BOOLEAN
  /\ code2[Len(code2)] = JumpOf(fr.at, fr.reg)

LEMMA JumpAdded ==
  ASSUME NEW F, IsSeq(F), NEW code, NEW T, NEW z, Trail(F, code, T, z),
         NEW code2, IsSeq(code2), Len(code2) = Len(code) + 1, Ran(code2, T, z),
         NEW k, NEW F2, Continues(F, F2, k), Len(F2) = k + 1, NewJump(F2[k + 1], code2),
         \A i \in 1 .. k : Jumper(F, i) => code2[F[i].jump] = code[F[i].jump]
  PROVE  Trail(F2, code2, T, z)
<1>0. /\ Len(F) \in Nat /\ k \in 0 .. Len(F) /\ Len(code) \in Nat
      /\ \A i \in 1 .. k : F2[i] = F[i]
  BY SeqFacts DEF Continues, Trail
<1> DEFINE fr == F2[k + 1]
<1>1. /\ fr.at \in Branches /\ fr.jump = Len(code) + 1 /\ fr.taken \in BOOLEAN
      /\ code2[Len(code) + 1] = JumpOf(fr.at, fr.reg)
  BY DEF NewJump
<1> HIDE DEF fr
<1>2. ASSUME NEW i \in 1 .. k, Jumper(F2, i)
      PROVE  Jumper(F, i) /\ F2[i] = F[i] /\ JumpIs(F[i], code, T, z) /\ JumpIs(F[i], code2, T, z)
             /\ F[i].jump \in 1 .. Len(code)
  <2>1. \A j \in 1 .. i : j \in 1 .. k
    BY <1>0
  <2>2. Jumper(F, i) /\ F2[i] = F[i]
    BY <1>0, <1>2, <2>1 DEF Jumper
  <2>3. JumpIs(F[i], code, T, z)
    BY <2>2 DEF Trail, Jumps, Jumper
  <2>4. code2[F[i].jump] = code[F[i].jump]
    BY <2>2
  <2>5. F[i].jump \in 1 .. Len(code) /\ F[i].jump \in 1 .. Len(code2)
    BY <1>0, <2>3 DEF JumpIs
  <2> QED BY <2>2, <2>3, <2>4, <2>5 DEF JumpIs
<1>3. JumpIs(fr, code2, T, z)
  <2>1. ASSUME NEW s \in T, s # z PROVE s.ip # fr.jump
    <3>1. s.ip \in 1 .. Len(code)
      BY <2>1 DEF Trail, Ran
    <3> QED BY <1>0, <1>1, <3>1
  <2>2. fr.jump \in 1 .. Len(code2)
    BY <1>0, <1>1
  <2> QED BY <1>1, <2>1, <2>2 DEF JumpIs
<1>4. ASSUME NEW i \in 1 .. Len(F2) PROVE i \in 1 .. k \/ i = k + 1
  BY <1>0
<1>5. Jumps(F2, code2, T, z)
  <2> SUFFICES ASSUME NEW i \in 1 .. Len(F2), Jumper(F2, i) PROVE JumpIs(F2[i], code2, T, z)
    BY DEF Jumps
  <2> QED BY <1>2, <1>3, <1>4 DEF fr
<1>6. Rising(F2)
  <2> SUFFICES ASSUME NEW i \in 1 .. Len(F2), NEW j \in 1 .. Len(F2), i < j, Jumper(F2, i), Jumper(F2, j)
               PROVE  F2[i].jump < F2[j].jump
    BY DEF Rising
  <2>1. i \in 1 .. k /\ i \in 1 .. Len(F)
    BY <1>0
  <2>2. CASE j = k + 1
    <3>1. F2[i].jump \in 1 .. Len(code) /\ F2[j].jump = Len(code) + 1
      BY <1>1, <1>2, <2>1, <2>2 DEF fr
    <3> QED BY <1>0, <3>1
  <2>3. CASE j \in 1 .. k
    <3>1. Jumper(F, i) /\ F2[i] = F[i] /\ Jumper(F, j) /\ F2[j] = F[j]
      BY <1>2, <2>1, <2>3
    <3>2. j \in 1 .. Len(F)
      BY <1>0, <2>3
    <3> QED BY <2>1, <3>1, <3>2 DEF Trail, Rising
  <2> QED BY <1>4, <2>2, <2>3
<1> QED BY <1>5, <1>6 DEF Trail

\* The machine goes on from a jump at which it stands.
LEMMA Passes ==
  ASSUME NEW F, NEW code, NEW T, NEW z, Trail(F, code, T, z), z.ip \in 1 .. Len(code),
         code[z.ip][1] # "RETURN", NEW z2, z2 = Stepped(code[z.ip], z), VMState(z2),
         z2.ip > z.ip, z2.ip <= Len(code) + 1,
         \A i \in 1 .. Len(F) : Jumper(F, i) /\ F[i].jump = z.ip =>
            F[i].at = "then" /\ ~ IsFalsey(z.regs[F[i].reg])
  PROVE  Trail(F, code, T \union {z2}, z2)
<1>1. Ran(code, T \union {z2}, z2)
  BY RanOn DEF Trail
<1>2. ASSUME NEW i \in 1 .. Len(F), Jumper(F, i) PROVE JumpIs(F[i], code, T \union {z2}, z2)
  <2>1. JumpIs(F[i], code, T, z)
    BY <1>2 DEF Trail, Jumps
  <2>2. ASSUME NEW s \in T \union {z2}, s # z2, s.ip = F[i].jump
        PROVE  F[i].at = "then" /\ ~ IsFalsey(s.regs[F[i].reg])
    <3>1. CASE s = z
      BY <1>2, <2>2, <3>1
    <3>2. CASE s # z
      BY <2>1, <2>2, <3>2 DEF JumpIs
    <3> QED BY <3>1, <3>2
  <2> QED BY <2>1, <2>2 DEF JumpIs
<1> QED BY <1>1, <1>2 DEF Trail, Jumps

LEMMA GoesOnIs ==
  ASSUME NEW s, VMState(s), NEW d \in Nat
  PROVE  /\ VMState(GoesOn(s, d)) /\ GoesOn(s, d).ip = s.ip + 1 + d /\ GoesOn(s, d).regs = s.regs
         /\ SameShown(s, GoesOn(s, d))
BY DEF VMState, GoesOn, SameShown

\* In a function, the code of the program stays, and so do the program's branches.
LEMMA FunctionKeeps ==
  ASSUME NEW f, NEW B, NEW D, Here(f, B, D), f # 0, NEW T, NEW z, Traced(D, T, z),
         NEW k, k = Len(calls) - 1, Continues(calls, calls', k), calls[Len(calls)].at # "function",
         NEW c2, Become(c2), Compiler(c2)
  PROVE  Trail(calls', Main'.code, T, z)
<1>1. Main' = Main /\ f \in 1 .. Len(calls) /\ calls[f].at = "function"
  BY MainIs
<1>2. Len(calls) \in Nat /\ Len(calls') \in {k, k + 1} /\ \A i \in 1 .. k : calls'[i] = calls[i]
  BY HereIs DEF Continues
<1>3. f \in 1 .. k /\ calls'[f].at = "function"
  BY <1>1, <1>2
<1>4. JumpersStay(calls, calls')
  <2> SUFFICES ASSUME NEW i \in 1 .. Len(calls'), Jumper(calls', i)
               PROVE  Jumper(calls, i) /\ calls'[i] = calls[i]
    BY DEF JumpersStay
  <2>1. ~ (f \in 1 .. i)
    BY <1>3 DEF Jumper
  <2>2. i \in 1 .. k /\ \A j \in 1 .. i : j \in 1 .. k
    BY <1>2, <1>3, <2>1
  <2>3. i \in 1 .. Len(calls)
    BY <1>2, <2>2
  <2> QED BY <1>2, <2>2, <2>3 DEF Jumper
<1>5. Trail(calls, Main.code, T, z) /\ IsSeq(Main.code)
  BY DEF Traced, Trail
<1>6. Extends(Main.code, Main'.code)
  BY <1>1, <1>5, ExtendsIs
<1> QED BY <1>4, <1>5, <1>6, TrailStays

\* A branch begins or ends above the activation at which the machine stands.
LEMMA PausedBranch ==
  ASSUME NEW f, NEW B, NEW D, Here(f, B, D), NEW T, NEW z, Traced(D, T, z), Compiles',
         NEW m \in 1 .. Len(calls), PausedAt(Main, calls, meaning.scopes, z, m, D),
         NEW k, Continues(calls, calls', k), m <= k, Shaped(calls'), meaning' = meaning,
         NEW c2, Become(c2), Compiler(c2), SameNames(current, c2),
         Trail(calls', Main'.code, T, z)
  PROVE  Follows'
<1>1. /\ f = 0 => Main = current /\ Main' = c2
      /\ f # 0 => Main' = Main
      /\ calls[m].at = "function" => f # 0
  BY MainIs
<1>2. LocalsKept(Main.locals, Main'.locals, meaning.scopes)
  BY <1>1 DEF LocalsKept, SameNames
<1>3. calls[m].at = "function" => Main'.code = Main.code
  BY <1>1
<1>4. SameEffects /\ ScopesKept(meaning.scopes, meaning'.scopes, D[m - 1])
  BY DEF SameEffects, ScopesKept
<1> QED BY <1>2, <1>3, <1>4, PausedStep

\* All code has been run.
LEMMA NowLive ==
  ASSUME NEW B, NEW D, Here(0, B, D), Compiles', NoneWanted, NEW c2, Become(c2), Compiler(c2),
         NEW T2, NEW z2, Trail(calls', c2.code, T2, z2), Agrees(z2, meaning'), Shaped(calls'),
         Live(calls'), z2.ip = Len(c2.code) + 1,
         Stored(c2.locals, meaning'.scopes, z2.regs, Len(meaning'.scopes))
  PROVE  Follows'
<1>1. PICK f2, B2, D2 : Here(f2, B2, D2)'
  BY DEF Compiles, Good, Here
<1>2. Main' = c2
  BY MainIs
<1>3. Evaluated(calls', wanted', c2.code, z2.regs) /\ Banked(calls', wanted', c2.locals)
  BY IdleNext
<1>4. LiveAt(c2, calls', wanted', meaning'.scopes, z2)
  BY <1>3 DEF LiveAt
<1>5. Traced(D2, T2, z2)'
  BY <1>2, <1>4 DEF Traced, Stands
<1> QED BY <1>1, <1>5 DEF Follows

\* The machine stands at the jump of the branch on top.
LEMMA NowPaused ==
  ASSUME NEW B, NEW D, Here(0, B, D), Compiles', NEW c2, Become(c2), Compiler(c2), meaning' = meaning,
         NEW T, NEW z, Trail(calls', c2.code, T, z), Agrees(z, meaning), Shaped(calls'),
         NEW k, k = Len(calls) - 1, Continues(calls, calls', k), Len(calls') = k + 1,
         \A i \in 1 .. k : ~ Stuck(calls[i]),
         Stuck(calls'[k + 1]), StopsAt(calls'[k + 1], c2.code, z),
         Stored(c2.locals, meaning.scopes, z.regs, D[k]), k \in Nat
  PROVE  Follows'
<1>1. PICK f2, B2, D2 : Here(f2, B2, D2)'
  BY DEF Compiles, Good, Here
<1>2. Main' = c2
  BY MainIs
<1>3. \A i \in 1 .. k : calls'[i] = calls[i]
  BY DEF Continues
<1>4. D2[k] = D[k]
  <2>1. Stacked(calls', B2, D2, f2)
    BY <1>1 DEF Here, Sound
  <2>2. Stacked(calls, B, D, 0)
    BY DEF Here, Sound
  <2>3. k <= Len(calls) /\ k <= Len(calls') /\ k \in 0 .. k
    BY HereIs
  <2>4. k \in Nat
    OBVIOUS
  <2>5. \A i \in 0 .. k : D2[i] = D[i]
    BY ONLY <1>3, <2>1, <2>2, <2>3, <2>4, DepthsAgree
  <2> QED BY <2>3, <2>5
<1>5. PausedAt(c2, calls', meaning'.scopes, z, k + 1, D2)
  <2>1. k + 1 \in 1 .. Len(calls') /\ k + 1 - 1 = k
    OBVIOUS
  <2> QED BY <1>3, <1>4, <2>1 DEF PausedAt
<1>6. Traced(D2, T, z)'
  <2>1. k + 1 \in 1 .. Len(calls')
    OBVIOUS
  <2> QED BY <1>2, <1>5, <2>1 DEF Traced, Stands
<1> QED BY <1>1, <1>6 DEF Follows

\* A branch is as deep as what is around it.
LEMMA BranchDepth ==
  ASSUME NEW f, NEW B, NEW D, Here(f, B, D), Len(calls) > 0, calls[Len(calls)].at \notin {"block", "function"}
  PROVE  D[Len(calls) - 1] = Len(meaning.scopes)
<1> DEFINE n == Len(calls)
<1>1. n \in 1 .. n /\ n - 1 \in Nat
  BY HereIs
<1>2. Stacked(calls, B, D, f) /\ Numbers(D)
  BY DEF Here, Sound, Stacked
<1>3. D[n] = D[n - 1] /\ D[n - 1] \in Nat
  <2>1. Fits(calls, B, D, f, n)
    BY <1>1, <1>2 DEF Stacked
  <2> QED BY <1>1, <1>2, <2>1 DEF Fits, Opens, Numbers
<1>4. Len(meaning.scopes) = D[n]
  BY HereIs DEF Naming
<1> QED BY <1>3, <1>4

LEMMA BranchShaped ==
  ASSUME NEW F, IsSeq(F), Shaped(F), NEW k, NEW F2, Continues(F, F2, k), Len(F2) = k + 1,
         F2[k + 1].at \notin Declaring
  PROVE  Shaped(F2)
<1>1. ShapedAt(F2, k + 1)
  BY DEF ShapedAt, Declaring
<1> QED BY <1>1, ShapedStays

LEMMA AfterConditionFollows ==
  ASSUME NEW f, NEW B, NEW D, Here(f, B, D), NEW T, NEW z, Traced(D, T, z), Compiles',
         AfterCondition
  PROVE  Follows'
<1> DEFINE n == Len(calls)
           k == Len(calls) - 1
           inst == <<"JUMP_IF_FALSE", wanted.reg, 0>>
           fr == [at |-> "then", reg |-> wanted.reg, jump |-> Len(current.code) + 1,
                  taken |-> ~IsFalsey(wanted.val)]
           c2 == Emitted(current, inst)
           S == meaning.scopes
<1>1. /\ Given("condition") /\ calls' = Append(Front(calls), fr) /\ Become(c2) /\ NoneWanted
      /\ meaning' = meaning
  BY DEF AfterCondition, AskStatement, NoneWanted
<1>2. /\ n > 0 /\ n \in Nat /\ calls[n].at = "condition" /\ Compiler(current)
      /\ current = Last(compilers)
  BY <1>1, GivenIs
<1>3. Compiler(c2) /\ SameNames(current, c2) /\ c2.code = Append(current.code, inst)
  BY <1>2, EmittedIs
<1>4. /\ fr.at = "then" /\ fr.reg = wanted.reg /\ fr.jump = Len(current.code) + 1
      /\ fr.taken \in BOOLEAN /\ (fr.taken <=> ~ IsFalsey(wanted.val))
  OBVIOUS
<1>5. inst[1] = "JUMP_IF_FALSE" /\ inst = JumpOf("then", wanted.reg) /\ inst[2] = wanted.reg /\ inst[3] = 0
  BY DEF JumpOf
<1> HIDE DEF fr, c2, inst
<1>6. Continues(calls, calls', k) /\ Len(calls') = k + 1 /\ calls'[k + 1] = fr /\ k \in Nat
  BY <1>1, <1>2, SwapIs DEF Instead
<1>7. /\ IsSeq(calls) /\ Shaped(calls) /\ Trail(calls, Main.code, T, z) /\ Agrees(z, meaning)
  BY HereIs DEF Traced
<1>8. Shaped(calls')
  BY <1>4, <1>6, <1>7, BranchShaped DEF Declaring
<1>9. ASSUME f = 0 PROVE Trail(calls', c2.code, T, z) /\ IsSeq(c2.code) /\ Len(c2.code) = Len(current.code) + 1
                         /\ c2.code[Len(c2.code)] = inst /\ Len(current.code) \in Nat
  <2>1. Main = current
    BY <1>1, <1>3, <1>9, MainIs
  <2>2. IsSeq(current.code)
    BY <1>2 DEF Compiler
  <2>3. /\ IsSeq(c2.code) /\ Len(c2.code) = Len(current.code) + 1 /\ Len(current.code) \in Nat
        /\ c2.code[Len(c2.code)] = inst /\ \A i \in 1 .. Len(current.code) : c2.code[i] = current.code[i]
    BY <1>3, <2>2, AppendIs, SeqFacts
  <2>4. Extends(current.code, c2.code)
    BY <1>3, <2>2, ExtendsIs
  <2>5. Ran(c2.code, T, z)
    <3>1. Ran(current.code, T, z)
      BY <1>7, <2>1 DEF Trail
    <3> QED BY <2>4, <3>1, RanStays DEF Extends
  <2>6. NewJump(calls'[k + 1], c2.code)
    BY <1>4, <1>5, <1>6, <2>3 DEF NewJump, Branches
  <2>7. ASSUME NEW i \in 1 .. k, Jumper(calls, i) PROVE c2.code[calls[i].jump] = current.code[calls[i].jump]
    <3>1. calls[i].jump \in 1 .. Len(current.code)
      BY <1>7, <2>1, <2>7 DEF Trail, Jumps, JumpIs, Jumper
    <3> QED BY <2>3, <3>1
  <2>8. Trail(calls, current.code, T, z)
    BY <1>7, <2>1
  <2> DEFINE F2 == calls'
             code2 == c2.code
  <2>9. /\ Continues(calls, F2, k) /\ Len(F2) = k + 1 /\ NewJump(F2[k + 1], code2) /\ IsSeq(code2)
        /\ Len(code2) = Len(current.code) + 1 /\ Ran(code2, T, z)
    BY <1>6, <2>3, <2>5, <2>6
  <2>10. \A i \in 1 .. k : Jumper(calls, i) => code2[calls[i].jump] = current.code[calls[i].jump]
    BY <2>7
  <2> HIDE DEF F2, code2, k
  <2>11. Trail(F2, code2, T, z)
    BY <1>7, <2>8, <2>9, <2>10, JumpAdded
  <2> QED BY <2>3, <2>11 DEF F2, code2
<1>10. CASE Live(calls)
  <2>1. /\ f = 0 /\ Main = current /\ LiveAt(current, calls, wanted, S, z) /\ VMState(z)
        /\ z.ip = Len(current.code) + 1
    BY <1>10, LiveHere
  <2>2. /\ Trail(calls', c2.code, T, z) /\ IsSeq(c2.code) /\ Len(c2.code) = Len(current.code) + 1
        /\ c2.code[Len(c2.code)] = inst /\ Len(current.code) \in Nat
    BY <1>9, <2>1
  <2>3. wanted.val = z.regs[wanted.reg]
    BY <1>1, <2>1, GivenLive
  <2>4. Here(0, B, D)
    BY <2>1
  <2>5. Stored(c2.locals, S, z.regs, Len(S))
    BY <1>3, <2>1 DEF LiveAt, SameNames
  <2>6. \A i \in 1 .. k : ~ Stuck(calls[i]) /\ calls'[i] = calls[i]
    <3>1. \A i \in 1 .. k : i \in 1 .. n
      BY <1>2
    <3> QED BY <1>6, <1>10, <3>1 DEF Live, Continues
  <2>7. CASE fr.taken
    <3> DEFINE z2 == GoesOn(z, 0)
    <3>1. Stepped(inst, z) = z2
      BY <1>5 DEF Stepped
    <3>2. VMState(z2) /\ z2.ip = z.ip + 1 + 0 /\ z2.regs = z.regs /\ SameShown(z, z2)
      BY <2>1, GoesOnIs
    <3> HIDE DEF z2
    <3>3. z.ip \in 1 .. Len(c2.code) /\ c2.code[z.ip] = inst /\ z2.ip = Len(c2.code) + 1 /\ z2.ip > z.ip
          /\ z2.ip <= Len(c2.code) + 1
      BY <2>1, <2>2, <3>2
    <3>4. ASSUME NEW i \in 1 .. Len(calls'), Jumper(calls', i), calls'[i].jump = z.ip
          PROVE  calls'[i].at = "then" /\ ~ IsFalsey(z.regs[calls'[i].reg])
      <4>1. CASE i = k + 1
        BY <1>4, <1>6, <2>3, <2>7, <4>1
      <4>2. CASE i # k + 1
        <5>1. i \in 1 .. k /\ \A j \in 1 .. i : j \in 1 .. k
          BY <1>6, <4>2
        <5>2. Jumper(calls, i) /\ calls'[i] = calls[i]
          <6>1. i \in 1 .. n
            BY <1>2, <5>1
          <6> QED BY <2>6, <3>4, <5>1, <6>1 DEF Jumper
        <5>3. calls[i].jump \in 1 .. Len(current.code)
          BY <1>7, <2>1, <5>2 DEF Trail, Jumps, JumpIs, Jumper
        <5> QED BY <2>1, <2>2, <3>4, <5>2, <5>3
      <4> QED BY <4>1, <4>2
    <3>5. Trail(calls', c2.code, T \union {z2}, z2)
      <4>1. c2.code[z.ip][1] # "RETURN" /\ z2 = Stepped(c2.code[z.ip], z)
        BY <1>5, <3>1, <3>3
      <4> QED BY <2>2, <3>2, <3>3, <3>4, <4>1, Passes
    <3>6. Live(calls')
      <4>1. ~ Stuck(fr)
        BY <1>4, <2>7 DEF Stuck
      <4>2. \A i \in 1 .. Len(calls') : i = k + 1 \/ i \in 1 .. k
        BY <1>6
      <4> QED BY <1>6, <2>6, <4>1, <4>2 DEF Live
    <3>7. Agrees(z2, meaning')
      <4>1. SameEffects
        BY <1>1, SameMeans
      <4> QED BY <1>7, <3>2, <4>1, AgreesQuiet
    <3>8. Stored(c2.locals, meaning'.scopes, z2.regs, Len(meaning'.scopes))
      BY <1>1, <2>5, <3>2
    <3> QED BY <1>1, <1>3, <1>8, <2>4, <3>3, <3>5, <3>6, <3>7, <3>8, NowLive
  <2>8. CASE ~ fr.taken
    <3>1. Stuck(calls'[k + 1])
      BY <1>4, <1>6, <2>8 DEF Stuck
    <3>2. StopsAt(calls'[k + 1], c2.code, z)
      BY <1>4, <1>6, <2>1, <2>3, <2>8 DEF StopsAt
    <3>3. Stored(c2.locals, meaning.scopes, z.regs, D[k])
      <4>1. D[k] = Len(meaning.scopes)
        BY <1>2, BranchDepth
      <4> QED BY <2>5, <4>1
    <3> HIDE DEF n
    <3> QED BY <1>1, <1>3, <1>6, <1>7, <1>8, <2>2, <2>4, <2>6, <3>1, <3>2, <3>3, NowPaused
  <2> QED BY <2>7, <2>8
<1>11. CASE ~ Live(calls)
  <2>1. PICK m \in 1 .. Len(calls) : PausedAt(Main, calls, S, z, m, D)
    BY <1>11 DEF Traced, Stands, LiveAt
  <2>2. m <= k
    <3>1. m # n
      BY <1>2, <2>1 DEF PausedAt, Stuck
    <3> QED BY <1>2, <3>1
  <2>3. Trail(calls', Main'.code, T, z)
    <3>1. CASE f = 0
      BY <1>1, <1>3, <1>9, <3>1, MainIs
    <3>2. CASE f # 0
      BY <1>1, <1>2, <1>3, <1>6, <3>2, FunctionKeeps
    <3> QED BY <3>1, <3>2
  <2> HIDE DEF k
  <2> QED BY <1>1, <1>3, <1>6, <1>8, <2>1, <2>2, <2>3, PausedBranch
<1> QED BY <1>10, <1>11

\* What patchJump does to the code.
Patched(code, offset, d) == [code EXCEPT ![offset][3] = d]

LEMMA PatchedCode ==
  ASSUME NEW code, IsSeq(code), NEW at \in Branches, NEW reg, NEW offset \in 1 .. Len(code),
         code[offset] = JumpOf(at, reg), NEW d, NEW code2, code2 = Patched(code, offset, d)
  PROVE  /\ IsSeq(code2) /\ Len(code2) = Len(code) /\ Len(code) \in Nat
         /\ \A i \in 1 .. Len(code) : i # offset => code2[i] = code[i]
         /\ code2[offset] = <<JumpOf(at, reg)[1], JumpOf(at, reg)[2], d>>
<1>1. code \in [1 .. Len(code) -> {code[i] : i \in DOMAIN code}] /\ Len(code) \in Nat
  BY LenProperties DEF IsSeq
<1>2. code2 = [i \in 1 .. Len(code) |-> code2[i]]
  BY <1>1 DEF Patched
<1>3. IsSeq(code2) /\ Len(code2) = Len(code)
  <2> DEFINE n == Len(code)
  <2>1. n \in Nat /\ code2 = [i \in 1 .. n |-> code2[i]]
    BY <1>1, <1>2
  <2> HIDE DEF n
  <2> QED BY ONLY <2>1, FunctionIs DEF n
<1>4. /\ \A i \in 1 .. Len(code) : i # offset => code2[i] = code[i]
      /\ code2[offset] = [code[offset] EXCEPT ![3] = d]
  BY <1>1 DEF Patched
<1>5. [JumpOf(at, reg) EXCEPT ![3] = d] = <<JumpOf(at, reg)[1], JumpOf(at, reg)[2], d>>
  BY DEF JumpOf
<1> QED BY <1>1, <1>3, <1>4, <1>5

\* A branch is complete: its jump is patched.
LEMMA TrailPatched ==
  ASSUME NEW F, NEW code, NEW T, NEW z, Trail(F, code, T, z),
         NEW code2, IsSeq(code2), Len(code2) = Len(code), Ran(code2, T, z),
         NEW k, NEW F2, Continues(F, F2, k), Len(F2) = k,
         \A i \in 1 .. k : Jumper(F, i) => code2[F[i].jump] = code[F[i].jump]
  PROVE  Trail(F2, code2, T, z)
<1>1. ASSUME NEW i \in 1 .. Len(F2), Jumper(F2, i)
      PROVE  Jumper(F, i) /\ F2[i] = F[i]
  <2>1. \A j \in 1 .. i : j \in 1 .. k
    BY DEF Continues
  <2>2. i \in 1 .. Len(F)
    BY DEF Continues
  <2> QED BY <1>1, <2>1, <2>2 DEF Jumper, Continues
<1>2. ASSUME NEW i \in 1 .. Len(F2), Jumper(F2, i) PROVE JumpIs(F2[i], code2, T, z)
  <2>1. Jumper(F, i) /\ F2[i] = F[i]
    BY <1>1, <1>2
  <2>2. JumpIs(F[i], code, T, z)
    BY <2>1 DEF Trail, Jumps, Jumper
  <2>3. code2[F[i].jump] = code[F[i].jump]
    BY <2>1
  <2> QED BY <2>1, <2>2, <2>3 DEF JumpIs
<1>3. Rising(F2)
  <2>1. JumpersStay(F, F2)
    BY <1>1 DEF JumpersStay
  <2> QED BY <2>1, RisingStays DEF Trail
<1> QED BY <1>2, <1>3 DEF Trail, Jumps

\* If the machine stands at the activation on top, no function is being compiled.
LEMMA TopIsMain ==
  ASSUME NEW f, NEW B, NEW D, Here(f, B, D), NEW S, NEW z,
         PausedAt(Main, calls, S, z, Len(calls), D), calls[Len(calls)].at # "function"
  PROVE  f = 0
<1> SUFFICES ASSUME f # 0 PROVE FALSE
  OBVIOUS
<1>1. Stacked(calls, B, D, f)
  BY DEF Here, Sound
<1>2. f \in 1 .. Len(calls) /\ Len(calls) \in Nat /\ calls[f].at = "function"
  BY <1>1, FunctionDepth
<1>3. f # Len(calls)
  BY <1>2
<1>4. f \in 1 .. Len(calls) - 1
  BY <1>2, <1>3
<1> QED BY <1>2, <1>4 DEF PausedAt, Stuck

\* The jump of the branch on top, and those of the branches around it.
LEMMA TopJump ==
  ASSUME NEW B, NEW D, Here(0, B, D), NEW code, NEW T, NEW z, Trail(calls, code, T, z),
         Len(calls) > 0, calls[Len(calls)].at \in Branches
  PROVE  /\ JumpIs(calls[Len(calls)], code, T, z)
         /\ \A i \in 1 .. Len(calls) - 1 : Jumper(calls, i) =>
               calls[i].jump < calls[Len(calls)].jump /\ calls[i].jump \in 1 .. Len(code)
<1> DEFINE n == Len(calls)
<1>1. n \in 1 .. n /\ n \in Nat
  BY HereIs
<1>2. Stacked(calls, B, D, 0)
  BY DEF Here, Sound
<1>3. \A j \in 1 .. n : calls[j].at # "function"
  <2> SUFFICES ASSUME NEW j \in 1 .. n PROVE calls[j].at # "function"
    OBVIOUS
  <2>1. Fits(calls, B, D, 0, j)
    BY <1>2 DEF Stacked
  <2> QED BY <2>1 DEF Fits
<1>4. Jumper(calls, n)
  BY <1>1, <1>3 DEF Jumper
<1>5. JumpIs(calls[n], code, T, z)
  BY <1>1, <1>4 DEF Trail, Jumps
<1>6. ASSUME NEW i \in 1 .. n - 1, Jumper(calls, i)
      PROVE  calls[i].jump < calls[n].jump /\ calls[i].jump \in 1 .. Len(code)
  <2>1. i \in 1 .. n /\ i < n
    BY <1>1
  <2>2. JumpIs(calls[i], code, T, z)
    BY <1>6, <2>1 DEF Trail, Jumps
  <2> QED BY <1>1, <1>4, <1>6, <2>1, <2>2 DEF Trail, Rising, JumpIs
<1> QED BY <1>5, <1>6

\* The machine is at the jump of a branch, or it was there and went into the branch.
LEMMA PatchedRuns ==
  ASSUME NEW fr, NEW code, NEW T, NEW z, JumpIs(fr, code, T, z), fr.at \in Branches,
         NEW code2, NEW d, code2[fr.jump] = <<JumpOf(fr.at, fr.reg)[1], JumpOf(fr.at, fr.reg)[2], d>>
  PROVE  /\ ChangesNothing(code2, T, z, fr.jump, code[fr.jump])
         /\ code2[fr.jump][1] # "RETURN"
         /\ StopsAt(fr, code, z) => Stepped(code2[fr.jump], z) = GoesOn(z, d)
<1> DEFINE inst == code2[fr.jump]
<1>1. /\ fr.at = "then" => inst = <<"JUMP_IF_FALSE", fr.reg, d>> /\ code[fr.jump] = <<"JUMP_IF_FALSE", fr.reg, 0>>
      /\ fr.at = "else" => inst = <<"JUMP", 0, d>>
  BY DEF JumpOf, JumpIs
<1>2. fr.at = "then" \/ fr.at = "else"
  BY DEF Branches
<1> HIDE DEF inst
<1>3. inst[1] # "RETURN"
  BY <1>1, <1>2
<1>4. ASSUME NEW s \in T, s # z, s.ip = fr.jump PROVE Stepped(inst, s) = Stepped(code[fr.jump], s)
  <2>1. fr.at = "then" /\ ~ IsFalsey(s.regs[fr.reg])
    BY <1>4 DEF JumpIs
  <2>2. Stepped(inst, s) = GoesOn(s, 0) /\ Stepped(code[fr.jump], s) = GoesOn(s, 0)
    BY <1>1, <2>1 DEF Stepped
  <2> QED BY <2>2
<1>5. ASSUME StopsAt(fr, code, z) PROVE Stepped(inst, z) = GoesOn(z, d)
  <2>1. fr.at = "then" => IsFalsey(z.regs[fr.reg])
    BY <1>2, <1>5 DEF StopsAt
  <2> QED BY <1>1, <1>2, <2>1 DEF Stepped
<1> QED BY <1>3, <1>4, <1>5 DEF ChangesNothing, inst

LEMMA AfterThenFollows ==
  ASSUME NEW f, NEW B, NEW D, Here(f, B, D), NEW T, NEW z, Traced(D, T, z), Compiles', AfterThen
  PROVE  Follows'
<1> DEFINE n == Len(calls)
           k == Len(calls) - 1
           top == calls[Len(calls)]
           code == current.code
           inst == <<"JUMP", 0, 0>>
           fr == [at |-> "else", reg |-> Caller.reg, jump |-> Len(current.code) + 1,
                  taken |-> Caller.taken]
           e == Emitted(current, inst)
           c2 == patchJump(e, Caller.jump)
           S == meaning.scopes
<1>1. At = "then" /\ calls' = Append(Front(calls), fr) /\ Become(c2) /\ meaning' = meaning
  BY DEF AfterThen
<1>2. NoneWanted
  BY DEF AfterThen, NoneWanted
<1>3. /\ n > 0 /\ Caller = calls[n] /\ calls[n].at = "then" /\ n \in Nat
  BY <1>1, CallerIs
<1>4. Compiler(current) /\ IsSeq(calls) /\ IsSeq(code) /\ Len(code) \in Nat
  BY HereIs, SeqFacts DEF Compiler
<1>5. Compiler(e) /\ SameNames(current, e) /\ e.code = Append(code, inst)
  BY <1>4, EmittedIs
<1>6. /\ fr.at = "else" /\ fr.reg = top.reg /\ fr.jump = Len(code) + 1 /\ fr.taken = top.taken
  BY <1>3
<1>7. inst = JumpOf("else", top.reg) /\ top.at = "then"
  BY <1>3 DEF JumpOf
<1> HIDE DEF fr, e, inst
<1>8. /\ Compiler(c2) /\ SameNames(e, c2)
      /\ c2.code = Patched(e.code, top.jump, Len(e.code) - top.jump)
  BY <1>3, <1>5, PatchedIs DEF Patched
<1> HIDE DEF c2
<1>9. SameNames(current, c2)
  BY <1>5, <1>8 DEF SameNames
<1>10. Continues(calls, calls', k) /\ Len(calls') = k + 1 /\ calls'[k + 1] = fr /\ k \in Nat
  BY <1>1, <1>3, SwapIs DEF Instead
<1>11. /\ Shaped(calls) /\ Trail(calls, Main.code, T, z) /\ Agrees(z, meaning)
  BY DEF Traced
<1>12. Shaped(calls')
  BY <1>4, <1>6, <1>10, <1>11, BranchShaped DEF Declaring
<1> DEFINE d == Len(code) + 1 - top.jump
           code2 == c2.code
<1>13. ASSUME f = 0
       PROVE  /\ Trail(calls', code2, T, z) /\ IsSeq(code2) /\ Len(code2) = Len(code) + 1
              /\ code2[top.jump] = <<JumpOf(top.at, top.reg)[1], JumpOf(top.at, top.reg)[2], d>>
              /\ top.jump \in 1 .. Len(code) /\ JumpIs(top, code, T, z)
              /\ \A i \in 1 .. k : Jumper(calls, i) => calls[i].jump < top.jump
              /\ Main = current
  <2>1. Main = current /\ Here(0, B, D)
    BY <1>1, <1>8, <1>13, MainIs
  <2>2. Trail(calls, code, T, z)
    BY <1>11, <2>1
  <2>3. /\ JumpIs(top, code, T, z)
        /\ \A i \in 1 .. k : Jumper(calls, i) => calls[i].jump < top.jump /\ calls[i].jump \in 1 .. Len(code)
    BY <1>3, <2>1, <2>2, TopJump DEF Branches
  <2>4. top.jump \in 1 .. Len(code) /\ top.taken \in BOOLEAN /\ code[top.jump] = JumpOf("then", top.reg)
    BY <1>7, <2>3 DEF JumpIs
  <2>5. /\ IsSeq(e.code) /\ Len(e.code) = Len(code) + 1 /\ e.code[Len(code) + 1] = inst
        /\ \A i \in 1 .. Len(code) : e.code[i] = code[i]
    BY <1>4, <1>5, AppendIs
  <2>6. top.jump \in 1 .. Len(e.code) /\ e.code[top.jump] = JumpOf("then", top.reg)
    BY <1>4, <2>4, <2>5
  <2>7. /\ IsSeq(code2) /\ Len(code2) = Len(e.code)
        /\ \A i \in 1 .. Len(e.code) : i # top.jump => code2[i] = e.code[i]
        /\ code2[top.jump] = <<JumpOf("then", top.reg)[1], JumpOf("then", top.reg)[2], d>>
    <3> DEFINE a == e.code
               at == "then"
               o == top.jump
               x == Len(e.code) - top.jump
               r == top.reg
    <3>1. code2 = Patched(a, o, x) /\ IsSeq(a) /\ o \in 1 .. Len(a) /\ a[o] = JumpOf(at, r)
          /\ at \in Branches
      BY <1>8, <2>5, <2>6 DEF Branches
    <3>2. x = d
      <4>1. Len(e.code) = Len(code) + 1
        BY <2>5
      <4>2. top.jump \in 1 .. Len(code) /\ Len(code) \in Nat
        BY <1>4, <2>4
      <4> DEFINE j == top.jump
                 l == Len(code)
                 h == Len(e.code)
      <4>3. j \in Nat /\ l \in Nat /\ h = l + 1
        <5> HIDE DEF code, e, top
        <5> QED BY ONLY <4>1, <4>2
      <4>4. x = h - j /\ d = l + 1 - j
        BY ONLY <4>1 DEF x, d
      <4> HIDE DEF j, l, h, x, d
      <4> QED BY ONLY <4>3, <4>4
    <3> HIDE DEF a, at, o, x, r, code2, d
    <3>3. /\ IsSeq(code2) /\ Len(code2) = Len(a)
          /\ \A i \in 1 .. Len(a) : i # o => code2[i] = a[i]
          /\ code2[o] = <<JumpOf(at, r)[1], JumpOf(at, r)[2], x>>
      BY ONLY <3>1, PatchedCode
    <3> QED BY <3>2, <3>3 DEF a, at, o, r
  <2> HIDE DEF code2, d
  <2>8. Ran(code2, T, z)
    <3>1. ChangesNothing(code2, T, z, top.jump, code[top.jump])
      BY <1>7, <2>3, <2>7, PatchedRuns DEF Branches
    <3>2. \A i \in 1 .. Len(code) : code2[i] = code[i] \/ ChangesNothing(code2, T, z, i, code[i])
      <4> SUFFICES ASSUME NEW i \in 1 .. Len(code), i # top.jump PROVE code2[i] = code[i]
        BY <3>1
      <4>1. i \in 1 .. Len(e.code)
        BY <1>4, <2>5
      <4> QED BY <2>5, <2>7, <4>1
    <3>3. Len(code) <= Len(code2)
      BY <1>4, <2>5, <2>7
    <3>4. Ran(code, T, z)
      BY <2>2 DEF Trail
    <3> HIDE DEF code
    <3> QED BY <1>4, <2>7, <3>2, <3>3, <3>4, RanStays
  <2>9. NewJump(calls'[k + 1], code2)
    <3>1. Len(code2) = Len(code) + 1 /\ code2[Len(code) + 1] = inst
      <4>1. Len(code) + 1 \in 1 .. Len(e.code) /\ Len(code) + 1 # top.jump
        BY <1>4, <2>4, <2>5
      <4> QED BY <2>5, <2>7, <4>1
    <3> QED BY <1>6, <1>7, <1>10, <2>4, <3>1 DEF NewJump, Branches, JumpOf
  <2>10. ASSUME NEW i \in 1 .. k, Jumper(calls, i) PROVE code2[calls[i].jump] = code[calls[i].jump]
    <3>1. calls[i].jump < top.jump /\ calls[i].jump \in 1 .. Len(code)
      BY <2>3, <2>10
    <3>2. calls[i].jump \in 1 .. Len(e.code) /\ calls[i].jump # top.jump
      BY <1>4, <2>4, <2>5, <3>1
    <3> QED BY <2>5, <2>7, <3>1, <3>2
  <2>11. Trail(calls', code2, T, z)
    <3> DEFINE F2 == calls'
    <3>1. /\ Continues(calls, F2, k) /\ Len(F2) = k + 1 /\ NewJump(F2[k + 1], code2) /\ IsSeq(code2)
          /\ Len(code2) = Len(code) + 1
          /\ \A i \in 1 .. k : Jumper(calls, i) => code2[calls[i].jump] = code[calls[i].jump]
      BY <1>10, <2>5, <2>7, <2>9, <2>10
    <3> HIDE DEF F2, k, code
    <3>2. Trail(calls, code, T, z) /\ IsSeq(calls) /\ Ran(code2, T, z)
      BY <1>4, <2>2, <2>8
    <3>3. Trail(F2, code2, T, z)
      BY ONLY <3>1, <3>2, JumpAdded
    <3> QED BY <3>3 DEF F2
  <2> QED BY <1>7, <2>1, <2>3, <2>4, <2>5, <2>7, <2>11
<1> HIDE DEF code2
<1>14. CASE Live(calls)
  <2>1. /\ f = 0 /\ LiveAt(current, calls, wanted, S, z) /\ z.ip = Len(code) + 1 /\ Here(0, B, D)
    BY <1>14, LiveHere
  <2>2. Stored(c2.locals, meaning.scopes, z.regs, D[k])
    <3>1. D[k] = Len(meaning.scopes)
      BY <1>3, BranchDepth
    <3> QED BY <1>9, <2>1, <3>1 DEF LiveAt, SameNames
  <2>3. \A i \in 1 .. k : ~ Stuck(calls[i])
    <3>1. \A i \in 1 .. k : i \in 1 .. n
      BY <1>3
    <3> QED BY <1>14, <3>1 DEF Live
  <2>4. Stuck(calls'[k + 1])
    <3>1. ~ Stuck(top)
      BY <1>3, <1>14 DEF Live
    <3>2. top.taken
      BY <1>7, <3>1 DEF Stuck
    <3> QED BY <1>6, <1>10, <3>2 DEF Stuck
  <2>5. StopsAt(calls'[k + 1], c2.code, z)
    BY <1>6, <1>10, <2>1 DEF StopsAt
  <2>6. Trail(calls', c2.code, T, z)
    BY <1>13, <2>1 DEF code2
  <2> HIDE DEF n, code
  <2> QED BY <1>1, <1>8, <1>10, <1>11, <1>12, <2>1, <2>2, <2>3, <2>4, <2>5, <2>6, NowPaused
<1>15. CASE ~ Live(calls)
  <2>1. PICK m \in 1 .. Len(calls) : PausedAt(Main, calls, S, z, m, D)
    BY <1>15 DEF Traced, Stands, LiveAt
  <2>2. CASE m = n
    <3>1. PausedAt(Main, calls, S, z, n, D)
      BY <2>1, <2>2
    <3>2. f = 0
      BY <1>3, <3>1, TopIsMain
    <3>3. /\ Trail(calls', code2, T, z) /\ IsSeq(code2) /\ Len(code2) = Len(code) + 1
          /\ code2[top.jump] = <<JumpOf(top.at, top.reg)[1], JumpOf(top.at, top.reg)[2], d>>
          /\ top.jump \in 1 .. Len(code) /\ JumpIs(top, code, T, z)
          /\ \A i \in 1 .. k : Jumper(calls, i) => calls[i].jump < top.jump
          /\ Main = current
      BY <1>13, <3>2
    <3>4. /\ StopsAt(top, code, z) /\ z.ip = top.jump /\ Stuck(top) /\ \A i \in 1 .. k : ~ Stuck(calls[i])
      BY <1>7, <3>1, <3>3 DEF PausedAt, StopsAt
    <3>5. ~ fr.taken
      BY <1>6, <1>7, <3>4 DEF Stuck
    <3>6. d \in Nat /\ top.jump + 1 + d = Len(code2) + 1 /\ top.jump < Len(code2) + 1
          /\ Len(code2) + 1 <= Len(code2) + 1 /\ top.jump \in 1 .. Len(code2)
      <4> DEFINE j == top.jump
                 l == Len(code)
                 h == Len(code2)
      <4>1. l \in Nat /\ j \in 1 .. l /\ h = l + 1
        BY <1>4, <3>3
      <4>2. d = l + 1 - j
        OBVIOUS
      <4> HIDE DEF j, l, h, d
      <4>3. d \in Nat /\ j + 1 + d = h + 1 /\ j < h + 1 /\ h + 1 <= h + 1 /\ j \in 1 .. h
        BY ONLY <4>1, <4>2
      <4> QED BY ONLY <4>3 DEF j, h
    <3>7. VMState(z)
      BY <3>3 DEF Trail, Ran
    <3> HIDE DEF d
    <3> DEFINE z2 == GoesOn(z, d)
    <3>8. VMState(z2) /\ z2.ip = z.ip + 1 + d /\ z2.regs = z.regs /\ SameShown(z, z2)
      BY <3>6, <3>7, GoesOnIs
    <3>9. Stepped(code2[z.ip], z) = z2 /\ code2[z.ip][1] # "RETURN"
      <4>1. top.at \in Branches
        BY <1>7 DEF Branches
      <4>2. /\ JumpIs(top, code, T, z) /\ StopsAt(top, code, z) /\ z.ip = top.jump
            /\ code2[top.jump] = <<JumpOf(top.at, top.reg)[1], JumpOf(top.at, top.reg)[2], d>>
        BY <3>3, <3>4
      <4>3. z2 = GoesOn(z, d)
        OBVIOUS
      <4> HIDE DEF top, code, code2, z2
      <4>4. code2[top.jump][1] # "RETURN" /\ Stepped(code2[top.jump], z) = GoesOn(z, d)
        BY ONLY <4>1, <4>2, PatchedRuns
      <4> QED BY ONLY <4>2, <4>3, <4>4
    <3> HIDE DEF z2
    <3>10. z.ip \in 1 .. Len(code2) /\ z2.ip > z.ip /\ z2.ip <= Len(code2) + 1 /\ z2.ip = Len(code2) + 1
      BY <3>4, <3>6, <3>8
    <3>11. ASSUME NEW i \in 1 .. Len(calls'), Jumper(calls', i), calls'[i].jump = z.ip PROVE FALSE
      <4>1. CASE i = k + 1
        BY <1>4, <1>6, <1>10, <3>3, <3>4, <3>11, <4>1
      <4>2. CASE i # k + 1
        <5>1. i \in 1 .. k /\ \A j \in 1 .. i : j \in 1 .. k
          BY <1>10, <4>2
        <5>2. Jumper(calls, i) /\ calls'[i] = calls[i]
          <6>1. i \in 1 .. n
            BY <1>3, <5>1
          <6>2. \A j \in 1 .. i : calls'[j] = calls[j]
            BY <1>10, <5>1 DEF Continues
          <6>3. calls'[i] = calls[i]
            BY <1>10, <5>1 DEF Continues
          <6> QED BY <3>11, <6>1, <6>2, <6>3 DEF Jumper
        <5>3. calls[i].jump < top.jump
          BY <3>3, <5>1, <5>2
        <5> QED BY <3>3, <3>4, <3>11, <5>2, <5>3
      <4> QED BY <4>1, <4>2
    <3>12. Trail(calls', c2.code, T \union {z2}, z2)
      BY <3>3, <3>8, <3>9, <3>10, <3>11, Passes DEF code2
    <3>13. Live(calls')
      <4>1. ~ Stuck(fr)
        BY <1>6, <3>5 DEF Stuck
      <4>2. \A i \in 1 .. Len(calls') : i = k + 1 \/ (i \in 1 .. k /\ calls'[i] = calls[i])
        BY <1>10 DEF Continues
      <4> QED BY <1>10, <3>4, <4>1, <4>2 DEF Live
    <3>14. Agrees(z2, meaning')
      <4>1. SameEffects
        BY <1>1, SameMeans
      <4> QED BY <1>11, <3>8, <4>1, AgreesQuiet
    <3>15. Stored(c2.locals, meaning'.scopes, z2.regs, Len(meaning'.scopes))
      <4>1. D[k] = Len(meaning.scopes)
        BY <1>3, BranchDepth
      <4>2. Stored(current.locals, meaning.scopes, z.regs, D[k])
        BY <3>1, <3>3 DEF PausedAt
      <4> QED BY <1>1, <1>9, <3>8, <4>1, <4>2 DEF SameNames
    <3>16. Here(0, B, D) /\ z2.ip = Len(c2.code) + 1
      BY <3>2, <3>10 DEF code2
    <3> HIDE DEF n, k, code, top
    <3> QED BY <1>1, <1>2, <1>8, <1>12, <3>12, <3>13, <3>14, <3>15, <3>16, NowLive
  <2>3. CASE m # n
    <3>1. m <= k
      BY <1>3, <2>3
    <3>2. Trail(calls', Main'.code, T, z)
      <4>1. CASE f = 0
        BY <1>1, <1>8, <1>13, <4>1, MainIs DEF code2
      <4>2. CASE f # 0
        BY <1>1, <1>3, <1>8, <1>10, <4>2, FunctionKeeps
      <4> QED BY <4>1, <4>2
    <3> HIDE DEF k
    <3> QED BY <1>1, <1>8, <1>9, <1>10, <1>12, <2>1, <3>1, <3>2, PausedBranch
  <2> QED BY <2>2, <2>3
<1> QED BY <1>14, <1>15

LEMMA AfterElseFollows ==
  ASSUME NEW f, NEW B, NEW D, Here(f, B, D), NEW T, NEW z, Traced(D, T, z), Compiles', AfterElse
  PROVE  Follows'
<1> DEFINE n == Len(calls)
           k == Len(calls) - 1
           top == calls[Len(calls)]
           code == current.code
           p == patchJump(current, Caller.jump)
           c2 == freeReg(p, Caller.reg)
           S == meaning.scopes
<1>1. At = "else" /\ Done(c2) /\ Return /\ meaning' = meaning
  BY DEF AfterElse
<1>3. /\ n > 0 /\ Caller = calls[n] /\ calls[n].at = "else" /\ n \in Nat /\ Fits(calls, B, D, f, n)
  BY <1>1, CallerIs
<1>4. Compiler(current) /\ IsSeq(calls) /\ IsSeq(code) /\ Len(code) \in Nat /\ Numbers(B)
  BY HereIs, SeqFacts DEF Compiler
<1>5. Caller.reg \in Nat
  BY <1>3, <1>4 DEF Fits, Branches, Numbers
<1>6. top.at = "else" /\ Caller = top
  BY <1>3
<1>7. /\ Compiler(p) /\ SameNames(current, p)
      /\ p.code = Patched(code, top.jump, Len(code) - top.jump)
  BY <1>4, <1>6, PatchedIs DEF Patched
<1> HIDE DEF p
<1>8. Compiler(c2) /\ SameNames(p, c2) /\ c2.code = p.code
  BY <1>5, <1>7, FreedIs DEF freeReg
<1> HIDE DEF c2
<1>2. Become(c2) /\ NoneWanted
  BY <1>1 DEF Done, NoneWanted
<1>9. SameNames(current, c2)
  BY <1>7, <1>8 DEF SameNames
<1>10. Continues(calls, calls', k) /\ Len(calls') = k /\ k \in Nat
  <2>1. Without(calls, calls')
    BY <1>1, <1>3, ReturnIs
  <2> QED BY <1>3, <2>1 DEF Without
<1>11. /\ Shaped(calls) /\ Trail(calls, Main.code, T, z) /\ Agrees(z, meaning)
  BY DEF Traced
<1>12. Shaped(calls')
  <2>1. Len(calls') # k + 1
    BY <1>10
  <2> QED BY <1>4, <1>10, <1>11, <2>1, ShapedStays
<1> DEFINE d == Len(code) - top.jump
           code2 == c2.code
<1>13. ASSUME f = 0
       PROVE  /\ Trail(calls', code2, T, z) /\ IsSeq(code2) /\ Len(code2) = Len(code)
              /\ code2[top.jump] = <<JumpOf(top.at, top.reg)[1], JumpOf(top.at, top.reg)[2], d>>
              /\ top.jump \in 1 .. Len(code) /\ JumpIs(top, code, T, z)
              /\ \A i \in 1 .. k : Jumper(calls, i) => calls[i].jump < top.jump
              /\ Main = current
  <2>1. Main = current /\ Here(0, B, D)
    BY <1>2, <1>8, <1>13, MainIs
  <2>2. Trail(calls, code, T, z)
    BY <1>11, <2>1
  <2>3. /\ JumpIs(top, code, T, z)
        /\ \A i \in 1 .. k : Jumper(calls, i) => calls[i].jump < top.jump /\ calls[i].jump \in 1 .. Len(code)
    BY <1>3, <2>1, <2>2, TopJump DEF Branches
  <2>4. top.jump \in 1 .. Len(code) /\ top.taken \in BOOLEAN /\ code[top.jump] = JumpOf("else", top.reg)
    BY <1>6, <2>3 DEF JumpIs
  <2>5. /\ IsSeq(code2) /\ Len(code2) = Len(code)
        /\ \A i \in 1 .. Len(code) : i # top.jump => code2[i] = code[i]
        /\ code2[top.jump] = <<JumpOf("else", top.reg)[1], JumpOf("else", top.reg)[2], d>>
    <3> DEFINE a == code
               at == "else"
               o == top.jump
               r == top.reg
    <3>1. code2 = Patched(a, o, d) /\ IsSeq(a) /\ o \in 1 .. Len(a) /\ a[o] = JumpOf(at, r)
          /\ at \in Branches
      BY <1>4, <1>7, <1>8, <2>4 DEF Branches
    <3> HIDE DEF a, at, o, r, code2, d
    <3>3. /\ IsSeq(code2) /\ Len(code2) = Len(a)
          /\ \A i \in 1 .. Len(a) : i # o => code2[i] = a[i]
          /\ code2[o] = <<JumpOf(at, r)[1], JumpOf(at, r)[2], d>>
      BY ONLY <3>1, PatchedCode
    <3> QED BY <3>3 DEF a, at, o, r
  <2> HIDE DEF code2, d
  <2>6. ChangesNothing(code2, T, z, top.jump, code[top.jump])
    BY <1>6, <2>3, <2>5, PatchedRuns DEF Branches
  <2>7. Ran(code2, T, z)
    <3>2. \A i \in 1 .. Len(code) : code2[i] = code[i] \/ ChangesNothing(code2, T, z, i, code[i])
      BY <2>5, <2>6
    <3>3. Len(code) <= Len(code2)
      BY <1>4, <2>5
    <3>4. Ran(code, T, z)
      BY <2>2 DEF Trail
    <3> HIDE DEF code
    <3> QED BY <1>4, <2>5, <3>2, <3>3, <3>4, RanStays
  <2>8. ASSUME NEW i \in 1 .. k, Jumper(calls, i) PROVE code2[calls[i].jump] = code[calls[i].jump]
    <3>1. calls[i].jump < top.jump /\ calls[i].jump \in 1 .. Len(code)
      BY <2>3, <2>8
    <3>2. calls[i].jump # top.jump
      BY <1>4, <2>4, <3>1
    <3> QED BY <2>5, <3>1, <3>2
  <2>9. Trail(calls', code2, T, z)
    <3> DEFINE F2 == calls'
    <3>1. /\ Continues(calls, F2, k) /\ Len(F2) = k /\ IsSeq(code2)
          /\ Len(code2) = Len(code) /\ Ran(code2, T, z) /\ Trail(calls, code, T, z)
          /\ \A i \in 1 .. k : Jumper(calls, i) => code2[calls[i].jump] = code[calls[i].jump]
      BY <1>10, <2>2, <2>5, <2>7, <2>8
    <3> HIDE DEF F2, k, code
    <3>3. Trail(F2, code2, T, z)
      BY ONLY <3>1, TrailPatched
    <3> QED BY <3>3 DEF F2
  <2> QED BY <1>6, <2>1, <2>3, <2>4, <2>5, <2>9
<1> HIDE DEF code2
<1>13a. ASSUME \A i \in 1 .. k : ~ Stuck(calls[i]) PROVE Live(calls')
  <2>2. \A i \in 1 .. Len(calls') : i \in 1 .. k /\ calls'[i] = calls[i]
    BY <1>10 DEF Continues
  <2> QED BY <1>13a, <2>2 DEF Live
<1>14. CASE Live(calls)
  <2>1. /\ f = 0 /\ LiveAt(current, calls, wanted, S, z) /\ z.ip = Len(code) + 1 /\ Here(0, B, D)
    BY <1>14, LiveHere
  <2>2. Stored(c2.locals, meaning'.scopes, z.regs, Len(meaning'.scopes))
    BY <1>1, <1>9, <2>1 DEF LiveAt, SameNames
  <2>3. Live(calls')
    <3>1. \A i \in 1 .. k : i \in 1 .. n
      BY <1>3
    <3> QED BY <1>13a, <1>14, <3>1 DEF Live
  <2>6. Trail(calls', c2.code, T, z) /\ z.ip = Len(c2.code) + 1
    BY <1>13, <2>1 DEF code2
  <2>7. Agrees(z, meaning')
    BY <1>1, <1>11
  <2> HIDE DEF n, code
  <2> QED BY <1>2, <1>8, <1>12, <2>1, <2>2, <2>3, <2>6, <2>7, NowLive
<1>15. CASE ~ Live(calls)
  <2>1. PICK m \in 1 .. Len(calls) : PausedAt(Main, calls, S, z, m, D)
    BY <1>15 DEF Traced, Stands, LiveAt
  <2>2. CASE m = n
    <3>1. PausedAt(Main, calls, S, z, n, D)
      BY <2>1, <2>2
    <3>2. f = 0
      BY <1>3, <3>1, TopIsMain
    <3>3. /\ Trail(calls', code2, T, z) /\ IsSeq(code2) /\ Len(code2) = Len(code)
          /\ code2[top.jump] = <<JumpOf(top.at, top.reg)[1], JumpOf(top.at, top.reg)[2], d>>
          /\ top.jump \in 1 .. Len(code) /\ JumpIs(top, code, T, z)
          /\ \A i \in 1 .. k : Jumper(calls, i) => calls[i].jump < top.jump
          /\ Main = current
      BY <1>13, <3>2
    <3>4. /\ StopsAt(top, code, z) /\ z.ip = top.jump /\ Stuck(top) /\ \A i \in 1 .. k : ~ Stuck(calls[i])
      BY <1>6, <3>1, <3>3 DEF PausedAt, StopsAt
    <3>6. d \in Nat /\ top.jump + 1 + d = Len(code2) + 1 /\ top.jump < Len(code2) + 1
          /\ Len(code2) + 1 <= Len(code2) + 1 /\ top.jump \in 1 .. Len(code2)
      <4>1. top.jump \in 1 .. Len(code) /\ Len(code2) = Len(code)
        BY <3>3
      <4> HIDE DEF top, code2, code
      <4>2. Len(code) \in Nat
        BY <1>4
      <4> QED BY ONLY <4>1, <4>2 DEF d
    <3>7. VMState(z)
      BY <3>3 DEF Trail, Ran
    <3> HIDE DEF d
    <3> DEFINE z2 == GoesOn(z, d)
    <3>8. VMState(z2) /\ z2.ip = z.ip + 1 + d /\ z2.regs = z.regs /\ SameShown(z, z2)
      BY <3>6, <3>7, GoesOnIs
    <3>9. Stepped(code2[z.ip], z) = z2 /\ code2[z.ip][1] # "RETURN"
      <4>1. top.at \in Branches
        BY <1>6 DEF Branches
      <4>2. /\ JumpIs(top, code, T, z) /\ StopsAt(top, code, z) /\ z.ip = top.jump
            /\ code2[top.jump] = <<JumpOf(top.at, top.reg)[1], JumpOf(top.at, top.reg)[2], d>>
        BY <3>3, <3>4
      <4>3. z2 = GoesOn(z, d)
        OBVIOUS
      <4> HIDE DEF top, code, code2, z2
      <4>4. code2[top.jump][1] # "RETURN" /\ Stepped(code2[top.jump], z) = GoesOn(z, d)
        BY ONLY <4>1, <4>2, PatchedRuns
      <4> QED BY ONLY <4>2, <4>3, <4>4
    <3> HIDE DEF z2
    <3>10. z.ip \in 1 .. Len(code2) /\ z2.ip > z.ip /\ z2.ip <= Len(code2) + 1 /\ z2.ip = Len(code2) + 1
      BY <3>4, <3>6, <3>8
    <3>11. ASSUME NEW i \in 1 .. Len(calls'), Jumper(calls', i), calls'[i].jump = z.ip PROVE FALSE
      <4>1. i \in 1 .. k /\ \A j \in 1 .. i : j \in 1 .. k
        BY <1>10
      <4>2. Jumper(calls, i) /\ calls'[i] = calls[i]
        <5>1. i \in 1 .. n
          BY <1>3, <4>1
        <5>2. \A j \in 1 .. i : calls'[j] = calls[j]
          BY <1>10, <4>1 DEF Continues
        <5>3. calls'[i] = calls[i]
          BY <1>10, <4>1 DEF Continues
        <5> QED BY <3>11, <5>1, <5>2, <5>3 DEF Jumper
      <4>3. calls[i].jump < top.jump
        BY <3>3, <4>1, <4>2
      <4> QED BY <3>3, <3>4, <3>11, <4>2, <4>3
    <3>12. Trail(calls', c2.code, T \union {z2}, z2)
      BY <3>3, <3>8, <3>9, <3>10, <3>11, Passes DEF code2
    <3>13. Live(calls')
      BY <1>13a, <3>4
    <3>14. Agrees(z2, meaning')
      <4>1. SameEffects
        BY <1>1, SameMeans
      <4> QED BY <1>11, <3>8, <4>1, AgreesQuiet
    <3>15. Stored(c2.locals, meaning'.scopes, z2.regs, Len(meaning'.scopes))
      <4>1. D[k] = Len(meaning.scopes)
        BY <1>3, BranchDepth
      <4>2. Stored(current.locals, meaning.scopes, z.regs, D[k])
        BY <3>1, <3>3 DEF PausedAt
      <4> QED BY <1>1, <1>9, <3>8, <4>1, <4>2 DEF SameNames
    <3>16. Here(0, B, D) /\ z2.ip = Len(c2.code) + 1
      BY <3>2, <3>10 DEF code2
    <3> HIDE DEF n, k, code, top
    <3> QED BY <1>2, <1>8, <1>12, <3>12, <3>13, <3>14, <3>15, <3>16, NowLive
  <2>3. CASE m # n
    <3>1. m <= k
      BY <1>3, <2>3
    <3>2. Trail(calls', Main'.code, T, z)
      <4>1. CASE f = 0
        BY <1>2, <1>8, <1>13, <4>1, MainIs DEF code2
      <4>2. CASE f # 0
        BY <1>2, <1>3, <1>8, <1>10, <4>2, FunctionKeeps
      <4> QED BY <4>1, <4>2
    <3> HIDE DEF k
    <3> QED BY <1>1, <1>2, <1>8, <1>9, <1>10, <1>12, <2>1, <3>1, <3>2, PausedBranch
  <2> QED BY <2>2, <2>3
<1> QED BY <1>14, <1>15

----------------------------------------
(* The end of a function: its closure is made, in a register that is free.    *)

LEMMA StoredBelow ==
  ASSUME NEW L, NEW S, NEW e \in Nat, 1 .. e \subseteq DOMAIN S, NEW z, VMState(z),
         Stored(L, S, z.regs, e), MaxReg \in Nat, MaxArgs \in Nat,
         NEW top \in Nat, \A h \in HeldRegs(L, S) : h \in Nat /\ h < top,
         NEW r \in Nat, top <= r, r < MaxReg, NEW val
  PROVE  Stored(L, S, Loads(z, r, val).regs, e)
<1> SUFFICES ASSUME NEW k \in DOMAIN L, NEW s \in 1 .. e,
                    L[k].name \in DOMAIN S[s], S[s][L[k].name] # Unset
             PROVE  Loads(z, r, val).regs[L[k].reg] = S[s][L[k].name]
  BY DEF Stored
<1>1. z.regs[L[k].reg] = S[s][L[k].name]
  BY DEF Stored
<1>2. L[k].reg \in HeldRegs(L, S)
  BY DEF HeldRegs, HeldIn, Valued
<1>3. L[k].reg \in Bank /\ L[k].reg # r
  BY <1>2 DEF Bank
<1> QED BY <1>1, <1>3, LoadsIs

\* The code of a closure, and what the machine makes of it.
Closes(c, r, x, j1, j2, code2) ==
  IF c.scopeDepth = 0
  THEN code2 = Append(Append(c.code, <<"CLOSURE", r, x, j1>>), <<"DEFINE_GLOBAL", r, x, j2>>)
  ELSE code2 = Append(c.code, <<"CLOSURE", r, x, j1>>)

\* What the text says of it.
MeansClosure(c, x, M, M2) ==
  /\ DOMAIN M2 = DOMAIN M /\ M2.out = M.out
  /\ c.scopeDepth = 0 => M2.globals = With(M.globals, x, <<"closure", x>>)
  /\ c.scopeDepth # 0 => M2.globals = M.globals

\* Where that takes the machine.
ClosureRan(F2, code2, M2, regs2) ==
  \E T2, z2 : /\ Trail(F2, code2, T2, z2) /\ z2.ip = Len(code2) + 1 /\ Agrees(z2, M2)
              /\ z2.regs = regs2

LEMMA ClosureRuns ==
  ASSUME NEW F, NEW c, NEW T, NEW z, Trail(F, c.code, T, z), z.ip = Len(c.code) + 1,
         NEW F2, JumpersStay(F, F2), NEW r \in Bank, NEW x, NEW j1, NEW j2,
         NEW code2, Closes(c, r, x, j1, j2, code2),
         NEW M, Agrees(z, M), NEW M2, MeansClosure(c, x, M, M2)
  PROVE  ClosureRan(F2, code2, M2, Loads(z, r, <<"closure", x>>).regs)
<1> DEFINE i1 == <<"CLOSURE", r, x, j1>>
           i2 == <<"DEFINE_GLOBAL", r, x, j2>>
           z1 == Stepped(i1, z)
           code1 == Append(c.code, i1)
           z2 == Stepped(i2, z1)
           T1 == T \union {z1}
           T2 == T1 \union {z2}
<1>0. VMState(z)
  BY DEF Trail, Ran
<1>1. z1 = Loads(z, r, <<"closure", x>>) /\ z2 = Defines(z1, x, z1.regs[r])
  BY DEF Stepped
<1>2. Appends(c.code, z, i1, code1, z1)
  BY DEF Appends, Straight
<1>3. /\ VMState(z1) /\ z1.out = z.out /\ z1.globals = z.globals /\ z1.regs[r] = <<"closure", x>>
      /\ z1.regs = Loads(z, r, <<"closure", x>>).regs
  <2>1. z1 = Loads(z, r, <<"closure", x>>)
    BY <1>1
  <2> HIDE DEF z1
  <2> QED BY <1>0, <2>1, LoadsIs
<1> HIDE DEF z1, code1
<1>4. Trail(F2, code1, T1, z1) /\ z1.ip = Len(code1) + 1
  <2> DEFINE i == i1
  <2>1. Appends(c.code, z, i, code1, z1)
    BY <1>2
  <2> HIDE DEF i, i1
  <2> QED BY <2>1, TrailOn
<1> HIDE DEF T1
<1>5. CASE c.scopeDepth # 0
  <2>1. code2 = code1
    BY <1>5 DEF Closes, code1
  <2>2. Agrees(z1, M2)
    BY <1>3, <1>5 DEF Agrees, Meaningful, MeansClosure
  <2> QED BY <1>3, <1>4, <2>1, <2>2 DEF ClosureRan
<1>6. CASE c.scopeDepth = 0
  <2>1. code2 = Append(code1, i2)
    BY <1>6 DEF Closes, code1
  <2>2. Appends(code1, z1, i2, code2, z2)
    BY <1>4, <2>1 DEF Appends, Straight
  <2>3. JumpersStay(F2, F2)
    BY DEF JumpersStay
  <2>4. Trail(F2, code2, T2, z2) /\ z2.ip = Len(code2) + 1
    <3> DEFINE i == i2
               y == z2
    <3>1. Appends(code1, z1, i, code2, y)
      BY <2>2
    <3> HIDE DEF i, i2, y
    <3> QED BY <1>4, <2>3, <3>1, TrailOn DEF y
  <2>5. z2.out = z1.out /\ z2.globals = With(z1.globals, x, z1.regs[r]) /\ z2.regs = z1.regs
    BY <1>1 DEF Defines
  <2>6. Agrees(z1, M)
    BY <1>3 DEF Agrees
  <2> HIDE DEF z2, T2
  <2>7. Agrees(z2, M2)
    <3> DEFINE v == <<"closure", x>>
    <3>1. /\ z2.out = z1.out /\ z2.globals = With(z1.globals, x, v) /\ M2.globals = With(M.globals, x, v)
          /\ v \in {v, Unset}
      BY <1>3, <1>6, <2>5 DEF MeansClosure
    <3> HIDE DEF v
    <3> QED BY <2>6, <3>1, AgreesGlobal DEF MeansClosure
  <2> QED BY <1>3, <2>4, <2>5, <2>7 DEF ClosureRan
<1> QED BY <1>5, <1>6

LEMMA CloseFunctionFollows ==
  ASSUME NEW f, NEW B, NEW D, Here(f, B, D), NEW T, NEW z, Traced(D, T, z), Compiles', CloseFunction,
         ~ hadError'
  PROVE  Follows'
<1> DEFINE n == Len(calls)
           k == Len(calls) - 1
           S == meaning.scopes
           S2 == Front(meaning.scopes)
           c == compilers[Len(compilers) - 1]
           x == Caller.name
           reg == allocReg(c)
           globals2 == IF c.scopeDepth = 0 THEN With(meaning.globals, x, <<"closure", x>>)
                       ELSE meaning.globals
           j1 == makeConstant(Allocated(c))
           closed == Emitted(Allocated(c), <<"CLOSURE", reg, x, j1>>)
           j2 == makeConstant(closed)
           c2 == IF c.scopeDepth = 0
                 THEN freeReg(Emitted(closed, <<"DEFINE_GLOBAL", reg, x, j2>>), reg)
                 ELSE freeReg(closed, reg)
<1>1. /\ At = "function" /\ ~ Exhausted(c) /\ Return /\ wanted'.is = "statement"
      /\ compilers' = Append(Front(Front(compilers)), c2)
  BY DEF CloseFunction, ClosureEmitted, DefinedGlobal
<1>2. meaning' = [meaning EXCEPT !.scopes = S2, !.globals = globals2]
  BY DEF CloseFunction, Closed
<1>3. /\ Shaped(calls) /\ Trail(calls, Main.code, T, z) /\ Agrees(z, meaning) /\ Meaningful(meaning)
      /\ IsSeq(calls)
  BY HereIs DEF Traced, Agrees
<1>4. /\ meaning'.scopes = S2 /\ meaning'.globals = globals2 /\ meaning'.out = meaning.out
      /\ DOMAIN meaning' = DOMAIN meaning
  <2> HIDE DEF S2, globals2
  <2> QED BY <1>2, <1>3 DEF Meaningful
<1>5. /\ n > 0 /\ calls[n].at = "function" /\ n \in Nat /\ Fits(calls, B, D, f, n)
  BY <1>1, CallerIs
<1>6. Chain(compilers, f) /\ f = n /\ f > 0 /\ f # 0 /\ Len(compilers) = 2 /\ c = compilers[1] /\ Compiler(c)
  <2>1. Chain(compilers, f)
    BY HereIs
  <2>2. f = n
    BY <1>5 DEF Fits
  <2>3. Len(compilers) = 2 /\ \A j \in 1 .. Len(compilers) : Compiler(compilers[j])
    BY <1>5, <2>1, <2>2 DEF Chain
  <2> QED BY <1>5, <2>1, <2>2, <2>3
<1>7. Main = c
  BY <1>6 DEF Main
<1>8. ClosesScope(S, meaning'.scopes)
  BY <1>4, <1>5, ScopeOpen, Closing
<1>9. Continues(calls, calls', k) /\ Len(calls') = k /\ k \in Nat
  <2>1. Without(calls, calls')
    BY <1>1, <1>5, ReturnIs
  <2> QED BY <1>5, <2>1 DEF Without
<1>10. Shaped(calls')
  <2>1. Len(calls') # k + 1
    BY <1>9
  <2> QED BY <1>3, <1>9, <2>1, ShapedStays
<1>11. JumpersStay(calls, calls')
  <2> SUFFICES ASSUME NEW i \in 1 .. Len(calls'), Jumper(calls', i)
               PROVE  Jumper(calls, i) /\ calls'[i] = calls[i]
    BY DEF JumpersStay
  <2>1. i \in 1 .. k /\ i \in 1 .. n /\ \A j \in 1 .. i : j \in 1 .. k
    BY <1>5, <1>9
  <2>2. \A j \in 1 .. i : calls'[j] = calls[j]
    BY <1>9, <2>1 DEF Continues
  <2>3. calls'[i] = calls[i]
    BY <1>9, <2>1 DEF Continues
  <2> QED BY <2>1, <2>2, <2>3 DEF Jumper
<1>12. MaxReg \in Nat /\ MaxArgs \in Nat
  BY Bounds
<1>13. /\ reg \in Nat /\ c.regTop <= reg /\ reg < MaxReg /\ reg \in Bank /\ c.regTop \in Nat
  <2>1. reg = Flushed(c) /\ Flushed(c) \in Nat /\ Flushed(c) < MaxReg /\ c.regTop <= Flushed(c)
    BY <1>1, <1>6, <1>12, AllocatedIs
  <2>2. c.regTop \in Nat
    BY <1>6 DEF Compiler
  <2> HIDE DEF reg
  <2> QED BY <1>12, <2>1, <2>2 DEF Bank
<1>14. Compiler(c2) /\ SameNames(c, c2) /\ c.regTop <= c2.regTop /\ Closes(c, reg, x, j1, j2, c2.code)
  <2> DEFINE a == Allocated(c)
             r == Flushed(c)
             i1 == <<"CLOSURE", reg, x, j1>>
             i2 == <<"DEFINE_GLOBAL", reg, x, j2>>
             e == Emitted(a, i1)
  <2>1. /\ Compiler(a) /\ SameNames(c, a) /\ reg = r /\ r \in Nat /\ a.regTop = r + 1
        /\ c.regTop <= r /\ a.code = c.code
    BY <1>1, <1>6, <1>12, AllocatedIs
  <2>2. /\ c2 = (IF c.scopeDepth = 0 THEN freeReg(Emitted(e, i2), reg) ELSE freeReg(e, reg))
        /\ Closes(c, reg, x, j1, j2, c2.code) = (IF c.scopeDepth = 0 THEN c2.code = Append(Append(c.code, i1), i2)
                                        ELSE c2.code = Append(c.code, i1))
    BY DEF Closes
  <2> HIDE DEF a, r, i1, i2, reg, c2, j1, j2
  <2>3. FreedTo(a, freeReg(e, r), r) /\ freeReg(e, r).code = Append(c.code, i1)
    BY <2>1, OneFreed, FreedCode
  <2>4. Compiler(e) /\ SameNames(a, e) /\ SameTop(a, e) /\ e.code = Append(c.code, i1)
    BY <2>1, EmittedIs
  <2> HIDE DEF e
  <2>5. e.regTop = r + 1
    BY <2>1, <2>4 DEF SameTop
  <2>6. FreedTo(e, freeReg(Emitted(e, i2), r), r) /\ freeReg(Emitted(e, i2), r).code = Append(e.code, i2)
    BY <2>1, <2>4, <2>5, OneFreed, FreedCode
  <2>7. FreedTo(a, c2, r)
    BY <2>1, <2>2, <2>3, <2>4, <2>6 DEF FreedTo, SameNames
  <2>8. Closes(c, reg, x, j1, j2, c2.code)
    BY <2>1, <2>2, <2>3, <2>4, <2>6
  <2> QED BY <2>1, <2>7, <2>8 DEF FreedTo, SameNames
<1> HIDE DEF c2
<1>15. Main' = c2 /\ c2.locals = c.locals
  <2>1. SameNames(compilers[1], c2) /\ compilers[1].regTop <= c2.regTop
    BY <1>6, <1>14
  <2>2. Ends(compilers, c2, compilers')
    BY <1>1, <1>6, <1>14, <2>1, Ending
  <2> QED BY <1>6, <2>2 DEF Ends, Main
<1>16. PICK m \in 1 .. Len(calls) : PausedAt(Main, calls, S, z, m, D)
  <2>1. Stuck(calls[n]) /\ n \in 1 .. n
    BY <1>5 DEF Stuck
  <2> QED BY <2>1 DEF Traced, Stands, LiveAt, Live
<1>17. /\ D[n] = D[n - 1] + 1 /\ D[n - 1] \in Nat /\ Len(S) = D[n] /\ c.scopeDepth = D[n] - 1
       /\ Layout(calls, B, HeldRegs(c.locals, S), c.regTop, 0, f - 1) /\ Numbers(D)
       /\ IsSeq(S) /\ Len(meaning'.scopes) = D[n - 1] /\ 1 .. D[n - 1] \subseteq DOMAIN S
  <2>1. Naming(compilers, S, D, f, n) /\ Registers(compilers, S, calls, B, f) /\ Numbers(D)
    BY DEF Here, Sound, Stacked
  <2>2. n - 1 \in Nat
    BY <1>5
  <2>3. D[n] = D[n - 1] + 1 /\ D[n - 1] \in Nat
    BY <1>5, <2>1, <2>2 DEF Fits, Opens, Numbers
  <2>4. IsSeq(S) /\ Len(S) = D[n] /\ c.scopeDepth = D[n] - 1
    BY <1>6, <2>1 DEF Naming
  <2>5. Layout(calls, B, HeldRegs(c.locals, S), c.regTop, 0, f - 1)
    BY <1>6, <2>1 DEF Registers
  <2>6. Len(meaning'.scopes) = Len(S) - 1 /\ DOMAIN S = 1 .. Len(S)
    BY <1>8 DEF ClosesScope
  <2>7. 1 .. D[n - 1] \subseteq DOMAIN S /\ Len(meaning'.scopes) = D[n - 1]
    <3> HIDE DEF S, n
    <3> QED BY <2>3, <2>4, <2>6
  <2> QED BY <2>1, <2>3, <2>4, <2>5, <2>7
<1>18. CASE m = n
  <2>1. /\ \A i \in 1 .. n - 1 : ~ Stuck(calls[i])
        /\ Stored(c.locals, S, z.regs, D[n - 1]) /\ z.ip = Len(c.code) + 1 /\ VMState(z)
    BY <1>3, <1>5, <1>7, <1>16, <1>18 DEF PausedAt, StopsAt, Trail, Ran
  <2>2. Trail(calls, c.code, T, z)
    BY <1>3, <1>7
  <2>3. MeansClosure(c, x, meaning, meaning')
    BY <1>4 DEF MeansClosure
  <2> DEFINE F2 == calls'
             M2 == meaning'
             code2 == c2.code
             M == meaning
             F == calls
  <2>4. /\ Trail(F, c.code, T, z) /\ JumpersStay(F, F2) /\ Closes(c, reg, x, j1, j2, code2) /\ Agrees(z, M)
        /\ MeansClosure(c, x, M, M2) /\ z.ip = Len(c.code) + 1 /\ reg \in Bank
    BY <1>3, <1>11, <1>13, <1>14, <2>1, <2>2, <2>3
  <2> HIDE DEF F2, M2, code2, M, F, reg, x, c, j1, j2
  <2>5. ClosureRan(F2, code2, M2, Loads(z, reg, <<"closure", x>>).regs)
    BY ONLY <2>4, ClosureRuns
  <2>6. PICK T2, z2 : /\ Trail(calls', c2.code, T2, z2) /\ z2.ip = Len(c2.code) + 1 /\ Agrees(z2, meaning')
                      /\ z2.regs = Loads(z, reg, <<"closure", x>>).regs
    BY <2>5 DEF F2, M2, code2, ClosureRan
  <2>7. Stored(c2.locals, meaning'.scopes, z2.regs, Len(meaning'.scopes))
    <3> DEFINE e == D[n - 1]
               top == c.regTop
               v == <<"closure", x>>
               L == c.locals
    <3>1. e \in Nat /\ 1 .. e \subseteq DOMAIN S /\ Stored(L, S, z.regs, e) /\ top \in Nat
          /\ \A h \in HeldRegs(L, S) : h \in Nat /\ h < top
      BY <1>13, <1>17, <2>1 DEF Layout
    <3> HIDE DEF e, top, v, L, S
    <3>2. Stored(L, S, Loads(z, reg, v).regs, e)
      BY <1>12, <1>13, <2>1, <3>1, StoredBelow DEF top
    <3>3. \A s \in 1 .. e : meaning'.scopes[s] = S[s]
      <4>1. \A s \in 1 .. Len(S) - 1 : meaning'.scopes[s] = S[s]
        BY <1>8 DEF ClosesScope
      <4>2. Len(S) - 1 = e
        BY <1>17 DEF e
      <4> QED BY <4>1, <4>2
    <3>4. Len(meaning'.scopes) = e /\ c2.locals = L /\ z2.regs = Loads(z, reg, v).regs
      BY <1>15, <1>17, <2>6 DEF e, L, v
    <3> QED BY <3>2, <3>3, <3>4 DEF Stored
  <2>8. Live(calls')
    <3>1. \A i \in 1 .. Len(calls') : i \in 1 .. n - 1 /\ calls'[i] = calls[i]
      BY <1>9 DEF Continues
    <3> QED BY <2>1, <3>1 DEF Live
  <2>9. PICK f2, B2, D2 : Here(f2, B2, D2)'
    BY DEF Compiles, Good, Here
  <2>10. NoneWanted
    BY <1>1 DEF NoneWanted
  <2>11. Evaluated(calls', wanted', c2.code, z2.regs) /\ Banked(calls', wanted', c2.locals)
    BY <2>10, IdleNext
  <2>12. LiveAt(c2, calls', wanted', meaning'.scopes, z2)
    BY <2>6, <2>7, <2>8, <2>11 DEF LiveAt
  <2>13. Traced(D2, T2, z2)'
    BY <1>10, <1>15, <2>6, <2>12 DEF Traced, Stands
  <2> QED BY <2>9, <2>13 DEF Follows
<1>19. CASE m # n
  <2>1. m <= k /\ m \in Nat /\ n > 1
    BY <1>5, <1>19
  <2>2. c.scopeDepth # 0
    <3>1. ShapedAt(calls, n) /\ n \in 1 .. n
      BY <1>3, <1>5 DEF Shaped
    <3>2. calls[n - 1].at = "block"
      BY <1>5, <2>1, <3>1 DEF ShapedAt
    <3>3. n - 1 \in 1 .. Len(calls) /\ n - 1 - 1 \in Nat
      BY <1>5, <2>1
    <3>4. Fits(calls, B, D, f, n - 1)
      BY <3>3 DEF Here, Sound, Stacked
    <3>5. D[n - 1] = D[n - 1 - 1] + 1 /\ D[n - 1 - 1] \in Nat
      BY <1>17, <3>2, <3>3, <3>4 DEF Fits, Opens, Numbers
    <3> QED BY <1>17, <3>5
  <2>3. SameEffects
    BY <1>4, <2>2 DEF SameEffects
  <2>4. Extends(c.code, c2.code)
    <3>1. IsSeq(c.code) /\ c2.code = Append(c.code, <<"CLOSURE", reg, x, j1>>)
      BY <1>6, <1>14, <2>2 DEF Closes, Compiler
    <3> QED BY <3>1, ExtendsIs
  <2>5. Trail(calls', Main'.code, T, z)
    BY <1>3, <1>7, <1>11, <1>15, <2>4, TrailStays
  <2>6. LocalsKept(Main.locals, Main'.locals, meaning.scopes)
    BY <1>7, <1>15 DEF LocalsKept
  <2>7. calls[m].at # "function"
    <3>1. Fits(calls, B, D, f, m)
      BY DEF Here, Sound, Stacked
    <3> QED BY <1>6, <1>19, <3>1 DEF Fits
  <2>8. ScopesKept(meaning.scopes, meaning'.scopes, D[m - 1])
    <3>1. ScopesHold(D)
      BY <1>5, <1>8, ClosingHolds
    <3> QED BY <1>16, <3>1 DEF ScopesHold, PausedAt
  <2> HIDE DEF k
  <2> QED BY <1>9, <1>10, <1>16, <2>1, <2>3, <2>5, <2>6, <2>7, <2>8, PausedStep
<1> QED BY <1>18, <1>19

----------------------------------------
(* The compiler's pass. *)

LEMMA ExprFollows ==
  ASSUME Follows, Compiles', CompileExpr, ~ hadError'
  PROVE  Follows'
<1>0. PICK f, B, D, T, z : Here(f, B, D) /\ Traced(D, T, z)
  BY DEF Follows
<1>1. CASE \E v \in Literals : Literal(v)
  BY <1>0, <1>1, LiteralFollows
<1>2. CASE \E x \in Names : Variable(x)
  BY <1>0, <1>2, VariableFollows
<1>3. CASE Binary
  BY <1>0, <1>3, BinaryFollows
<1>4. CASE AfterLeft
  BY <1>0, <1>4, AfterLeftFollows
<1>5. CASE AfterRight
  BY <1>0, <1>5, AfterRightFollows
<1>6. CASE Unary
  BY <1>0, <1>6, UnaryFollows
<1>7. CASE AfterOperand
  BY <1>0, <1>7, AfterOperandFollows
<1>8. CASE \E n \in 0..MaxArgs : Syscall(n)
  BY <1>0, <1>8, SyscallFollows
<1>9. CASE AfterIdAlone
  BY <1>0, <1>9, AfterIdAloneFollows
<1>10. CASE AfterId
  BY <1>0, <1>10, AfterIdFollows
<1>11. CASE AfterArgument
  BY <1>0, <1>11, AfterArgumentFollows
<1>12. CASE Uncompiled
  BY <1>0, <1>12, UncompiledFollows
<1> QED BY <1>1, <1>2, <1>3, <1>4, <1>5, <1>6, <1>7, <1>8, <1>9, <1>10, <1>11, <1>12 DEF CompileExpr

LEMMA StmtFollows ==
  ASSUME Follows, Compiles', CompileStmt, ~ hadError'
  PROVE  Follows'
<1>0. PICK f, B, D, T, z : Here(f, B, D) /\ Traced(D, T, z)
  BY DEF Follows
<1>1. CASE PrintStmt
  BY <1>0, <1>1, PrintStmtFollows
<1>2. CASE AfterPrint
  BY <1>0, <1>2, AfterPrintFollows
<1>3. CASE \E x \in Names : VarGlobal(x)
  BY <1>0, <1>3, VarGlobalFollows
<1>4. CASE \E x \in Names : VarGlobalAlone(x)
  BY <1>0, <1>4, VarGlobalAloneFollows
<1>5. CASE \E x \in Names : Function(x)
  BY <1>0, <1>5, FunctionFollows
<1>6. CASE \E x \in Names, size \in Sizes : VarLocal(x, size)
  BY <1>0, <1>6, VarLocalFollows
<1>7. CASE \E x \in Names, size \in Sizes : VarLocalAlone(x, size)
  BY <1>0, <1>7, VarLocalAloneFollows
<1>8. CASE AfterVarGlobal
  BY <1>0, <1>8, AfterVarGlobalFollows
<1>9. CASE AfterVarLocal
  BY <1>0, <1>9, AfterVarLocalFollows
<1>10. CASE Block
  BY <1>0, <1>10, BlockFollows
<1>11. CASE CloseBlock
  BY <1>0, <1>11, CloseBlockFollows
<1>12. CASE CloseFunction
  BY <1>0, <1>12, CloseFunctionFollows
<1>13. CASE If
  BY <1>0, <1>13, IfFollows
<1>14. CASE AfterCondition
  BY <1>0, <1>14, AfterConditionFollows
<1>15. CASE AfterThen
  BY <1>0, <1>15, AfterThenFollows
<1>16. CASE AfterElse
  BY <1>0, <1>16, AfterElseFollows
<1>17. \/ PrintStmt \/ AfterPrint \/ AfterVarGlobal \/ AfterVarLocal \/ Block \/ CloseBlock
       \/ CloseFunction \/ If \/ AfterCondition \/ AfterThen \/ AfterElse
       \/ (\E x \in Names : VarGlobal(x)) \/ (\E x \in Names : VarGlobalAlone(x))
       \/ (\E x \in Names : Function(x))
       \/ (\E x \in Names, size \in Sizes : VarLocal(x, size))
       \/ (\E x \in Names, size \in Sizes : VarLocalAlone(x, size))
  BY DEF CompileStmt
<1> QED BY <1>1, <1>2, <1>3, <1>4, <1>5, <1>6, <1>7, <1>8, <1>9, <1>10, <1>11, <1>12, <1>13, <1>14,
           <1>15, <1>16, <1>17

----------------------------------------
(* The machine runs the code.                                                 *)

\* It goes from state to state of T, up to z, where the code returns.
Runs(T, z) ==
  /\ IsSeq(current.code) /\ Ran(current.code, T, z) /\ vm \in T
  /\ z.ip = Len(current.code) /\ current.code[z.ip][1] = "RETURN" /\ Agrees(z, meaning)
Ended == VMState(vm) /\ Agrees(vm, meaning)

PInv ==
  /\ IInv
  /\ phase = "compiling" /\ ~ hadError => Follows
  /\ phase = "running" /\ ~ misread => \E T, z : Runs(T, z)
  /\ phase = "halted" /\ ~ misread => Ended

LEMMA PInvInit ==
  ASSUME Init
  PROVE  PInv
<1>1. IInv /\ Compiles
  BY IInvInit DEF Init, IInv
<1>2. PICK f, B, D : Here(f, B, D)
  BY <1>1 DEF Compiles, Good, Here
<1> DEFINE z == Begun
           T == {Begun}
           c == NewCompiler(0)
<1>3. IsSeq(<<>>) /\ Len(<<>>) = 0
  BY SeqIs, EmptySeq, SeqFacts
<1>4. /\ calls = <<>> /\ compilers = <<c>> /\ meaning = [scopes |-> <<>>, globals |-> Empty, out |-> <<>>]
      /\ wanted.is = "statement" /\ phase = "compiling"
  BY DEF Init
<1>5. c.code = <<>>
  BY DEF NewCompiler
<1> HIDE DEF c
<1>6. Main = c
  BY <1>4 DEF Main
<1>7. z.ip = 1 /\ z.out = <<>> /\ z.globals = Empty /\ VMState(z)
  BY <1>3 DEF Begun, VMState
<1>8. Ran(<<>>, T, z)
  BY <1>3, <1>7 DEF Ran
<1> HIDE DEF z
<1>9. Len(calls) = 0 /\ \A i \in 1 .. Len(calls) : FALSE
  BY <1>3, <1>4
<1>10. Trail(calls, Main.code, T, z)
  BY <1>3, <1>5, <1>6, <1>8, <1>9 DEF Trail, Jumps, Rising
<1>11. Agrees(z, meaning)
  BY <1>3, <1>4, <1>7 DEF Agrees, Meaningful, Empty
<1>12. Shaped(calls) /\ Live(calls)
  BY <1>9 DEF Shaped, Live
<1>13. LiveAt(Main, calls, wanted, meaning.scopes, z)
  <2>1. Len(meaning.scopes) = 0
    BY <1>3, <1>4
  <2>2. Stored(Main.locals, meaning.scopes, z.regs, Len(meaning.scopes))
    BY <2>1 DEF Stored
  <2>3. Evaluated(calls, wanted, Main.code, z.regs) /\ Banked(calls, wanted, Main.locals)
    BY <1>4, <1>9 DEF Evaluated, Banked
  <2>4. z.ip = Len(Main.code) + 1
    BY <1>3, <1>5, <1>6, <1>7
  <2> QED BY <1>12, <2>2, <2>3, <2>4 DEF LiveAt
<1>14. Traced(D, T, z)
  BY <1>10, <1>11, <1>12, <1>13 DEF Traced, Stands
<1>15. Follows
  BY <1>2, <1>14 DEF Follows
<1> QED BY <1>1, <1>4, <1>15 DEF PInv

LEMMA RunStep ==
  ASSUME PInv, Run
  PROVE  \E T, z : Runs(T, z)'
<1> DEFINE inst == <<"RETURN", 0>>
           c2 == Emitted(current, inst)
<1>1. /\ calls = <<>> /\ Become(c2) /\ vm' = Begun /\ meaning' = meaning
      /\ phase = "compiling" /\ ~ hadError
  BY DEF Run, Begun, Bank
<1>2. PICK f, B, D, T, z : Here(f, B, D) /\ Traced(D, T, z)
  BY <1>1 DEF PInv, Follows
<1>3. Live(calls)
  <2>1. Len(calls) = 0
    BY <1>1, EmptySeq
  <2> QED BY <2>1 DEF Live
<1>4. Main = current /\ z.ip = Len(current.code) + 1
  BY <1>2, <1>3, LiveHere
<1>5. Compiler(current) /\ IsSeq(current.code)
  BY <1>2, HereIs DEF Compiler
<1>6. Compiler(c2) /\ c2.code = Append(current.code, inst)
  BY <1>5, EmittedIs
<1>7. inst[1] = "RETURN"
  OBVIOUS
<1> HIDE DEF c2, inst
<1>8. current' = c2
  <2>1. Becomes(compilers, f, c2, compilers')
    BY <1>1, <1>2, <1>6, BecomeIs
  <2> QED BY <2>1 DEF Becomes, current
<1>9. /\ IsSeq(c2.code) /\ Len(c2.code) = Len(current.code) + 1 /\ c2.code[Len(current.code) + 1] = inst
      /\ \A i \in 1 .. Len(current.code) : c2.code[i] = current.code[i]
      /\ Len(current.code) \in Nat
  BY <1>5, <1>6, AppendIs, SeqFacts
<1>10. Ran(current.code, T, z) /\ Agrees(z, meaning)
  BY <1>2, <1>4 DEF Traced, Trail
<1>11. Ran(c2.code, T, z)
  <2>1. Len(current.code) <= Len(c2.code)
    BY <1>9
  <2> QED BY <1>5, <1>9, <1>10, <2>1, RanStays
<1>12. Runs(T, z)'
  <2>1. Begun \in T
    BY <1>10 DEF Ran
  <2>2. z.ip = Len(c2.code) /\ c2.code[z.ip][1] = "RETURN"
    BY <1>4, <1>7, <1>9
  <2> QED BY <1>1, <1>8, <1>9, <1>10, <1>11, <2>1, <2>2 DEF Runs
<1> QED BY <1>12

\* The machine's state, field by field.
LEMMA LoadsSet ==
  ASSUME NEW s, s = [ip |-> s.ip, regs |-> s.regs, globals |-> s.globals, out |-> s.out], NEW reg, NEW val
  PROVE  [s EXCEPT !.ip = @ + 1, !.regs[reg] = val] = Loads(s, reg, val)
<1> DEFINE t == [s EXCEPT !.ip = @ + 1, !.regs[reg] = val]
<1>1. t = [i \in {"ip", "regs", "globals", "out"} |->
              IF i = "regs" THEN [s.regs EXCEPT ![reg] = val] ELSE IF i = "ip" THEN s.ip + 1 ELSE s[i]]
  OBVIOUS
<1> HIDE DEF t
<1>2. t = Loads(s, reg, val)
  BY <1>1 DEF Loads
<1> QED BY <1>2 DEF t

LEMMA ShowsSet ==
  ASSUME NEW s, s = [ip |-> s.ip, regs |-> s.regs, globals |-> s.globals, out |-> s.out], NEW effect
  PROVE  [s EXCEPT !.ip = @ + 1, !.out = Append(@, effect)] = Shows(s, effect)
<1> DEFINE t == [s EXCEPT !.ip = @ + 1, !.out = Append(@, effect)]
<1>1. t = [i \in {"ip", "regs", "globals", "out"} |->
              IF i = "out" THEN Append(s.out, effect) ELSE IF i = "ip" THEN s.ip + 1 ELSE s[i]]
  OBVIOUS
<1> HIDE DEF t
<1>2. t = Shows(s, effect)
  BY <1>1 DEF Shows
<1> QED BY <1>2 DEF t

LEMMA DefinesSet ==
  ASSUME NEW s, s = [ip |-> s.ip, regs |-> s.regs, globals |-> s.globals, out |-> s.out], NEW x, NEW val
  PROVE  [s EXCEPT !.ip = @ + 1, !.globals = With(@, x, val)] = Defines(s, x, val)
<1> DEFINE t == [s EXCEPT !.ip = @ + 1, !.globals = With(@, x, val)]
<1>1. t = [i \in {"ip", "regs", "globals", "out"} |->
              IF i = "globals" THEN With(s.globals, x, val) ELSE IF i = "ip" THEN s.ip + 1 ELSE s[i]]
  OBVIOUS
<1> HIDE DEF t
<1>2. t = Defines(s, x, val)
  BY <1>1 DEF Defines
<1> QED BY <1>2 DEF t

LEMMA RepliesSet ==
  ASSUME NEW s, NEW effect, NEW reg
  PROVE  [Shows(s, effect) EXCEPT !.regs[reg] = Reply] = Replies(s, reg, effect)
<1> DEFINE u == Shows(s, effect)
           t == [u EXCEPT !.regs[reg] = Reply]
<1>1. /\ DOMAIN u = {"ip", "regs", "globals", "out"} /\ u.ip = s.ip + 1 /\ u.regs = s.regs
      /\ u.globals = s.globals /\ u.out = Append(s.out, effect)
  BY DEF Shows
<1> HIDE DEF u
<1>2. t = [i \in DOMAIN u |-> IF i = "regs" THEN [u.regs EXCEPT ![reg] = Reply] ELSE u[i]]
  OBVIOUS
<1> HIDE DEF t
<1>3. t = Replies(s, reg, effect)
  BY <1>1, <1>2 DEF Replies
<1> QED BY <1>3 DEF t, u

\* Read as it was written, every instruction does what Stepped says.
LEMMA MachineSteps ==
  ASSUME ~ misread', VMState(vm), Execute, ~ OP_RETURN
  PROVE  /\ phase = "running" /\ phase' = phase /\ vm.ip \in DOMAIN current.code /\ Fetched[1] # "RETURN"
         /\ vm' = Stepped(Fetched, vm) /\ UNCHANGED <<compilers, calls, wanted, hadError, nodes, meaning>>
<1>0. vm = [ip |-> vm.ip, regs |-> vm.regs, globals |-> vm.globals, out |-> vm.out]
  BY DEF VMState
<1>a. ASSUME NEW reg, NEW val PROVE [vm EXCEPT !.ip = @ + 1, !.regs[reg] = val] = Loads(vm, reg, val)
  BY <1>0, LoadsSet
<1>b. ASSUME NEW d PROVE [vm EXCEPT !.ip = @ + 1 + d] = GoesOn(vm, d)
  BY <1>0 DEF GoesOn
<1>c. ASSUME NEW effect PROVE Outputs(effect) = Shows(vm, effect)
  BY <1>0, ShowsSet DEF Outputs
<1>d. ASSUME NEW effect, NEW reg PROVE [Outputs(effect) EXCEPT !.regs[reg] = Reply] = Replies(vm, reg, effect)
  <2>1. [Shows(vm, effect) EXCEPT !.regs[reg] = Reply] = Replies(vm, reg, effect)
    BY RepliesSet
  <2> QED BY <1>c, <2>1
<1>e. ASSUME NEW x, NEW val
      PROVE  [vm EXCEPT !.ip = @ + 1, !.globals = With(@, x, val)] = Defines(vm, x, val)
  BY <1>0, DefinesSet
<1>f. ASSUME NEW reg, NEW val, Sets(reg, val) PROVE vm' = Loads(vm, reg, val) /\ phase' = phase
  BY <1>a, <1>f DEF Sets
<1>g. ASSUME NEW d, Skips(d) PROVE vm' = GoesOn(vm, d) /\ phase' = phase
  <2>1. GET_BC(d) = d
    BY <1>g DEF Skips, Misread
  <2> QED BY <1>b, <1>g, <2>1 DEF Skips
<1>h. ~ Strays
  BY DEF Strays
<1>1. CASE OP_LOAD
  BY <1>1, <1>f DEF OP_LOAD, Executes, Fetches, Otherwise, Stepped
<1>2. CASE OP_MOVE
  BY <1>2, <1>f DEF OP_MOVE, Executes, Fetches, Otherwise, Stepped, R
<1>3. CASE OP_SUB
  BY <1>3, <1>f DEF OP_SUB, Executes, Fetches, Otherwise, Stepped, R
<1>4. CASE OP_READ
  BY <1>4, <1>f DEF OP_READ, Executes, Fetches, Otherwise, Stepped, R
<1>5. CASE OP_CLOSURE
  BY <1>5, <1>f DEF OP_CLOSURE, Executes, Fetches, Otherwise, Stepped
<1>6. CASE OP_GET_GLOBAL
  BY <1>6, <1>f DEF OP_GET_GLOBAL, Executes, Fetches, Otherwise, Stepped
<1>7. CASE OP_SYSCALL
  BY <1>7, <1>d DEF OP_SYSCALL, Executes, Fetches, Otherwise, Stepped, R, Arguments
<1>8. CASE OP_PRINT
  BY <1>8, <1>c DEF OP_PRINT, Executes, Fetches, Otherwise, Stepped, R
<1>9. CASE OP_DEFINE_GLOBAL
  BY <1>9, <1>e DEF OP_DEFINE_GLOBAL, Executes, Fetches, Otherwise, Stepped, R
<1>10. CASE OP_JUMP
  BY <1>10, <1>g DEF OP_JUMP, Executes, Fetches, Otherwise, Stepped
<1>11. CASE OP_JUMP_IF_FALSE
  BY <1>11, <1>g DEF OP_JUMP_IF_FALSE, Executes, Fetches, Otherwise, Stepped, R
<1>12. CASE OP_LOAD_CONST
  BY <1>12, <1>f DEF OP_LOAD_CONST, Executes, Fetches, Otherwise, Stepped
<1> QED BY <1>h, <1>1, <1>2, <1>3, <1>4, <1>5, <1>6, <1>7, <1>8, <1>9, <1>10, <1>11, <1>12 DEF Execute

LEMMA MachineStep ==
  ASSUME ~ misread', NEW T, NEW z, Runs(T, z), Execute
  PROVE  (phase' = "running" /\ Runs(T, z)') \/ (phase' = "halted" /\ Ended')
<1>1. VMState(vm) /\ Ran(current.code, T, z) /\ vm \in T
  BY DEF Runs, Ran
<1>2. CASE OP_RETURN
  <2>1. phase' = "halted" /\ vm' = vm /\ meaning' = meaning /\ current.code[vm.ip][1] = "RETURN"
    BY <1>2 DEF OP_RETURN, Executes, Fetches, Otherwise, Fetched
  <2>2. vm = z
    BY <1>1, <2>1 DEF Ran
  <2> QED BY <1>1, <2>1, <2>2 DEF Runs, Ended
<1>3. CASE ~ OP_RETURN
  <2>1. /\ phase = "running" /\ phase' = phase /\ Fetched[1] # "RETURN"
        /\ vm' = Stepped(Fetched, vm) /\ compilers' = compilers /\ meaning' = meaning
    BY <1>1, <1>3, MachineSteps
  <2>2. vm # z
    BY <2>1 DEF Runs, Fetched
  <2>3. vm' \in T
    BY <1>1, <2>1, <2>2 DEF Ran, Fetched
  <2>4. current' = current
    BY <2>1 DEF current
  <2> QED BY <2>1, <2>3, <2>4 DEF Runs
<1> QED BY <1>2, <1>3

LEMMA PInvStep ==
  ASSUME PInv, [Next]_vars
  PROVE  PInv'
<1>1. IInv /\ IInv'
  BY IInvStep DEF PInv
<1>2. CASE CompileExpr \/ CompileStmt
  <2>1. phase = "compiling" /\ ~ hadError /\ Follows
    BY <1>2, PassGoesOn DEF PInv
  <2>2. phase' = phase
    <3>1. ASSUME CompileExpr PROVE Compiling
      BY <3>1 DEF CompileExpr, Literal, Variable, Binary, AfterLeft, AfterRight, Unary, AfterOperand,
             Syscall, AfterIdAlone, AfterId, AfterArgument, Uncompiled, Leaf, Expression, Node, Given
    <3>2. ASSUME CompileStmt PROVE Compiling
      BY <3>2 DEF CompileStmt, PrintStmt, AfterPrint, VarGlobal, VarGlobalAlone, Function, VarLocal,
             VarLocalAlone, AfterVarGlobal, AfterVarLocal, Block, CloseBlock, CloseFunction, If,
             AfterCondition, AfterThen, AfterElse, Statement, Node, Given
    <3> QED BY <1>2, <3>1, <3>2 DEF Compiling
  <2>3. ~ hadError' => Follows'
    <3>1. ~ hadError' => Compiles'
      BY <1>1, <2>1, <2>2 DEF IInv
    <3> QED BY <1>2, <2>1, <3>1, ExprFollows, StmtFollows
  <2> QED BY <1>1, <2>1, <2>2, <2>3 DEF PInv
<1>3. CASE Run
  <2>1. \E T, z : Runs(T, z)'
    BY <1>3, RunStep
  <2>2. phase' = "running"
    BY <1>3 DEF Run
  <2> QED BY <1>1, <2>1, <2>2 DEF PInv
<1>4. CASE Reject
  <2>1. phase' = "rejected"
    BY <1>4 DEF Reject
  <2> QED BY <1>1, <2>1 DEF PInv
<1>5. CASE Execute
  <2>1. phase = "running" /\ phase' # "compiling" /\ (~ misread' => ~ misread)
    BY <1>5, ExecuteIs
  <2>3. ASSUME ~ misread' PROVE (phase' = "running" /\ \E T, z : Runs(T, z)') \/ (phase' = "halted" /\ Ended')
    <3>1. ~ misread
      BY <2>1, <2>3
    <3>2. PICK T, z : Runs(T, z)
      BY <2>1, <3>1 DEF PInv
    <3> QED BY <1>5, <2>3, <3>2, MachineStep
  <2> QED BY <1>1, <2>1, <2>3 DEF PInv
<1>6. CASE UNCHANGED vars
  <2>1. (Follows' <=> Follows) /\ (Ended' <=> Ended) /\ \A T, z : Runs(T, z)' <=> Runs(T, z)
    BY <1>6 DEF vars, Follows, Ended, Runs, Here, Traced, current, Main
  <2>2. phase' = phase /\ hadError' = hadError /\ misread' = misread
    BY <1>6 DEF vars
  <2> QED BY <1>1, <2>1, <2>2 DEF PInv
<1> QED BY <1>2, <1>3, <1>4, <1>5, <1>6 DEF Next

\* For any program that compiles, with any nesting of blocks, branches, functions and
\* expressions, any number of registers and either order of operand bytes: when the machine
\* returns, and has read every index and every distance that it came to as it was written, it
\* has printed what the text of the program says, and called the system with what it says, in
\* its order, branches included; only what the text leaves open may be anything
\* (compiler.c:73-310, vm.c: run(), opcode.h:54-61).
THEOREM OutputAsWritten == Spec => []PrintsAsWritten
<1>1. Init => PInv
  BY PInvInit
<1>2. PInv /\ [Next]_vars => PInv'
  BY PInvStep
<1>3. PInv => PrintsAsWritten
  <2>1. ASSUME Ended PROVE DOMAIN vm.out = 1 .. Len(vm.out)
    BY <2>1, SeqFacts DEF Ended, VMState
  <2> QED BY <2>1 DEF PInv, PrintsAsWritten, Ended, Agrees
<1> QED BY <1>1, <1>2, <1>3, PTL DEF Spec
=============================================================================
