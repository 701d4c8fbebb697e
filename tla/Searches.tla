------------------------------ MODULE Searches ------------------------------
(* Loops of the C code that stop at the first index with some property, and *)
(* what such a loop finds; the arithmetic of rings and shares; folds; and sequences. *)
EXTENDS Integers, Sequences, SequenceTheorems, WellFoundedInduction, TLAPS

FirstOf(S) == CHOOSE j \in S : \A i \in S : j <= i

\* A nonempty set of naturals has the least element that FirstOf picks.
LEMMA LeastElement ==
  ASSUME NEW S \in SUBSET Nat, S # {}
  PROVE  FirstOf(S) \in S /\ \A i \in S : FirstOf(S) <= i
<1> DEFINE R == {ss \in Nat \X Nat : ss[1] < ss[2]}
<1>1. IsWellFoundedOn(R, Nat)
  BY NatLessThanWellFounded, Zenon DEF OpToRel
<1>2. \E x \in S : \A y \in S : ~ (<<y, x>> \in R)
  <2> HIDE DEF R
  <2> QED BY <1>1, WFMin
<1>3. \A x, y \in Nat : y < x => <<y, x>> \in R
  OBVIOUS
<1> HIDE DEF R
<1>4. PICK x \in S : \A y \in S : ~ (<<y, x>> \in R)
  BY <1>2
<1>5. x \in Nat /\ \A y \in S : y \in Nat
  OBVIOUS
<1>6. \A y \in S : ~ (y < x)
  BY <1>3, <1>4, <1>5
<1>7. \A y \in S : x <= y
  BY <1>5, <1>6
<1> QED BY <1>7 DEF FirstOf

\* A product by a larger factor is larger by at least one multiple.
LEMMA MultipleStep ==
  ASSUME NEW a \in Nat, NEW b \in Nat, NEW d \in Nat, a < b
  PROVE  a * d + d <= b * d
OBVIOUS

\* Quotient and rest of a number in the form q * d + r.
LEMMA QuotientRest ==
  ASSUME NEW d \in Nat \ {0}, NEW r \in 0 .. d - 1, NEW q \in Nat
  PROVE  (r + q * d) % d = r /\ (r + q * d) \div d = q
OBVIOUS

\* Every natural number has that form.
LEMMA Division ==
  ASSUME NEW n \in Nat, NEW d \in Nat \ {0}
  PROVE  \E q \in Nat, r \in 0 .. d - 1 :
           n = r + q * d /\ n % d = r /\ n \div d = q
<1> DEFINE S == {r \in Nat : \E q \in Nat : n = r + q * d}
<1>1. n = n + 0 * d
  OBVIOUS
<1>2. S \in SUBSET Nat /\ S # {}
  BY <1>1
<1>3. FirstOf(S) \in S /\ \A i \in S : FirstOf(S) <= i
  <2> HIDE DEF S
  <2> QED BY <1>2, LeastElement
<1>4. PICK r \in S : \A i \in S : r <= i
  BY <1>3
<1>5. PICK q \in Nat : n = r + q * d
  BY <1>4
<1>6. ASSUME r >= d PROVE FALSE
  <2>1. r - d \in Nat /\ q + 1 \in Nat
    BY <1>6
  <2>2. (q + 1) * d = q * d + d
    BY <1>5
  <2>3. n = (r - d) + (q + 1) * d
    BY <1>5, <2>2
  <2>4. r - d \in S
    BY <2>1, <2>3
  <2> QED BY <1>4, <2>4
<1>7. r \in 0 .. d - 1
  BY <1>4, <1>6
<1>8. n % d = r /\ n \div d = q
  BY <1>5, <1>7, QuotientRest
<1> QED BY <1>5, <1>7, <1>8

\* One turn around a ring of d slots.
LEMMA RingStep ==
  ASSUME NEW d \in Nat \ {0}, NEW x \in Nat, x < 2 * d
  PROVE  x % d = IF x < d THEN x ELSE x - d
<1>1. CASE x < d
  <2>1. x \in 0 .. d - 1 /\ x = x + 0 * d
    BY <1>1
  <2>2. (x + 0 * d) % d = x
    BY <2>1, QuotientRest
  <2> QED BY <1>1, <2>1, <2>2
<1>2. CASE x >= d
  <2>1. x - d \in 0 .. d - 1 /\ x = (x - d) + 1 * d
    BY <1>2
  <2>2. ((x - d) + 1 * d) % d = x - d
    BY <2>1, QuotientRest
  <2> QED BY <1>2, <2>1, <2>2
<1> QED BY <1>1, <1>2

\* The greatest number of a nonempty set below a bound.
LEMMA Greatest ==
  ASSUME NEW n \in Nat, NEW S \in SUBSET (1 .. n), S # {}
  PROVE  \E i \in S : \A j \in S : j <= i
<1> DEFINE T == {n - j : j \in S}
<1>0. \A j \in S : n - j \in Nat
  OBVIOUS
<1>1. T \in SUBSET Nat /\ T # {}
  BY <1>0
<1> HIDE DEF T
<1>2. FirstOf(T) \in T /\ \A k \in T : FirstOf(T) <= k
  BY <1>1, LeastElement
<1>3. PICK i \in S : FirstOf(T) = n - i
  BY <1>2 DEF T
<1>4. \A j \in S : n - j \in T
  BY DEF T
<1>5. \A j \in S : n - i <= n - j
  BY <1>2, <1>3, <1>4
<1> QED BY <1>5

-----------------------------------------------------------------------------
(* Folds. The library defines them by functions that are chosen for an        *)
(* equation on sets of indices; that such a function exists, whatever the     *)
(* function F that is folded, needs an induction over a set of numbers.       *)

\* Counting from the first number of a set to every other.
LEMMA CountUp ==
  ASSUME NEW n \in Nat, NEW S, 0 \in S, \A i \in 0 .. n - 1 : i \in S => i + 1 \in S
  PROVE  \A i \in 0 .. n : i \in S
<1> DEFINE T == {i \in 0 .. n : i \notin S}
<1> SUFFICES ASSUME T # {} PROVE FALSE
  OBVIOUS
<1>1. T \in SUBSET Nat
  OBVIOUS
<1> HIDE DEF T
<1>2. FirstOf(T) \in T /\ \A i \in T : FirstOf(T) <= i
  BY <1>1, LeastElement
<1>3. PICK k \in T : \A i \in T : k <= i
  BY <1>2
<1>4. k \in 0 .. n /\ k \notin S
  BY <1>3 DEF T
<1>5. k - 1 \in 0 .. n - 1 /\ k - 1 + 1 = k
  BY <1>4
<1>6. k - 1 \notin T
  BY <1>3, <1>4, <1>5
<1>7. k - 1 \in S
  BY <1>5, <1>6 DEF T
<1> QED BY <1>4, <1>5, <1>7

\* The last number of a set.
LastOf(S) == CHOOSE x \in S : \A y \in S : x >= y

LEMMA UpTo ==
  ASSUME NEW n \in Nat, NEW i \in 1 .. n
  PROVE  1 .. i \in SUBSET (1 .. n) /\ 1 .. i # {} /\ i \in Nat \ {0}
<1>1. i \in Nat \ {0} /\ i <= n
  OBVIOUS
<1>2. i \in 1 .. i /\ \A j \in 1 .. i : j \in 1 .. n
  BY <1>1
<1> QED BY <1>1, <1>2

LEMMA LastUpTo ==
  ASSUME NEW k \in Nat \ {0}
  PROVE  LastOf(1 .. k) = k /\ (1 .. k) \ {k} = 1 .. k - 1
<1>1. k \in 1 .. k /\ \A y \in 1 .. k : k >= y
  OBVIOUS
<1>2. \A x \in 1 .. k : (\A y \in 1 .. k : x >= y) => x = k
  BY <1>1
<1> QED BY <1>1, <1>2 DEF LastOf

LEMMA LastIs ==
  ASSUME NEW n \in Nat, NEW S \in SUBSET (1 .. n), S # {}
  PROVE  LastOf(S) \in S
<1>1. \E i \in S : \A j \in S : j <= i
  BY Greatest
<1>2. \E i \in S : \A j \in S : i >= j
  BY <1>1
<1> QED BY <1>2 DEF LastOf

\* The equation that a fold of F from base over n numbers is chosen for.
Folds(g, n, base, F) ==
  \A S \in SUBSET (1 .. n) :
    g[S] = IF S = {} THEN base ELSE F[<<g[S \ {LastOf(S)}], LastOf(S)>>]

LEMMA FoldExists ==
  ASSUME NEW n \in Nat, NEW A, NEW base \in A, NEW F \in [A \X (1 .. n) -> A]
  PROVE  \E g \in [SUBSET (1 .. n) -> A] : Folds(g, n, base, F)
<1> DEFINE Good == {k \in 0 .. n : \E g \in [SUBSET (1 .. k) -> A] : Folds(g, k, base, F)}
<1>1. 0 \in Good
  <2> DEFINE g == [S \in SUBSET (1 .. 0) |-> base]
  <2>1. g \in [SUBSET (1 .. 0) -> A]
    OBVIOUS
  <2>2. 1 .. 0 = {}
    OBVIOUS
  <2>3. Folds(g, 0, base, F)
    BY <2>2 DEF Folds
  <2> QED BY <2>1, <2>3
<1>2. ASSUME NEW k \in 0 .. n - 1, k \in Good PROVE k + 1 \in Good
  <2>1. PICK g \in [SUBSET (1 .. k) -> A] : Folds(g, k, base, F)
    BY <1>2
  <2> DEFINE h == [S \in SUBSET (1 .. k + 1) |->
                     IF k + 1 \in S THEN F[<<g[S \ {k + 1}], k + 1>>] ELSE g[S]]
  <2>2. /\ \A S \in SUBSET (1 .. k + 1) : S \ {k + 1} \in SUBSET (1 .. k)
        /\ \A S \in SUBSET (1 .. k + 1) : k + 1 \notin S => S \in SUBSET (1 .. k)
        /\ k + 1 \in 1 .. n
    OBVIOUS
  <2>3. h \in [SUBSET (1 .. k + 1) -> A]
    BY <2>2
  <2>4. ASSUME NEW S \in SUBSET (1 .. k + 1)
        PROVE  h[S] = IF S = {} THEN base ELSE F[<<h[S \ {LastOf(S)}], LastOf(S)>>]
    <3>1. CASE k + 1 \in S
      <4>1. k + 1 \in S /\ \A y \in S : k + 1 >= y
        BY <3>1
      <4>2. \A x \in S : (\A y \in S : x >= y) => x = k + 1
        BY <4>1
      <4>3. LastOf(S) = k + 1
        BY <4>1, <4>2 DEF LastOf
      <4>4. S \ {k + 1} \in SUBSET (1 .. k + 1) /\ k + 1 \notin S \ {k + 1}
        OBVIOUS
      <4>5. h[S \ {k + 1}] = g[S \ {k + 1}]
        BY <4>4
      <4> QED BY <3>1, <4>3, <4>5
    <3>2. CASE k + 1 \notin S
      <4>1. S \in SUBSET (1 .. k) /\ h[S] = g[S]
        BY <3>2, <2>2
      <4>2. S \ {LastOf(S)} \in SUBSET (1 .. k + 1) /\ k + 1 \notin S \ {LastOf(S)}
        BY <3>2
      <4>3. h[S \ {LastOf(S)}] = g[S \ {LastOf(S)}]
        BY <4>2
      <4> QED BY <4>1, <4>3, <2>1 DEF Folds
    <3> QED BY <3>1, <3>2
  <2>5. Folds(h, k + 1, base, F)
    BY <2>4 DEF Folds
  <2> HIDE DEF h
  <2>6. k + 1 \in 0 .. n
    OBVIOUS
  <2> QED BY <2>3, <2>5, <2>6
<1> HIDE DEF Good
<1>3. n \in Good
  BY <1>1, <1>2, CountUp
<1> QED BY <1>3 DEF Good

\* What a function with that equation does on the first numbers.
Steps(g, n, base, F) ==
  g[1 .. 0] = base /\ \A i \in 1 .. n : g[1 .. i] = F[<<g[1 .. i - 1], i>>]

LEMMA FoldStep ==
  ASSUME NEW n \in Nat, NEW base, NEW F, NEW g, Folds(g, n, base, F)
  PROVE  Steps(g, n, base, F)
<1>1. 1 .. 0 = {} /\ {} \in SUBSET (1 .. n)
  OBVIOUS
<1>2. ASSUME NEW i \in 1 .. n PROVE g[1 .. i] = F[<<g[1 .. i - 1], i>>]
  <2>1. 1 .. i \in SUBSET (1 .. n) /\ 1 .. i # {} /\ i \in Nat \ {0}
    OBVIOUS
  <2> QED BY <2>1, LastUpTo DEF Folds
<1> QED BY <1>1, <1>2 DEF Folds, Steps

-----------------------------------------------------------------------------
(* Sequences, whatever they are of.                                          *)

IsSeq(s) == s \in Seq({s[i] : i \in DOMAIN s})

LEMMA SeqIs ==
  ASSUME NEW A, NEW s \in Seq(A)
  PROVE  IsSeq(s) /\ DOMAIN s = 1 .. Len(s) /\ Len(s) \in Nat
<1>1. s \in [1 .. Len(s) -> A] /\ Len(s) \in Nat /\ DOMAIN s = 1 .. Len(s)
  BY LenProperties
<1>2. s \in [1 .. Len(s) -> {s[i] : i \in DOMAIN s}]
  BY <1>1
<1> QED BY <1>1, <1>2, SeqDef DEF IsSeq

LEMMA SeqFacts ==
  ASSUME NEW s, IsSeq(s)
  PROVE  DOMAIN s = 1 .. Len(s) /\ Len(s) \in Nat
BY SeqIs DEF IsSeq

\* One element, and sequences element by element.
LEMMA SingleIs ==
  ASSUME NEW v
  PROVE  IsSeq(<<v>>) /\ Len(<<v>>) = 1
<1>1. <<v>> \in Seq({v}) /\ Len(<<v>>) = 1
  OBVIOUS
<1> DEFINE s == <<v>>
<1>2. s \in Seq({v})
  BY <1>1
<1> HIDE DEF s
<1>3. IsSeq(s)
  BY <1>2, SeqIs
<1> QED BY <1>1, <1>3 DEF s

LEMMA SequencesEqual ==
  ASSUME NEW s, NEW t, IsSeq(s), IsSeq(t), NEW n, Len(s) = n, Len(t) = n,
         \A i \in 1 .. n : s[i] = t[i]
  PROVE  s = t
<1>1. s = [i \in 1 .. n |-> s[i]]
  BY LenProperties DEF IsSeq
<1>2. t = [i \in 1 .. n |-> t[i]]
  BY LenProperties DEF IsSeq
<1>3. [i \in 1 .. n |-> s[i]] = [i \in 1 .. n |-> t[i]]
  OBVIOUS
<1> QED BY <1>1, <1>2, <1>3

LEMMA AppendIs ==
  ASSUME NEW s, IsSeq(s), NEW e
  PROVE  /\ IsSeq(Append(s, e)) /\ Len(Append(s, e)) = Len(s) + 1
         /\ DOMAIN Append(s, e) = 1 .. Len(s) + 1
         /\ \A i \in 1 .. Len(s) : Append(s, e)[i] = s[i]
         /\ Append(s, e)[Len(s) + 1] = e
<1> DEFINE A == {s[i] : i \in DOMAIN s} \cup {e}
<1>1. s \in [1 .. Len(s) -> A] /\ Len(s) \in Nat
  BY LenProperties DEF IsSeq
<1>2. s \in Seq(A) /\ e \in A
  BY <1>1, SeqDef
<1> HIDE DEF A
<1>3. Append(s, e) \in Seq(A) /\ Len(Append(s, e)) = Len(s) + 1
  BY <1>2, AppendProperties
<1>4. \A i \in 1 .. Len(s) : Append(s, e)[i] = s[i]
  BY <1>2, AppendProperties
<1>5. Append(s, e)[Len(s) + 1] = e
  BY <1>2, AppendProperties
<1>6. IsSeq(Append(s, e)) /\ DOMAIN Append(s, e) = 1 .. Len(Append(s, e))
  BY <1>3, SeqIs
<1> QED BY <1>3, <1>4, <1>5, <1>6

LEMMA SubSeqIs ==
  ASSUME NEW s, IsSeq(s), NEW m \in 1 .. Len(s) + 1, NEW n \in m - 1 .. Len(s)
  PROVE  /\ IsSeq(SubSeq(s, m, n)) /\ Len(SubSeq(s, m, n)) = n - m + 1
         /\ DOMAIN SubSeq(s, m, n) = 1 .. n - m + 1
         /\ \A i \in 1 .. n - m + 1 : SubSeq(s, m, n)[i] = s[m + i - 1]
<1> DEFINE A == {s[i] : i \in DOMAIN s}
<1>1. s \in Seq(A) /\ Len(s) \in Nat
  BY SeqFacts DEF IsSeq
<1> HIDE DEF A
<1>2. SubSeq(s, m, n) \in Seq(A) /\ Len(SubSeq(s, m, n)) = (IF m <= n THEN n - m + 1 ELSE 0)
      /\ \A i \in 1 .. n - m + 1 : SubSeq(s, m, n)[i] = s[m + i - 1]
  BY <1>1, SubSeqProperties
<1>3. (IF m <= n THEN n - m + 1 ELSE 0) = n - m + 1
  BY <1>1
<1> QED BY <1>2, <1>3, SeqIs

LEMMA ConcatIs ==
  ASSUME NEW s, IsSeq(s), NEW t, IsSeq(t)
  PROVE  /\ IsSeq(s \o t) /\ Len(s \o t) = Len(s) + Len(t)
         /\ DOMAIN (s \o t) = 1 .. Len(s) + Len(t)
         /\ \A i \in 1 .. Len(s) + Len(t) :
              (s \o t)[i] = IF i <= Len(s) THEN s[i] ELSE t[i - Len(s)]
<1> DEFINE A == {s[i] : i \in DOMAIN s} \cup {t[i] : i \in DOMAIN t}
<1>1. s \in [1 .. Len(s) -> A] /\ t \in [1 .. Len(t) -> A] /\ Len(s) \in Nat /\ Len(t) \in Nat
  BY LenProperties DEF IsSeq
<1>2. s \in Seq(A) /\ t \in Seq(A)
  BY <1>1, SeqDef, SMTT(30)
<1> HIDE DEF A
<1>3. s \o t \in Seq(A) /\ Len(s \o t) = Len(s) + Len(t)
      /\ \A i \in 1 .. Len(s) + Len(t) :
           (s \o t)[i] = IF i <= Len(s) THEN s[i] ELSE t[i - Len(s)]
  BY <1>2, ConcatProperties
<1> QED BY <1>3, SeqIs

\* A function on the first numbers is a sequence.
LEMMA FunctionIs ==
  ASSUME NEW n \in Nat, NEW s, s = [i \in 1 .. n |-> s[i]]
  PROVE  IsSeq(s) /\ Len(s) = n /\ DOMAIN s = 1 .. n
<1>1. s \in [1 .. n -> {s[i] : i \in DOMAIN s}]
  OBVIOUS
<1>2. s \in Seq({s[i] : i \in DOMAIN s})
  BY <1>1, SeqDef
<1> QED BY <1>2, SeqFacts DEF IsSeq
=============================================================================
